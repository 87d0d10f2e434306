----------------------- MODULE EnumerationGraphProofs -----------------------
(***************************************************************************)
(* What is read off a failure graph without listing its chains is what the *)
(* listing says: how many chains there are and how many are live, the      *)
(* classes of chains with the least of each, how many live chains pass     *)
(* through a component, and the shortest ones.  This holds of any graph    *)
(* whose ways end; the modules that use it show that theirs do.            *)
(***************************************************************************)
EXTENDS EnumerationGraph, SequenceTheorems, FiniteSetTheorems, WellFoundedInduction, TLAPS

-----------------------------------------------------------------------------
(* Numbers, sets and sequences.                                            *)

\* Min is well defined.
LEMMA LeastOf ==
    ASSUME NEW S \in SUBSET Nat, S # {}
    PROVE  Min(S) \in S /\ \A j \in S : Min(S) <= j
<1>1. PICK m \in S : \A y \in S : ~(<<y, m>> \in OpToRel(<, Nat))
  BY NatLessThanWellFounded, WFMin
<1>2. \A y \in S : ~(y < m)
  BY <1>1 DEF OpToRel
<1>3. \A y \in S : m <= y
  BY <1>2
<1>. QED  BY <1>3, Zenon DEF Min

\* Induction from 0 to N, over a set.
LEMMA InductionTo ==
    ASSUME NEW N \in Nat, NEW T, 0 \in T, \A n \in 1..N : n - 1 \in T => n \in T
    PROVE  \A n \in 0..N : n \in T
<1>. SUFFICES ASSUME NEW n \in 0..N, n \notin T PROVE FALSE
  OBVIOUS
<1> DEFINE S == {k \in 0..N : k \notin T}
<1>1. S \in SUBSET Nat /\ S # {}
  OBVIOUS
<1>2. PICK m \in S : \A j \in S : m <= j
  <2> HIDE DEF S
  <2>. QED  BY <1>1, LeastOf
<1>3. m \in 1..N /\ m - 1 \notin T
  BY <1>2
<1>4. m - 1 \in S
  BY <1>3
<1>. QED  BY <1>2, <1>3, <1>4

\* The image of a finite set.
LEMMA ImageIsFinite ==
    ASSUME NEW S, IsFiniteSet(S), NEW f PROVE IsFiniteSet({f[x] : x \in S})
<1> DEFINE T == {f[x] : x \in S}
           h == [x \in S |-> f[x]]
<1>1. h \in Surjection(S, T)
  BY DEF Surjection
<1> HIDE DEF h, T
<1>2. IsFiniteSet(T)
  BY <1>1, FS_Surjection
<1>. QED  BY <1>2 DEF T

\* The values of a sequence are no more than its length.
LEMMA RangeIsFinite ==
    ASSUME NEW X, NEW s \in Seq(X)
    PROVE  IsFiniteSet(Range(s)) /\ Cardinality(Range(s)) <= Len(s)
<1>1. s \in [1..Len(s) -> Range(s)] /\ Len(s) \in Nat /\ DOMAIN s = 1..Len(s)
  BY DEF Range
<1>2. s \in Surjection(1..Len(s), Range(s))
  BY <1>1 DEF Surjection, Range
<1>3. IsFiniteSet(1..Len(s)) /\ Cardinality(1..Len(s)) = Len(s)
  <2>1. IsFiniteSet(1..Len(s)) /\ Cardinality(1..Len(s)) = IF 1 > Len(s) THEN 0 ELSE Len(s) - 1 + 1
    BY <1>1, FS_Interval
  <2>. QED  BY <1>1, <2>1
<1>. QED  BY <1>2, <1>3, FS_Surjection

\* A sequence without its last element.
LEMMA FrontOf ==
    ASSUME NEW X, NEW s \in Seq(X), s # <<>>
    PROVE  /\ Front(s) \in Seq(X) /\ Len(Front(s)) = Len(s) - 1 /\ Last(s) \in X
           /\ \A i \in 1..(Len(s) - 1) : Front(s)[i] = s[i]
           /\ Range(s) = Range(Front(s)) \cup {Last(s)}
           /\ (\A i, j \in DOMAIN s : s[i] = s[j] => i = j) => Last(s) \notin Range(Front(s))
<1>0. Len(s) \in Nat /\ Len(s) > 0 /\ DOMAIN s = 1..Len(s)
  OBVIOUS
<1>1. /\ Front(s) \in Seq(X) /\ Len(Front(s)) = Len(s) - 1 /\ Last(s) \in X
      /\ \A i \in 1..(Len(s) - 1) : Front(s)[i] = s[i]
  BY <1>0, SubSeqProperties DEF Front, Last
<1>2. DOMAIN Front(s) = 1..(Len(s) - 1)
  BY <1>0, <1>1
<1>3. 1..Len(s) = (1..(Len(s) - 1)) \cup {Len(s)}
  BY <1>0
<1>4. Range(s) = Range(Front(s)) \cup {Last(s)}
  BY <1>0, <1>1, <1>2, <1>3 DEF Range, Last
<1>5. ASSUME \A i, j \in DOMAIN s : s[i] = s[j] => i = j PROVE Last(s) \notin Range(Front(s))
  BY <1>0, <1>1, <1>2, <1>5 DEF Range, Last
<1>. QED  BY <1>1, <1>4, <1>5

\* A sequence from i on.
LEMMA RestOf ==
    ASSUME NEW X, NEW s \in Seq(X), NEW i \in 1..Len(s)
    PROVE  LET r == SubSeq(s, i, Len(s)) IN
           r \in Seq(X) /\ Len(r) = Len(s) - i + 1 /\ \A k \in 1..(Len(s) - i + 1) : r[k] = s[i + k - 1]
<1>1. Len(s) \in Int /\ i \in Int /\ i <= Len(s)
  OBVIOUS
<1>2. \A k \in i..Len(s) : s[k] \in X
  OBVIOUS
<1> DEFINE n == Len(s)
<1>3. n \in Int /\ i <= n /\ \A k \in i..n : s[k] \in X
  BY <1>1, <1>2
<1> HIDE DEF n
<1>4. /\ SubSeq(s, i, n) \in Seq(X) /\ Len(SubSeq(s, i, n)) = IF i <= n THEN n - i + 1 ELSE 0
      /\ \A k \in 1..(n - i + 1) : SubSeq(s, i, n)[k] = s[i + k - 1]
  BY <1>1, <1>3, SubSeqProperties
<1>. QED  BY <1>3, <1>4 DEF n

\* A sequence and one more.
LEMMA AppendOf ==
    ASSUME NEW X, NEW s \in Seq(X), NEW k \in X
    PROVE  /\ Append(s, k) \in Seq(X) /\ Len(Append(s, k)) = Len(s) + 1 /\ Range(Append(s, k)) = Range(s) \cup {k}
           /\ \A i \in 1..Len(s) : Append(s, k)[i] = s[i]
           /\ Append(s, k)[Len(s) + 1] = k /\ Last(Append(s, k)) = k
<1>1. /\ Append(s, k) \in Seq(X) /\ Len(Append(s, k)) = Len(s) + 1 /\ Len(s) \in Nat
      /\ DOMAIN s = 1..Len(s) /\ DOMAIN Append(s, k) = 1..(Len(s) + 1)
      /\ \A i \in 1..Len(s) : Append(s, k)[i] = s[i]
      /\ Append(s, k)[Len(s) + 1] = k
  OBVIOUS
<1>2. 1..(Len(s) + 1) = (1..Len(s)) \cup {Len(s) + 1}
  BY <1>1
<1>3. Range(Append(s, k)) = Range(s) \cup {k}
  BY <1>1, <1>2 DEF Range
<1>. QED  BY <1>1, <1>3 DEF Last

\* A sequence with one more in front.
LEMMA ConsOf ==
    ASSUME NEW X, NEW k \in X, NEW p \in Seq(X)
    PROVE  LET r == <<k>> \o p IN
           r \in Seq(X) /\ Len(r) = Len(p) + 1 /\ r[1] = k /\ \A i \in 1..Len(p) : r[i + 1] = p[i]
  OBVIOUS

\* A list without a repetition is no longer than what it lists has elements.
LEMMA OnceEach ==
    ASSUME NEW X, IsFiniteSet(X), NEW s \in Seq(X), \A i, j \in DOMAIN s : s[i] = s[j] => i = j
    PROVE  Len(s) <= Cardinality(X) /\ Cardinality(X) \in Nat
<1> DEFINE n == Len(s)
<1>1. n \in Nat /\ DOMAIN s = 1..n /\ s \in [1..n -> X]
  OBVIOUS
<1> HIDE DEF n
<1>2. IsFiniteSet(1..n) /\ Cardinality(1..n) = n
  <2>1. IsFiniteSet(1..n) /\ Cardinality(1..n) = IF 1 > n THEN 0 ELSE n - 1 + 1
    BY <1>1, FS_Interval
  <2>. QED  BY <1>1, <2>1
<1>3. s \in Injection(1..n, X)
  BY <1>1 DEF Injection, IsInjective
<1>4. Cardinality(1..n) <= Cardinality(X)
  BY <1>2, <1>3, FS_Injection
<1>. QED  BY <1>2, <1>4, FS_CardinalityType DEF n

-----------------------------------------------------------------------------
(* Ways of a failure.                                                      *)

\* A way of the failure: from where it begins, a step at a time.
IsWay(next, from, p) ==
    /\ Len(p) >= 1 /\ p[1] \in from
    /\ \A i \in 1..(Len(p) - 1) : p[i + 1] \in next[p[i]]

\* What a component depends on is behind it, and so is what is behind that.
LEMMA BehindIsTransitive ==
    ASSUME NEW m, NEW x \in DOMAIN m, NEW y \in DOMAIN m
    PROVE  /\ Dependent(m, y, x) => x \in Closure(m)[y]
           /\ \A z \in DOMAIN m : x \in Closure(m)[y] /\ y \in Closure(m)[z] => x \in Closure(m)[z]
<1> DEFINE closed == {S \in SUBSET DOMAIN m : \A c \in S, d \in DOMAIN m : Dependent(m, c, d) => d \in S}
           over(c) == {S \in closed : \A d \in DOMAIN m : Dependent(m, c, d) => d \in S}
<1>1. \A c \in DOMAIN m : Closure(m)[c] = {d \in DOMAIN m : \A S \in over(c) : d \in S}
  BY DEF Closure
<1>2. \A S, c : S \in over(c) <=> S \in closed /\ \A d \in DOMAIN m : Dependent(m, c, d) => d \in S
  OBVIOUS
<1>3. \A S \in closed : y \in S => S \in over(y)
  OBVIOUS
<1> HIDE DEF closed, over
<1>4. ASSUME Dependent(m, y, x) PROVE x \in Closure(m)[y]
  BY <1>1, <1>2, <1>4
<1>5. ASSUME NEW z \in DOMAIN m, x \in Closure(m)[y], y \in Closure(m)[z] PROVE x \in Closure(m)[z]
  <2>1. ASSUME NEW S \in over(z) PROVE x \in S
    <3>1. S \in closed /\ y \in S
      BY <1>1, <1>2, <1>5
    <3>. QED  BY <1>1, <1>3, <1>5, <3>1
  <2>. QED  BY <1>1, <2>1
<1>. QED  BY <1>4, <1>5

\* On a way of the failure each component stands behind the ones after it.
LEMMA WayIsBehind ==
    ASSUME NEW m, NEW nodes, NEW next, NEW from, \A n \in nodes : n.on \in DOMAIN m,
           \A n \in nodes : \A k \in next[n] : n.on \in Closure(m)[k.on],
           NEW p \in Seq(nodes), IsWay(next, from, p), NEW i \in 1..Len(p)
    PROVE  \A j \in (i + 1)..Len(p) : p[i].on \in Closure(m)[p[j].on]
<1> DEFINE n == Len(p)
           T == {j \in 0..n : j > i => p[i].on \in Closure(m)[p[j].on]}
<1>1. n \in Nat /\ i \in 1..n /\ (\A j \in 1..n : p[j] \in nodes /\ p[j].on \in DOMAIN m)
      /\ \A j \in 1..(n - 1) : p[j + 1] \in next[p[j]]
  BY DEF IsWay
<1> HIDE DEF n
<1>2. \A j \in 1..(n - 1) : p[j].on \in Closure(m)[p[j + 1].on]
  <2>1. \A j \in 1..(n - 1) : j \in 1..n
    BY <1>1
  <2>. QED  BY <1>1, <2>1
<1>3. 0 \in T
  BY <1>1
<1>4. ASSUME NEW j \in 1..n, j - 1 \in T PROVE j \in T
  <2>1. CASE j <= i
    BY <1>1, <2>1
  <2>2. CASE j > i
    <3> DEFINE k == j - 1
    <3>1. k \in 1..(n - 1) /\ k \in 1..n /\ j = k + 1 /\ (k = i \/ k > i) /\ j \in 0..n
      BY <1>1, <2>2
    <3>2. k > i => p[i].on \in Closure(m)[p[k].on]
      BY <1>4
    <3> HIDE DEF k
    <3>3. p[k].on \in Closure(m)[p[j].on]
      BY <1>2, <3>1
    <3>4. p[i].on \in Closure(m)[p[j].on]
      <4>1. CASE k = i
        BY <3>3, <4>1
      <4>2. CASE k > i
        <5>1. p[i].on \in DOMAIN m /\ p[k].on \in DOMAIN m /\ p[j].on \in DOMAIN m
          BY <1>1, <3>1
        <5>. QED  BY <3>2, <3>3, <4>2, <5>1, BehindIsTransitive
      <4>. QED  BY <3>1, <4>1, <4>2
    <3>. QED  BY <3>1, <3>4
  <2>. QED  BY <1>1, <2>1, <2>2
<1> HIDE DEF T
<1>5. \A j \in 0..n : j \in T
  BY <1>1, <1>3, <1>4, InductionTo
<1>6. ASSUME NEW j \in (i + 1)..n PROVE p[i].on \in Closure(m)[p[j].on]
  <2>1. j \in 0..n /\ j > i
    BY <1>1
  <2>. QED  BY <1>5, <2>1 DEF T
<1>. QED  BY <1>6 DEF n

\* Where nothing stands behind itself a way meets each component once.
LEMMA WayIsShort ==
    ASSUME NEW m, IsFiniteSet(DOMAIN m), NEW nodes, NEW next, NEW from, \A n \in nodes : n.on \in DOMAIN m,
           \A n \in nodes : \A k \in next[n] : n.on \in Closure(m)[k.on],
           \A n \in DOMAIN m : n \notin Closure(m)[n],
           NEW p \in Seq(nodes), IsWay(next, from, p)
    PROVE  /\ Len(p) <= Cardinality(DOMAIN m) /\ (Len(p) > 1 => p[Len(p)].on # p[1].on)
           /\ \A i, j \in 1..Len(p) : p[i].on = p[j].on => i = j
<1> DEFINE n == Len(p)
           on == [i \in 1..n |-> p[i].on]
<1>1. n \in Nat /\ n >= 1 /\ \A i \in 1..n : p[i].on \in DOMAIN m
  BY DEF IsWay
<1>2. \A i \in 1..n : \A j \in (i + 1)..n : p[i].on \in Closure(m)[p[j].on]
  BY WayIsBehind
<1> HIDE DEF n
<1>3. \A i, j \in 1..n : i < j => p[i].on # p[j].on
  <2>. SUFFICES ASSUME NEW i \in 1..n, NEW j \in 1..n, i < j PROVE p[i].on # p[j].on
    OBVIOUS
  <2>1. j \in (i + 1)..n
    BY <1>1
  <2>2. p[i].on \in Closure(m)[p[j].on]
    BY <1>2, <2>1
  <2>. QED  BY <1>1, <2>2
<1>4. on \in Seq(DOMAIN m) /\ Len(on) = n /\ DOMAIN on = 1..n
  BY <1>1
<1>5. \A i, j \in DOMAIN on : on[i] = on[j] => i = j
  <2>1. \A i, j \in 1..n : i = j \/ i < j \/ j < i
    BY <1>1
  <2>. QED  BY <1>3, <2>1
<1>6. \A i, j \in 1..n : p[i].on = p[j].on => i = j
  BY <1>4, <1>5
<1> HIDE DEF on
<1>7. n <= Cardinality(DOMAIN m)
  BY <1>4, <1>5, OnceEach
<1>8. n > 1 => p[n].on # p[1].on
  BY <1>1, <1>3
<1>. QED  BY <1>6, <1>7, <1>8 DEF n

\* The walks of a listing.
WalksOf(g, from) == UNION {RootWalks(g, k) : k \in from}

\* They are the ways of two components or more.
LEMMA WalksAre ==
    ASSUME NEW g, NEW r, g.next[r] \in [g.nodes -> SUBSET g.nodes], Cardinality(g.components) \in Nat,
           NEW from \in SUBSET g.nodes, \A k \in from : k.on = r,
           \A p \in Seq(g.nodes) : IsWay(g.next[r], from, p) => Len(p) <= Cardinality(g.components)
    PROVE  \A w : w \in WalksOf(g, from) <=>
                     w \in Seq(g.nodes) /\ IsWay(g.next[r], from, w) /\ Len(w) >= 2
<1> DEFINE N == Cardinality(g.components)
           next == g.next[r]
<1>1. ASSUME NEW k \in from, NEW w \in RootWalks(g, k)
      PROVE  w \in Seq(g.nodes) /\ IsWay(next, from, w) /\ Len(w) >= 2
  <2>1. PICK n \in 2..N : w \in [1..n -> g.nodes]
    BY DEF RootWalks
  <2>2. w[1] = k /\ \A i \in 1..(Len(w) - 1) : w[i + 1] \in Onward(g, k, w[i])
    BY DEF RootWalks
  <2>3. w \in Seq(g.nodes) /\ Len(w) = n /\ n >= 2
    BY <2>1
  <2>4. \A x : Onward(g, k, x) = next[x]
    BY DEF Onward
  <2> HIDE DEF next
  <2>. QED  BY <2>2, <2>3, <2>4 DEF IsWay
<1>2. ASSUME NEW w \in Seq(g.nodes), IsWay(next, from, w), Len(w) >= 2
      PROVE  w[1] \in from /\ w \in RootWalks(g, w[1])
  <2>1. Len(w) \in 2..N /\ w \in [1..Len(w) -> g.nodes]
    <3>1. Len(w) <= N /\ Len(w) \in Nat
      BY <1>2
    <3> HIDE DEF N
    <3>. QED  BY <1>2, <3>1
  <2>2. w[1] \in from /\ \A i \in 1..(Len(w) - 1) : w[i + 1] \in next[w[i]]
    BY <1>2 DEF IsWay
  <2>3. \A x : Onward(g, w[1], x) = next[x]
    BY <2>2 DEF Onward
  <2>4. w \in UNION {[1..n -> g.nodes] : n \in 2..N}
    BY <2>1
  <2> HIDE DEF next
  <2>. QED  BY <2>2, <2>3, <2>4 DEF RootWalks
<1>3. \A w : w \in WalksOf(g, from) <=> \E k \in from : w \in RootWalks(g, k)
  BY DEF WalksOf
<1>. QED  BY <1>1, <1>2, <1>3

-----------------------------------------------------------------------------
(* Counting without listing.                                               *)

\* One step of the fold.
Total(h, f, s) == IF s = {} THEN 0 ELSE f[CHOOSE x \in s : TRUE] + h[s \ {CHOOSE x \in s : TRUE}]

\* A sum is the last of the sums over the subsets.
LEMMA SumIs ==
    ASSUME NEW f, NEW S
    PROVE  Sum(f, S) = (CHOOSE h : h = [s \in SUBSET S |-> Total(h, f, s)])[S]
  BY Zenon DEF Sum, MapThenSumSet, MapThenFoldSet, Total

\* What the sets of some indices hold together.
Together(A, s) == UNION {A[k] : k \in s}

\* One set more, which shares nothing with the others.
LEMMA TogetherOf ==
    ASSUME NEW S, IsFiniteSet(S), NEW A, \A k \in S : IsFiniteSet(A[k]),
           \A k, l \in S : k # l => A[k] \cap A[l] = {}, NEW s \in SUBSET S
    PROVE  /\ IsFiniteSet(Together(A, s)) /\ Cardinality(Together(A, s)) \in Nat
           /\ \A c \in s : Cardinality(Together(A, s)) = Cardinality(A[c]) + Cardinality(Together(A, s \ {c}))
<1> DEFINE U(t) == Together(A, t)
<1>1. ASSUME NEW t \in SUBSET S PROVE IsFiniteSet(U(t)) /\ Cardinality(U(t)) \in Nat
  <2> DEFINE F == {A[k] : k \in t}
  <2>0. IsFiniteSet(t) /\ \A k \in t : k \in S
    BY FS_Subset
  <2>1. IsFiniteSet(F)
    BY <2>0, ImageIsFinite
  <2>2. \A T \in F : IsFiniteSet(T)
    OBVIOUS
  <2> HIDE DEF F
  <2>3. IsFiniteSet(UNION F)
    BY <2>1, <2>2, FS_UNION
  <2>4. U(t) = UNION F
    BY DEF Together, F
  <2>. QED  BY <2>3, <2>4, FS_CardinalityType
<1>2. ASSUME NEW c \in s PROVE Cardinality(U(s)) = Cardinality(A[c]) + Cardinality(U(s \ {c}))
  <2>1. U(s) = A[c] \cup U(s \ {c})
    BY DEF Together
  <2>2. A[c] \cap U(s \ {c}) = {}
    BY DEF Together
  <2>3. IsFiniteSet(A[c]) /\ IsFiniteSet(U(s \ {c}))
    BY <1>1
  <2> DEFINE X == A[c]
             Y == U(s \ {c})
  <2>4. IsFiniteSet(X) /\ IsFiniteSet(Y) /\ X \cap Y = {}
    BY <2>2, <2>3
  <2> HIDE DEF X, Y
  <2>5. Cardinality(X \cup Y) = Cardinality(X) + Cardinality(Y) - Cardinality(X \cap Y)
    BY <2>4, FS_Union
  <2>6. Cardinality({}) = 0 /\ Cardinality(X) \in Nat /\ Cardinality(Y) \in Nat
    <3>1. Cardinality({}) = 0
      BY FS_EmptySet
    <3>2. Cardinality(X) \in Nat /\ Cardinality(Y) \in Nat
      BY <2>4, FS_CardinalityType
    <3>. QED  BY <3>1, <3>2
  <2>7. Cardinality(X \cup Y) = Cardinality(X) + Cardinality(Y)
    <3>1. Cardinality(X \cap Y) = 0
      BY <2>4, <2>6, Zenon
    <3>. QED  BY <2>5, <2>6, <3>1
  <2>. QED  BY <2>1, <2>7 DEF X, Y
<1>. QED  BY <1>1, <1>2

\* Sets that share nothing hold together as much as the sum of what each does.
LEMMA SumCounts ==
    ASSUME NEW S, IsFiniteSet(S), NEW A, \A k \in S : IsFiniteSet(A[k]),
           \A k, l \in S : k # l => A[k] \cap A[l] = {},
           NEW f, \A k \in S : f[k] = Cardinality(A[k])
    PROVE  Sum(f, S) = Cardinality(Together(A, S))
<1> DEFINE sol(h) == h = [s \in SUBSET S |-> Total(h, f, s)]
           h0 == [s \in SUBSET S |-> Cardinality(Together(A, s))]
           first(s) == CHOOSE x \in s : TRUE
<1>1. \A s \in SUBSET S : /\ Cardinality(Together(A, s)) \in Nat
                          /\ \A c \in s : Cardinality(Together(A, s)) = f[c] + Cardinality(Together(A, s \ {c}))
  BY TogetherOf
<1>2. Cardinality(Together(A, {})) = 0
  BY FS_EmptySet DEF Together
<1>3. \A s : s # {} => first(s) \in s
  OBVIOUS
<1>4. \A s \in SUBSET S : s # {} => Total(h0, f, s) = f[first(s)] + Cardinality(Together(A, s \ {first(s)}))
  <2>. SUFFICES ASSUME NEW s \in SUBSET S, s # {}
                PROVE  Total(h0, f, s) = f[first(s)] + Cardinality(Together(A, s \ {first(s)}))
    OBVIOUS
  <2>1. Total(h0, f, s) = f[first(s)] + h0[s \ {first(s)}]
    BY DEF Total
  <2>. QED  BY <2>1
<1>5. \A s \in SUBSET S : Total(h0, f, s) = Cardinality(Together(A, s))
  <2>. SUFFICES ASSUME NEW s \in SUBSET S PROVE Total(h0, f, s) = Cardinality(Together(A, s))
    OBVIOUS
  <2>1. CASE s = {}
    BY <1>2, <2>1 DEF Total
  <2>2. CASE s # {}
    <3> HIDE DEF h0, first
    <3>. QED  BY <1>1, <1>3, <1>4, <2>2
  <2>. QED  BY <2>1, <2>2
<1>6. sol(h0)
  BY <1>5
<1>7. ASSUME NEW h, sol(h) PROVE h[S] = Cardinality(Together(A, S))
  <2> DEFINE bad == {s \in SUBSET S : h[s] # Cardinality(Together(A, s))}
             sizes == {Cardinality(s) : s \in bad}
  <2>. SUFFICES ASSUME bad # {} PROVE FALSE
    OBVIOUS
  <2>1. \A s \in SUBSET S : IsFiniteSet(s) /\ Cardinality(s) \in Nat
    BY FS_Subset, FS_CardinalityType
  <2>2. sizes \in SUBSET Nat /\ sizes # {}
    BY <2>1
  <2>3. PICK s \in bad : \A t \in bad : Cardinality(s) <= Cardinality(t)
    <3> HIDE DEF bad
    <3>1. Min(sizes) \in sizes /\ \A j \in sizes : Min(sizes) <= j
      <4> HIDE DEF sizes
      <4>. QED  BY <2>2, LeastOf
    <3>. QED  BY <3>1
  <2>4. \A t \in SUBSET S : h[t] = Total(h, f, t)
    BY <1>7
  <2>5. CASE s = {}
    BY <1>2, <2>4, <2>5 DEF Total
  <2>6. CASE s # {}
    <3> DEFINE c == first(s)
               t == s \ {c}
    <3>1. c \in s
      BY <1>3, <2>6
    <3>2. h[s] = f[c] + h[t]
      BY <2>4, <2>6 DEF Total
    <3>3. Cardinality(t) = Cardinality(s) - 1 /\ Cardinality(s) \in Nat
      <4> HIDE DEF c
      <4>. QED  BY <2>1, <3>1, FS_RemoveElement
    <3>4. t \notin bad
      <4>1. ~(Cardinality(s) <= Cardinality(t))
        BY <3>3
      <4>. QED  BY <2>3, <4>1
    <3>5. h[t] = Cardinality(Together(A, t))
      BY <3>4
    <3> HIDE DEF c
    <3>6. h[s] = Cardinality(Together(A, s))
      BY <1>1, <3>1, <3>2, <3>5
    <3>. QED  BY <3>6
  <2>. QED  BY <2>5, <2>6
<1> HIDE DEF h0
<1>8. sol(CHOOSE h : sol(h))
  <2> HIDE DEF sol
  <2>. QED  BY <1>6
<1>9. Sum(f, S) = (CHOOSE h : sol(h))[S]
  BY SumIs
<1>. QED
  <2> HIDE DEF sol
  <2>. QED  BY <1>7, <1>8, <1>9

\* The ways from n that end where there is a fact to observe.
Ends(nodes, next, seen, n) == {p \in Seq(nodes) : IsWay(next, {n}, p) /\ p[Len(p)].on \in seen}

\* Those that go on from n.
Longer(nodes, next, seen, n) == {p \in Ends(nodes, next, seen, n) : Len(p) >= 2}

\* Sequences with n in front.
Ahead(n, P) == {<<n>> \o p : p \in P}

\* A sequence and the same with one in front are each other's.
LEMMA AheadOf ==
    ASSUME NEW X, NEW n \in X, NEW P \in SUBSET Seq(X), IsFiniteSet(P)
    PROVE  IsFiniteSet(Ahead(n, P)) /\ Cardinality(Ahead(n, P)) = Cardinality(P)
<1> DEFINE Q == Ahead(n, P)
           f == [p \in P |-> <<n>> \o p]
<1>1. ASSUME NEW p \in P, NEW q \in P, <<n>> \o p = <<n>> \o q PROVE p = q
  <2> DEFINE r == <<n>> \o p
  <2>1. p \in Seq(X) /\ q \in Seq(X)
    OBVIOUS
  <2>2. Len(r) = Len(p) + 1 /\ \A i \in 1..Len(p) : r[i + 1] = p[i]
    BY <2>1, ConsOf
  <2>3. Len(r) = Len(q) + 1 /\ \A i \in 1..Len(q) : r[i + 1] = q[i]
    BY <1>1, <2>1, ConsOf
  <2> HIDE DEF r
  <2>4. Len(p) = Len(q)
    BY <2>1, <2>2, <2>3
  <2>. QED  BY <2>1, <2>2, <2>3, <2>4, SeqEqual
<1>2. f \in Bijection(P, Q)
  <2>1. f \in [P -> Q] /\ \A q \in Q : \E p \in P : f[p] = q
    BY DEF Ahead
  <2>2. \A p, q \in P : f[p] = f[q] => p = q
    BY <1>1
  <2> HIDE DEF f, Q
  <2>. QED  BY <2>1, <2>2 DEF Bijection, Injection, Surjection, IsInjective
<1> HIDE DEF f, Q
<1>3. ExistsBijection(P, Q)
  BY <1>2 DEF ExistsBijection
<1>. QED  BY <1>3, FS_Bijection DEF Q

\* A way goes on from n by one of what comes next, and from there.
LEMMA LongerIs ==
    ASSUME NEW nodes, NEW next \in [nodes -> SUBSET nodes], NEW seen, NEW n \in nodes
    PROVE  LET A == [k \in nodes |-> Ahead(n, Ends(nodes, next, seen, k))] IN
           /\ Longer(nodes, next, seen, n) = Together(A, next[n])
           /\ \A k \in nodes : \A p \in A[k] : p \in Seq(nodes) /\ Len(p) >= 2 /\ p[1] = n /\ p[2] = k
<1> DEFINE A == [k \in nodes |-> Ahead(n, Ends(nodes, next, seen, k))]
           E(k) == Ends(nodes, next, seen, k)
           L == Longer(nodes, next, seen, n)
<1>1. ASSUME NEW k \in nodes, NEW q \in E(k)
      PROVE  LET p == <<n>> \o q IN
             /\ q \in Seq(nodes) /\ p \in Seq(nodes) /\ Len(p) = Len(q) + 1 /\ Len(p) >= 2
             /\ p[1] = n /\ p[2] = k /\ \A i \in 1..Len(q) : p[i + 1] = q[i]
  <2> DEFINE p == <<n>> \o q
  <2>1. q \in Seq(nodes) /\ Len(q) >= 1 /\ q[1] = k
    BY DEF Ends, IsWay
  <2>2. p \in Seq(nodes) /\ Len(p) = Len(q) + 1 /\ p[1] = n /\ \A i \in 1..Len(q) : p[i + 1] = q[i]
    BY <2>1, ConsOf
  <2> HIDE DEF p
  <2>3. p[2] = q[1]
    <3>1. 1 \in 1..Len(q) /\ 1 + 1 = 2
      BY <2>1
    <3>. QED  BY <2>2, <3>1
  <2>. QED  BY <2>1, <2>2, <2>3 DEF p
<1>2. ASSUME NEW k \in next[n], NEW q \in E(k) PROVE <<n>> \o q \in L
  <2> DEFINE p == <<n>> \o q
  <2>1. /\ q \in Seq(nodes) /\ p \in Seq(nodes) /\ Len(p) = Len(q) + 1 /\ Len(p) >= 2
        /\ p[1] = n /\ p[2] = k /\ \A i \in 1..Len(q) : p[i + 1] = q[i]
    BY <1>1
  <2>2. /\ Len(q) >= 1 /\ q[1] = k /\ q[Len(q)].on \in seen
        /\ \A i \in 1..(Len(q) - 1) : q[i + 1] \in next[q[i]]
    BY DEF Ends, IsWay
  <2> HIDE DEF p
  <2>3. ASSUME NEW i \in 1..(Len(p) - 1) PROVE p[i + 1] \in next[p[i]]
    <3>1. CASE i = 1
      BY <2>1, <3>1
    <3>2. CASE i # 1
      <4> DEFINE j == i - 1
      <4>1. j \in 1..(Len(q) - 1) /\ j \in 1..Len(q) /\ j + 1 \in 1..Len(q) /\ i = j + 1
        BY <2>1, <3>2
      <4> HIDE DEF j
      <4>2. p[i] = q[j] /\ p[i + 1] = q[j + 1]
        BY <2>1, <4>1
      <4>. QED  BY <2>2, <4>1, <4>2
    <3>. QED  BY <3>1, <3>2
  <2>4. p[Len(p)] = q[Len(q)]
    <3>1. Len(q) \in 1..Len(q)
      BY <2>1, <2>2
    <3>. QED  BY <2>1, <3>1
  <2>5. IsWay(next, {n}, p)
    BY <2>1, <2>3 DEF IsWay
  <2>6. p \in L
    BY <2>1, <2>2, <2>4, <2>5 DEF Longer, Ends
  <2>. QED  BY <2>6 DEF p
<1>3. ASSUME NEW p \in L PROVE \E k \in next[n] : p \in A[k]
  <2>1. /\ p \in Seq(nodes) /\ Len(p) >= 2 /\ p[1] = n /\ p[Len(p)].on \in seen
        /\ \A i \in 1..(Len(p) - 1) : p[i + 1] \in next[p[i]]
    BY DEF Longer, Ends, IsWay
  <2> DEFINE q == SubSeq(p, 2, Len(p))
             r == <<n>> \o q
  <2>2. q \in Seq(nodes) /\ Len(q) = Len(p) - 1 /\ \A k \in 1..(Len(p) - 1) : q[k] = p[k + 1]
    <3>1. 2 \in 1..Len(p) /\ Len(p) \in Nat
      BY <2>1
    <3>2. q \in Seq(nodes) /\ Len(q) = Len(p) - 2 + 1 /\ \A k \in 1..(Len(p) - 2 + 1) : q[k] = p[2 + k - 1]
      BY <2>1, <3>1, RestOf
    <3> HIDE DEF q
    <3>3. Len(p) - 2 + 1 = Len(p) - 1
      BY <3>1
    <3>4. \A k \in 1..(Len(p) - 1) : 2 + k - 1 = k + 1
      BY <3>1
    <3>. QED  BY <3>2, <3>3, <3>4
  <2> HIDE DEF q
  <2>3. r \in Seq(nodes) /\ Len(r) = Len(q) + 1 /\ r[1] = n /\ \A i \in 1..Len(q) : r[i + 1] = q[i]
    BY <2>2, ConsOf
  <2> HIDE DEF r
  <2>4. Len(p) \in Nat /\ Len(q) \in Nat /\ Len(r) = Len(p)
    BY <2>1, <2>2, <2>3
  <2>5. \A i \in 1..Len(p) : r[i] = p[i]
    <3>. SUFFICES ASSUME NEW i \in 1..Len(p), i # 1 PROVE r[i] = p[i]
      BY <2>1, <2>3
    <3> DEFINE j == i - 1
    <3>1. j \in 1..Len(q) /\ j \in 1..(Len(p) - 1) /\ i = j + 1
      BY <2>2, <2>4
    <3> HIDE DEF j
    <3>. QED  BY <2>2, <2>3, <3>1
  <2>6. r = p
    BY <2>1, <2>3, <2>4, <2>5, SeqEqual
  <2>7. 1 \in 1..(Len(p) - 1) /\ 1 + 1 = 2
    BY <2>1, <2>4
  <2>8. q[1] = p[2] /\ p[2] \in next[n]
    BY <2>1, <2>2, <2>7
  <2>9. q[Len(q)] = p[Len(p)]
    <3>1. Len(q) \in 1..(Len(p) - 1) /\ Len(q) + 1 = Len(p)
      BY <2>1, <2>2, <2>4
    <3>. QED  BY <2>2, <3>1
  <2>10. ASSUME NEW i \in 1..(Len(q) - 1) PROVE q[i + 1] \in next[q[i]]
    <3> DEFINE j == i + 1
    <3>1. j \in 1..(Len(p) - 1) /\ i \in 1..(Len(p) - 1)
      BY <2>2, <2>4
    <3>2. q[i] = p[j] /\ q[j] = p[j + 1]
      BY <2>2, <3>1
    <3> HIDE DEF j
    <3>3. p[j + 1] \in next[p[j]]
      BY <2>1, <3>1
    <3>. QED  BY <3>2, <3>3 DEF j
  <2>11. q \in E(p[2])
    <3>1. Len(q) >= 1
      BY <2>1, <2>2, <2>4
    <3>. QED  BY <2>1, <2>2, <2>8, <2>9, <2>10, <3>1 DEF Ends, IsWay
  <2>12. p \in Ahead(n, E(p[2]))
    BY <2>6, <2>11 DEF Ahead, r
  <2>13. p[2] \in nodes
    BY <2>8
  <2>. QED  BY <2>8, <2>12, <2>13
<1>4. ASSUME NEW k \in nodes, NEW p \in A[k] PROVE p \in Seq(nodes) /\ Len(p) >= 2 /\ p[1] = n /\ p[2] = k
  <2>1. PICK q \in E(k) : p = <<n>> \o q
    BY DEF Ahead
  <2>. QED  BY <1>1, <2>1
<1>5. \A k \in next[n] : \A p \in A[k] : p \in L
  <2>. SUFFICES ASSUME NEW k \in next[n], NEW p \in A[k] PROVE p \in L
    OBVIOUS
  <2>1. k \in nodes
    OBVIOUS
  <2>2. PICK q \in E(k) : p = <<n>> \o q
    BY <2>1 DEF Ahead
  <2>. QED  BY <1>2, <2>2
<1> HIDE DEF A, L
<1>6. L = Together(A, next[n])
  BY <1>3, <1>5 DEF Together
<1>. QED  BY <1>4, <1>6 DEF A, L

\* A failure goes on downwards, so it does not go on for ever.
Descends(nodes, next, rank) ==
    /\ IsFiniteSet(nodes) /\ next \in [nodes -> SUBSET nodes] /\ rank \in [nodes -> Nat]
    /\ \A n \in nodes : \A k \in next[n] : rank[k] < rank[n]

\* What holds of a node when it holds of those that come next holds of all.
LEMMA FromBelow ==
    ASSUME NEW nodes, NEW next, NEW rank, Descends(nodes, next, rank), NEW T,
           \A n \in nodes : (\A k \in next[n] : k \in T) => n \in T
    PROVE  nodes \subseteq T
<1> DEFINE bad == {n \in nodes : n \notin T}
           ranks == {rank[n] : n \in bad}
<1>. SUFFICES ASSUME bad # {} PROVE FALSE
  OBVIOUS
<1>1. ranks \in SUBSET Nat /\ ranks # {}
  BY DEF Descends
<1>2. PICK n \in bad : \A k \in bad : rank[n] <= rank[k]
  <2> HIDE DEF bad
  <2>1. Min(ranks) \in ranks /\ \A j \in ranks : Min(ranks) <= j
    <3> HIDE DEF ranks
    <3>. QED  BY <1>1, LeastOf
  <2>. QED  BY <2>1
<1>3. ASSUME NEW k \in next[n] PROVE k \in T
  <2>1. k \in nodes /\ rank[k] < rank[n] /\ rank[k] \in Nat /\ rank[n] \in Nat
    BY DEF Descends
  <2>2. k \notin bad
    BY <1>2, <2>1
  <2>. QED  BY <2>1, <2>2
<1>. QED  BY <1>3

\* The ways from n, by what comes next.
LEMMA EndsAre ==
    ASSUME NEW nodes, NEW next \in [nodes -> SUBSET nodes], NEW seen, NEW n \in nodes
    PROVE  /\ Ends(nodes, next, seen, n)
                = (IF n.on \in seen THEN {<<n>>} ELSE {}) \cup Longer(nodes, next, seen, n)
           /\ <<n>> \notin Longer(nodes, next, seen, n)
           /\ Longer(nodes, next, seen, n) \subseteq Seq(nodes)
<1> DEFINE E == Ends(nodes, next, seen, n)
           L == Longer(nodes, next, seen, n)
<1>1. Len(<<n>>) = 1 /\ <<n>> \in Seq(nodes) /\ <<n>>[1] = n
  OBVIOUS
<1>2. <<n>> \in E <=> n.on \in seen
  BY <1>1 DEF Ends, IsWay
<1>3. ASSUME NEW p \in E, p \notin L PROVE p = <<n>>
  <2>1. p \in Seq(nodes) /\ Len(p) >= 1 /\ p[1] = n /\ ~(Len(p) >= 2)
    BY <1>3 DEF Ends, IsWay, Longer
  <2>2. Len(p) = 1
    <3>1. Len(p) \in Nat /\ Len(p) >= 1 /\ ~(Len(p) >= 2)
      BY <2>1
    <3> DEFINE l == Len(p)
    <3> HIDE DEF l
    <3>2. l \in Nat /\ l >= 1 /\ ~(l >= 2)
      BY <3>1 DEF l
    <3>3. l = 1
      BY <3>2
    <3>. QED  BY <3>3 DEF l
  <2>. QED  BY <1>1, <2>1, <2>2, SeqEqual
<1>4. L \subseteq E /\ L \subseteq Seq(nodes) /\ <<n>> \notin L
  BY <1>1 DEF Longer, Ends
<1> HIDE DEF E, L
<1>. QED  BY <1>2, <1>3, <1>4 DEF E, L

\* If there are finitely many ways from what comes next, those from n are as
\* many as the sum says.
LEMMA CountedFrom ==
    ASSUME NEW nodes, NEW next, NEW rank, Descends(nodes, next, rank), NEW seen, NEW n \in nodes,
           \A k \in next[n] : IsFiniteSet(Ends(nodes, next, seen, k))
    PROVE  /\ IsFiniteSet(Ends(nodes, next, seen, n))
           /\ IsFiniteSet(Longer(nodes, next, seen, n))
           /\ \A h : (\A k \in next[n] : h[k] = Cardinality(Ends(nodes, next, seen, k))) =>
                 /\ Sum(h, next[n]) = Cardinality(Longer(nodes, next, seen, n))
                 /\ (IF n.on \in seen THEN 1 ELSE 0) + Sum(h, next[n]) = Cardinality(Ends(nodes, next, seen, n))
<1> DEFINE E(k) == Ends(nodes, next, seen, k)
           L == Longer(nodes, next, seen, n)
           A == [k \in nodes |-> Ahead(n, E(k))]
           S == next[n]
<1>1. next \in [nodes -> SUBSET nodes] /\ S \in SUBSET nodes /\ IsFiniteSet(S)
  BY FS_Subset DEF Descends
<1>2. L = Together(A, S) /\ \A k \in nodes : \A p \in A[k] : p[2] = k
  BY <1>1, LongerIs
<1>3. ASSUME NEW k \in S PROVE A[k] = Ahead(n, E(k)) /\ IsFiniteSet(A[k]) /\ Cardinality(A[k]) = Cardinality(E(k))
  <2>1. E(k) \in SUBSET Seq(nodes) /\ IsFiniteSet(E(k))
    BY DEF Ends
  <2>2. A[k] = Ahead(n, E(k))
    BY <1>1
  <2> HIDE DEF E
  <2>. QED  BY <2>1, <2>2, AheadOf
<1> HIDE DEF A, L, S
<1>4. \A k, l \in S : k # l => A[k] \cap A[l] = {}
  BY <1>1, <1>2
<1>5. IsFiniteSet(L) /\ Cardinality(L) \in Nat
  <2>1. S \in SUBSET S /\ \A k \in S : IsFiniteSet(A[k])
    BY <1>3
  <2>2. IsFiniteSet(Together(A, S))
    BY <1>1, <1>4, <2>1, TogetherOf
  <2>. QED  BY <1>2, <2>2, FS_CardinalityType
<1>6. ASSUME NEW h, \A k \in S : h[k] = Cardinality(E(k)) PROVE Sum(h, S) = Cardinality(L)
  <2>1. \A k \in S : h[k] = Cardinality(A[k]) /\ IsFiniteSet(A[k])
    BY <1>3, <1>6
  <2>. QED  BY <1>1, <1>2, <1>4, <2>1, SumCounts
<1>7. E(n) = (IF n.on \in seen THEN {<<n>>} ELSE {}) \cup L /\ <<n>> \notin L
  BY <1>1, EndsAre DEF L
<1>8. IsFiniteSet(E(n)) /\ Cardinality(E(n)) = (IF n.on \in seen THEN 1 ELSE 0) + Cardinality(L)
  <2>1. CASE n.on \in seen
    <3>1. E(n) = L \cup {<<n>>}
      BY <1>7, <2>1
    <3>2. IsFiniteSet(L \cup {<<n>>}) /\ Cardinality(L \cup {<<n>>}) = Cardinality(L) + 1
      BY <1>5, <1>7, FS_AddElement
    <3>. QED  BY <1>5, <2>1, <3>1, <3>2
  <2>2. CASE n.on \notin seen
    <3>1. E(n) = L
      BY <1>7, <2>2
    <3> HIDE DEF E
    <3>. QED  BY <1>5, <2>2, <3>1
  <2>. QED  BY <2>1, <2>2
<1>. QED  BY <1>5, <1>6, <1>8 DEF L, S

\* A function that counts a node's ways by those of what comes next.
Counts(nodes, next, seen, h) == h = [n \in nodes |-> (IF n.on \in seen THEN 1 ELSE 0) + Sum(h, next[n])]

\* suffixes: a function that counts a node's ways by what comes next counts
\* them all, and there is one.
LEMMA SuffixesCount ==
    ASSUME NEW nodes, NEW next, NEW rank, Descends(nodes, next, rank), NEW seen
    PROVE  /\ \A n \in nodes : /\ IsFiniteSet(Longer(nodes, next, seen, n))
                              /\ IsFiniteSet(Ends(nodes, next, seen, n))
           /\ \E h : Counts(nodes, next, seen, h)
           /\ \A h : Counts(nodes, next, seen, h) =>
                 \A n \in nodes : /\ Sum(h, next[n]) = Cardinality(Longer(nodes, next, seen, n))
                                 /\ h[n] = Cardinality(Ends(nodes, next, seen, n))
<1> DEFINE E(n) == Ends(nodes, next, seen, n)
           one(n) == IF n.on \in seen THEN 1 ELSE 0
           counts(h) == h = [n \in nodes |-> one(n) + Sum(h, next[n])]
           h0 == [n \in nodes |-> Cardinality(E(n))]
<1>0. \A n \in nodes : next[n] \in SUBSET nodes
  BY DEF Descends
<1>1. \A n \in nodes : IsFiniteSet(E(n))
  <2> DEFINE T == {n \in nodes : IsFiniteSet(E(n))}
  <2>1. \A n \in nodes : (\A k \in next[n] : k \in T) => n \in T
    BY CountedFrom
  <2> HIDE DEF T
  <2>2. nodes \subseteq T
    BY <2>1, FromBelow
  <2>. QED  BY <2>2 DEF T
<1>2. ASSUME NEW n \in nodes
      PROVE  /\ IsFiniteSet(Longer(nodes, next, seen, n))
             /\ \A h : (\A k \in next[n] : h[k] = Cardinality(E(k))) =>
                   /\ Sum(h, next[n]) = Cardinality(Longer(nodes, next, seen, n))
                   /\ one(n) + Sum(h, next[n]) = Cardinality(E(n))
  BY <1>0, <1>1, CountedFrom
<1> HIDE DEF E, one
<1>3. counts(h0)
  <2>1. \A n \in nodes : \A k \in next[n] : h0[k] = Cardinality(E(k))
    BY <1>0
  <2>2. \A n \in nodes : one(n) + Sum(h0, next[n]) = Cardinality(E(n))
    BY <1>2, <2>1
  <2>. QED  BY <2>2
<1>4. ASSUME NEW h, counts(h)
      PROVE  \A n \in nodes : /\ Sum(h, next[n]) = Cardinality(Longer(nodes, next, seen, n))
                             /\ h[n] = Cardinality(E(n))
  <2> DEFINE T == {n \in nodes : h[n] = Cardinality(E(n))}
  <2>1. \A n \in nodes : h[n] = one(n) + Sum(h, next[n])
    BY <1>4
  <2>2. \A n \in nodes : (\A k \in next[n] : k \in T) => n \in T
    BY <1>2, <2>1
  <2> HIDE DEF T
  <2>3. nodes \subseteq T
    BY <2>2, FromBelow
  <2>4. \A n \in nodes : h[n] = Cardinality(E(n))
    BY <2>3 DEF T
  <2>. QED  BY <1>0, <1>2, <2>4
<1>5. \E h : counts(h)
  BY <1>3
<1>. QED  BY <1>1, <1>2, <1>4, <1>5 DEF one, E, Counts

\* What the listing and the counting of a graph rely on: a failure goes on
\* downwards, among components, and so a way is no longer than they are many.
Ranked(g, rank) ==
    /\ IsFiniteSet(g.nodes) /\ Cardinality(g.components) \in Nat
    /\ \A r \in g.nodes :
          /\ r.on \in g.components
          /\ Descends(g.nodes, g.next[r.on], rank)
          /\ \A p \in Seq(g.nodes) : IsWay(g.next[r.on], {r}, p) => Len(p) <= Cardinality(g.components)

\* Where root's failure goes on while only live may carry it.
NextOf(g, root, live) == [n \in g.nodes |-> OnTo(g, root, live, n)]

\* The chains of root that go on from it.
Going(g, root, live) == Longer(g.nodes, NextOf(g, root, live), g.observes, root)

\* A way all of whose steps are live.
Lives(live, w) == \A i \in 1..(Len(w) - 1) : Passes(live, w[i], w[i + 1])

\* suffixes: how many chain ends start at each node, and how many chains go on
\* from the root.
LEMMA SuffixesAre ==
    ASSUME NEW g, NEW rank, Ranked(g, rank), NEW r \in g.nodes, NEW l
    PROVE  /\ \A n \in g.nodes : LET E == Ends(g.nodes, NextOf(g, r, l), g.observes, n) IN
                                 IsFiniteSet(E) /\ SuffixesOf(g, r, l)[n] = Cardinality(E)
           /\ IsFiniteSet(Going(g, r, l))
           /\ Sum(SuffixesOf(g, r, l), OnTo(g, r, l, r)) = Cardinality(Going(g, r, l))
<1> DEFINE next == NextOf(g, r, l)
           nodes == g.nodes
           seen == g.observes
           one(n) == IF n.on \in g.observes THEN 1 ELSE 0
           sol(h) == h = [n \in g.nodes |-> one(n) + Sum(h, OnTo(g, r, l, n))]
           counts(h) == Counts(nodes, next, seen, h)
<1>1. Descends(g.nodes, g.next[r.on], rank)
  BY DEF Ranked
<1>2. \A n \in g.nodes : next[n] = OnTo(g, r, l, n) /\ next[n] \subseteq g.next[r.on][n]
  BY DEF NextOf, OnTo, Onward
<1>3. Descends(nodes, next, rank)
  <2>1. next = [n \in g.nodes |-> OnTo(g, r, l, n)]
    BY DEF NextOf
  <2> HIDE DEF next
  <2>. QED  BY <1>1, <1>2, <2>1 DEF Descends
<1>4. \A h : sol(h) <=> counts(h)
  BY <1>2 DEF Counts
<1>5. SuffixesOf(g, r, l) = CHOOSE h : sol(h)
  BY Zenon DEF SuffixesOf
<1>6. Going(g, r, l) = Longer(nodes, next, seen, r) /\ r \in nodes
  BY DEF Going
<1>7. next[r] = OnTo(g, r, l, r)
  BY <1>2
<1> HIDE DEF sol, next, nodes, seen
<1>8. /\ \A n \in nodes : IsFiniteSet(Longer(nodes, next, seen, n)) /\ IsFiniteSet(Ends(nodes, next, seen, n))
      /\ \E h : counts(h)
      /\ \A h : counts(h) => \A n \in nodes : /\ Sum(h, next[n]) = Cardinality(Longer(nodes, next, seen, n))
                                              /\ h[n] = Cardinality(Ends(nodes, next, seen, n))
  BY <1>3, SuffixesCount
<1> HIDE DEF counts
<1>9. counts(SuffixesOf(g, r, l))
  BY <1>4, <1>5, <1>8
<1>. QED  BY <1>6, <1>7, <1>8, <1>9 DEF nodes, next, seen

\* fromRoot: the chains that go on, or the root alone when none ever does.
LEMMA FromRootIs ==
    ASSUME NEW g, NEW rank, Ranked(g, rank), NEW r \in g.nodes, NEW live
    PROVE  /\ IsFiniteSet(Going(g, r, live)) /\ IsFiniteSet(Going(g, r, AllLive(g)))
           /\ FromRoot(g, r, live) =
                IF r \notin live.nodes THEN 0
                ELSE IF Going(g, r, AllLive(g)) = {} /\ Going(g, r, live) = {} /\ r.on \in g.observes THEN 1
                ELSE Cardinality(Going(g, r, live))
           /\ StandsAlone(g, r, live) <=> r.on \in g.observes /\ Going(g, r, AllLive(g)) = {}
<1>1. ASSUME NEW l
      PROVE  /\ IsFiniteSet(Going(g, r, l))
             /\ Sum(SuffixesOf(g, r, l), OnTo(g, r, l, r)) = Cardinality(Going(g, r, l))
  BY SuffixesAre
<1>2. \A l : Cardinality(Going(g, r, l)) = 0 <=> Going(g, r, l) = {}
  BY <1>1, FS_EmptySet
<1>3. StandsAlone(g, r, live) <=> r.on \in g.observes /\ Going(g, r, AllLive(g)) = {}
  BY <1>1, <1>2 DEF StandsAlone
<1>. QED  BY <1>1, <1>2, <1>3 DEF FromRoot

\* The chains that go on from a root and whose steps are live are the live
\* ones of its walks.
LEMMA GoingIs ==
    ASSUME NEW g, NEW rank, Ranked(g, rank), NEW r \in g.nodes, NEW live
    PROVE  Going(g, r, live) = {w \in RootWalks(g, r) : w[Len(w)].on \in g.observes /\ Lives(live, w)}
<1> DEFINE next == g.next[r.on]
           live1 == NextOf(g, r, live)
<1>1. /\ next \in [g.nodes -> SUBSET g.nodes] /\ Cardinality(g.components) \in Nat
      /\ \A p \in Seq(g.nodes) : IsWay(next, {r}, p) => Len(p) <= Cardinality(g.components)
  BY DEF Ranked, Descends
<1>2. \A w : w \in RootWalks(g, r) <=> w \in Seq(g.nodes) /\ IsWay(next, {r}, w) /\ Len(w) >= 2
  <2>1. WalksOf(g, {r}) = RootWalks(g, r)
    BY DEF WalksOf
  <2>2. \A w : w \in WalksOf(g, {r}) <=> w \in Seq(g.nodes) /\ IsWay(next, {r}, w) /\ Len(w) >= 2
    BY <1>1, WalksAre
  <2>. QED  BY <2>1, <2>2
<1>3. \A n \in g.nodes : \A k : k \in live1[n] <=> k \in next[n] /\ Passes(live, n, k)
  BY DEF NextOf, OnTo, Onward
<1> HIDE DEF next, live1
<1>4. ASSUME NEW w \in Seq(g.nodes) PROVE IsWay(live1, {r}, w) <=> IsWay(next, {r}, w) /\ Lives(live, w)
  <2>1. \A i \in 1..(Len(w) - 1) : w[i] \in g.nodes
    OBVIOUS
  <2>. QED  BY <1>3, <2>1 DEF IsWay, Lives
<1>5. \A w : w \in Going(g, r, live) <=>
         w \in Seq(g.nodes) /\ IsWay(live1, {r}, w) /\ w[Len(w)].on \in g.observes /\ Len(w) >= 2
  BY DEF Going, Longer, Ends, live1
<1>. QED  BY <1>2, <1>4, <1>5

\* What a listing holds of one root.
ChainsOf(g, r) ==
    LET long == {w \in RootWalks(g, r) : w[Len(w)].on \in g.observes}
    IN  IF long # {} THEN long ELSE {w \in {<<r>>} : r.on \in g.observes}

LEMMA ExpandIs == ASSUME NEW g PROVE Expand(g) = UNION {ChainsOf(g, r) : r \in g.nodes}
<1> DEFINE long(r) == {w \in RootWalks(g, r) : w[Len(w)].on \in g.observes}
           kept(r, l) == IF l # {} THEN l ELSE {w \in {<<r>>} : r.on \in g.observes}
<1>1. \A r : The({kept(r, l) : l \in {long(r)}}) = kept(r, long(r))
  BY DEF The
<1>2. Expand(g) = UNION {The({kept(r, l) : l \in {long(r)}}) : r \in g.nodes}
  BY Zenon DEF Expand
<1>3. \A r : ChainsOf(g, r) = kept(r, long(r))
  BY DEF ChainsOf
<1> HIDE DEF long, kept
<1>4. \A r : ChainsOf(g, r) = The({kept(r, l) : l \in {long(r)}})
  BY <1>1, <1>3
<1>5. {The({kept(r, l) : l \in {long(r)}}) : r \in g.nodes} = {ChainsOf(g, r) : r \in g.nodes}
  BY <1>4
<1>. QED  BY <1>2, <1>5

\* Where everything is live every walk is.
LEMMA AllLives ==
    ASSUME NEW g, NEW rank, Ranked(g, rank), NEW r \in g.nodes, NEW w \in ChainsOf(g, r)
    PROVE  w \in Seq(g.nodes) /\ w[1] = r /\ Lives(AllLive(g), w)
<1>1. CASE w = <<r>>
  <2>1. <<r>> \in Seq(g.nodes) /\ <<r>>[1] = r /\ Len(<<r>>) = 1
    <3> DEFINE X == g.nodes
    <3>1. r \in X
      OBVIOUS
    <3> HIDE DEF X
    <3>2. <<r>> \in Seq(X) /\ <<r>>[1] = r /\ Len(<<r>>) = 1
      BY ONLY <3>1
    <3>. QED  BY <3>2 DEF X
  <2>2. 1..(1 - 1) = {}
    OBVIOUS
  <2>. QED  BY <1>1, <2>1, <2>2 DEF Lives
<1>2. CASE w \in RootWalks(g, r)
  <2>1. PICK n \in 2..Cardinality(g.components) : w \in [1..n -> g.nodes]
    BY <1>2 DEF RootWalks
  <2>2. w \in Seq(g.nodes) /\ w[1] = r
    BY <1>2, <2>1 DEF RootWalks
  <2>3. \A i \in 1..(Len(w) - 1) : w[i] \in g.nodes /\ w[i + 1] \in g.nodes
    BY <2>2
  <2>. QED  BY <2>2, <2>3 DEF Lives, AllLive, Passes, Ranked
<1>. QED  BY <1>1, <1>2 DEF ChainsOf

\* fromRoot counts what is live of the root's listing.
LEMMA FromRootCounts ==
    ASSUME NEW g, NEW rank, Ranked(g, rank), NEW r \in g.nodes, NEW live
    PROVE  /\ IsFiniteSet(LiveOf(ChainsOf(g, r), live))
           /\ FromRoot(g, r, live) = Cardinality(LiveOf(ChainsOf(g, r), live))
<1> DEFINE long == {w \in RootWalks(g, r) : w[Len(w)].on \in g.observes}
           going == Going(g, r, live)
           all == Going(g, r, AllLive(g))
           lives == LiveOf(ChainsOf(g, r), live)
<1>1. /\ IsFiniteSet(going) /\ IsFiniteSet(all)
      /\ FromRoot(g, r, live) = IF r \notin live.nodes THEN 0
                                ELSE IF all = {} /\ going = {} /\ r.on \in g.observes THEN 1
                                ELSE Cardinality(going)
  BY FromRootIs
<1>2. ChainsOf(g, r) = IF long # {} THEN long ELSE {w \in {<<r>>} : r.on \in g.observes}
  BY DEF ChainsOf
<1>3. lives = {w \in ChainsOf(g, r) : w[1] \in live.nodes /\ Lives(live, w)}
  BY DEF LiveOf, Lives
<1>4. \A w \in ChainsOf(g, r) : w[1] = r /\ Lives(AllLive(g), w)
  BY AllLives
<1>5. going = {w \in long : Lives(live, w)}
  BY GoingIs
<1>6. all = {w \in long : Lives(AllLive(g), w)}
  BY GoingIs
<1>7. \A w \in long : w[1] = r
  BY DEF RootWalks
<1> HIDE DEF long, going, all, lives
<1>8. all = long
  BY <1>2, <1>4, <1>6
<1>9. Lives(live, <<r>>)
  BY DEF Lives
<1>10. Cardinality({}) = 0 /\ IsFiniteSet({}) /\ IsFiniteSet({<<r>>}) /\ Cardinality({<<r>>}) = 1
  <2>1. Cardinality({}) = 0 /\ IsFiniteSet({})
    BY FS_EmptySet
  <2>2. IsFiniteSet({<<r>>}) /\ Cardinality({<<r>>}) = 1
    BY FS_Singleton
  <2>. QED  BY <2>1, <2>2
<1>11. CASE r \notin live.nodes
  <2>1. lives = {}
    BY <1>3, <1>4, <1>11
  <2>. QED  BY <1>1, <1>10, <1>11, <2>1 DEF lives
<1>12. CASE r \in live.nodes /\ long # {}
  <2>1. lives = going
    BY <1>2, <1>3, <1>5, <1>7, <1>12
  <2>. QED  BY <1>1, <1>8, <1>12, <2>1 DEF lives
<1>13. CASE r \in live.nodes /\ long = {}
  <2>1. going = {} /\ all = {}
    BY <1>5, <1>8, <1>13
  <2>2. CASE r.on \in g.observes
    <3>1. lives = {<<r>>}
      BY <1>2, <1>3, <1>9, <1>13, <2>2
    <3>. QED  BY <1>1, <1>10, <1>13, <2>1, <2>2, <3>1 DEF lives
  <2>3. CASE r.on \notin g.observes
    <3>1. lives = {}
      BY <1>2, <1>3, <1>13, <2>3
    <3>. QED  BY <1>1, <1>10, <1>13, <2>1, <2>3, <3>1 DEF lives
  <2>. QED  BY <2>2, <2>3
<1>. QED  BY <1>11, <1>12, <1>13

\* Count: read off the graph, the live chains are as many as the listing has.
LEMMA CountIsListing ==
    ASSUME NEW g, NEW rank, Ranked(g, rank), NEW live
    PROVE  LiveCount(g, live) = Cardinality(LiveOf(Expand(g), live))
<1> DEFINE A == [r \in g.nodes |-> LiveOf(ChainsOf(g, r), live)]
           f == [r \in g.nodes |-> FromRoot(g, r, live)]
<1>1. \A r \in g.nodes : IsFiniteSet(A[r]) /\ f[r] = Cardinality(A[r])
  BY FromRootCounts
<1>2. \A r \in g.nodes : \A w \in A[r] : w[1] = r
  BY AllLives DEF LiveOf
<1>3. LiveOf(Expand(g), live) = Together(A, g.nodes)
  <2>1. \A w : w \in Expand(g) <=> \E r \in g.nodes : w \in ChainsOf(g, r)
    BY ExpandIs
  <2>2. \A C, w : w \in LiveOf(C, live) <=> w \in C /\ w[1] \in live.nodes /\ Lives(live, w)
    BY DEF LiveOf, Lives
  <2>3. \A w : w \in Together(A, g.nodes) <=> \E r \in g.nodes : w \in LiveOf(ChainsOf(g, r), live)
    BY DEF Together
  <2>. QED  BY <2>1, <2>2, <2>3
<1>4. LiveCount(g, live) = Sum(f, g.nodes)
  BY Zenon DEF LiveCount
<1> HIDE DEF A, f
<1>5. \A r, s \in g.nodes : r # s => A[r] \cap A[s] = {}
  BY <1>2
<1>6. Sum(f, g.nodes) = Cardinality(Together(A, g.nodes))
  <2>1. IsFiniteSet(g.nodes)
    BY DEF Ranked
  <2>. QED  BY <1>1, <1>5, <2>1, SumCounts
<1>. QED  BY <1>3, <1>4, <1>6

LEMMA ChainsAreCounted ==
    ASSUME NEW g, NEW rank, Ranked(g, rank)
    PROVE  CountChains(g) = Cardinality(Expand(g))
<1>1. LiveCount(g, AllLive(g)) = Cardinality(LiveOf(Expand(g), AllLive(g)))
  BY CountIsListing
<1>2. LiveOf(Expand(g), AllLive(g)) = Expand(g)
  <2>1. ASSUME NEW w \in Expand(g) PROVE w[1] \in g.nodes /\ Lives(AllLive(g), w)
    <3>1. PICK r \in g.nodes : w \in ChainsOf(g, r)
      BY ExpandIs
    <3>. QED  BY <3>1, AllLives
  <2>2. AllLive(g).nodes = g.nodes
    BY DEF AllLive
  <2>. QED  BY <2>1, <2>2 DEF LiveOf, Lives
<1>. QED  BY <1>1, <1>2 DEF CountChains

-----------------------------------------------------------------------------
(* The order of the scenarios.                                             *)

\* An order of the nodes.
Orders(rank, X) == \A a, b \in X : rank[a] \in Nat /\ (rank[a] = rank[b] => a = b)

\* Numbers are in order.
LEMMA InOrder ==
    \A i, j \in Nat : /\ (i < j \/ i = j \/ j < i) /\ ~(i < j /\ j < i) /\ ~(i < j /\ i = j)
                      /\ \A k \in Nat : i < j /\ j < k => i < k
  OBVIOUS

\* The first place where two sequences of a length are apart.
LEMMA FirstApart ==
    ASSUME NEW X, NEW a \in Seq(X), NEW b \in Seq(X), Len(a) = Len(b), a # b
    PROVE  \E i \in 1..Len(a) : a[i] # b[i] /\ \A j \in 1..(i - 1) : a[j] = b[j]
<1> DEFINE apart == {i \in 1..Len(a) : a[i] # b[i]}
<1>1. Len(a) \in Nat
  OBVIOUS
<1>2. apart \in SUBSET Nat /\ apart # {}
  BY SeqEqual
<1>3. Min(apart) \in apart /\ \A j \in apart : Min(apart) <= j
  <2> HIDE DEF apart
  <2>. QED  BY <1>2, LeastOf
<1> DEFINE i == Min(apart)
<1>4. i \in 1..Len(a) /\ a[i] # b[i] /\ \A j \in 1..Len(a) : a[j] # b[j] => i <= j
  BY <1>3
<1> HIDE DEF i, apart
<1>5. \A j \in 1..(i - 1) : j \in 1..Len(a) /\ ~(i <= j)
  BY <1>1, <1>4
<1>. QED  BY <1>4, <1>5

\* Less orders sequences of nodes.
LEMMA LessIsOrder ==
    ASSUME NEW X, NEW rank, Orders(rank, X), NEW a \in Seq(X), NEW b \in Seq(X)
    PROVE  /\ a # b => Less(rank, a, b) \/ Less(rank, b, a)
           /\ ~(Less(rank, a, b) /\ Less(rank, b, a))
           /\ \A c \in Seq(X) : Less(rank, a, b) /\ Less(rank, b, c) => Less(rank, a, c)
<1>0. /\ Len(a) \in Nat /\ Len(b) \in Nat /\ DOMAIN a = 1..Len(a) /\ DOMAIN b = 1..Len(b)
      /\ (\A i \in 1..Len(a) : a[i] \in X) /\ (\A i \in 1..Len(b) : b[i] \in X)
  OBVIOUS
<1>1. ASSUME a # b PROVE Less(rank, a, b) \/ Less(rank, b, a)
  <2>1. CASE Len(a) # Len(b)
    <3>1. Len(a) < Len(b) \/ Len(b) < Len(a)
      BY <1>0, <2>1, InOrder, Zenon
    <3>. QED  BY <3>1 DEF Less
  <2>2. CASE Len(a) = Len(b)
    <3>1. PICK i \in 1..Len(a) : a[i] # b[i] /\ \A j \in 1..(i - 1) : a[j] = b[j]
      BY <1>1, <2>2, FirstApart
    <3>2. rank[a[i]] < rank[b[i]] \/ rank[b[i]] < rank[a[i]]
      <4>1. a[i] \in X /\ b[i] \in X
        BY <1>0, <2>2
      <4>2. rank[a[i]] \in Nat /\ rank[b[i]] \in Nat /\ rank[a[i]] # rank[b[i]]
        BY <3>1, <4>1 DEF Orders
      <4>. QED  BY <4>2
    <3>. QED  BY <1>0, <2>2, <3>1, <3>2 DEF Less
  <2>. QED  BY <2>1, <2>2
<1>2. ASSUME Less(rank, a, b), Less(rank, b, a) PROVE FALSE
  <2>1. Len(a) = Len(b)
    <3>1. (Len(a) < Len(b) \/ Len(a) = Len(b)) /\ (Len(b) < Len(a) \/ Len(b) = Len(a))
      BY <1>2 DEF Less
    <3>. QED  BY <1>0, <3>1, InOrder, Zenon
  <2>2. PICK i \in 1..Len(a) : rank[a[i]] < rank[b[i]] /\ \A j \in 1..(i - 1) : a[j] = b[j]
    BY <1>0, <1>2, <2>1 DEF Less
  <2>3. PICK k \in 1..Len(a) : rank[b[k]] < rank[a[k]] /\ \A j \in 1..(k - 1) : b[j] = a[j]
    BY <1>0, <1>2, <2>1 DEF Less
  <2>4. rank[a[i]] \in Nat /\ rank[b[i]] \in Nat /\ rank[a[k]] \in Nat /\ rank[b[k]] \in Nat
    BY <1>0, <2>1 DEF Orders
  <2>5. i < k \/ i = k \/ k < i
    BY <1>0
  <2>6. i < k => a[i] = b[i]
    BY <1>0, <2>3
  <2>7. k < i => a[k] = b[k]
    BY <1>0, <2>2
  <2>. QED  BY <2>2, <2>3, <2>4, <2>5, <2>6, <2>7
<1>3. ASSUME NEW c \in Seq(X), Less(rank, a, b), Less(rank, b, c) PROVE Less(rank, a, c)
  <2>0. Len(c) \in Nat /\ DOMAIN c = 1..Len(c) /\ \A i \in 1..Len(c) : c[i] \in X
    OBVIOUS
  <2>1. CASE Len(a) < Len(c)
    BY <2>1 DEF Less
  <2>2. CASE ~(Len(a) < Len(c))
    <3>1. Len(a) = Len(b) /\ Len(b) = Len(c)
      <4>1. (Len(a) < Len(b) \/ Len(a) = Len(b)) /\ (Len(b) < Len(c) \/ Len(b) = Len(c))
        BY <1>3 DEF Less
      <4>2. Len(a) = Len(b)
        BY <1>0, <2>0, <2>2, <4>1, InOrder, Zenon
      <4>. QED  BY <2>2, <4>1, <4>2, Zenon
    <3>2. PICK i \in 1..Len(a) : rank[a[i]] < rank[b[i]] /\ \A j \in 1..(i - 1) : a[j] = b[j]
      BY <1>0, <1>3, <3>1 DEF Less
    <3>3. PICK k \in 1..Len(a) : rank[b[k]] < rank[c[k]] /\ \A j \in 1..(k - 1) : b[j] = c[j]
      BY <1>0, <1>3, <3>1 DEF Less
    <3>4. \A j \in 1..Len(a) : rank[a[j]] \in Nat /\ rank[b[j]] \in Nat /\ rank[c[j]] \in Nat
      BY <1>0, <2>0, <3>1 DEF Orders
    <3>5. PICK l \in 1..Len(a) : rank[a[l]] < rank[c[l]] /\ \A j \in 1..(l - 1) : a[j] = c[j]
      <4>1. CASE i < k
        <5>1. i \in 1..(k - 1) /\ \A j \in 1..(i - 1) : j \in 1..(k - 1)
          BY <1>0, <4>1
        <5>2. b[i] = c[i] /\ \A j \in 1..(i - 1) : b[j] = c[j]
          BY <3>3, <5>1
        <5>. QED  BY <3>2, <5>2
      <4>2. CASE i = k
        <5>1. rank[a[i]] < rank[c[i]]
          BY <3>2, <3>3, <3>4, <4>2
        <5>. QED  BY <3>2, <3>3, <4>2, <5>1
      <4>3. CASE k < i
        <5>1. k \in 1..(i - 1) /\ \A j \in 1..(k - 1) : j \in 1..(i - 1)
          BY <1>0, <4>3
        <5>2. a[k] = b[k] /\ \A j \in 1..(k - 1) : a[j] = b[j]
          BY <3>2, <5>1
        <5>. QED  BY <3>3, <5>2
      <4>. QED  BY <1>0, <4>1, <4>2, <4>3
    <3>. QED  BY <1>0, <3>1, <3>5 DEF Less
  <2>. QED  BY <2>1, <2>2
<1>. QED  BY <1>1, <1>2, <1>3

\* What comes before everything else in a set.
IsLeast(rank, S, a) == a \in S /\ \A b \in S \ {a} : Less(rank, a, b)

\* Least names it.
LEMMA LeastNamed ==
    ASSUME NEW X, NEW rank, Orders(rank, X), NEW S \in SUBSET Seq(X), NEW a, IsLeast(rank, S, a)
    PROVE  Least(rank, S) = a
<1> DEFINE b == CHOOSE x : x \in S /\ \A y \in S \ {x} : Less(rank, x, y)
<1>1. b \in S /\ \A y \in S \ {b} : Less(rank, b, y)
  BY DEF IsLeast
<1>2. Least(rank, S) = b
  BY DEF Least
<1> HIDE DEF b
<1>3. b = a
  BY <1>1, LessIsOrder DEF IsLeast
<1>. QED  BY <1>2, <1>3

\* A finite set of sequences has a least one.
LEMMA LeastIs ==
    ASSUME NEW X, NEW rank, Orders(rank, X), NEW S \in SUBSET Seq(X), IsFiniteSet(S), S # {}
    PROVE  IsLeast(rank, S, Least(rank, S))
<1> DEFINE bad == {T \in SUBSET S : T # {} /\ \A a : ~IsLeast(rank, T, a)}
           sizes == {Cardinality(T) : T \in bad}
<1>1. bad = {}
  <2>. SUFFICES ASSUME bad # {} PROVE FALSE
    OBVIOUS
  <2>1. \A T \in SUBSET S : IsFiniteSet(T) /\ Cardinality(T) \in Nat
    BY FS_Subset, FS_CardinalityType
  <2>2. sizes \in SUBSET Nat /\ sizes # {}
    BY <2>1
  <2>3. PICK T \in bad : \A U \in bad : Cardinality(T) <= Cardinality(U)
    <3> HIDE DEF bad
    <3>1. Min(sizes) \in sizes /\ \A j \in sizes : Min(sizes) <= j
      <4> HIDE DEF sizes
      <4>. QED  BY <2>2, LeastOf
    <3>. QED  BY <3>1
  <2>4. PICK x \in T : TRUE
    BY <2>3
  <2> DEFINE U == T \ {x}
  <2>5. Cardinality(U) = Cardinality(T) - 1 /\ Cardinality(T) \in Nat /\ U \in SUBSET S /\ x \in Seq(X)
    <3>1. T \in SUBSET S /\ IsFiniteSet(T)
      BY <2>1, <2>3
    <3>. QED  BY <2>1, <2>4, <3>1, FS_RemoveElement
  <2>6. U \notin bad
    <3>1. ~(Cardinality(T) <= Cardinality(U))
      BY <2>5
    <3>. QED  BY <2>3, <3>1
  <2>7. CASE U = {}
    <3>1. IsLeast(rank, T, x)
      BY <2>4, <2>7 DEF IsLeast
    <3>. QED  BY <2>3, <3>1
  <2>8. CASE U # {}
    <3>1. PICK a : IsLeast(rank, U, a)
      BY <2>5, <2>6, <2>8
    <3>2. a \in T /\ a # x /\ a \in Seq(X) /\ T \subseteq Seq(X)
      BY <2>3, <2>5, <3>1 DEF IsLeast
    <3>3. CASE Less(rank, a, x)
      <4>1. IsLeast(rank, T, a)
        BY <3>1, <3>2, <3>3 DEF IsLeast
      <4>. QED  BY <2>3, <4>1
    <3>4. CASE Less(rank, x, a)
      <4>1. ASSUME NEW b \in T \ {x} PROVE Less(rank, x, b)
        <5>1. b = a \/ Less(rank, a, b)
          BY <3>1, <4>1 DEF IsLeast
        <5>2. b \in Seq(X)
          BY <3>2
        <5>. QED  BY <2>5, <3>2, <3>4, <5>1, <5>2, LessIsOrder
      <4>2. IsLeast(rank, T, x)
        BY <2>4, <4>1 DEF IsLeast
      <4>. QED  BY <2>3, <4>2
    <3>. QED  BY <2>5, <3>2, <3>3, <3>4, LessIsOrder
  <2>. QED  BY <2>7, <2>8
<1>2. PICK a : IsLeast(rank, S, a)
  BY <1>1
<1>. QED  BY <1>2, LeastNamed

\* The least of the least is the least of all.
LEMMA LeastOfLeast ==
    ASSUME NEW X, NEW rank, Orders(rank, X), NEW K, NEW A, \A k \in K : A[k] # {},
           Together(A, K) \in SUBSET Seq(X), IsFiniteSet(Together(A, K)), K # {}
    PROVE  Least(rank, {Least(rank, A[k]) : k \in K}) = Least(rank, Together(A, K))
<1> DEFINE S == Together(A, K)
           l == Least(rank, S)
           L == {Least(rank, A[k]) : k \in K}
<1>1. l \in S /\ \A b \in S \ {l} : Less(rank, l, b)
  <2>1. S # {}
    BY DEF Together
  <2>. QED  BY <2>1, LeastIs DEF IsLeast
<1>2. \A k \in K : A[k] \subseteq S
  BY DEF Together
<1>3. PICK k \in K : l \in A[k]
  BY <1>1 DEF Together
<1> HIDE DEF l, S
<1>4. l = Least(rank, A[k])
  <2>1. A[k] \in SUBSET Seq(X) /\ IsLeast(rank, A[k], l)
    BY <1>1, <1>2, <1>3 DEF IsLeast, S
  <2>. QED  BY <2>1, LeastNamed
<1>5. ASSUME NEW j \in K PROVE Least(rank, A[j]) \in S
  <2>1. A[j] \in SUBSET S /\ A[j] # {} /\ A[j] \in SUBSET Seq(X) /\ IsFiniteSet(A[j])
    <3>1. A[j] \in SUBSET S /\ A[j] # {} /\ S \in SUBSET Seq(X) /\ IsFiniteSet(S)
      BY <1>2 DEF S
    <3>. QED  BY <3>1, FS_Subset
  <2>2. Least(rank, A[j]) \in A[j]
    BY <2>1, LeastIs DEF IsLeast
  <2>. QED  BY <2>1, <2>2
<1>6. L \in SUBSET Seq(X) /\ IsLeast(rank, L, l)
  BY <1>1, <1>4, <1>5 DEF IsLeast, S
<1> HIDE DEF L
<1>7. Least(rank, L) = l
  BY <1>6, LeastNamed
<1>. QED  BY <1>7 DEF l, L, S

\* Sequences with n behind.
After(P, n) == {Append(p, n) : p \in P}

\* They are as many, and the least among them is the least with n behind.
LEMMA AfterOf ==
    ASSUME NEW X, NEW n \in X, NEW P \in SUBSET Seq(X), IsFiniteSet(P)
    PROVE  /\ IsFiniteSet(After(P, n)) /\ Cardinality(After(P, n)) = Cardinality(P)
           /\ After(P, n) \in SUBSET Seq(X)
           /\ \A rank : Orders(rank, X) /\ P # {} => Least(rank, After(P, n)) = Append(Least(rank, P), n)
<1> DEFINE Q == After(P, n)
           f == [p \in P |-> Append(p, n)]
<1>0. \A p \in P : /\ Append(p, n) \in Seq(X) /\ Len(Append(p, n)) = Len(p) + 1 /\ Len(p) \in Nat
                   /\ (\A i \in 1..Len(p) : Append(p, n)[i] = p[i]) /\ Append(p, n)[Len(p) + 1] = n
  BY AppendOf
<1>1. ASSUME NEW p \in P, NEW q \in P, Append(p, n) = Append(q, n) PROVE p = q
  <2>1. Len(p) = Len(q)
    BY <1>0, <1>1
  <2>2. \A i \in 1..Len(p) : p[i] = q[i]
    BY <1>0, <1>1, <2>1
  <2>. QED  BY <2>1, <2>2, SeqEqual
<1>2. f \in Bijection(P, Q)
  <2>1. f \in [P -> Q] /\ \A q \in Q : \E p \in P : f[p] = q
    BY DEF After
  <2>2. \A p, q \in P : f[p] = f[q] => p = q
    BY <1>1
  <2> HIDE DEF f, Q
  <2>. QED  BY <2>1, <2>2 DEF Bijection, Injection, Surjection, IsInjective
<1>3. IsFiniteSet(Q) /\ Cardinality(Q) = Cardinality(P)
  <2> HIDE DEF f, Q
  <2>1. ExistsBijection(P, Q)
    BY <1>2 DEF ExistsBijection
  <2>. QED  BY <2>1, FS_Bijection
<1>4. Q \in SUBSET Seq(X)
  BY <1>0 DEF After
<1>5. ASSUME NEW rank, Orders(rank, X), P # {} PROVE Least(rank, Q) = Append(Least(rank, P), n)
  <2> DEFINE l == Least(rank, P)
  <2>1. l \in P /\ \A p \in P \ {l} : Less(rank, l, p)
    BY <1>5, LeastIs DEF IsLeast
  <2> HIDE DEF l
  <2>2. ASSUME NEW p \in P, p # l PROVE Less(rank, Append(l, n), Append(p, n))
    <3> DEFINE a == Append(l, n)
               b == Append(p, n)
    <3>1. /\ Len(a) = Len(l) + 1 /\ Len(l) \in Nat /\ Len(b) = Len(p) + 1 /\ Len(p) \in Nat
          /\ a \in Seq(X) /\ b \in Seq(X)
          /\ (\A i \in 1..Len(l) : a[i] = l[i]) /\ \A i \in 1..Len(p) : b[i] = p[i]
      BY <1>0, <2>1
    <3> HIDE DEF a, b
    <3>2. ASSUME Len(l) < Len(p) PROVE Less(rank, a, b)
      BY <3>1, <3>2 DEF Less
    <3>3. ASSUME ~(Len(l) < Len(p)) PROVE Less(rank, a, b)
      <4>1. Len(l) = Len(p) /\ \E i \in DOMAIN l : rank[l[i]] < rank[p[i]] /\ \A j \in 1..(i - 1) : l[j] = p[j]
        BY <2>1, <2>2, <3>3 DEF Less
      <4>2. PICK i \in DOMAIN l : rank[l[i]] < rank[p[i]] /\ \A j \in 1..(i - 1) : l[j] = p[j]
        BY <4>1
      <4>3. i \in 1..Len(l) /\ i \in DOMAIN a
        <5>1. DOMAIN l = 1..Len(l) /\ DOMAIN a = 1..Len(a)
          BY <2>1, <3>1
        <5>. QED  BY <3>1, <5>1
      <4>4. \A j \in 1..(i - 1) : j \in 1..Len(l) /\ a[j] = b[j]
        BY <3>1, <4>1, <4>2, <4>3
      <4>5. rank[a[i]] < rank[b[i]]
        BY <3>1, <4>1, <4>2, <4>3
      <4>6. Len(a) = Len(b) /\ \A j \in 1..(i - 1) : a[j] = b[j]
        BY <3>1, <4>1, <4>4
      <4>. QED  BY <4>3, <4>5, <4>6 DEF Less
    <3>4. Less(rank, a, b)
      BY <3>2, <3>3
    <3>. QED  BY <3>4 DEF a, b
  <2>3. IsLeast(rank, Q, Append(l, n))
    BY <2>1, <2>2 DEF IsLeast, After
  <2>4. Least(rank, Q) = Append(l, n)
    <3> HIDE DEF Q
    <3>. QED  BY <1>4, <1>5, <2>3, LeastNamed
  <2>. QED  BY <2>4 DEF l
<1> HIDE DEF Q
<1>. QED  BY <1>3, <1>4, <1>5 DEF Q

\* One step of listing a set.
Listed(h, s) == IF s = {} THEN <<>> ELSE Append(h[s \ {CHOOSE x \in s : TRUE}], CHOOSE x \in s : TRUE)

\* Listing a set one element at a time lists it.
LEMMA FoldLists ==
    ASSUME NEW S, IsFiniteSet(S)
    PROVE  LET order == FoldSet(LAMBDA n, s : Append(s, n), <<>>, S) IN
           order \in Seq(S) /\ Range(order) = S
<1> DEFINE first(s) == CHOOSE x \in s : TRUE
           sol(h) == h = [s \in SUBSET S |-> Listed(h, s)]
           N == Cardinality(S)
           upTo(h, n) == \A s \in SUBSET S : Cardinality(s) <= n => h[s] = Listed(h, s)
           T == {n \in 0..N : \E h : h = [s \in SUBSET S |-> h[s]] /\ upTo(h, n)}
<1>1. \A s \in SUBSET S : IsFiniteSet(s) /\ Cardinality(s) \in Nat /\ Cardinality(s) <= N
  BY FS_Subset, FS_CardinalityType
<1>2. N \in Nat
  BY FS_CardinalityType
<1>3. ASSUME NEW s \in SUBSET S, s # {}
      PROVE  /\ first(s) \in s /\ s \ {first(s)} \in SUBSET S
             /\ Cardinality(s \ {first(s)}) = Cardinality(s) - 1
             /\ \A h : Listed(h, s) = Append(h[s \ {first(s)}], first(s))
  <2>1. first(s) \in s
    BY <1>3
  <2>2. \A h : Listed(h, s) = Append(h[s \ {first(s)}], first(s))
    BY <1>3 DEF Listed
  <2> HIDE DEF first
  <2>3. IsFiniteSet(s)
    BY <1>1
  <2>4. Cardinality(s \ {first(s)}) = Cardinality(s) - 1
    BY <2>1, <2>3, FS_RemoveElement
  <2>. QED  BY <2>1, <2>2, <2>4
<1>4. \A h : Listed(h, {}) = <<>>
  BY DEF Listed
<1> HIDE DEF first, N
<1>5. 0 \in T
  <2> DEFINE h == [s \in SUBSET S |-> <<>>]
  <2>1. ASSUME NEW s \in SUBSET S, Cardinality(s) <= 0 PROVE h[s] = Listed(h, s)
    <3>1. s = {}
      BY <1>1, <2>1, FS_EmptySet
    <3>. QED  BY <1>4, <3>1
  <2>2. h = [s \in SUBSET S |-> h[s]]
    OBVIOUS
  <2> HIDE DEF h
  <2>3. upTo(h, 0)
    BY <2>1
  <2>4. 0 \in 0..N
    BY <1>2
  <2> HIDE DEF upTo
  <2>5. \E f : f = [s \in SUBSET S |-> f[s]] /\ upTo(f, 0)
    BY <2>2, <2>3, Zenon
  <2>. QED  BY <2>4, <2>5 DEF upTo
<1>6. ASSUME NEW n \in 1..N, n - 1 \in T PROVE n \in T
  <2>1. PICK h : upTo(h, n - 1)
    BY <1>6
  <2> DEFINE e == [s \in SUBSET S |-> IF Cardinality(s) = n THEN Listed(h, s) ELSE h[s]]
  <2>2. \A s \in SUBSET S : e[s] = IF Cardinality(s) = n THEN Listed(h, s) ELSE h[s]
    OBVIOUS
  <2>3. e = [s \in SUBSET S |-> e[s]]
    OBVIOUS
  <2> HIDE DEF e
  <2>4. ASSUME NEW s \in SUBSET S, Cardinality(s) <= n PROVE Listed(e, s) = Listed(h, s)
    <3>1. CASE s = {}
      BY <1>4, <3>1
    <3>2. CASE s # {}
      <4> DEFINE t == s \ {first(s)}
      <4>1. /\ t \in SUBSET S /\ Cardinality(t) = Cardinality(s) - 1
            /\ \A f : Listed(f, s) = Append(f[t], first(s))
        BY <1>3, <3>2
      <4> HIDE DEF t
      <4>2. Cardinality(t) # n
        BY <1>1, <1>2, <2>4, <4>1
      <4>3. e[t] = h[t]
        BY <2>2, <4>1, <4>2
      <4>. QED  BY <4>1, <4>3
    <3>. QED  BY <3>1, <3>2
  <2>5. ASSUME NEW s \in SUBSET S, Cardinality(s) <= n PROVE e[s] = Listed(e, s)
    <3>1. CASE Cardinality(s) = n
      BY <2>2, <2>4, <2>5, <3>1
    <3>2. CASE Cardinality(s) # n
      <4>1. Cardinality(s) <= n - 1
        BY <1>1, <1>2, <2>5, <3>2
      <4>. QED  BY <2>1, <2>2, <2>4, <2>5, <3>2, <4>1
    <3>. QED  BY <3>1, <3>2
  <2>6. upTo(e, n) /\ n \in 0..N
    BY <1>2, <2>5
  <2>. QED  BY <2>3, <2>6
<1> HIDE DEF T
<1>7. N \in T
  <2>1. \A n \in 0..N : n \in T
    BY <1>2, <1>5, <1>6, InductionTo
  <2>. QED  BY <1>2, <2>1
<1>8. \E h : sol(h)
  <2>1. PICK h : h = [s \in SUBSET S |-> h[s]] /\ upTo(h, N)
    BY <1>7 DEF T
  <2>2. \A s \in SUBSET S : h[s] = Listed(h, s)
    BY <1>1, <2>1
  <2>3. [s \in SUBSET S |-> h[s]] = [s \in SUBSET S |-> Listed(h, s)]
    BY <2>2
  <2>. QED  BY <2>1, <2>3
<1>9. ASSUME NEW h, sol(h) PROVE h[S] \in Seq(S) /\ Range(h[S]) = S
  <2> DEFINE ok(s) == h[s] \in Seq(S) /\ Range(h[s]) = s
             G == {n \in 0..N : \A s \in SUBSET S : Cardinality(s) = n => ok(s)}
  <2>1. \A s \in SUBSET S : h[s] = Listed(h, s)
    BY <1>9
  <2>2. 0 \in G
    <3>1. ASSUME NEW s \in SUBSET S, Cardinality(s) = 0 PROVE ok(s)
      <4>1. s = {}
        BY <1>1, <3>1, FS_EmptySet
      <4>2. h[s] = <<>>
        BY <1>4, <2>1, <4>1
      <4>. QED  BY <4>1, <4>2 DEF Range
    <3>. QED  BY <1>2, <3>1
  <2>3. ASSUME NEW n \in 1..N, n - 1 \in G PROVE n \in G
    <3>1. ASSUME NEW s \in SUBSET S, Cardinality(s) = n PROVE ok(s)
      <4>1. s # {}
        <5>1. Cardinality({}) = 0
          BY FS_EmptySet
        <5>. QED  BY <3>1, <5>1
      <4> DEFINE t == s \ {first(s)}
      <4>2. /\ t \in SUBSET S /\ Cardinality(t) = n - 1 /\ first(s) \in s
            /\ h[s] = Append(h[t], first(s))
        BY <1>3, <2>1, <3>1, <4>1
      <4>3. s = t \cup {first(s)}
        BY <4>2
      <4> HIDE DEF t
      <4>4. h[t] \in Seq(S) /\ Range(h[t]) = t
        BY <2>3, <4>2
      <4>5. first(s) \in S
        BY <4>2
      <4>6. Append(h[t], first(s)) \in Seq(S) /\ Range(Append(h[t], first(s))) = Range(h[t]) \cup {first(s)}
        BY <4>4, <4>5, AppendOf
      <4>. QED  BY <4>2, <4>3, <4>4, <4>6
    <3>2. n \in 0..N
      BY <1>2
    <3>. QED  BY <3>1, <3>2
  <2> HIDE DEF G
  <2>4. \A n \in 0..N : n \in G
    BY <1>2, <2>2, <2>3, InductionTo
  <2>5. N \in G
    BY <1>2, <2>4
  <2>. QED  BY <2>5 DEF G, N
<1>10. FoldSet(LAMBDA n, s : Append(s, n), <<>>, S) = (CHOOSE h : sol(h))[S]
  BY Zenon DEF FoldSet, MapThenFoldSet, Listed
<1> HIDE DEF sol
<1>. QED  BY <1>8, <1>9, <1>10

\* The rank is an order.
LEMMA RankOrders ==
    ASSUME NEW g, IsFiniteSet(g.nodes) PROVE Orders(RankIn(g), g.nodes)
<1> DEFINE order == FoldSet(LAMBDA n, s : Append(s, n), <<>>, g.nodes)
           at(n) == CHOOSE i \in DOMAIN order : order[i] = n
<1>1. order \in Seq(g.nodes) /\ Range(order) = g.nodes
  BY FoldLists
<1>2. RankIn(g) = [n \in g.nodes |-> at(n)]
  BY Zenon DEF RankIn
<1> HIDE DEF order
<1>3. \A n \in g.nodes : at(n) \in Nat /\ order[at(n)] = n
  <2>. SUFFICES ASSUME NEW n \in g.nodes PROVE at(n) \in Nat /\ order[at(n)] = n
    OBVIOUS
  <2>1. \E i \in DOMAIN order : order[i] = n
    BY <1>1 DEF Range
  <2>2. at(n) \in DOMAIN order /\ order[at(n)] = n
    BY <2>1
  <2>3. DOMAIN order = 1..Len(order) /\ Len(order) \in Nat
    BY <1>1
  <2>. QED  BY <2>2, <2>3
<1> HIDE DEF at
<1>. QED  BY <1>2, <1>3 DEF Orders

-----------------------------------------------------------------------------
(* Classes without listing.                                                *)

\* A way that the facts contradict.
Dies(live, p) == p[1] \notin live.nodes \/ ~Lives(live, p)

\* Where a way may be, dead or not.
Places(g) == g.nodes \X BOOLEAN

\* The ways from root to a place.
WaysTo(g, root, live, s) ==
    {p \in Seq(g.nodes) : /\ IsWay(g.next[root.on], {root}, p)
                          /\ p[Len(p)] = s[1] /\ (Dies(live, p) <=> s[2])}

\* The places before a place.
CameFrom(g, root, live, s) ==
    {k \in Places(g) : s[1] \in Onward(g, root, k[1]) /\ s[2] = Step(live, k, s[1])}

\* The ways to a place, by where they were a step before.
Stepped(g, root, live, s) == [k \in Places(g) |-> After(WaysTo(g, root, live, k), s[1])]

\* A way goes down.
LEMMA WayGoesDown ==
    ASSUME NEW nodes, NEW next, NEW rank, Descends(nodes, next, rank), NEW r \in nodes,
           NEW p \in Seq(nodes), IsWay(next, {r}, p)
    PROVE  rank[p[Len(p)]] <= rank[r] /\ (Len(p) > 1 => p[Len(p)] # r)
<1> DEFINE l == Len(p)
           T == {i \in 0..(l - 1) : IF i = 0 THEN TRUE ELSE rank[p[i + 1]] < rank[r]}
<1>1. l \in Nat /\ l >= 1 /\ p[1] = r /\ \A i \in 1..l : p[i] \in nodes
  BY DEF IsWay
<1>2. \A i \in 1..(l - 1) : p[i + 1] \in next[p[i]]
  BY DEF IsWay
<1> HIDE DEF l
<1>3. 0 \in T
  BY <1>1
<1>4. ASSUME NEW i \in 1..(l - 1), i - 1 \in T PROVE i \in T
  <2>1. i \in 1..l /\ i + 1 \in 1..l /\ i \in 0..(l - 1)
    BY <1>1
  <2>2. p[i] \in nodes /\ p[i + 1] \in nodes /\ rank[p[i + 1]] < rank[p[i]]
    BY <1>1, <1>2, <2>1 DEF Descends
  <2>3. rank[p[i]] \in Nat /\ rank[p[i + 1]] \in Nat /\ rank[r] \in Nat
    BY <2>2 DEF Descends
  <2>4. i = 1 \/ rank[p[i]] < rank[r]
    <3>1. CASE i = 1
      BY <3>1
    <3>2. CASE i # 1
      <4>1. i - 1 # 0 /\ (i - 1) + 1 = i
        BY <3>2
      <4>. QED  BY <1>4, <4>1
    <3>. QED  BY <3>1, <3>2
  <2>5. rank[p[i + 1]] < rank[r]
    BY <1>1, <2>2, <2>3, <2>4
  <2>6. i # 0
    OBVIOUS
  <2>. QED  BY <2>1, <2>5, <2>6
<1> HIDE DEF T
<1>5. \A i \in 0..(l - 1) : i \in T
  <2>1. l - 1 \in Nat
    BY <1>1
  <2>. QED  BY <1>3, <1>4, <2>1, InductionTo
<1>6. l = 1 \/ rank[p[l]] < rank[r]
  <2>1. CASE l # 1
    <3>1. l - 1 \in T /\ l - 1 # 0 /\ (l - 1) + 1 = l
      BY <1>1, <1>5, <2>1
    <3>. QED  BY <3>1 DEF T
  <2>. QED  BY <2>1
<1>7. rank[r] \in Nat /\ rank[p[l]] \in Nat
  <2>1. l \in 1..l
    BY <1>1
  <2>. QED  BY <1>1, <2>1 DEF Descends
<1>. QED  BY <1>1, <1>6, <1>7 DEF l

\* A way and one step more.
LEMMA OneMore ==
    ASSUME NEW nodes, NEW next, NEW from, NEW live, NEW q \in Seq(nodes), Len(q) >= 1, NEW n \in nodes
    PROVE  LET p == Append(q, n) IN
           /\ IsWay(next, from, p) <=> IsWay(next, from, q) /\ n \in next[q[Len(q)]]
           /\ Dies(live, p) <=> Dies(live, q) \/ ~Passes(live, q[Len(q)], n)
           /\ p \in Seq(nodes) /\ Len(p) = Len(q) + 1 /\ p[Len(p)] = n
<1> DEFINE p == Append(q, n)
           l == Len(q)
<1>1. /\ l \in Nat /\ l >= 1 /\ Len(p) = l + 1 /\ p \in Seq(nodes)
      /\ (\A i \in 1..l : p[i] = q[i]) /\ p[l + 1] = n
  BY AppendOf
<1>2. 1 \in 1..l /\ l \in 1..l /\ (l + 1) - 1 = l /\ 1..l = (1..(l - 1)) \cup {l} /\ l + 1 >= 1
  <2> HIDE DEF l, p
  <2>. QED  BY <1>1
<1>3. \A i \in 1..(l - 1) : i \in 1..l /\ i + 1 \in 1..l
  <2> HIDE DEF l, p
  <2>. QED  BY <1>1
<1>4. IsWay(next, from, p) <=> p[1] \in from /\ \A i \in 1..l : p[i + 1] \in next[p[i]]
  <2> HIDE DEF l, p
  <2>. QED  BY <1>1, <1>2 DEF IsWay
<1>5. IsWay(next, from, q) <=> q[1] \in from /\ \A i \in 1..(l - 1) : q[i + 1] \in next[q[i]]
  BY DEF IsWay
<1>6. Lives(live, p) <=> \A i \in 1..l : Passes(live, p[i], p[i + 1])
  <2> HIDE DEF l, p
  <2>. QED  BY <1>1, <1>2 DEF Lives
<1>7. Lives(live, q) <=> \A i \in 1..(l - 1) : Passes(live, q[i], q[i + 1])
  BY DEF Lives
<1>8. p[1] = q[1] /\ p[l] = q[l] /\ \A i \in 1..(l - 1) : p[i] = q[i] /\ p[i + 1] = q[i + 1]
  <2> HIDE DEF l, p
  <2>. QED  BY <1>1, <1>2, <1>3
<1> HIDE DEF p
<1>9. IsWay(next, from, p) <=> IsWay(next, from, q) /\ n \in next[q[l]]
  <2> HIDE DEF l
  <2>. QED  BY <1>1, <1>2, <1>4, <1>5, <1>8
<1>10. Lives(live, p) <=> Lives(live, q) /\ Passes(live, q[l], n)
  <2> HIDE DEF l
  <2>. QED  BY <1>1, <1>2, <1>6, <1>7, <1>8
<1>11. Dies(live, p) <=> Dies(live, q) \/ ~Passes(live, q[l], n)
  BY <1>8, <1>10 DEF Dies
<1>. QED  BY <1>1, <1>9, <1>11 DEF p

\* The ways to a place are those that were a step before, and at the root the
\* way that has not begun.
LEMMA WaysToAre ==
    ASSUME NEW g, NEW rank, Ranked(g, rank), NEW root \in g.nodes, NEW live, NEW s \in Places(g)
    PROVE  /\ WaysTo(g, root, live, s) =
                (IF s = <<root, root \notin live.nodes>> THEN {<<root>>} ELSE {})
                \cup Together(Stepped(g, root, live, s), CameFrom(g, root, live, s))
           /\ s[1] = root => \A k \in CameFrom(g, root, live, s) : WaysTo(g, root, live, k) = {}
<1> DEFINE W(k) == WaysTo(g, root, live, k)
           next == g.next[root.on]
           nodes == g.nodes
           n == s[1]
           way(p) == p \in Seq(nodes) /\ IsWay(next, {root}, p)
<1>1. \A k : \A p : p \in W(k) <=> way(p) /\ p[Len(p)] = k[1] /\ (Dies(live, p) <=> k[2])
  BY DEF WaysTo
<1>2. Descends(nodes, next, rank)
  BY DEF Ranked
<1>3. \A k : k \in CameFrom(g, root, live, s) <=>
          k \in Places(g) /\ n \in next[k[1]] /\ (s[2] <=> (k[2] \/ ~Passes(live, k[1], n)))
  BY DEF CameFrom, Onward, Step, Places
<1>4. n \in nodes /\ s[2] \in BOOLEAN /\ s = <<n, s[2]>>
  BY DEF Places
<1>5. \A k \in Places(g) : k[1] \in nodes /\ k[2] \in BOOLEAN
  BY DEF Places
<1>6. \A a \in nodes : \A b \in {TRUE, FALSE} : <<a, b>> \in Places(g)
  BY DEF Places
<1>7. root \in nodes
  OBVIOUS
<1> HIDE DEF W, next, nodes, n
<1>8. \A p : way(p) => Len(p) \in Nat /\ Len(p) >= 1 /\ p[1] = root /\ p[Len(p)] \in nodes
  BY DEF IsWay
<1>9. \A p : way(p) => (Len(p) > 1 => p[Len(p)] # root)
  BY <1>2, <1>7, WayGoesDown
<1>10. ASSUME NEW q, way(q), NEW k \in Places(g), q \in W(k)
       PROVE  Append(q, n) \in W(s) <=> k \in CameFrom(g, root, live, s)
  <2> DEFINE p == Append(q, n)
  <2>1. q[Len(q)] = k[1] /\ (Dies(live, q) <=> k[2])
    BY <1>1, <1>10
  <2>2. /\ IsWay(next, {root}, p) <=> IsWay(next, {root}, q) /\ n \in next[q[Len(q)]]
        /\ Dies(live, p) <=> Dies(live, q) \/ ~Passes(live, q[Len(q)], n)
        /\ p \in Seq(nodes) /\ p[Len(p)] = n
    <3>1. q \in Seq(nodes) /\ Len(q) >= 1
      BY <1>8, <1>10
    <3>2. n \in nodes
      BY <1>4
    <3> HIDE DEF p, way
    <3>3. /\ IsWay(next, {root}, Append(q, n)) <=> IsWay(next, {root}, q) /\ n \in next[q[Len(q)]]
          /\ Dies(live, Append(q, n)) <=> Dies(live, q) \/ ~Passes(live, q[Len(q)], n)
          /\ Append(q, n) \in Seq(nodes) /\ Append(q, n)[Len(Append(q, n))] = n
      BY ONLY <3>1, <3>2, OneMore
    <3>. QED  BY <3>3 DEF p
  <2> HIDE DEF p
  <2>3. p \in W(s) <=> way(p) /\ (Dies(live, p) <=> s[2])
    BY <1>1, <2>2 DEF n
  <2>4. way(p) <=> n \in next[k[1]]
    BY <1>10, <2>1, <2>2
  <2>5. Dies(live, p) <=> k[2] \/ ~Passes(live, k[1], n)
    BY <2>1, <2>2
  <2>6. p \in W(s) <=> k \in CameFrom(g, root, live, s)
    BY <1>3, <1>10, <2>3, <2>4, <2>5
  <2>. QED  BY <2>6 DEF p
<1>11. ASSUME NEW p \in W(s), Len(p) # 1
       PROVE  \E k \in CameFrom(g, root, live, s) : \E q \in W(k) : p = Append(q, n)
  <2> DEFINE q == Front(p)
             l == Len(p)
             k == <<q[Len(q)], Dies(live, q)>>
  <2>1. way(p) /\ l \in Nat /\ l > 1 /\ p[l] = n
    <3>1. way(p) /\ l \in Nat /\ l >= 1 /\ p[l] = n
      BY <1>1, <1>8 DEF n
    <3>2. l # 1
      BY <1>11
    <3> HIDE DEF l
    <3>3. l > 1
      BY <3>1, <3>2
    <3>. QED  BY <3>1, <3>3
  <2>2. q \in Seq(nodes) /\ Len(q) = l - 1 /\ \A i \in 1..(l - 1) : q[i] = p[i]
    <3>1. p # <<>>
      BY <2>1
    <3>. QED  BY <2>1, <3>1, FrontOf
  <2> HIDE DEF q
  <2>3. Len(q) >= 1 /\ Len(q) + 1 = l
    <3> HIDE DEF l
    <3>. QED  BY <2>1, <2>2
  <2>4. p = Append(q, n)
    <3> DEFINE r == Append(q, n)
    <3>1. r \in Seq(nodes) /\ Len(r) = Len(q) + 1 /\ (\A i \in 1..Len(q) : r[i] = q[i]) /\ r[Len(q) + 1] = n
      BY <1>4, <2>2, AppendOf
    <3> HIDE DEF r
    <3>2. Len(q) = l - 1
      BY <2>2
    <3> HIDE DEF l
    <3>3. \A i \in 1..l : i \in 1..(l - 1) \/ i = l
      BY <2>1
    <3>4. \A i \in 1..l : r[i] = p[i]
      BY <2>1, <2>2, <2>3, <3>1, <3>2, <3>3
    <3>5. Len(r) = Len(p)
      BY <2>3, <3>1 DEF l
    <3>6. r = p
      BY <2>1, <3>1, <3>4, <3>5, SeqEqual DEF l
    <3>. QED  BY <3>6 DEF r
  <2>5. IsWay(next, {root}, p) <=> IsWay(next, {root}, q) /\ n \in next[q[Len(q)]]
    BY <1>4, <2>2, <2>3, <2>4, OneMore
  <2>6. way(q)
    BY <2>1, <2>2, <2>5
  <2>7. k \in Places(g) /\ q \in W(k)
    <3>1. k[1] = q[Len(q)] /\ k[2] = Dies(live, q)
      OBVIOUS
    <3>2. Dies(live, q) \in {TRUE, FALSE}
      BY DEF Dies
    <3>3. k \in Places(g)
      BY <1>6, <1>8, <2>6, <3>2
    <3> HIDE DEF k
    <3>4. Dies(live, q) <=> k[2]
      BY <3>1
    <3>. QED  BY <1>1, <2>6, <3>1, <3>3, <3>4
  <2> HIDE DEF k
  <2>8. k \in CameFrom(g, root, live, s)
    BY <1>10, <2>4, <2>6, <2>7
  <2>. QED  BY <2>4, <2>7, <2>8
<1>12. ASSUME NEW p, way(p), Len(p) = 1 PROVE p = <<root>>
  <2> DEFINE X == nodes
  <2>1. <<root>> \in Seq(X) /\ Len(<<root>>) = 1 /\ <<root>>[1] = root
    <3>1. root \in X
      BY <1>7
    <3> HIDE DEF X
    <3>2. \A a \in X : <<a>> \in Seq(X) /\ Len(<<a>>) = 1 /\ <<a>>[1] = a
      OBVIOUS
    <3>. QED  BY <3>1, <3>2
  <2>2. p \in Seq(X) /\ p[1] = root
    BY <1>8, <1>12
  <2> HIDE DEF X
  <2>3. \A i \in 1..1 : p[i] = <<root>>[i]
    BY <2>1, <2>2
  <2>. QED  BY <1>12, <2>1, <2>2, <2>3, SeqEqual
<1>13. way(<<root>>) /\ Len(<<root>>) = 1 /\ <<root>>[1] = root /\ (Dies(live, <<root>>) <=> root \notin live.nodes)
  <2>1. \A a \in nodes : <<a>> \in Seq(nodes) /\ Len(<<a>>) = 1 /\ <<a>>[1] = a
    OBVIOUS
  <2>2. 1..(1 - 1) = {}
    OBVIOUS
  <2>. QED  BY <1>7, <2>1, <2>2 DEF IsWay, Dies, Lives
<1>14. <<root>> \in W(s) <=> s = <<root, root \notin live.nodes>>
  <2>1. <<root>> \in W(s) <=> root = n /\ (root \notin live.nodes <=> s[2])
    BY <1>1, <1>13 DEF n
  <2>2. (root \notin live.nodes <=> s[2]) <=> s[2] = (root \notin live.nodes)
    BY <1>4
  <2>3. s = <<root, root \notin live.nodes>> <=> n = root /\ s[2] = (root \notin live.nodes)
    <3> DEFINE at == <<root, root \notin live.nodes>>
               b == s[2]
    <3>1. at[1] = root /\ at[2] = (root \notin live.nodes) /\ s = <<n, b>>
      BY <1>4, Zenon
    <3>2. n = root /\ b = (root \notin live.nodes) => s = at
      BY <3>1, Zenon
    <3>3. s = at => n = root /\ b = (root \notin live.nodes)
      BY <3>1, Zenon DEF n
    <3>. QED  BY <3>2, <3>3
  <2>. QED  BY <2>1, <2>2, <2>3
<1>15. ASSUME NEW p \in W(s), Len(p) = 1 PROVE p = <<root>> /\ s = <<root, root \notin live.nodes>>
  BY <1>1, <1>12, <1>14, <1>15
<1>16. \A p : p \in Together(Stepped(g, root, live, s), CameFrom(g, root, live, s)) <=>
           \E k \in CameFrom(g, root, live, s) : \E q \in W(k) : p = Append(q, n)
  <2>1. \A k \in CameFrom(g, root, live, s) : Stepped(g, root, live, s)[k] = After(W(k), n)
    BY <1>3 DEF Stepped, W, n
  <2>2. \A p : p \in Together(Stepped(g, root, live, s), CameFrom(g, root, live, s)) <=>
           \E k \in CameFrom(g, root, live, s) : p \in Stepped(g, root, live, s)[k]
    BY DEF Together
  <2>3. \A k \in CameFrom(g, root, live, s) : \A p :
            p \in Stepped(g, root, live, s)[k] <=> \E q \in W(k) : p = Append(q, n)
    BY <2>1 DEF After
  <2>. QED  BY <2>2, <2>3
<1>17. \A k \in CameFrom(g, root, live, s) : \A q \in W(k) : way(q) /\ k \in Places(g) /\ Append(q, n) \in W(s)
  BY <1>1, <1>3, <1>10
<1>18. W(s) = (IF s = <<root, root \notin live.nodes>> THEN {<<root>>} ELSE {})
              \cup Together(Stepped(g, root, live, s), CameFrom(g, root, live, s))
  <2> DEFINE at == s = <<root, root \notin live.nodes>>
             B == IF at THEN {<<root>>} ELSE {}
  <2>1. \A p : p \in B <=> p = <<root>> /\ at
    OBVIOUS
  <2> HIDE DEF B
  <2>2. \A p : p \in W(s) <=> p \in B \/ \E k \in CameFrom(g, root, live, s) : \E q \in W(k) : p = Append(q, n)
    BY <1>11, <1>14, <1>15, <1>17, <2>1
  <2>. QED  BY <1>16, <2>2 DEF B
<1>19. ASSUME n = root, NEW k \in CameFrom(g, root, live, s), NEW q \in W(k) PROVE FALSE
  <2> DEFINE p == Append(q, n)
  <2>1. p \in W(s) /\ way(q)
    BY <1>17
  <2>2. way(p) /\ p[Len(p)] = root
    BY <1>1, <1>19, <2>1 DEF n
  <2>3. Len(p) = Len(q) + 1 /\ Len(q) \in Nat /\ Len(q) >= 1
    BY <1>4, <1>8, <2>1, AppendOf
  <2> HIDE DEF p
  <2> DEFINE l == Len(p)
             h == Len(q)
  <2>4. l > 1
    <3>1. l = h + 1 /\ h \in Nat /\ h >= 1
      BY <2>3
    <3> HIDE DEF l, h
    <3>. QED  BY <3>1
  <2>. QED  BY <1>9, <2>2, <2>4
<1>. QED  BY <1>18, <1>19 DEF W, n

\* What rootClasses keeps of the ways to a place.
Tally(order, P) == [count |-> Cardinality(P), least |-> IF P = {} THEN <<>> ELSE Least(order, P)]

\* One step of rootClasses.
Arrived(g, order, root, live, ways, s) ==
    LET from == {k \in g.nodes \X BOOLEAN : /\ s[1] \in Onward(g, root, k[1])
                                            /\ s[2] = Step(live, k, s[1])
                                            /\ ways[k].count > 0}
    IN  IF s = <<root, root \notin live.nodes>> THEN [count |-> 1, least |-> <<root>>]
        ELSE IF from = {} THEN [count |-> 0, least |-> <<>>]
        ELSE [count |-> Sum([k \in from |-> ways[k].count], from),
              least |-> Least(order, {Append(ways[k].least, s[1]) : k \in from})]

LEMMA PlacesAreFinite == ASSUME NEW g, IsFiniteSet(g.nodes) PROVE IsFiniteSet(Places(g))
<1>1. IsFiniteSet(BOOLEAN)
  <2>1. IsFiniteSet({TRUE, FALSE}) /\ BOOLEAN = {TRUE, FALSE}
    <3>1. IsFiniteSet({FALSE})
      BY FS_Singleton
    <3>2. IsFiniteSet({FALSE} \cup {TRUE})
      BY <3>1, FS_AddElement
    <3>3. {TRUE, FALSE} = {FALSE} \cup {TRUE}
      OBVIOUS
    <3>. QED  BY <3>2, <3>3
  <2>. QED  BY <2>1
<1>. QED  BY <1>1, FS_Product DEF Places

\* Ways that were at different places a step before are different.
LEMMA SteppedApart ==
    ASSUME NEW g, NEW root, NEW live, NEW s \in Places(g),
           NEW k \in Places(g), NEW l \in Places(g), k # l
    PROVE  Stepped(g, root, live, s)[k] \cap Stepped(g, root, live, s)[l] = {}
<1> DEFINE n == s[1]
<1>. SUFFICES ASSUME NEW p \in WaysTo(g, root, live, k), NEW q \in WaysTo(g, root, live, l), Append(p, n) = Append(q, n)
              PROVE  FALSE
  BY DEF Stepped, After
<1>1. /\ p \in Seq(g.nodes) /\ p[Len(p)] = k[1] /\ (Dies(live, p) <=> k[2])
      /\ q \in Seq(g.nodes) /\ q[Len(q)] = l[1] /\ (Dies(live, q) <=> l[2])
  BY DEF WaysTo
<1>2. n \in g.nodes
  BY DEF Places
<1>3. p = q
  <2> DEFINE a == Append(p, n)
  <2>1. Len(a) = Len(p) + 1 /\ \A i \in 1..Len(p) : a[i] = p[i]
    BY <1>1, <1>2, AppendOf
  <2>2. Len(a) = Len(q) + 1 /\ \A i \in 1..Len(q) : a[i] = q[i]
    BY <1>1, <1>2, AppendOf
  <2>3. Len(p) \in Nat /\ Len(q) \in Nat
    BY <1>1
  <2> HIDE DEF a
  <2>4. Len(p) = Len(q)
    <3> DEFINE u == Len(p)
               v == Len(q)
    <3>1. u + 1 = v + 1 /\ u \in Nat /\ v \in Nat
      BY <2>1, <2>2, <2>3
    <3> HIDE DEF u, v
    <3>2. u = v
      BY <3>1
    <3>. QED  BY <3>2 DEF u, v
  <2>. QED  BY <1>1, <2>1, <2>2, <2>4, SeqEqual
<1>4. k[1] = l[1] /\ (k[2] <=> l[2])
  BY <1>1, <1>3
<1>5. k[2] \in BOOLEAN /\ l[2] \in BOOLEAN /\ k = <<k[1], k[2]>> /\ l = <<l[1], l[2]>>
  BY DEF Places
<1>6. k[2] = l[2]
  BY <1>4, <1>5
<1>. QED  BY <1>4, <1>5, <1>6

\* The count and the least of the ways to a place follow from those of the
\* places before it.
LEMMA TallyStep ==
    ASSUME NEW g, NEW rank, Ranked(g, rank), NEW order, Orders(order, g.nodes), NEW root \in g.nodes, NEW live,
           NEW s \in Places(g), \A k \in CameFrom(g, root, live, s) : IsFiniteSet(WaysTo(g, root, live, k))
    PROVE  /\ IsFiniteSet(WaysTo(g, root, live, s))
           /\ \A h : (\A k \in CameFrom(g, root, live, s) : h[k] = Tally(order, WaysTo(g, root, live, k)))
                     => Arrived(g, order, root, live, h, s) = Tally(order, WaysTo(g, root, live, s))
<1> DEFINE W(k) == WaysTo(g, root, live, k)
           C == CameFrom(g, root, live, s)
           A == Stepped(g, root, live, s)
           from == {k \in C : W(k) # {}}
           at == s = <<root, root \notin live.nodes>>
           n == s[1]
           T == Together(A, from)
<1>1. /\ W(s) = (IF at THEN {<<root>>} ELSE {}) \cup Together(A, C)
      /\ n = root => \A k \in C : W(k) = {}
  BY WaysToAre
<1>2. IsFiniteSet(C) /\ C \in SUBSET Places(g)
  <2>1. IsFiniteSet(Places(g))
    BY PlacesAreFinite DEF Ranked
  <2>2. C \in SUBSET Places(g)
    BY DEF CameFrom
  <2>. QED  BY <2>1, <2>2, FS_Subset
<1>3. \A k \in C : A[k] = After(W(k), n)
  BY <1>2 DEF Stepped
<1>4. n \in g.nodes /\ \A k : W(k) \in SUBSET Seq(g.nodes)
  BY DEF Places, WaysTo
<1>5. \A k \in C : IsFiniteSet(W(k)) /\ Cardinality(W(k)) \in Nat
  BY FS_CardinalityType
<1>6. \A k, l \in C : k # l => A[k] \cap A[l] = {}
  BY <1>2, SteppedApart
<1> HIDE DEF W, C, A, at, n
<1>7. ASSUME NEW k \in C
      PROVE  /\ IsFiniteSet(A[k]) /\ Cardinality(A[k]) = Cardinality(W(k)) /\ A[k] \in SUBSET Seq(g.nodes)
             /\ W(k) # {} => Least(order, A[k]) = Append(Least(order, W(k)), n) /\ A[k] # {}
             /\ W(k) = {} => A[k] = {}
  <2>1. IsFiniteSet(W(k)) /\ W(k) \in SUBSET Seq(g.nodes)
    BY <1>4, <1>5
  <2>2. /\ IsFiniteSet(After(W(k), n)) /\ Cardinality(After(W(k), n)) = Cardinality(W(k))
        /\ After(W(k), n) \in SUBSET Seq(g.nodes)
        /\ W(k) # {} => Least(order, After(W(k), n)) = Append(Least(order, W(k)), n)
    BY <1>4, <2>1, AfterOf
  <2>3. W(k) = {} <=> After(W(k), n) = {}
    BY DEF After
  <2>. QED  BY <1>3, <2>2, <2>3
<1>8. /\ IsFiniteSet(from) /\ from \in SUBSET C
      /\ IsFiniteSet(T) /\ T \in SUBSET Seq(g.nodes)
  <2>1. from \in SUBSET C /\ IsFiniteSet(from)
    BY <1>2, FS_Subset
  <2>2. IsFiniteSet(Together(A, from))
    <3> HIDE DEF from
    <3>. QED  BY <1>2, <1>6, <1>7, <2>1, TogetherOf
  <2>3. T \in SUBSET Seq(g.nodes)
    BY <1>7 DEF Together
  <2>. QED  BY <2>1, <2>2, <2>3
<1>9. Together(A, C) = T
  BY <1>7 DEF Together
<1>10. T # {} <=> from # {}
  BY <1>7 DEF Together
<1>11. at => T = {} /\ W(s) = {<<root>>}
  <2>1. at => n = root
    BY DEF at, n
  <2>2. at => from = {}
    BY <1>1, <2>1
  <2>. QED  BY <1>1, <1>9, <1>10, <2>2
<1>12. ~at => W(s) = T
  BY <1>1, <1>9
<1>13. IsFiniteSet(W(s))
  <2>1. IsFiniteSet({<<root>>})
    BY FS_Singleton
  <2>. QED  BY <1>8, <1>11, <1>12, <2>1
<1>14. ASSUME NEW h, \A k \in C : h[k] = Tally(order, W(k))
       PROVE  Arrived(g, order, root, live, h, s) = Tally(order, W(s))
  <2> DEFINE f == [k \in from |-> h[k].count]
             L == {Append(h[k].least, n) : k \in from}
  <2>1. \A k \in C : h[k].count = Cardinality(W(k)) /\ (W(k) # {} => h[k].least = Least(order, W(k)))
    <3>. SUFFICES ASSUME NEW k \in C
                  PROVE  h[k].count = Cardinality(W(k)) /\ (W(k) # {} => h[k].least = Least(order, W(k)))
      OBVIOUS
    <3> DEFINE P == W(k)
               x == h[k]
    <3>1. x = Tally(order, P)
      BY <1>14
    <3> HIDE DEF P, x
    <3>2. x = [count |-> Cardinality(P), least |-> IF P = {} THEN <<>> ELSE Least(order, P)]
      BY <3>1 DEF Tally
    <3>3. x.count = Cardinality(P) /\ (P # {} => x.least = Least(order, P))
      BY <3>2
    <3>. QED  BY <3>3 DEF P, x
  <2>2. \A k \in C : h[k].count > 0 <=> W(k) # {}
    <3>1. \A k \in C : Cardinality(W(k)) = 0 <=> W(k) = {}
      BY <1>5, FS_EmptySet
    <3>. QED  BY <1>5, <2>1, <3>1
  <2>3. {k \in g.nodes \X BOOLEAN : s[1] \in Onward(g, root, k[1]) /\ s[2] = Step(live, k, s[1]) /\ h[k].count > 0} = from
    <3>1. \A k : k \in C <=> k \in g.nodes \X BOOLEAN /\ s[1] \in Onward(g, root, k[1]) /\ s[2] = Step(live, k, s[1])
      BY Zenon DEF C, CameFrom, Places
    <3>. QED  BY <2>2, <3>1
  <2> HIDE DEF from
  <2>4. Arrived(g, order, root, live, h, s) =
           IF at THEN [count |-> 1, least |-> <<root>>]
           ELSE IF from = {} THEN [count |-> 0, least |-> <<>>]
           ELSE [count |-> Sum(f, from), least |-> Least(order, L)]
    BY <2>3, Zenon DEF Arrived, at, n
  <2>5. CASE at
    <3>1. Cardinality({<<root>>}) = 1
      BY FS_Singleton
    <3>2. Least(order, {<<root>>}) = <<root>>
      <4>1. <<root>> \in Seq(g.nodes)
        <5> DEFINE X == g.nodes
        <5>1. root \in X
          OBVIOUS
        <5> HIDE DEF X
        <5>2. <<root>> \in Seq(X)
          BY ONLY <5>1
        <5>. QED  BY <5>2 DEF X
      <4>2. {<<root>>} \in SUBSET Seq(g.nodes)
        BY <4>1
      <4>3. IsLeast(order, {<<root>>}, <<root>>)
        BY DEF IsLeast
      <4>. QED  BY <4>2, <4>3, LeastNamed
    <3>3. {<<root>>} # {}
      OBVIOUS
    <3>. QED  BY <1>11, <2>4, <2>5, <3>1, <3>2, <3>3, Zenon DEF Tally
  <2>6. CASE ~at /\ from = {}
    <3>1. W(s) = {} /\ Cardinality({}) = 0
      BY <1>10, <1>12, <2>6, FS_EmptySet
    <3>. QED  BY <2>4, <2>6, <3>1 DEF Tally
  <2>7. CASE ~at /\ from # {}
    <3>1. \A k \in from : IsFiniteSet(A[k]) /\ f[k] = Cardinality(A[k])
      BY <1>7, <1>8, <2>1
    <3> HIDE DEF f, T
    <3>2. Sum(f, from) = Cardinality(T)
      BY <1>6, <1>8, <3>1, SumCounts DEF T
    <3>3. \A k \in from : Least(order, A[k]) = Append(h[k].least, n) /\ A[k] # {}
      BY <1>7, <1>8, <2>1 DEF from
    <3>4. L = {Least(order, A[k]) : k \in from}
      BY <3>3
    <3> HIDE DEF L
    <3>5. Least(order, L) = Least(order, T)
      <4>1. /\ IsFiniteSet(Together(A, from)) /\ Together(A, from) \in SUBSET Seq(g.nodes)
            /\ Orders(order, g.nodes) /\ from # {} /\ \A k \in from : A[k] # {}
        BY <1>8, <2>7, <3>3 DEF T
      <4>2. Least(order, {Least(order, A[k]) : k \in from}) = Least(order, Together(A, from))
        BY ONLY <4>1, LeastOfLeast
      <4>. QED  BY <3>4, <4>2 DEF T
    <3>. QED  BY <1>10, <1>12, <2>4, <2>7, <3>2, <3>5 DEF Tally
  <2>. QED  BY <2>5, <2>6, <2>7
<1>. QED  BY <1>13, <1>14 DEF W, C

\* How many nodes stand above a place.
Height(g, rank) == [s \in Places(g) |-> Cardinality({n \in g.nodes : rank[n] > rank[s[1]]})]

\* The places before a place stand higher.
LEMMA CameFromAbove ==
    ASSUME NEW g, NEW rank, Ranked(g, rank), NEW root \in g.nodes, NEW live
    PROVE  Descends(Places(g), [s \in Places(g) |-> CameFrom(g, root, live, s)], Height(g, rank))
<1> DEFINE C == [s \in Places(g) |-> CameFrom(g, root, live, s)]
           nodes == g.nodes
           next == g.next[root.on]
           above(a) == {n \in nodes : rank[n] > rank[a]}
           height == Height(g, rank)
<1>1. IsFiniteSet(Places(g)) /\ IsFiniteSet(nodes) /\ Descends(nodes, next, rank)
  BY PlacesAreFinite DEF Ranked
<1>2. C \in [Places(g) -> SUBSET Places(g)]
  BY DEF CameFrom
<1>3. \A a \in nodes : IsFiniteSet(above(a)) /\ Cardinality(above(a)) \in Nat
  BY <1>1, FS_Subset, FS_CardinalityType
<1>4. \A s \in Places(g) : s[1] \in nodes /\ height[s] = Cardinality(above(s[1]))
  BY DEF Places, Height
<1>5. height \in [Places(g) -> Nat]
  <2>1. height = [s \in Places(g) |-> height[s]]
    BY DEF Height
  <2> HIDE DEF height, above
  <2>. QED  BY <1>3, <1>4, <2>1
<1>6. ASSUME NEW a \in nodes, NEW b \in next[a] PROVE Cardinality(above(a)) < Cardinality(above(b))
  <2> DEFINE P == above(a)
             Q == above(b)
  <2>1. b \in nodes /\ rank[b] < rank[a] /\ \A n \in nodes : rank[n] \in Nat
    BY <1>1 DEF Descends
  <2> HIDE DEF nodes, next
  <2>2. P \in SUBSET Q /\ a \in Q /\ a \notin P
    <3>1. \A x, y, z \in Nat : x < y /\ y < z => x < z
      OBVIOUS
    <3>2. \A n \in nodes : rank[n] > rank[a] => rank[n] > rank[b]
      BY <2>1, <3>1
    <3>. QED  BY <2>1, <3>2
  <2>3. IsFiniteSet(Q) /\ Cardinality(P) \in Nat /\ Cardinality(Q) \in Nat
    BY <1>3, <2>1
  <2> HIDE DEF P, Q
  <2>4. Cardinality(P) <= Cardinality(Q) /\ Cardinality(P) # Cardinality(Q)
    BY <2>2, <2>3, FS_Subset
  <2>5. Cardinality(P) < Cardinality(Q)
    BY <2>3, <2>4
  <2>. QED  BY <2>5 DEF P, Q
<1>7. ASSUME NEW s \in Places(g), NEW k \in C[s] PROVE height[k] < height[s]
  <2>1. k \in Places(g) /\ s[1] \in next[k[1]]
    BY DEF CameFrom, Onward
  <2> HIDE DEF C, above, next, height
  <2>. QED  BY <1>4, <1>6, <2>1
<1> HIDE DEF C, height
<1>. QED  BY <1>1, <1>2, <1>5, <1>7 DEF Descends, C, height

\* rootClasses' paths: how many ways lead to each place, and the least.
LEMMA WaysAre ==
    ASSUME NEW g, NEW rank, Ranked(g, rank), NEW order, Orders(order, g.nodes), NEW root \in g.nodes, NEW live
    PROVE  /\ \A s \in Places(g) : IsFiniteSet(WaysTo(g, root, live, s))
           /\ Ways(g, order, root, live) = [s \in Places(g) |-> Tally(order, WaysTo(g, root, live, s))]
<1> DEFINE W(s) == WaysTo(g, root, live, s)
           came == [s \in Places(g) |-> CameFrom(g, root, live, s)]
           sol(h) == h = [s \in Places(g) |-> Arrived(g, order, root, live, h, s)]
           h0 == [s \in Places(g) |-> Tally(order, W(s))]
           height == Height(g, rank)
<1>1. Descends(Places(g), came, height)
  BY CameFromAbove
<1>2. \A s \in Places(g) : came[s] = CameFrom(g, root, live, s) /\ came[s] \subseteq Places(g)
  BY DEF CameFrom
<1>3. \A s \in Places(g) : IsFiniteSet(W(s))
  <2> DEFINE T == {s \in Places(g) : IsFiniteSet(W(s))}
  <2>1. \A s \in Places(g) : (\A k \in came[s] : k \in T) => s \in T
    BY <1>2, TallyStep
  <2> HIDE DEF T, came, height
  <2>2. Places(g) \subseteq T
    BY <1>1, <2>1, FromBelow
  <2>. QED  BY <2>2 DEF T
<1>4. ASSUME NEW s \in Places(g), NEW h, \A k \in came[s] : h[k] = Tally(order, W(k))
      PROVE  Arrived(g, order, root, live, h, s) = Tally(order, W(s))
  <2>1. \A k \in CameFrom(g, root, live, s) : IsFiniteSet(W(k)) /\ h[k] = Tally(order, W(k))
    BY <1>2, <1>3, <1>4
  <2>. QED  BY <2>1, TallyStep
<1> HIDE DEF came, height, W
<1>5. sol(h0)
  <2>1. \A s \in Places(g) : \A k \in came[s] : h0[k] = Tally(order, W(k))
    BY <1>2
  <2> HIDE DEF h0
  <2>2. \A s \in Places(g) : Arrived(g, order, root, live, h0, s) = Tally(order, W(s))
    BY <1>4, <2>1
  <2>3. h0 = [s \in Places(g) |-> Tally(order, W(s))]
    BY DEF h0
  <2>. QED  BY <2>2, <2>3
<1>6. ASSUME NEW h, sol(h) PROVE [s \in Places(g) |-> h[s]] = h0
  <2> DEFINE T == {s \in Places(g) : h[s] = Tally(order, W(s))}
  <2>1. \A s \in Places(g) : h[s] = Arrived(g, order, root, live, h, s)
    BY <1>6
  <2> HIDE DEF sol
  <2>2. \A s \in Places(g) : (\A k \in came[s] : k \in T) => s \in T
    BY <1>4, <2>1
  <2> HIDE DEF T
  <2>3. Places(g) \subseteq T
    BY <1>1, <2>2, FromBelow
  <2>4. \A s \in Places(g) : h[s] = Tally(order, W(s))
    BY <2>3 DEF T
  <2>. QED  BY <2>4
<1> DEFINE ways == CHOOSE h : sol(h)
<1> HIDE DEF h0
<1>7. sol(ways)
  <2> HIDE DEF sol
  <2>. QED  BY <1>5
<1>8. Ways(g, order, root, live) = [s \in Places(g) |-> ways[s]]
  BY Zenon DEF Ways, Arrived, Places
<1> HIDE DEF ways, sol
<1>9. Ways(g, order, root, live) = h0
  BY <1>6, <1>7, <1>8
<1>. QED  BY <1>3, <1>9 DEF h0, W

\* The walks of a root that end where there is a fact to observe.
Long(g, r) == {w \in RootWalks(g, r) : w[Len(w)].on \in g.observes}

\* Those to one component, dead or not.
Arrivals(g, r, live, c, dead) == {w \in Long(g, r) : w[Len(w)].on = c /\ (Dies(live, w) <=> dead)}

\* The walks of a root are its ways of a step and more.
LEMMA WalksAreWays ==
    ASSUME NEW g, NEW rank, Ranked(g, rank), NEW r \in g.nodes
    PROVE  \A w : w \in RootWalks(g, r) <=> w \in Seq(g.nodes) /\ IsWay(g.next[r.on], {r}, w) /\ Len(w) >= 2
<1>1. /\ g.next[r.on] \in [g.nodes -> SUBSET g.nodes] /\ Cardinality(g.components) \in Nat
      /\ \A p \in Seq(g.nodes) : IsWay(g.next[r.on], {r}, p) => Len(p) <= Cardinality(g.components)
  BY DEF Ranked, Descends
<1>2. WalksOf(g, {r}) = RootWalks(g, r)
  BY DEF WalksOf
<1>3. \A w : w \in WalksOf(g, {r}) <=> w \in Seq(g.nodes) /\ IsWay(g.next[r.on], {r}, w) /\ Len(w) >= 2
  BY <1>1, WalksAre
<1>. QED  BY <1>2, <1>3

\* The nodes of a component that a walk may end in.
EndsAt(g, root, c) == {n \in g.nodes \ {root} : n.on = c}

\* The walks to a component are the ways to its nodes.
LEMMA ArrivalsAre ==
    ASSUME NEW g, NEW rank, Ranked(g, rank), NEW root \in g.nodes, NEW live, NEW c \in g.observes, NEW dead \in BOOLEAN
    PROVE  \A w : w \in Arrivals(g, root, live, c, dead) <=>
                     \E n \in EndsAt(g, root, c) : w \in WaysTo(g, root, live, <<n, dead>>)
<1> DEFINE next == g.next[root.on]
           nodes == g.nodes
           way(p) == p \in Seq(nodes) /\ IsWay(next, {root}, p)
<1>1. Descends(nodes, next, rank) /\ root \in nodes
  BY DEF Ranked
<1>2. \A w : w \in Arrivals(g, root, live, c, dead) <=>
         way(w) /\ Len(w) >= 2 /\ w[Len(w)].on = c /\ (Dies(live, w) <=> dead)
  BY WalksAreWays DEF Arrivals, Long
<1>3. \A n, w : w \in WaysTo(g, root, live, <<n, dead>>) <=> way(w) /\ w[Len(w)] = n /\ (Dies(live, w) <=> dead)
  BY DEF WaysTo
<1> HIDE DEF nodes, next
<1>4. ASSUME NEW w, way(w) PROVE w[Len(w)] \in nodes /\ (Len(w) >= 2 <=> w[Len(w)] # root)
  <2> DEFINE l == Len(w)
  <2>1. l \in Nat /\ l >= 1 /\ w[1] = root /\ w[l] \in nodes
    BY <1>4 DEF IsWay
  <2>2. l > 1 => w[l] # root
    BY <1>1, <1>4, WayGoesDown
  <2> HIDE DEF l
  <2>3. l = 1 \/ (l > 1 /\ l >= 2)
    BY <2>1
  <2>4. ~(1 >= 2)
    OBVIOUS
  <2>5. w[l] \in nodes /\ (l >= 2 <=> w[l] # root)
    BY <2>1, <2>2, <2>3, <2>4
  <2>. QED  BY <2>5 DEF l
<1>5. \A n : n \in EndsAt(g, root, c) <=> n \in nodes /\ n # root /\ n.on = c
  BY DEF EndsAt, nodes
<1>. QED  BY <1>2, <1>3, <1>4, <1>5

\* What rootClasses makes of the nodes a component's walks end in: there are
\* some when there are walks, with the walks' number and the least of them.
Tallied(g, order, root, live, c, dead) ==
    LET ways == Ways(g, order, root, live)
        ends == {n \in g.nodes \ {root} : n.on = c /\ ways[<<n, dead>>].count > 0}
        all == Arrivals(g, root, live, c, dead)
    IN  /\ ends = {} <=> all = {}
        /\ Sum([n \in ends |-> ways[<<n, dead>>].count], ends) = Cardinality(all)
        /\ ends # {} => Least(order, {ways[<<n, dead>>].least : n \in ends}) = Least(order, all)

LEMMA EndsAreTallied ==
    ASSUME NEW g, NEW rank, Ranked(g, rank), NEW order, Orders(order, g.nodes), NEW root \in g.nodes, NEW live,
           NEW c \in g.observes, NEW dead \in BOOLEAN
    PROVE  Tallied(g, order, root, live, c, dead)
<1> DEFINE ways == Ways(g, order, root, live)
           ends == {n \in g.nodes \ {root} : n.on = c /\ ways[<<n, dead>>].count > 0}
           all == Arrivals(g, root, live, c, dead)
           W(n) == WaysTo(g, root, live, <<n, dead>>)
           A == [n \in g.nodes |-> W(n)]
           f == [n \in ends |-> ways[<<n, dead>>].count]
           L == {ways[<<n, dead>>].least : n \in ends}
<1>1. \A n \in g.nodes : <<n, dead>> \in Places(g)
  BY DEF Places
<1>2. \A n \in g.nodes : /\ IsFiniteSet(W(n)) /\ W(n) \in SUBSET Seq(g.nodes)
                         /\ ways[<<n, dead>>] = Tally(order, W(n))
  <2>1. /\ \A s \in Places(g) : IsFiniteSet(WaysTo(g, root, live, s))
        /\ ways = [s \in Places(g) |-> Tally(order, WaysTo(g, root, live, s))]
    BY WaysAre
  <2> HIDE DEF ways
  <2>2. \A s : WaysTo(g, root, live, s) \in SUBSET Seq(g.nodes)
    BY DEF WaysTo
  <2>. QED  BY <1>1, <2>1, <2>2
<1> HIDE DEF ways, W
<1>3. ASSUME NEW n \in g.nodes
      PROVE  /\ ways[<<n, dead>>].count = Cardinality(W(n))
             /\ W(n) # {} => ways[<<n, dead>>].least = Least(order, W(n))
             /\ ways[<<n, dead>>].count > 0 <=> W(n) # {}
  <2> DEFINE P == W(n)
             x == ways[<<n, dead>>]
  <2>1. x = Tally(order, P) /\ IsFiniteSet(P)
    BY <1>2
  <2> HIDE DEF P, x
  <2>2. Cardinality(P) \in Nat /\ (Cardinality(P) = 0 <=> P = {})
    BY <2>1, FS_CardinalityType, FS_EmptySet
  <2>3. x.count = Cardinality(P) /\ (P # {} => x.least = Least(order, P))
    BY <2>1 DEF Tally
  <2>4. x.count > 0 <=> P # {}
    BY <2>2, <2>3
  <2>. QED  BY <2>3, <2>4 DEF P, x
<1>4. \A n : n \in ends <=> n \in EndsAt(g, root, c) /\ W(n) # {}
  BY <1>3 DEF EndsAt
<1>5. \A w : w \in all <=> \E n \in EndsAt(g, root, c) : w \in W(n)
  BY ArrivalsAre DEF W
<1>6. ends \in SUBSET g.nodes /\ IsFiniteSet(ends)
  <2>1. ends \in SUBSET g.nodes
    OBVIOUS
  <2> HIDE DEF ends
  <2>. QED  BY <2>1, FS_Subset DEF Ranked
<1>7. \A n \in ends : f[n] = Cardinality(A[n]) /\ IsFiniteSet(A[n]) /\ A[n] = W(n)
  BY <1>2, <1>3, <1>6
<1> HIDE DEF ends, all, A
<1>8. all = Together(A, ends)
  <2>1. \A w : w \in Together(A, ends) <=> \E n \in ends : w \in W(n)
    BY <1>7 DEF Together
  <2>. QED  BY <1>4, <1>5, <2>1
<1>9. \A m, n \in ends : m # n => A[m] \cap A[n] = {}
  <2>1. \A n : \A w \in W(n) : w[Len(w)] = n
    BY DEF WaysTo, W
  <2> HIDE DEF f
  <2>2. \A n \in ends : \A w \in A[n] : w[Len(w)] = n
    BY <1>7, <2>1
  <2>. QED  BY <2>2
<1> HIDE DEF f
<1>10. Sum(f, ends) = Cardinality(all)
  BY <1>6, <1>7, <1>8, <1>9, SumCounts
<1>11. ends = {} <=> all = {}
  BY <1>4, <1>7, <1>8 DEF Together
<1>12. ASSUME ends # {} PROVE Least(order, L) = Least(order, all)
  <2>1. L = {Least(order, A[n]) : n \in ends}
    <3>1. \A n \in ends : ways[<<n, dead>>].least = Least(order, A[n])
      BY <1>3, <1>4, <1>6, <1>7
    <3>. QED  BY <3>1
  <2> HIDE DEF L
  <2>2. IsFiniteSet(Together(A, ends))
    <3>1. ends \in SUBSET ends
      OBVIOUS
    <3>. QED  BY <1>6, <1>7, <1>9, <3>1, TogetherOf
  <2>3. Together(A, ends) \in SUBSET Seq(g.nodes)
    BY <1>2, <1>6, <1>7 DEF Together
  <2>4. \A n \in ends : A[n] # {}
    BY <1>4, <1>7
  <2>5. Orders(order, g.nodes)
    OBVIOUS
  <2>6. Least(order, {Least(order, A[n]) : n \in ends}) = Least(order, Together(A, ends))
    BY ONLY <1>12, <2>2, <2>3, <2>4, <2>5, LeastOfLeast
  <2>. QED  BY <1>8, <2>1, <2>6
<1>. QED  BY <1>10, <1>11, <1>12, Zenon DEF Tallied, ways, ends, all, f, L

\* The chains of a root.
From(chains, r) == {v \in chains : v[1] = r}

\* Those of them that end in a component.
AlikeWays(chains, r, c) == {v \in chains : v[1] = r /\ v[Len(v)].on = c}

\* The class of a chain in a listing.
ClassIn(order, chains, dead, r, c) ==
    Class(r, c, dead, Cardinality(AlikeWays(chains, r, c)), Least(order, AlikeWays(chains, r, c)))

\* The chains of a listing that are dead, or live.
Half(chains, live, dead) == {w \in chains : Dies(live, w) <=> dead}

LEMMA StandsAloneIs ==
    ASSUME NEW g, NEW rank, Ranked(g, rank), NEW r \in g.nodes, NEW live
    PROVE  StandsAlone(g, r, live) <=> r.on \in g.observes /\ Long(g, r) = {}
<1>1. StandsAlone(g, r, live) <=> r.on \in g.observes /\ Going(g, r, AllLive(g)) = {}
  BY FromRootIs
<1>2. Going(g, r, AllLive(g)) = {w \in RootWalks(g, r) : w[Len(w)].on \in g.observes /\ Lives(AllLive(g), w)}
  BY GoingIs
<1>3. \A w \in Long(g, r) : Lives(AllLive(g), w)
  BY AllLives DEF ChainsOf, Long
<1>4. Going(g, r, AllLive(g)) = Long(g, r)
  BY <1>2, <1>3 DEF Long
<1>. QED  BY <1>1, <1>4

\* What the listing has of one root.
LEMMA FromIs ==
    ASSUME NEW g, NEW rank, Ranked(g, rank), NEW r \in g.nodes
    PROVE  From(Expand(g), r) = IF Long(g, r) # {} THEN Long(g, r) ELSE {w \in {<<r>>} : r.on \in g.observes}
<1>1. \A x \in g.nodes : \A w \in ChainsOf(g, x) : w[1] = x
  BY AllLives
<1>2. From(Expand(g), r) = ChainsOf(g, r)
  BY <1>1, ExpandIs DEF From
<1>. QED  BY <1>2 DEF ChainsOf, Long

\* rootClasses: the classes of a root are those of its chains in the listing.
LEMMA RootClassesAre ==
    ASSUME NEW g, NEW rank, Ranked(g, rank), NEW order, Orders(order, g.nodes), NEW r \in g.nodes, NEW live
    PROVE  \A x : x \in RootClasses(g, order, r, live, Ways(g, order, r, live)) <=>
              \E dead \in BOOLEAN : \E w \in From(Half(Expand(g), live, dead), r) :
                 x = ClassIn(order, Half(Expand(g), live, dead), dead, r, w[Len(w)].on)
<1> DEFINE ways == Ways(g, order, r, live)
           ends(c, dead) == {n \in g.nodes \ {r} : n.on = c /\ ways[<<n, dead>>].count > 0}
           all(c, dead) == Arrivals(g, r, live, c, dead)
           sum(c, dead) == Sum([n \in ends(c, dead) |-> ways[<<n, dead>>].count], ends(c, dead))
           least(c, dead) == Least(order, {ways[<<n, dead>>].least : n \in ends(c, dead)})
           half(dead) == Half(Expand(g), live, dead)
           counted(c, dead) == Class(r, c, dead, Cardinality(all(c, dead)), Least(order, all(c, dead)))
           alone == Class(r, r.on, r \notin live.nodes, 1, <<r>>)
           found == {Class(r, k[1], k[2], sum(k[1], k[2]), least(k[1], k[2])) :
                        k \in {j \in g.observes \X BOOLEAN : ends(j[1], j[2]) # {}}}
<1>1. RootClasses(g, order, r, live, ways) = found \cup {alone : y \in {x \in {r} : StandsAlone(g, x, live)}}
  BY Zenon DEF RootClasses
<1>2. ASSUME NEW c \in g.observes, NEW dead \in BOOLEAN
      PROVE  /\ ends(c, dead) = {} <=> all(c, dead) = {}
             /\ sum(c, dead) = Cardinality(all(c, dead))
             /\ ends(c, dead) # {} => least(c, dead) = Least(order, all(c, dead))
  <2>1. Tallied(g, order, r, live, c, dead)
    BY EndsAreTallied
  <2>. QED  BY <2>1, Zenon DEF Tallied
<1> HIDE DEF ends, sum, least, ways
<1>3. \A x : x \in found <=> \E c \in g.observes, dead \in BOOLEAN : all(c, dead) # {} /\ x = counted(c, dead)
  <2> DEFINE was(c, dead) == Class(r, c, dead, sum(c, dead), least(c, dead))
  <2>1. \A x : x \in found <=> \E c \in g.observes, dead \in BOOLEAN : ends(c, dead) # {} /\ x = was(c, dead)
    <3> HIDE DEF was
    <3>1. found = {was(k[1], k[2]) : k \in {j \in g.observes \X BOOLEAN : ends(j[1], j[2]) # {}}}
      BY DEF was
    <3> HIDE DEF found
    <3>2. ASSUME NEW x \in found PROVE \E c \in g.observes, dead \in BOOLEAN : ends(c, dead) # {} /\ x = was(c, dead)
      <4>1. PICK k \in g.observes \X BOOLEAN : ends(k[1], k[2]) # {} /\ x = was(k[1], k[2])
        BY <3>1
      <4>2. k[1] \in g.observes /\ k[2] \in BOOLEAN
        OBVIOUS
      <4>. QED  BY <4>1, <4>2
    <3>3. ASSUME NEW c \in g.observes, NEW dead \in BOOLEAN, ends(c, dead) # {} PROVE was(c, dead) \in found
      <4> DEFINE k == <<c, dead>>
      <4>1. k \in g.observes \X BOOLEAN /\ k[1] = c /\ k[2] = dead
        OBVIOUS
      <4> HIDE DEF k
      <4>2. ends(k[1], k[2]) # {} /\ was(k[1], k[2]) = was(c, dead)
        BY <3>3, <4>1
      <4>. QED  BY <3>1, <4>1, <4>2
    <3>. QED  BY <3>2, <3>3
  <2>2. \A c \in g.observes, dead \in BOOLEAN : ends(c, dead) # {} => was(c, dead) = counted(c, dead)
    BY <1>2
  <2> HIDE DEF was, counted, found
  <2>. QED  BY <1>2, <2>1, <2>2
<1>4. StandsAlone(g, r, live) <=> r.on \in g.observes /\ Long(g, r) = {}
  BY StandsAloneIs
<1>5. From(Expand(g), r) = IF Long(g, r) # {} THEN Long(g, r) ELSE {w \in {<<r>>} : r.on \in g.observes}
  BY FromIs
<1>6. \A dead : From(half(dead), r) = {w \in From(Expand(g), r) : Dies(live, w) <=> dead}
  BY DEF From, Half
<1>7. \A dead, c : AlikeWays(half(dead), r, c) = {w \in From(half(dead), r) : w[Len(w)].on = c}
  BY DEF From, AlikeWays
<1>8. \A w \in Long(g, r) : w[Len(w)].on \in g.observes
  BY DEF Long
<1> HIDE DEF half, found, alone, counted, all
<1>9. CASE Long(g, r) # {}
  <2>1. \A dead : From(half(dead), r) = {w \in Long(g, r) : Dies(live, w) <=> dead}
    BY <1>5, <1>6, <1>9
  <2>2. \A dead, c : AlikeWays(half(dead), r, c) = all(c, dead)
    BY <1>7, <2>1 DEF Arrivals, all
  <2>3. \A dead, c : ClassIn(order, half(dead), dead, r, c) = counted(c, dead)
    BY <2>2 DEF ClassIn, counted
  <2>4. \A dead, c : all(c, dead) # {} <=> \E w \in From(half(dead), r) : w[Len(w)].on = c
    BY <2>1 DEF Arrivals, all
  <2>5. \A x : x \in found <=> \E dead \in BOOLEAN : \E w \in From(half(dead), r) : x = counted(w[Len(w)].on, dead)
    <3>1. \A dead : \A w \in From(half(dead), r) : w[Len(w)].on \in g.observes
      BY <1>8, <2>1
    <3>2. ASSUME NEW x \in found PROVE \E dead \in BOOLEAN : \E w \in From(half(dead), r) : x = counted(w[Len(w)].on, dead)
      <4>1. PICK c \in g.observes, dead \in BOOLEAN : all(c, dead) # {} /\ x = counted(c, dead)
        BY <1>3
      <4>2. PICK w \in From(half(dead), r) : w[Len(w)].on = c
        BY <2>4, <4>1
      <4>3. x = counted(w[Len(w)].on, dead)
        BY <4>1, <4>2
      <4>. QED  BY <4>3
    <3>3. ASSUME NEW dead \in BOOLEAN, NEW w \in From(half(dead), r) PROVE counted(w[Len(w)].on, dead) \in found
      <4> DEFINE c == w[Len(w)].on
      <4>1. c \in g.observes /\ all(c, dead) # {}
        BY <2>4, <3>1
      <4> HIDE DEF c
      <4>2. counted(c, dead) \in found
        BY <1>3, <4>1
      <4>. QED  BY <4>2 DEF c
    <3>. QED  BY <3>2, <3>3
  <2>6. RootClasses(g, order, r, live, ways) = found
    BY <1>1, <1>4, <1>9
  <2>. QED  BY <2>3, <2>5, <2>6 DEF ways, half
<1>10. CASE Long(g, r) = {}
  <2>1. found = {}
    <3>1. \A c, dead : all(c, dead) = {}
      BY <1>10 DEF Arrivals, all
    <3>. QED  BY <1>3, <3>1
  <2>2. \A x : x \in RootClasses(g, order, r, live, ways) <=> x = alone /\ r.on \in g.observes
    BY <1>1, <1>4, <1>10, <2>1
  <2>3. Dies(live, <<r>>) <=> r \notin live.nodes
    BY DEF Dies, Lives
  <2>4. \A dead, w : w \in From(half(dead), r) <=> w = <<r>> /\ r.on \in g.observes /\ (r \notin live.nodes <=> dead)
    BY <1>5, <1>6, <1>10, <2>3
  <2>5. ASSUME r.on \in g.observes, NEW dead \in BOOLEAN, r \notin live.nodes <=> dead
        PROVE  ClassIn(order, half(dead), dead, r, r.on) = alone
    <3>1. AlikeWays(half(dead), r, r.on) = {<<r>>}
      <4>1. <<r>>[Len(<<r>>)] = r
        OBVIOUS
      <4> DEFINE these == From(half(dead), r)
      <4>2. \A w : w \in these <=> w = <<r>>
        BY <2>4, <2>5
      <4>3. AlikeWays(half(dead), r, r.on) = {w \in these : w[Len(w)].on = r.on}
        BY <1>7
      <4> HIDE DEF these
      <4>4. \A w : w \in AlikeWays(half(dead), r, r.on) <=> w = <<r>>
        BY <4>1, <4>2, <4>3
      <4>. QED  BY <4>4
    <3>2. Least(order, {<<r>>}) = <<r>>
      <4>1. <<r>> \in Seq(g.nodes)
        <5> DEFINE X == g.nodes
        <5>1. r \in X
          OBVIOUS
        <5> HIDE DEF X
        <5>2. <<r>> \in Seq(X)
          BY ONLY <5>1
        <5>. QED  BY <5>2 DEF X
      <4>2. {<<r>>} \in SUBSET Seq(g.nodes) /\ IsLeast(order, {<<r>>}, <<r>>)
        BY <4>1 DEF IsLeast
      <4>. QED  BY <4>2, LeastNamed
    <3>3. Cardinality({<<r>>}) = 1
      BY FS_Singleton
    <3>4. dead = (r \notin live.nodes)
      BY <2>5
    <3>. QED  BY <3>1, <3>2, <3>3, <3>4, Zenon DEF ClassIn, alone
  <2>6. \A x : (\E dead \in BOOLEAN : \E w \in From(half(dead), r) :
                   x = ClassIn(order, half(dead), dead, r, w[Len(w)].on))
               <=> x = alone /\ r.on \in g.observes
    <3> DEFINE dead == r \notin live.nodes
    <3>1. <<r>>[Len(<<r>>)] = r
      OBVIOUS
    <3>2. dead \in BOOLEAN /\ (r \notin live.nodes <=> dead)
      OBVIOUS
    <3> HIDE DEF dead
    <3>3. ASSUME r.on \in g.observes
          PROVE  \E d \in BOOLEAN : \E w \in From(half(d), r) : alone = ClassIn(order, half(d), d, r, w[Len(w)].on)
      <4>1. <<r>> \in From(half(dead), r)
        BY <2>4, <3>2, <3>3
      <4>2. ClassIn(order, half(dead), dead, r, r.on) = alone
        BY <2>5, <3>2, <3>3
      <4>. QED  BY <3>1, <3>2, <4>1, <4>2
    <3>4. ASSUME NEW d \in BOOLEAN, NEW w \in From(half(d), r)
          PROVE  r.on \in g.observes /\ ClassIn(order, half(d), d, r, w[Len(w)].on) = alone
      <4>1. w = <<r>> /\ r.on \in g.observes /\ (r \notin live.nodes <=> d)
        BY <2>4
      <4>2. ClassIn(order, half(d), d, r, r.on) = alone
        BY <2>5, <4>1
      <4>. QED  BY <3>1, <4>1, <4>2
    <3>. QED  BY <3>3, <3>4
  <2>. QED  BY <2>2, <2>6 DEF ways, half
<1>. QED  BY <1>9, <1>10

\* Classes: read off the graph, they are those of the listing, live and dead
\* chains apart.
LEMMA ClassesAre ==
    ASSUME NEW g, NEW rank, Ranked(g, rank), NEW order, Orders(order, g.nodes), NEW live
    PROVE  Classes(g, order, live) =
              Representatives(order, LiveOf(Expand(g), live), FALSE)
              \cup Representatives(order, Expand(g) \ LiveOf(Expand(g), live), TRUE)
<1> DEFINE chains == Expand(g)
           half(dead) == Half(chains, live, dead)
           rep(dead, w) == ClassIn(order, half(dead), dead, w[1], w[Len(w)].on)
           lives == LiveOf(chains, live)
<1>1. half(FALSE) = lives /\ half(TRUE) = chains \ lives
  BY DEF Half, LiveOf, Dies, Lives
<1>2. ASSUME NEW dead PROVE \A x : x \in Representatives(order, half(dead), dead) <=> \E w \in half(dead) : x = rep(dead, w)
  <2> DEFINE X == half(dead)
  <2>1. Representatives(order, X, dead) = {ClassIn(order, X, dead, w[1], w[Len(w)].on) : w \in X}
    <3> HIDE DEF X
    <3>. QED  BY Zenon DEF Representatives, ClassIn, AlikeWays
  <2>. QED  BY <2>1
<1>3. \A x : x \in Classes(g, order, live) <=>
         \E r \in g.nodes : x \in RootClasses(g, order, r, live, Ways(g, order, r, live))
  <2> DEFINE of(r) == RootClasses(g, order, r, live, Ways(g, order, r, live))
  <2>1. Classes(g, order, live) = UNION {UNION {RootClasses(g, order, r, live, ways) : ways \in {Ways(g, order, r, live)}} : r \in g.nodes}
    BY DEF Classes
  <2>2. \A r : UNION {RootClasses(g, order, r, live, ways) : ways \in {Ways(g, order, r, live)}} = of(r)
    OBVIOUS
  <2> HIDE DEF of
  <2>3. Classes(g, order, live) = UNION {of(r) : r \in g.nodes}
    BY <2>1, <2>2
  <2>4. \A x : x \in Classes(g, order, live) <=> \E r \in g.nodes : x \in of(r)
    BY <2>3
  <2>. QED  BY <2>4 DEF of
<1>4. \A w \in chains : w[1] \in g.nodes
  <2>1. \A r \in g.nodes : \A w \in ChainsOf(g, r) : w[1] = r
    BY AllLives
  <2>. QED  BY <2>1, ExpandIs
<1>5. ASSUME NEW r \in g.nodes
      PROVE  \A x : x \in RootClasses(g, order, r, live, Ways(g, order, r, live)) <=>
                \E dead \in BOOLEAN : \E w \in half(dead) : w[1] = r /\ x = rep(dead, w)
  <2>1. \A x : x \in RootClasses(g, order, r, live, Ways(g, order, r, live)) <=>
           \E dead \in BOOLEAN : \E w \in From(half(dead), r) : x = ClassIn(order, half(dead), dead, r, w[Len(w)].on)
    BY RootClassesAre
  <2>2. \A dead, w : w \in From(half(dead), r) <=> w \in half(dead) /\ w[1] = r
    BY DEF From
  <2> HIDE DEF half
  <2>. QED  BY <2>1, <2>2
<1>6. \A dead : half(dead) \subseteq chains
  BY DEF Half
<1> HIDE DEF chains, half, rep, lives
<1>7. \A x : x \in Classes(g, order, live) <=> \E dead \in BOOLEAN : \E w \in half(dead) : x = rep(dead, w)
  BY <1>3, <1>4, <1>5, <1>6
<1>8. \A x : x \in Classes(g, order, live) <=>
         x \in Representatives(order, half(FALSE), FALSE) \/ x \in Representatives(order, half(TRUE), TRUE)
  BY <1>2, <1>7
<1>. QED  BY <1>1, <1>8 DEF chains, lives

-----------------------------------------------------------------------------
(* Components without listing.                                             *)

\* The live ways from root to a node.
UpTo(g, root, live, n) == WaysTo(g, root, live, <<n, FALSE>>)

LEMMA PlaceIs ==
    ASSUME NEW g, NEW s \in Places(g)
    PROVE  s[1] \in g.nodes /\ s[2] \in BOOLEAN /\ s = <<s[1], s[2]>>
  BY DEF Places

\* fromRoot's pre: from a root that is live there are as many live ways to
\* each node as the sum over where they come from says.
LEMMA PrefixesAre ==
    ASSUME NEW g, NEW rank, Ranked(g, rank), NEW root \in g.nodes, NEW live, root \in live.nodes
    PROVE  \A n \in g.nodes : /\ IsFiniteSet(UpTo(g, root, live, n))
                              /\ PrefixesOf(g, root, live)[n] = Cardinality(UpTo(g, root, live, n))
<1> DEFINE nodes == g.nodes
           W(n) == UpTo(g, root, live, n)
           from(n) == {k \in nodes : n \in OnTo(g, root, live, k)}
           came == [s \in Places(g) |-> CameFrom(g, root, live, s)]
           height == Height(g, rank)
           sol(h) == h = [n \in nodes |-> IF n = root THEN 1 ELSE Sum(h, {k \in nodes : n \in OnTo(g, root, live, k)})]
           h0 == [n \in nodes |-> Cardinality(W(n))]
<1>1. Descends(Places(g), came, height)
  BY CameFromAbove
<1>2. \A n \in nodes : <<n, FALSE>> \in Places(g)
  BY DEF Places
<1>3. \A n \in nodes : IsFiniteSet(W(n))
  <2>1. Orders(RankIn(g), g.nodes)
    BY RankOrders DEF Ranked
  <2>2. \A s \in Places(g) : IsFiniteSet(WaysTo(g, root, live, s))
    BY <2>1, WaysAre
  <2>. QED  BY <1>2, <2>2 DEF UpTo
<1>4. \A n, k \in nodes : <<k, FALSE>> \in CameFrom(g, root, live, <<n, FALSE>>) <=> k \in from(n)
  <2>. SUFFICES ASSUME NEW n \in nodes, NEW k \in nodes
                PROVE  <<k, FALSE>> \in CameFrom(g, root, live, <<n, FALSE>>) <=> k \in from(n)
    OBVIOUS
  <2>1. <<k, FALSE>> \in Places(g) /\ <<n, FALSE>>[1] = n /\ <<n, FALSE>>[2] = FALSE /\ <<k, FALSE>>[1] = k /\ <<k, FALSE>>[2] = FALSE
    BY <1>2
  <2>2. (FALSE = Step(live, <<k, FALSE>>, n)) <=> Passes(live, k, n)
    BY <2>1 DEF Step, Passes
  <2>. QED  BY <2>1, <2>2 DEF CameFrom, OnTo
<1>5. \A n \in nodes : \A s \in CameFrom(g, root, live, <<n, FALSE>>) : \E k \in nodes : s = <<k, FALSE>>
  <2>. SUFFICES ASSUME NEW n \in nodes, NEW s \in CameFrom(g, root, live, <<n, FALSE>>)
                PROVE  \E k \in nodes : s = <<k, FALSE>>
    OBVIOUS
  <2>1. s \in Places(g) /\ FALSE = (s[2] \/ ~Passes(live, s[1], n))
    BY DEF CameFrom, Step
  <2>2. s[1] \in nodes /\ s[2] \in BOOLEAN /\ s = <<s[1], s[2]>>
    BY <2>1, PlaceIs
  <2>3. s[2] = FALSE
    BY <2>1, <2>2
  <2>4. s = <<s[1], FALSE>>
    BY <2>2, <2>3, Zenon
  <2>. QED  BY <2>2, <2>4
<1>6. ASSUME NEW n \in nodes
      PROVE  \A h : (\A k \in from(n) : h[k] = Cardinality(W(k))) =>
                       (IF n = root THEN 1 ELSE Sum(h, from(n))) = Cardinality(W(n))
  <2> DEFINE s == <<n, FALSE>>
             C == CameFrom(g, root, live, s)
             A == [k \in nodes |-> After(W(k), n)]
  <2>0. s \in Places(g) /\ s[1] = n
    BY <1>2
  <2>1. /\ WaysTo(g, root, live, s) = (IF s = <<root, root \notin live.nodes>> THEN {<<root>>} ELSE {})
                                      \cup Together(Stepped(g, root, live, s), C)
        /\ s[1] = root => \A k \in C : WaysTo(g, root, live, k) = {}
    <3> HIDE DEF s
    <3>. QED  BY <2>0, WaysToAre
  <2>2. s = <<root, root \notin live.nodes>> <=> n = root
    <3>1. (root \notin live.nodes) = FALSE
      OBVIOUS
    <3>. QED  BY <3>1
  <2>3. \A k \in C : Stepped(g, root, live, s)[k] = After(WaysTo(g, root, live, k), n)
    BY <2>0 DEF Stepped, CameFrom
  <2> HIDE DEF C, s
  <2>4. \A w : w \in Together(Stepped(g, root, live, s), C) <=> \E k \in from(n) : w \in After(W(k), n)
    <3>1. \A w : w \in Together(Stepped(g, root, live, s), C) <=> \E k \in C : w \in After(WaysTo(g, root, live, k), n)
      BY <2>3 DEF Together
    <3>2. \A k \in from(n) : <<k, FALSE>> \in C /\ W(k) = WaysTo(g, root, live, <<k, FALSE>>)
      BY <1>4 DEF C, s, UpTo
    <3>3. \A x \in C : \E k \in from(n) : x = <<k, FALSE>>
      BY <1>4, <1>5 DEF C, s
    <3> HIDE DEF W, from
    <3>. QED  BY <3>1, <3>2, <3>3
  <2>5. W(n) = WaysTo(g, root, live, s)
    BY DEF s, UpTo
  <2>6. CASE n = root
    <3>1. Together(Stepped(g, root, live, s), C) = {}
      BY <2>0, <2>1, <2>3, <2>6 DEF Together, After
    <3>2. W(n) = {<<root>>}
      BY <2>1, <2>2, <2>5, <2>6, <3>1
    <3>3. Cardinality({<<root>>}) = 1
      BY FS_Singleton
    <3>. QED  BY <2>6, <3>2, <3>3
  <2>7. CASE n # root
    <3> DEFINE K == from(n)
    <3>1. IsFiniteSet(K) /\ K \in SUBSET nodes
      <4>1. K \in SUBSET nodes
        OBVIOUS
      <4> HIDE DEF K
      <4>. QED  BY <4>1, FS_Subset DEF Ranked
    <3>2. ASSUME NEW k \in K PROVE A[k] = After(W(k), n) /\ IsFiniteSet(A[k]) /\ Cardinality(A[k]) = Cardinality(W(k))
      <4>1. k \in nodes /\ IsFiniteSet(W(k)) /\ W(k) \in SUBSET Seq(nodes)
        BY <1>3 DEF UpTo, WaysTo
      <4>2. IsFiniteSet(After(W(k), n)) /\ Cardinality(After(W(k), n)) = Cardinality(W(k))
        BY <4>1, AfterOf
      <4>. QED  BY <4>1, <4>2
    <3>3. \A k, l \in K : k # l => A[k] \cap A[l] = {}
      <4>1. ASSUME NEW k \in K, NEW l \in K, k # l PROVE A[k] \cap A[l] = {}
        <5> DEFINE x == <<k, FALSE>>
                   y == <<l, FALSE>>
        <5>1. x \in Places(g) /\ y \in Places(g) /\ x # y
          BY <1>2, <4>1
        <5>2. Stepped(g, root, live, s)[x] = A[k] /\ Stepped(g, root, live, s)[y] = A[l]
          BY <2>0, <5>1 DEF Stepped, UpTo
        <5> HIDE DEF x, y, A
        <5>. QED  BY <2>0, <5>1, <5>2, SteppedApart
      <4>. QED  BY <4>1
    <3> HIDE DEF A
    <3>4. W(n) = Together(A, K)
      <4>1. \A w : w \in Together(A, K) <=> \E k \in K : w \in After(W(k), n)
        BY <3>2 DEF Together
      <4>2. W(n) = Together(Stepped(g, root, live, s), C)
        BY <2>1, <2>2, <2>5, <2>7
      <4> HIDE DEF W, K
      <4>. QED  BY <2>4, <4>1, <4>2 DEF K
    <3>. SUFFICES ASSUME NEW h, \A k \in K : h[k] = Cardinality(W(k)) PROVE Sum(h, K) = Cardinality(W(n))
      BY <2>7
    <3>5. \A k \in K : IsFiniteSet(A[k]) /\ h[k] = Cardinality(A[k])
      BY <3>2
    <3> HIDE DEF K, W
    <3>6. Sum(h, K) = Cardinality(Together(A, K))
      BY <3>1, <3>3, <3>5, SumCounts
    <3>. QED  BY <3>4, <3>6
  <2>. QED  BY <2>6, <2>7
<1>7. sol(h0)
  <2>1. \A n \in nodes : \A k \in from(n) : h0[k] = Cardinality(W(k))
    OBVIOUS
  <2>2. \A n \in nodes : (IF n = root THEN 1 ELSE Sum(h0, from(n))) = Cardinality(W(n))
    BY <1>6, <2>1
  <2>. QED  BY <2>2
<1>8. ASSUME NEW h, sol(h) PROVE \A n \in nodes : h[n] = Cardinality(W(n))
  <2> DEFINE T == {s \in Places(g) : s[2] = FALSE => h[s[1]] = Cardinality(W(s[1]))}
  <2>1. \A n \in nodes : h[n] = IF n = root THEN 1 ELSE Sum(h, from(n))
    BY <1>8
  <2> HIDE DEF W, from, sol
  <2>2. ASSUME NEW s \in Places(g), \A k \in came[s] : k \in T PROVE s \in T
    <3>. SUFFICES ASSUME s[2] = FALSE PROVE h[s[1]] = Cardinality(W(s[1]))
      OBVIOUS
    <3> DEFINE n == s[1]
    <3>1. n \in nodes /\ s = <<n, FALSE>>
      <4>1. n \in nodes /\ s = <<n, s[2]>> /\ s[2] = FALSE
        BY PlaceIs
      <4>. QED  BY <4>1, Zenon
    <3>2. \A k \in from(n) : <<k, FALSE>> \in came[s] /\ k \in nodes
      BY <1>4, <3>1 DEF from
    <3>3. \A k \in from(n) : h[k] = Cardinality(W(k))
      BY <2>2, <3>2
    <3>. QED  BY <1>6, <2>1, <3>1, <3>3
  <2> HIDE DEF T, came, height
  <2>3. Places(g) \subseteq T
    BY <1>1, <2>2, FromBelow
  <2>4. \A n \in nodes : <<n, FALSE>> \in T
    BY <1>2, <2>3
  <2>5. \A n : <<n, FALSE>>[1] = n /\ <<n, FALSE>>[2] = FALSE
    OBVIOUS
  <2>6. \A s \in T : s[2] = FALSE => h[s[1]] = Cardinality(W(s[1]))
    BY DEF T
  <2>7. ASSUME NEW n \in nodes PROVE h[n] = Cardinality(W(n))
    <3> DEFINE s == <<n, FALSE>>
    <3>1. s \in T /\ s[1] = n /\ s[2] = FALSE
      BY <2>4, <2>5
    <3> HIDE DEF s
    <3>. QED  BY <2>6, <3>1
  <2>. QED  BY <2>7
<1>9. PrefixesOf(g, root, live) = CHOOSE h : sol(h)
  BY Zenon DEF PrefixesOf
<1> HIDE DEF sol, h0
<1>10. sol(PrefixesOf(g, root, live))
  BY <1>7, <1>9
<1>. QED  BY <1>3, <1>8, <1>10

\* The ways from r to n.
Arriving(nodes, next, r, n) == {p \in Seq(nodes) : IsWay(next, {r}, p) /\ p[Len(p)] = n}

\* A way passes a node.
Visits(w, n) == \E i \in 1..Len(w) : w[i] = n

\* The ways from r that end where there is a fact and pass through n.
Via(nodes, next, seen, r, n) == {w \in Ends(nodes, next, seen, r) : Visits(w, n)}

\* A way, and another that begins where it ends.
Joined(p, q) == [i \in 1..(Len(p) + Len(q) - 1) |-> IF i <= Len(p) THEN p[i] ELSE q[i - Len(p) + 1]]

\* Which is w when w is the one and then the other.
IsJoint(X, p, q, w) ==
    /\ w \in Seq(X) /\ Len(w) = Len(p) + Len(q) - 1
    /\ \A i \in 1..Len(p) : w[i] = p[i]
    /\ \A j \in 1..Len(q) : w[Len(p) + j - 1] = q[j]

\* One ends where the other begins.
Meet(X, p, q) == p \in Seq(X) /\ q \in Seq(X) /\ Len(p) >= 1 /\ Len(q) >= 1 /\ p[Len(p)] = q[1]

LEMMA JoinedIs ==
    ASSUME NEW X, NEW p, NEW q, Meet(X, p, q)
    PROVE  IsJoint(X, p, q, Joined(p, q))
<1> DEFINE k == Len(p)
           l == Len(q)
           w == Joined(p, q)
<1>1. k \in Nat /\ l \in Nat /\ k >= 1 /\ l >= 1 /\ p[k] = q[1]
  BY DEF Meet
<1>2. (\A i \in 1..k : p[i] \in X) /\ (\A j \in 1..l : q[j] \in X)
  BY DEF Meet
<1>3. w = [i \in 1..(k + l - 1) |-> IF i <= k THEN p[i] ELSE q[i - k + 1]]
  BY DEF Joined
<1> HIDE DEF k, l, w
<1>4. \A i \in 1..(k + l - 1) : i \in 1..k \/ (~(i <= k) /\ i - k + 1 \in 1..l)
  BY <1>1
<1>5. \A i \in 1..(k + l - 1) : (i <= k => w[i] = p[i]) /\ (~(i <= k) => w[i] = q[i - k + 1])
  BY <1>3
<1>6. w \in [1..(k + l - 1) -> X]
  BY <1>2, <1>3, <1>4
<1>7. k + l - 1 \in Nat
  BY <1>1
<1>8. w \in Seq(X) /\ Len(w) = k + l - 1
  BY <1>6, <1>7
<1>9. \A i \in 1..k : w[i] = p[i]
  <2>1. \A i \in 1..k : i \in 1..(k + l - 1) /\ i <= k
    BY <1>1
  <2>. QED  BY <1>5, <2>1
<1>10. ASSUME NEW j \in 1..l PROVE w[k + j - 1] = q[j]
  <2>1. CASE j = 1
    <3>1. k + j - 1 = k /\ k \in 1..k
      BY <1>1, <2>1
    <3>. QED  BY <1>1, <1>9, <2>1, <3>1
  <2>2. CASE j # 1
    <3>1. k + j - 1 \in 1..(k + l - 1) /\ ~(k + j - 1 <= k) /\ (k + j - 1) - k + 1 = j
      BY <1>1, <2>2
    <3>. QED  BY <1>5, <3>1
  <2>. QED  BY <2>1, <2>2
<1>. QED  BY <1>8, <1>9, <1>10 DEF k, l, w, IsJoint

\* Two ways that join are one.
LEMMA JoinedIsWay ==
    ASSUME NEW nodes, NEW next, NEW seen, NEW r, NEW n,
           NEW p \in Arriving(nodes, next, r, n), NEW q \in Ends(nodes, next, seen, n)
    PROVE  /\ Joined(p, q) \in Via(nodes, next, seen, r, n)
           /\ Len(p) \in 1..Len(Joined(p, q)) /\ Joined(p, q)[Len(p)] = n
<1> DEFINE k == Len(p)
           l == Len(q)
           w == Joined(p, q)
<1>1. /\ p \in Seq(nodes) /\ q \in Seq(nodes) /\ k \in Nat /\ l \in Nat /\ k >= 1 /\ l >= 1
      /\ p[1] = r /\ p[k] = n /\ q[1] = n /\ q[l].on \in seen
      /\ (\A i \in 1..(k - 1) : p[i + 1] \in next[p[i]])
      /\ (\A i \in 1..(l - 1) : q[i + 1] \in next[q[i]])
  BY DEF Arriving, Ends, IsWay
<1>2. /\ w \in Seq(nodes) /\ Len(w) = k + l - 1
      /\ \A i \in 1..k : w[i] = p[i]
      /\ \A j \in 1..l : w[k + j - 1] = q[j]
  <2>1. Meet(nodes, p, q)
    BY <1>1 DEF Meet
  <2>. QED  BY <2>1, JoinedIs DEF IsJoint
<1> HIDE DEF k, l, w
<1>3. Len(w) >= 1 /\ w[1] = r
  <2>1. 1 \in 1..k
    BY <1>1
  <2>. QED  BY <1>1, <1>2, <2>1
<1>4. ASSUME NEW i \in 1..(Len(w) - 1) PROVE w[i + 1] \in next[w[i]]
  <2>1. i \in 1..(k + l - 2)
    BY <1>1, <1>2
  <2>2. CASE i < k
    <3>1. i \in 1..(k - 1) /\ i \in 1..k /\ i + 1 \in 1..k
      BY <1>1, <2>1, <2>2
    <3>. QED  BY <1>1, <1>2, <3>1
  <2>3. CASE ~(i < k)
    <3> DEFINE j == i - k + 1
    <3>1. j \in 1..(l - 1) /\ j \in 1..l /\ j + 1 \in 1..l /\ k + j - 1 = i /\ k + (j + 1) - 1 = i + 1
      BY <1>1, <2>1, <2>3
    <3> HIDE DEF j
    <3>2. w[k + j - 1] = q[j] /\ w[k + (j + 1) - 1] = q[j + 1]
      BY <1>2, <3>1
    <3>3. w[i] = q[j] /\ w[i + 1] = q[j + 1]
      BY <3>1, <3>2
    <3>. QED  BY <1>1, <3>1, <3>3
  <2>. QED  BY <2>2, <2>3
<1>5. w[Len(w)] = q[l]
  <2>1. l \in 1..l
    BY <1>1
  <2>. QED  BY <1>2, <2>1
<1>6. k \in 1..Len(w) /\ w[k] = n
  <2>1. k \in 1..k /\ k \in 1..(k + l - 1)
    BY <1>1
  <2>. QED  BY <1>1, <1>2, <2>1
<1>7. w \in Ends(nodes, next, seen, r)
  BY <1>1, <1>2, <1>3, <1>4, <1>5 DEF Ends, IsWay
<1>. QED  BY <1>6, <1>7 DEF Via, Visits, k, w

\* A way parts at a node it passes.
LEMMA WayParts ==
    ASSUME NEW nodes, NEW next, NEW seen, NEW r, NEW n, NEW w \in Via(nodes, next, seen, r, n)
    PROVE  \E p \in Arriving(nodes, next, r, n), q \in Ends(nodes, next, seen, n) : w = Joined(p, q)
<1> DEFINE L == Len(w)
<1>1. /\ w \in Seq(nodes) /\ L \in Nat /\ L >= 1 /\ w[1] = r /\ w[L].on \in seen
      /\ \A i \in 1..(L - 1) : w[i + 1] \in next[w[i]]
  BY DEF Via, Ends, IsWay
<1>2. PICK k \in 1..L : w[k] = n
  BY DEF Via, Visits
<1>3. \A i \in 1..L : w[i] \in nodes
  BY <1>1
<1>4. w \in [1..L -> nodes] /\ Len(w) = L
  BY <1>1
<1> HIDE DEF L
<1> DEFINE l == L - k + 1
           p == [i \in 1..k |-> w[i]]
           q == [j \in 1..l |-> w[k + j - 1]]
<1>5. k \in Nat /\ l \in Nat /\ k >= 1 /\ l >= 1 /\ k <= L /\ k + l - 1 = L
  BY <1>1
<1>6. (\A i \in 1..k : i \in 1..L) /\ (\A j \in 1..l : k + j - 1 \in 1..L)
  BY <1>1
<1>7. p \in Seq(nodes) /\ Len(p) = k /\ \A i \in 1..k : p[i] = w[i]
  BY <1>3, <1>5, <1>6
<1>8. q \in Seq(nodes) /\ Len(q) = l /\ \A j \in 1..l : q[j] = w[k + j - 1]
  <2> HIDE DEF l
  <2>. QED  BY <1>3, <1>5, <1>6
<1> HIDE DEF p, q, l
<1>9. p \in Arriving(nodes, next, r, n)
  <2>1. 1 \in 1..k /\ k \in 1..k /\ \A i \in 1..(k - 1) : i \in 1..k /\ i + 1 \in 1..k /\ i \in 1..(L - 1)
    BY <1>1, <1>5
  <2>. QED  BY <1>1, <1>2, <1>5, <1>7, <2>1 DEF Arriving, IsWay
<1>10. q \in Ends(nodes, next, seen, n)
  <2>1. 1 \in 1..l /\ l \in 1..l /\ k + 1 - 1 = k
    BY <1>5
  <2>2. q[1] = n /\ q[l].on \in seen
    BY <1>1, <1>2, <1>5, <1>8, <2>1
  <2>3. ASSUME NEW i \in 1..(l - 1) PROVE q[i + 1] \in next[q[i]]
    <3>1. i \in 1..l /\ i + 1 \in 1..l /\ k + i - 1 \in 1..(L - 1) /\ k + (i + 1) - 1 = (k + i - 1) + 1
      BY <1>1, <1>5
    <3>2. q[i] = w[k + i - 1] /\ q[i + 1] = w[(k + i - 1) + 1]
      BY <1>8, <3>1
    <3>. QED  BY <1>1, <3>1, <3>2
  <2>. QED  BY <1>5, <1>8, <2>2, <2>3 DEF Ends, IsWay
<1>11. w = Joined(p, q)
  <2>1. /\ Joined(p, q) \in Seq(nodes) /\ Len(Joined(p, q)) = L
        /\ \A i \in 1..k : Joined(p, q)[i] = p[i]
        /\ \A j \in 1..l : Joined(p, q)[k + j - 1] = q[j]
    <3>1. Meet(nodes, p, q)
      <4>1. k \in 1..k /\ 1 \in 1..l /\ k + 1 - 1 = k
        BY <1>5
      <4>2. p[Len(p)] = w[k] /\ q[1] = w[k]
        BY <1>7, <1>8, <4>1
      <4>. QED  BY <1>5, <1>7, <1>8, <4>2 DEF Meet
    <3>2. IsJoint(nodes, p, q, Joined(p, q))
      BY <3>1, JoinedIs
    <3>. QED  BY <1>5, <1>7, <1>8, <3>2 DEF IsJoint
  <2>2. ASSUME NEW i \in 1..L PROVE Joined(p, q)[i] = w[i]
    <3>1. CASE i <= k
      <4>1. i \in 1..k
        BY <1>5, <3>1
      <4>. QED  BY <1>7, <2>1, <4>1
    <3>2. CASE ~(i <= k)
      <4> DEFINE j == i - k + 1
      <4>1. j \in 1..l /\ k + j - 1 = i
        BY <1>5, <3>2
      <4> HIDE DEF j
      <4>2. Joined(p, q)[k + j - 1] = q[j] /\ q[j] = w[k + j - 1]
        BY <1>8, <2>1, <4>1
      <4>. QED  BY <4>1, <4>2
    <3>. QED  BY <3>1, <3>2
  <2>. QED  BY <1>1, <1>4, <2>1, <2>2, SeqEqual
<1>. QED  BY <1>9, <1>10, <1>11

\* A way passes a node once at most.
OnceAtMost(nodes, next, r) ==
    \A p \in Seq(nodes) : IsWay(next, {r}, p) => \A i, j \in 1..Len(p) : p[i] = p[j] => i = j

\* So it parts there in one way only.
LEMMA PartsOnce ==
    ASSUME NEW nodes, NEW next, NEW seen, NEW r, NEW n, OnceAtMost(nodes, next, r),
           NEW p1 \in Arriving(nodes, next, r, n), NEW q1 \in Ends(nodes, next, seen, n),
           NEW p2 \in Arriving(nodes, next, r, n), NEW q2 \in Ends(nodes, next, seen, n),
           Joined(p1, q1) = Joined(p2, q2)
    PROVE  p1 = p2 /\ q1 = q2
<1> DEFINE w == Joined(p1, q1)
           k == Len(p1)
<1>1. /\ k \in 1..Len(w) /\ w[k] = n /\ Len(p2) \in 1..Len(w) /\ w[Len(p2)] = n
      /\ w \in Via(nodes, next, seen, r, n)
  BY JoinedIsWay
<1>2. \A i, j \in 1..Len(w) : w[i] = w[j] => i = j
  BY <1>1 DEF OnceAtMost, Via, Ends
<1>3. Len(p2) = k
  BY <1>1, <1>2
<1>4. Meet(nodes, p1, q1) /\ Meet(nodes, p2, q2)
  BY DEF Arriving, Ends, IsWay, Meet
<1>5. IsJoint(nodes, p1, q1, w) /\ IsJoint(nodes, p2, q2, w)
  <2>1. IsJoint(nodes, p1, q1, Joined(p1, q1)) /\ IsJoint(nodes, p2, q2, Joined(p2, q2))
    BY <1>4, JoinedIs
  <2>. QED  BY <2>1
<1> HIDE DEF w, k
<1>6. /\ Len(w) = k + Len(q1) - 1 /\ Len(w) = k + Len(q2) - 1
      /\ \A i \in 1..k : w[i] = p1[i] /\ w[i] = p2[i]
      /\ (\A j \in 1..Len(q1) : w[k + j - 1] = q1[j])
      /\ (\A j \in 1..Len(q2) : w[k + j - 1] = q2[j])
  <2>1. Len(p1) = k
    BY DEF k
  <2>. QED  BY ONLY <1>3, <1>5, <2>1 DEF IsJoint
<1>7. k \in Nat /\ Len(q1) \in Nat /\ Len(q2) \in Nat
  <2>1. p1 \in Seq(nodes) /\ q1 \in Seq(nodes) /\ q2 \in Seq(nodes)
    BY <1>4 DEF Meet
  <2>. QED  BY <2>1 DEF k
<1>8. Len(q1) = Len(q2)
  <2> DEFINE l1 == Len(q1)
             l2 == Len(q2)
             L == Len(w)
  <2>1. L = k + l1 - 1 /\ L = k + l2 - 1 /\ k \in Nat /\ l1 \in Nat /\ l2 \in Nat
    BY <1>6, <1>7
  <2> HIDE DEF l1, l2, L
  <2>2. l1 = l2
    BY <2>1
  <2>. QED  BY <2>2 DEF l1, l2
<1>9. p1 = p2
  <2>1. Len(p1) = k /\ Len(p2) = k
    BY <1>3 DEF k
  <2>. QED  BY <1>4, <1>6, <2>1, SeqEqual DEF Meet
<1>10. q1 = q2
  BY <1>4, <1>6, <1>8, SeqEqual DEF Meet
<1>. QED  BY <1>9, <1>10

\* The ways through a node are as many as those to it, times those from it.
LEMMA ViaCounts ==
    ASSUME NEW nodes, NEW next, NEW seen, NEW r, NEW n, OnceAtMost(nodes, next, r),
           IsFiniteSet(Arriving(nodes, next, r, n)), IsFiniteSet(Ends(nodes, next, seen, n))
    PROVE  /\ IsFiniteSet(Via(nodes, next, seen, r, n))
           /\ Cardinality(Via(nodes, next, seen, r, n))
                = Cardinality(Arriving(nodes, next, r, n)) * Cardinality(Ends(nodes, next, seen, n))
<1> DEFINE P == Arriving(nodes, next, r, n)
           Q == Ends(nodes, next, seen, n)
           V == Via(nodes, next, seen, r, n)
           f == [x \in P \X Q |-> Joined(x[1], x[2])]
<1>1. \A p \in P, q \in Q : Joined(p, q) \in V
  BY JoinedIsWay
<1>2. \A w \in V : \E p \in P, q \in Q : w = Joined(p, q)
  BY WayParts
<1>3. \A p1, p2 \in P : \A q1, q2 \in Q : Joined(p1, q1) = Joined(p2, q2) => p1 = p2 /\ q1 = q2
  BY PartsOnce
<1>4. IsFiniteSet(P) /\ IsFiniteSet(Q)
  OBVIOUS
<1> HIDE DEF P, Q, V
<1>5. f \in Bijection(P \X Q, V)
  <2>1. f \in [P \X Q -> V]
    BY <1>1
  <2>2. IsInjective(f)
    <3>1. ASSUME NEW x \in P \X Q, NEW y \in P \X Q, f[x] = f[y] PROVE x = y
      <4>1. x[1] \in P /\ x[2] \in Q /\ y[1] \in P /\ y[2] \in Q
        OBVIOUS
      <4>2. x[1] = y[1] /\ x[2] = y[2]
        BY <1>3, <3>1, <4>1
      <4>. QED  BY <4>2
    <3>. QED  BY <3>1 DEF IsInjective
  <2>3. \A w \in V : \E x \in P \X Q : f[x] = w
    <3>1. ASSUME NEW w \in V PROVE \E x \in P \X Q : f[x] = w
      <4>1. PICK p \in P, q \in Q : w = Joined(p, q)
        BY <1>2
      <4>2. <<p, q>> \in P \X Q /\ f[<<p, q>>] = w
        BY <4>1
      <4>. QED  BY <4>2
    <3>. QED  BY <3>1
  <2> HIDE DEF f
  <2>. QED  BY <2>1, <2>2, <2>3 DEF Bijection, Injection, Surjection
<1>6. ExistsBijection(P \X Q, V)
  BY <1>5 DEF ExistsBijection
<1>7. IsFiniteSet(P \X Q) /\ Cardinality(P \X Q) = Cardinality(P) * Cardinality(Q)
  BY <1>4, FS_Product
<1>8. IsFiniteSet(V) /\ Cardinality(V) = Cardinality(P \X Q)
  BY <1>6, <1>7, FS_Bijection
<1>. QED  BY <1>7, <1>8 DEF P, Q, V

\* A failure reaches a component once.
Once(g) ==
    \A r \in g.nodes : \A p \in Seq(g.nodes) :
        IsWay(g.next[r.on], {r}, p) => \A i, j \in 1..Len(p) : p[i].on = p[j].on => i = j

\* The live chains of a root through a component.
Meeting(W, c) == {w \in W : \E i \in DOMAIN w : w[i].on = c}

\* The ways to a node that are live are those of what may carry the failure.
LEMMA UpToIs ==
    ASSUME NEW g, NEW root \in g.nodes, NEW live, root \in live.nodes, NEW n \in g.nodes
    PROVE  UpTo(g, root, live, n) = Arriving(g.nodes, NextOf(g, root, live), root, n)
<1> DEFINE next == g.next[root.on]
           N == NextOf(g, root, live)
<1>1. \A k \in g.nodes : \A m : m \in N[k] <=> m \in next[k] /\ Passes(live, k, m)
  BY DEF NextOf, OnTo, Onward
<1>2. UpTo(g, root, live, n) =
         {p \in Seq(g.nodes) : IsWay(next, {root}, p) /\ p[Len(p)] = n /\ ~Dies(live, p)}
  <2>1. <<n, FALSE>>[1] = n /\ <<n, FALSE>>[2] = FALSE
    OBVIOUS
  <2>2. \A p : (Dies(live, p) <=> FALSE) <=> ~Dies(live, p)
    OBVIOUS
  <2> DEFINE s == <<n, FALSE>>
  <2>3. s[1] = n /\ s[2] = FALSE
    BY <2>1
  <2> HIDE DEF s
  <2>4. WaysTo(g, root, live, s) = {p \in Seq(g.nodes) : IsWay(next, {root}, p) /\ p[Len(p)] = n /\ ~Dies(live, p)}
    BY <2>2, <2>3, Zenon DEF WaysTo
  <2>. QED  BY <2>4 DEF UpTo, s
<1> HIDE DEF next, N
<1>3. ASSUME NEW p \in Seq(g.nodes)
      PROVE  IsWay(next, {root}, p) /\ ~Dies(live, p) <=> IsWay(N, {root}, p)
  <2>1. \A i \in 1..(Len(p) - 1) : p[i] \in g.nodes
    OBVIOUS
  <2>2. (\A i \in 1..(Len(p) - 1) : p[i + 1] \in N[p[i]])
           <=> (\A i \in 1..(Len(p) - 1) : p[i + 1] \in next[p[i]]) /\ Lives(live, p)
    BY <1>1, <2>1 DEF Lives
  <2>3. p[1] \in {root} => p[1] \in live.nodes
    OBVIOUS
  <2>. QED  BY <2>2, <2>3, Zenon DEF IsWay, Dies
<1>. QED  BY <1>2, <1>3 DEF Arriving, N

\* What passes a node other than the root goes on from the root.
LEMMA ViaGoes ==
    ASSUME NEW g, NEW r \in g.nodes, NEW live, NEW n, n # r
    PROVE  \A w : w \in Via(g.nodes, NextOf(g, r, live), g.observes, r, n)
                     <=> w \in Going(g, r, live) /\ Visits(w, n)
<1> DEFINE E == Ends(g.nodes, NextOf(g, r, live), g.observes, r)
<1>1. \A w \in E : w \in Seq(g.nodes) /\ Len(w) >= 1 /\ w[1] = r
  BY DEF Ends, IsWay
<1>2. Going(g, r, live) = {w \in E : Len(w) >= 2}
  BY DEF Going, Longer
<1> HIDE DEF E
<1>3. ASSUME NEW w \in E, Visits(w, n) PROVE Len(w) >= 2
  <2>1. PICK i \in 1..Len(w) : w[i] = n
    BY <1>3 DEF Visits
  <2>2. Len(w) \in Nat /\ i # 1
    BY <1>1, <2>1
  <2>. QED  BY <2>2
<1>. QED  BY <1>2, <1>3 DEF Via, E

\* The chains of a root through a component other than its own, node by node.
LEMMA ThroughOthers ==
    ASSUME NEW g, NEW rank, Ranked(g, rank), Once(g), NEW r \in g.nodes, NEW live, r \in live.nodes,
           NEW c, c # r.on,
           NEW at, at = {n \in g.nodes : n.on = c},
           NEW f, \A n \in at : f[n] = PrefixesOf(g, r, live)[n] * SuffixesOf(g, r, live)[n]
    PROVE  Sum(f, at) = Cardinality(Meeting(Going(g, r, live), c))
<1> DEFINE N == NextOf(g, r, live)
           V == [n \in at |-> Via(g.nodes, N, g.observes, r, n)]
<1>1. \A n \in at : n \in g.nodes /\ n # r /\ n.on = c
  OBVIOUS
<1>2. IsFiniteSet(at)
  <2>1. IsFiniteSet(g.nodes) /\ at \subseteq g.nodes
    BY DEF Ranked
  <2>. QED  BY <2>1, FS_Subset
<1>3. \A p \in Seq(g.nodes) : IsWay(N, {r}, p) => IsWay(g.next[r.on], {r}, p)
  <2>1. \A k \in g.nodes : \A m : m \in N[k] => m \in g.next[r.on][k]
    BY DEF NextOf, OnTo, Onward
  <2> HIDE DEF N
  <2>2. ASSUME NEW p \in Seq(g.nodes), IsWay(N, {r}, p) PROVE IsWay(g.next[r.on], {r}, p)
    <3>1. \A i \in 1..(Len(p) - 1) : p[i] \in g.nodes
      OBVIOUS
    <3>. QED  BY <2>1, <2>2, <3>1 DEF IsWay
  <2>. QED  BY <2>2
<1>4. \A p \in Seq(g.nodes) : IsWay(N, {r}, p) => \A i, j \in 1..Len(p) : p[i].on = p[j].on => i = j
  BY <1>3 DEF Once
<1>5. OnceAtMost(g.nodes, N, r)
  BY <1>4 DEF OnceAtMost
<1> HIDE DEF N
<1>6. ASSUME NEW n \in at
      PROVE  IsFiniteSet(V[n]) /\ Cardinality(V[n]) = f[n]
  <2>1. n \in g.nodes
    BY <1>1
  <2>2. UpTo(g, r, live, n) = Arriving(g.nodes, N, r, n)
    BY <2>1, UpToIs DEF N
  <2>3. /\ IsFiniteSet(UpTo(g, r, live, n))
        /\ PrefixesOf(g, r, live)[n] = Cardinality(UpTo(g, r, live, n))
    BY <2>1, PrefixesAre
  <2>4. /\ IsFiniteSet(Ends(g.nodes, N, g.observes, n))
        /\ SuffixesOf(g, r, live)[n] = Cardinality(Ends(g.nodes, N, g.observes, n))
    BY <2>1, SuffixesAre DEF N
  <2>5. /\ IsFiniteSet(Via(g.nodes, N, g.observes, r, n))
        /\ Cardinality(Via(g.nodes, N, g.observes, r, n))
             = Cardinality(Arriving(g.nodes, N, r, n)) * Cardinality(Ends(g.nodes, N, g.observes, n))
    BY <1>5, <2>2, <2>3, <2>4, ViaCounts
  <2>6. V[n] = Via(g.nodes, N, g.observes, r, n)
    OBVIOUS
  <2>. QED  BY <2>2, <2>3, <2>4, <2>5, <2>6
<1>7. \A n \in at : \A w : w \in V[n] <=> w \in Going(g, r, live) /\ Visits(w, n)
  <2>1. ASSUME NEW n \in at
        PROVE  \A w : w \in V[n] <=> w \in Going(g, r, live) /\ Visits(w, n)
    <3>1. \A w : w \in Via(g.nodes, N, g.observes, r, n) <=> w \in Going(g, r, live) /\ Visits(w, n)
      <4>1. n # r
        BY <1>1
      <4> HIDE DEF V
      <4>2. \A w : w \in Via(g.nodes, NextOf(g, r, live), g.observes, r, n)
                     <=> w \in Going(g, r, live) /\ Visits(w, n)
        BY ONLY r \in g.nodes, <4>1, ViaGoes
      <4>. QED  BY <4>2 DEF N
    <3>2. V[n] = Via(g.nodes, N, g.observes, r, n)
      OBVIOUS
    <3>. QED  BY <3>1, <3>2
  <2> HIDE DEF V
  <2>. QED  BY <2>1
<1> HIDE DEF V
<1>8. \A w \in Going(g, r, live) : w \in Seq(g.nodes) /\ IsWay(N, {r}, w)
  BY DEF Going, Longer, Ends, N
<1>9. \A n, k \in at : n # k => V[n] \cap V[k] = {}
  <2>. SUFFICES ASSUME NEW n \in at, NEW k \in at, NEW w, w \in V[n], w \in V[k] PROVE n = k
    OBVIOUS
  <2>1. w \in Going(g, r, live)
    BY <1>7
  <2>2. PICK i \in 1..Len(w) : w[i] = n
    BY <1>7 DEF Visits
  <2>3. PICK j \in 1..Len(w) : w[j] = k
    BY <1>7 DEF Visits
  <2>4. w[i].on = w[j].on
    BY <1>1, <2>2, <2>3
  <2>5. i = j
    BY <1>4, <1>8, <2>1, <2>4
  <2>. QED  BY <2>2, <2>3, <2>5
<1>10. Sum(f, at) = Cardinality(Together(V, at))
  <2>1. \A n \in at : f[n] = Cardinality(V[n]) /\ IsFiniteSet(V[n])
    BY <1>6
  <2>. QED  BY <1>2, <1>9, <2>1, SumCounts
<1>11. Together(V, at) = Meeting(Going(g, r, live), c)
  <2>1. ASSUME NEW w \in Going(g, r, live)
        PROVE  (\E n \in at : w \in V[n]) <=> \E i \in DOMAIN w : w[i].on = c
    <3>1. DOMAIN w = 1..Len(w) /\ \A i \in 1..Len(w) : w[i] \in g.nodes
      BY <1>8
    <3>2. (\E n \in at : w \in V[n]) <=> \E n \in at : \E i \in 1..Len(w) : w[i] = n
      BY <1>7 DEF Visits
    <3>3. \A i \in 1..Len(w) : w[i].on = c => w[i] \in at
      BY <3>1
    <3>. QED  BY <1>1, <3>1, <3>2, <3>3
  <2>2. \A w : w \in Together(V, at) <=> \E n \in at : w \in V[n]
    BY DEF Together
  <2>3. \A n \in at : \A w \in V[n] : w \in Going(g, r, live)
    BY <1>7
  <2>. QED  BY <2>1, <2>2, <2>3 DEF Meeting
<1>. QED  BY <1>10, <1>11

\* fromRoot's touch: the root's live chains through a component.
LEMMA ThroughIs ==
    ASSUME NEW g, NEW rank, Ranked(g, rank), Once(g), NEW r \in g.nodes, NEW live, NEW c
    PROVE  Through(g, r, live, c) = Cardinality(Meeting(LiveOf(ChainsOf(g, r), live), c))
<1> DEFINE W == LiveOf(ChainsOf(g, r), live)
           at == {n \in g.nodes : n.on = c}
           f == [n \in at |-> PrefixesOf(g, r, live)[n] * SuffixesOf(g, r, live)[n]]
<1>1. IsFiniteSet(W) /\ FromRoot(g, r, live) = Cardinality(W)
  BY FromRootCounts
<1>2. \A w \in W : w \in ChainsOf(g, r) /\ w \in Seq(g.nodes) /\ w[1] = r /\ Lives(live, w) /\ w[1] \in live.nodes
  <2>1. \A w \in W : w \in ChainsOf(g, r) /\ Lives(live, w) /\ w[1] \in live.nodes
    BY DEF LiveOf, Lives
  <2>. QED  BY <2>1, AllLives
<1>3. Through(g, r, live, c) = IF Cardinality(W) = 0 THEN 0
                               ELSE IF c = r.on THEN Cardinality(W)
                               ELSE Sum(f, at)
  BY <1>1 DEF Through
<1>4. Meeting(W, c) \subseteq W
  BY DEF Meeting
<1>5. CASE W = {}
  <2>1. Meeting(W, c) = {} /\ Cardinality({}) = 0
    BY <1>4, <1>5, FS_EmptySet
  <2> HIDE DEF W, f, at
  <2>. QED  BY <1>3, <1>5, <2>1 DEF W
<1>6. CASE W # {}
  <2>1. Cardinality(W) # 0
    BY <1>1, <1>6, FS_EmptySet
  <2>2. CASE c = r.on
    <3>1. Meeting(W, c) = W
      <4>1. \A w \in W : 1 \in DOMAIN w
        <5>1. \A w \in ChainsOf(g, r) : Len(w) >= 1
          BY DEF ChainsOf, RootWalks
        <5> HIDE DEF W
        <5>2. ASSUME NEW w \in W PROVE 1 \in DOMAIN w
          <6>1. w \in Seq(g.nodes) /\ Len(w) >= 1
            BY <1>2, <5>1
          <6>. QED  BY <6>1
        <5>. QED  BY <5>2
      <4>. QED  BY <1>2, <2>2, <4>1 DEF Meeting
    <3> HIDE DEF W, f, at
    <3>. QED  BY <1>3, <2>1, <2>2, <3>1 DEF W
  <2>3. CASE c # r.on
    <3>1. r \in live.nodes
      BY <1>2, <1>6
    <3>2. Sum(f, at) = Cardinality(Meeting(Going(g, r, live), c))
      <4>1. \A n \in at : f[n] = PrefixesOf(g, r, live)[n] * SuffixesOf(g, r, live)[n]
        OBVIOUS
      <4>2. at = {n \in g.nodes : n.on = c}
        OBVIOUS
      <4> HIDE DEF f, at
      <4>. QED  BY <2>3, <3>1, <4>1, <4>2, ThroughOthers
    <3>3. Meeting(Going(g, r, live), c) = Meeting(W, c)
      <4>1. Going(g, r, live) = {w \in RootWalks(g, r) : w[Len(w)].on \in g.observes /\ Lives(live, w)}
        BY GoingIs
      <4>2. \A w \in RootWalks(g, r) : w[1] = r
        BY DEF RootWalks
      <4>3. W = {w \in ChainsOf(g, r) : w[1] \in live.nodes /\ Lives(live, w)}
        BY DEF LiveOf, Lives
      <4>4. \A w \in Going(g, r, live) : w \in W
        BY <3>1, <4>1, <4>2, <4>3 DEF ChainsOf
      <4>5. \A w \in W : w \in Going(g, r, live) \/ w = <<r>>
        BY <4>1, <4>3 DEF ChainsOf
      <4>6. <<r>> \notin Meeting(W, c)
        BY <2>3 DEF Meeting
      <4> HIDE DEF W
      <4>. QED  BY <4>4, <4>5, <4>6 DEF Meeting
    <3> HIDE DEF W, f, at
    <3>. QED  BY <1>3, <2>1, <2>3, <3>2, <3>3 DEF W
  <2>. QED  BY <2>2, <2>3
<1>. QED  BY <1>5, <1>6

\* Touch: read off the graph, as many live chains pass through each component
\* as the listing has.
LEMMA TouchIsListing ==
    ASSUME NEW g, NEW rank, Ranked(g, rank), Once(g), NEW live, NEW c \in g.components
    PROVE  Touch(g, live)[c] = Cardinality(Meeting(LiveOf(Expand(g), live), c))
<1> DEFINE A == [r \in g.nodes |-> Meeting(LiveOf(ChainsOf(g, r), live), c)]
           f == [r \in g.nodes |-> Through(g, r, live, c)]
<1>1. \A r \in g.nodes : IsFiniteSet(A[r]) /\ f[r] = Cardinality(A[r])
  <2>1. ASSUME NEW r \in g.nodes PROVE IsFiniteSet(A[r]) /\ f[r] = Cardinality(A[r])
    <3>1. IsFiniteSet(LiveOf(ChainsOf(g, r), live))
      BY FromRootCounts
    <3>2. A[r] = Meeting(LiveOf(ChainsOf(g, r), live), c) /\ A[r] \subseteq LiveOf(ChainsOf(g, r), live)
      BY DEF Meeting
    <3>3. f[r] = Through(g, r, live, c)
      OBVIOUS
    <3> HIDE DEF A, f
    <3>4. IsFiniteSet(A[r])
      BY <3>1, <3>2, FS_Subset
    <3>5. Through(g, r, live, c) = Cardinality(Meeting(LiveOf(ChainsOf(g, r), live), c))
      BY ThroughIs
    <3>. QED  BY <3>2, <3>3, <3>4, <3>5
  <2>. QED  BY <2>1
<1>2. \A r \in g.nodes : \A w \in A[r] : w[1] = r
  <2>1. \A r \in g.nodes : \A w \in ChainsOf(g, r) : w[1] = r
    BY AllLives
  <2>. QED  BY <2>1 DEF Meeting, LiveOf
<1>3. Meeting(LiveOf(Expand(g), live), c) = Together(A, g.nodes)
  <2>1. Expand(g) = UNION {ChainsOf(g, r) : r \in g.nodes}
    BY ExpandIs
  <2>2. \A w : w \in Meeting(LiveOf(Expand(g), live), c)
                  <=> \E r \in g.nodes : w \in Meeting(LiveOf(ChainsOf(g, r), live), c)
    BY <2>1 DEF Meeting, LiveOf
  <2>3. \A w : w \in Together(A, g.nodes) <=> \E r \in g.nodes : w \in Meeting(LiveOf(ChainsOf(g, r), live), c)
    BY DEF Together
  <2> HIDE DEF A
  <2>. QED  BY <2>2, <2>3
<1>4. Touch(g, live)[c] = Sum(f, g.nodes)
  BY DEF Touch
<1> HIDE DEF A, f
<1>5. IsFiniteSet(g.nodes)
  BY DEF Ranked
<1>6. \A r, s \in g.nodes : r # s => A[r] \cap A[s] = {}
  BY <1>2
<1>7. Sum(f, g.nodes) = Cardinality(Together(A, g.nodes))
  BY <1>1, <1>5, <1>6, SumCounts
<1>. QED  BY <1>3, <1>4, <1>7

-----------------------------------------------------------------------------
(* The shortest without listing.                                           *)

\* The live walks of n steps.
LiveWalks(g, live, n) ==
    {w \in Seq(g.nodes) : /\ Len(w) = n /\ w[1] \in live.nodes
                          /\ \A i \in 1..(Len(w) - 1) : w[i + 1] \in OnTo(g, w[1], live, w[i])}

\* Those of a step more are those that go on.
LEMMA LiveWalksGrow ==
    ASSUME NEW g, NEW rank, Ranked(g, rank), NEW live, NEW n \in Nat, n >= 1
    PROVE  LiveWalks(g, live, n + 1) =
              UNION {{Append(w, k) : k \in OnTo(g, w[1], live, w[n])} : w \in LiveWalks(g, live, n)}
<1> DEFINE X == g.nodes
           on(r, k) == OnTo(g, r, live, k)
           G == UNION {{Append(w, k) : k \in on(w[1], w[n])} : w \in LiveWalks(g, live, n)}
<1>1. \A r \in X, k \in X : on(r, k) \subseteq X
  BY DEF OnTo, Onward, Ranked, Descends
<1>2. \A w, m : w \in LiveWalks(g, live, m) <=>
         w \in Seq(X) /\ Len(w) = m /\ w[1] \in live.nodes /\ \A i \in 1..(Len(w) - 1) : w[i + 1] \in on(w[1], w[i])
  BY DEF LiveWalks
<1> HIDE DEF X, on
<1>3. ASSUME NEW w \in LiveWalks(g, live, n), NEW k \in on(w[1], w[n])
      PROVE  Append(w, k) \in LiveWalks(g, live, n + 1)
  <2> DEFINE v == Append(w, k)
  <2>1. /\ w \in Seq(X) /\ Len(w) = n /\ w[1] \in live.nodes /\ w[1] \in X /\ w[n] \in X
        /\ \A i \in 1..(n - 1) : w[i + 1] \in on(w[1], w[i])
    BY <1>2
  <2>2. k \in X
    BY <1>1, <2>1
  <2>3. v \in Seq(X) /\ Len(v) = n + 1 /\ (\A i \in 1..n : v[i] = w[i]) /\ v[n + 1] = k
    BY <2>1, <2>2, AppendProperties
  <2> HIDE DEF v
  <2>4. ASSUME NEW i \in 1..n PROVE v[i + 1] \in on(v[1], v[i])
    <3>1. 1 \in 1..n
      OBVIOUS
    <3>2. CASE i = n
      BY <2>3, <3>1, <3>2
    <3>3. CASE i # n
      <4>1. i \in 1..(n - 1) /\ i + 1 \in 1..n
        BY <3>3
      <4>. QED  BY <2>1, <2>3, <3>1, <4>1
    <3>. QED  BY <3>2, <3>3
  <2>5. v[1] \in live.nodes /\ 1..(Len(v) - 1) = 1..n
    <3>1. 1 \in 1..n
      OBVIOUS
    <3>. QED  BY <2>1, <2>3, <3>1
  <2>. QED  BY <1>2, <2>3, <2>4, <2>5 DEF v
<1>4. ASSUME NEW v \in LiveWalks(g, live, n + 1)
      PROVE  \E w \in LiveWalks(g, live, n) : \E k \in on(w[1], w[n]) : v = Append(w, k)
  <2>1. /\ v \in Seq(X) /\ Len(v) = n + 1 /\ v[1] \in live.nodes
        /\ \A i \in 1..n : v[i + 1] \in on(v[1], v[i])
    <3>1. \A l : l = n + 1 => 1..(l - 1) = 1..n
      OBVIOUS
    <3>. QED  BY <1>2, <3>1
  <2> DEFINE w == [i \in 1..n |-> v[i]]
  <2>2. w \in Seq(X) /\ Len(w) = n /\ \A i \in 1..n : w[i] = v[i]
    <3>1. \A i \in 1..n : v[i] \in X
      BY <2>1
    <3>. QED  BY <3>1
  <2> HIDE DEF w
  <2>3. v[n + 1] \in X
    BY <2>1
  <2>4. v = Append(w, v[n + 1])
    <3> DEFINE u == Append(w, v[n + 1])
    <3>1. u \in Seq(X) /\ Len(u) = n + 1 /\ (\A i \in 1..n : u[i] = w[i]) /\ u[n + 1] = v[n + 1]
      BY <2>2, <2>3, AppendProperties
    <3> HIDE DEF u
    <3>2. \A i \in 1..(n + 1) : i \in 1..n \/ i = n + 1
      OBVIOUS
    <3>3. \A i \in 1..(n + 1) : u[i] = v[i]
      BY <2>2, <3>1, <3>2
    <3>4. u = v
      BY <2>1, <3>1, <3>3, SeqEqual
    <3>. QED  BY <3>4 DEF u
  <2>5. 1 \in 1..n /\ n \in 1..n /\ \A i \in 1..(n - 1) : i \in 1..n /\ i + 1 \in 1..n
    OBVIOUS
  <2>6. w \in LiveWalks(g, live, n)
    <3>1. \A i \in 1..(n - 1) : w[i + 1] \in on(w[1], w[i])
      BY <2>1, <2>2, <2>5
    <3>. QED  BY <1>2, <2>1, <2>2, <2>5, <3>1
  <2>7. v[n + 1] \in on(w[1], w[n])
    BY <2>1, <2>2, <2>5
  <2>. QED  BY <2>4, <2>6, <2>7
<1>5. \A v : v \in G <=> \E w \in LiveWalks(g, live, n) : \E k \in on(w[1], w[n]) : v = Append(w, k)
  OBVIOUS
<1> HIDE DEF G
<1>6. LiveWalks(g, live, n + 1) = G
  BY <1>3, <1>4, <1>5
<1>. QED  BY <1>6 DEF G, on

\* The frontiers are the live walks, step by step.
LEMMA FrontierIs ==
    ASSUME NEW g, NEW rank, Ranked(g, rank), NEW live, live.nodes \subseteq g.nodes
    PROVE  \A n \in Nat : n >= 1 => Frontier(g, live)[n] = LiveWalks(g, live, n)
<1> DEFINE on(r, k) == OnTo(g, r, live, k)
           ones == {<<r>> : r \in live.nodes}
           grown(S, n) == UNION {{Append(w, k) : k \in on(w[1], w[n - 1])} : w \in S}
           step(h, n) == IF n <= 1 THEN ones ELSE grown(h[n - 1], n)
           sol(h) == h = [n \in Nat |-> step(h, n)]
           L(n) == IF n <= 1 THEN ones ELSE LiveWalks(g, live, n)
           h0 == [n \in Nat |-> L(n)]
<1>1. LiveWalks(g, live, 1) = ones
  <2>1. \A w \in LiveWalks(g, live, 1) : w = <<w[1]>> /\ w[1] \in live.nodes
    BY DEF LiveWalks
  <2>2. ASSUME NEW r \in live.nodes PROVE <<r>> \in LiveWalks(g, live, 1)
    <3> DEFINE X == g.nodes
    <3>1. r \in X
      OBVIOUS
    <3> HIDE DEF X
    <3>2. <<r>> \in Seq(X) /\ <<r>>[1] = r /\ Len(<<r>>) = 1 /\ 1..(1 - 1) = {}
      BY ONLY <3>1
    <3>. QED  BY <3>2 DEF LiveWalks, X
  <2>. QED  BY <2>1, <2>2
<1>2. \A n \in Nat : n >= 1 => L(n) = LiveWalks(g, live, n)
  <2>1. \A n \in Nat : n >= 1 /\ n <= 1 => n = 1
    OBVIOUS
  <2>. QED  BY <1>1, <2>1
<1>3. \A n \in Nat : ~(n <= 1) => L(n) = grown(L(n - 1), n)
  <2>. SUFFICES ASSUME NEW n \in Nat, ~(n <= 1) PROVE L(n) = grown(L(n - 1), n)
    OBVIOUS
  <2> DEFINE m == n - 1
  <2>1. m \in Nat /\ m >= 1 /\ m + 1 = n /\ n >= 1
    OBVIOUS
  <2>2. L(m) = LiveWalks(g, live, m) /\ L(n) = LiveWalks(g, live, n)
    BY <1>2, <2>1
  <2>3. LiveWalks(g, live, m + 1) = UNION {{Append(w, k) : k \in on(w[1], w[m])} : w \in LiveWalks(g, live, m)}
    <3> HIDE DEF m
    <3>. QED  BY <2>1, LiveWalksGrow
  <2>4. LiveWalks(g, live, n) = grown(LiveWalks(g, live, m), n)
    BY <2>1, <2>3
  <2>. QED  BY <2>2, <2>4
<1> HIDE DEF L, grown, ones
<1>4. sol(h0)
  <2>1. \A n \in Nat : step(h0, n) = L(n)
    <3>1. \A n \in Nat : ~(n <= 1) => n - 1 \in Nat
      OBVIOUS
    <3>2. \A n \in Nat : n <= 1 => L(n) = ones
      BY DEF L
    <3>. QED  BY <1>3, <3>1, <3>2
  <2>. QED  BY <2>1
<1>5. ASSUME NEW h, sol(h) PROVE \A n \in Nat : h[n] = L(n)
  <2> DEFINE bad == {n \in Nat : h[n] # L(n)}
  <2>. SUFFICES ASSUME bad # {} PROVE FALSE
    OBVIOUS
  <2>1. \A n \in Nat : h[n] = step(h, n)
    BY <1>5
  <2>2. PICK n \in bad : \A j \in bad : n <= j
    <3>1. bad \in SUBSET Nat
      OBVIOUS
    <3> HIDE DEF bad
    <3>. QED  BY <3>1, LeastOf
  <2>3. CASE n <= 1
    BY <2>1, <2>3 DEF L
  <2>4. CASE ~(n <= 1)
    <3>1. n - 1 \in Nat /\ ~(n <= n - 1)
      BY <2>4
    <3>2. h[n - 1] = L(n - 1)
      BY <2>2, <3>1
    <3>. QED  BY <1>3, <2>1, <2>4, <3>2
  <2>. QED  BY <2>3, <2>4
<1>6. Frontier(g, live) = CHOOSE h : sol(h)
  BY Zenon DEF Frontier, grown, ones
<1> HIDE DEF sol, h0
<1>7. sol(Frontier(g, live))
  BY <1>4, <1>6
<1>. QED  BY <1>2, <1>5, <1>7

\* The chains among them.
LEMMA LayerIs ==
    ASSUME NEW g, NEW rank, Ranked(g, rank), NEW live, live.nodes \subseteq g.nodes, NEW n \in Nat, n >= 1
    PROVE  Layer(g, live, n) = {w \in LiveOf(Expand(g), live) : Len(w) = n}
<1> DEFINE W(r) == LiveOf(ChainsOf(g, r), live)
<1>1. Layer(g, live, n) = {w \in LiveWalks(g, live, n) :
                              IF n = 1 THEN StandsAlone(g, w[1], live) ELSE w[n].on \in g.observes}
  BY FrontierIs DEF Layer
<1>2. \A w : w \in LiveOf(Expand(g), live) <=> \E r \in g.nodes : w \in W(r)
  BY ExpandIs DEF LiveOf
<1>3. \A r : W(r) = {w \in ChainsOf(g, r) : w[1] \in live.nodes /\ Lives(live, w)}
  BY DEF LiveOf, Lives
<1>4. \A r \in g.nodes : \A w \in ChainsOf(g, r) : w \in Seq(g.nodes) /\ w[1] = r /\ Lives(AllLive(g), w)
  BY AllLives
<1> HIDE DEF W
<1>5. ASSUME NEW r \in g.nodes, r \in live.nodes, NEW w, n # 1
      PROVE  (w \in W(r) /\ Len(w) = n)
                <=> (w \in LiveWalks(g, live, n) /\ w[1] = r /\ w[n].on \in g.observes)
  <2>1. n >= 2 /\ ~(1 >= 2)
    BY <1>5
  <2>2. \A v : v \in RootWalks(g, r) <=> v \in Seq(g.nodes) /\ IsWay(g.next[r.on], {r}, v) /\ Len(v) >= 2
    BY WalksAreWays
  <2>3. \A v : v \in W(r) /\ Len(v) = n <=>
           v \in RootWalks(g, r) /\ v[Len(v)].on \in g.observes /\ Len(v) = n /\ Lives(live, v)
    <3>1. Len(<<r>>) = 1
      OBVIOUS
    <3>2. \A v \in RootWalks(g, r) : v[1] = r
      BY DEF RootWalks
    <3>3. \A v : v \in ChainsOf(g, r) /\ Len(v) = n <=>
             v \in RootWalks(g, r) /\ v[Len(v)].on \in g.observes /\ Len(v) = n
      BY <1>5, <3>1 DEF ChainsOf
    <3>. QED  BY <1>3, <1>4, <1>5, <3>2, <3>3
  <2>4. ASSUME NEW v \in Seq(g.nodes)
        PROVE  (IsWay(g.next[r.on], {r}, v) /\ Len(v) = n /\ Lives(live, v)) <=> (v \in LiveWalks(g, live, n) /\ v[1] = r)
    <3>1. \A i \in 1..(Len(v) - 1) : v[i] \in g.nodes
      OBVIOUS
    <3>2. \A k \in g.nodes : \A m : m \in OnTo(g, r, live, k) <=> m \in g.next[r.on][k] /\ Passes(live, k, m)
      BY DEF OnTo, Onward
    <3>3. (\A i \in 1..(Len(v) - 1) : v[i + 1] \in OnTo(g, r, live, v[i]))
             <=> (\A i \in 1..(Len(v) - 1) : v[i + 1] \in g.next[r.on][v[i]]) /\ Lives(live, v)
      BY <3>1, <3>2 DEF Lives
    <3>4. v \in LiveWalks(g, live, n) /\ v[1] = r <=>
             Len(v) = n /\ v[1] = r /\ \A i \in 1..(Len(v) - 1) : v[i + 1] \in OnTo(g, r, live, v[i])
      <4>1. v \in LiveWalks(g, live, n) <=>
               Len(v) = n /\ v[1] \in live.nodes /\ \A i \in 1..(Len(v) - 1) : v[i + 1] \in OnTo(g, v[1], live, v[i])
        BY DEF LiveWalks
      <4>. QED  BY <1>5, <4>1, Zenon
    <3>5. IsWay(g.next[r.on], {r}, v) /\ Len(v) = n <=>
             Len(v) = n /\ v[1] = r /\ \A i \in 1..(Len(v) - 1) : v[i + 1] \in g.next[r.on][v[i]]
      BY DEF IsWay
    <3>. QED  BY <3>3, <3>4, <3>5, Zenon
  <2>5. \A v \in LiveWalks(g, live, n) : v \in Seq(g.nodes) /\ Len(v) = n
    BY DEF LiveWalks
  <2>6. \A v \in RootWalks(g, r) : v \in Seq(g.nodes) /\ IsWay(g.next[r.on], {r}, v)
    BY <2>2
  <2>. QED  BY <2>1, <2>2, <2>3, <2>4, <2>5, <2>6
<1>6. ASSUME NEW r \in g.nodes, r \in live.nodes, NEW w
      PROVE  (w \in W(r) /\ Len(w) = 1) <=> (w = <<r>> /\ StandsAlone(g, r, live))
  <2>1. StandsAlone(g, r, live) <=> r.on \in g.observes /\ Going(g, r, AllLive(g)) = {}
    BY FromRootIs
  <2>2. Going(g, r, AllLive(g)) = {v \in RootWalks(g, r) : v[Len(v)].on \in g.observes /\ Lives(AllLive(g), v)}
    BY GoingIs
  <2>3. \A v \in RootWalks(g, r) : ~(Len(v) = 1)
    <3>1. \A v \in RootWalks(g, r) : Len(v) >= 2
      BY WalksAreWays
    <3>2. ~(1 >= 2)
      OBVIOUS
    <3>. QED  BY <3>1, <3>2
  <2>4. \A v \in RootWalks(g, r) : v[Len(v)].on \in g.observes => Lives(AllLive(g), v)
    BY <1>4 DEF ChainsOf
  <2>5. Lives(live, <<r>>) /\ <<r>>[1] = r /\ Len(<<r>>) = 1
    BY DEF Lives
  <2>6. w \in ChainsOf(g, r) /\ Len(w) = 1 <=> w = <<r>> /\ StandsAlone(g, r, live)
    BY <2>1, <2>2, <2>3, <2>4, <2>5 DEF ChainsOf
  <2>. QED  BY <1>3, <1>6, <2>5, <2>6
<1>7. \A r \in g.nodes : \A w \in W(r) : w[1] = r /\ r \in live.nodes
  BY <1>3, <1>4
<1>8. \A w \in LiveWalks(g, live, n) : w[1] \in live.nodes /\ w[1] \in g.nodes
  BY DEF LiveWalks
<1>9. CASE n = 1
  <2>1. \A w \in LiveWalks(g, live, 1) : w = <<w[1]>>
    BY DEF LiveWalks
  <2>2. \A r \in live.nodes : <<r>> \in LiveWalks(g, live, 1) /\ <<r>>[1] = r
    <3>. SUFFICES ASSUME NEW r \in live.nodes PROVE <<r>> \in LiveWalks(g, live, 1) /\ <<r>>[1] = r
      OBVIOUS
    <3> DEFINE X == g.nodes
    <3>1. r \in X
      OBVIOUS
    <3> HIDE DEF X
    <3>2. <<r>> \in Seq(X) /\ <<r>>[1] = r /\ Len(<<r>>) = 1 /\ 1..(1 - 1) = {}
      BY ONLY <3>1
    <3>. QED  BY <3>2 DEF LiveWalks, X
  <2>3. \A w : w \in Layer(g, live, n) <=> \E r \in live.nodes : w = <<r>> /\ StandsAlone(g, r, live)
    <3>1. \A w : w \in Layer(g, live, n) <=> w \in LiveWalks(g, live, 1) /\ StandsAlone(g, w[1], live)
      BY <1>1, <1>9
    <3>2. \A w : w \in LiveWalks(g, live, 1) <=> \E r \in live.nodes : w = <<r>>
      BY <1>8, <1>9, <2>1, <2>2
    <3>3. \A r : <<r>>[1] = r
      OBVIOUS
    <3>. QED  BY <3>1, <3>2, <3>3, Zenon
  <2>4. \A w : (w \in LiveOf(Expand(g), live) /\ Len(w) = 1)
                  <=> \E r \in live.nodes : w = <<r>> /\ StandsAlone(g, r, live)
    BY <1>2, <1>6, <1>7
  <2>. QED  BY <1>9, <2>3, <2>4
<1>10. CASE n # 1
  <2>1. \A w : w \in Layer(g, live, n) <=> w \in LiveWalks(g, live, n) /\ w[n].on \in g.observes
    BY <1>1, <1>10
  <2>2. \A w : (w \in LiveOf(Expand(g), live) /\ Len(w) = n)
                  <=> w \in LiveWalks(g, live, n) /\ w[n].on \in g.observes
    BY <1>2, <1>5, <1>7, <1>8, <1>10
  <2>. QED  BY <2>1, <2>2
<1>. QED  BY <1>9, <1>10

\* LiveByLength's first layer: the live chains none of which is longer than
\* another live chain.
LEMMA ShortestIs ==
    ASSUME NEW g, NEW rank, Ranked(g, rank), NEW live, live.nodes \subseteq g.nodes
    PROVE  ShortestLive(g, live) =
              {w \in LiveOf(Expand(g), live) : \A v \in LiveOf(Expand(g), live) : Len(w) <= Len(v)}
<1> DEFINE W == LiveOf(Expand(g), live)
           top == Cardinality(g.components)
           some == {n \in 1..top : Layer(g, live, n) # {}}
<1>1. \A n \in Nat : n >= 1 => Layer(g, live, n) = {w \in W : Len(w) = n}
  BY LayerIs
<1>2. top \in Nat /\ \A w \in W : Len(w) \in 1..top
  <2>1. top \in Nat
    BY DEF Ranked
  <2>2. ASSUME NEW w \in W PROVE Len(w) \in 1..top
    <3>1. PICK r \in g.nodes : w \in ChainsOf(g, r)
      BY ExpandIs DEF LiveOf
    <3>2. w \in Seq(g.nodes) /\ IsWay(g.next[r.on], {r}, w)
      <4>1. w \in Seq(g.nodes)
        BY <3>1, AllLives
      <4>2. CASE w \in RootWalks(g, r)
        BY <4>2, WalksAreWays
      <4>3. CASE w = <<r>>
        <5>1. <<r>>[1] = r /\ Len(<<r>>) = 1 /\ 1..(1 - 1) = {}
          OBVIOUS
        <5>. QED  BY <4>1, <4>3, <5>1 DEF IsWay
      <4>. QED  BY <3>1, <4>1, <4>2, <4>3 DEF ChainsOf
    <3>3. Len(w) <= top
      BY <3>2 DEF Ranked
    <3> DEFINE l == Len(w)
    <3>4. l \in Nat /\ l >= 1 /\ l <= top
      BY <3>2, <3>3 DEF IsWay
    <3> HIDE DEF l, top
    <3>5. l \in 1..top
      BY <2>1, <3>4
    <3>. QED  BY <3>5 DEF l
  <2>. QED  BY <2>1, <2>2
<1>3. ShortestLive(g, live) = IF some = {} THEN {} ELSE Layer(g, live, Min(some))
  BY DEF ShortestLive
<1> HIDE DEF W, top
<1>4. \A n \in 1..top : n \in Nat /\ n >= 1
  BY <1>2
<1>5. \A n : n \in some <=> n \in 1..top /\ \E w \in W : Len(w) = n
  BY <1>1, <1>4
<1>6. \A w \in W : Len(w) \in some
  BY <1>2, <1>5
<1>7. some \in SUBSET Nat
  BY <1>4
<1> HIDE DEF some
<1>8. CASE some = {}
  BY <1>3, <1>6, <1>8 DEF W
<1>9. CASE some # {}
  <2> DEFINE n == Min(some)
  <2>1. n \in some /\ \A j \in some : n <= j
    BY <1>7, <1>9, LeastOf
  <2>2. n \in Nat /\ n >= 1 /\ \E w \in W : Len(w) = n
    BY <1>4, <1>5, <2>1
  <2>3. ShortestLive(g, live) = {w \in W : Len(w) = n}
    <3> HIDE DEF n
    <3>1. Layer(g, live, n) = {w \in W : Len(w) = n}
      BY <1>1, <2>2
    <3>. QED  BY <1>3, <1>9, <3>1 DEF n
  <2> HIDE DEF n
  <2>4. \A w \in W : Len(w) \in Nat /\ n <= Len(w)
    BY <1>6, <1>7, <2>1
  <2>5. \A w \in W : Len(w) = n <=> \A v \in W : Len(w) <= Len(v)
    <3>1. \A i, j \in Nat : i <= j /\ j <= i => i = j
      OBVIOUS
    <3>. QED  BY <2>2, <2>4, <3>1
  <2>. QED  BY <2>3, <2>5 DEF W
<1>. QED  BY <1>8, <1>9

-----------------------------------------------------------------------------
(* The graph of a model without cycles.                                    *)

\* What a graph is made of.
LEMMA GraphOfModel ==
    ASSUME NEW m, IsFiniteSet(DOMAIN m), \A c \in DOMAIN m : IsFiniteSet(m[c].failures)
    PROVE  LET g == BuildGraph(m) IN
           /\ IsFiniteSet(g.nodes) /\ g.components = DOMAIN m
           /\ g.nodes = UNION {{Node(c, s) : s \in m[c].failures} : c \in DOMAIN m}
           /\ \A n \in g.nodes : n.on \in DOMAIN m
           /\ \A r \in DOMAIN m : /\ g.next[r] \in [g.nodes -> SUBSET g.nodes]
                                  /\ \A n \in g.nodes : \A k \in g.next[r][n] : n.on \in Closure(m)[k.on]
<1> DEFINE g == BuildGraph(m)
           of(c) == {Node(c, s) : s \in m[c].failures}
           nodes == UNION {of(c) : c \in DOMAIN m}
<1>1. ASSUME NEW c \in DOMAIN m PROVE IsFiniteSet(of(c))
  <2> DEFINE F == m[c].failures
             f == [s \in F |-> Node(c, s)]
  <2>1. of(c) = {f[s] : s \in F} /\ IsFiniteSet(F)
    OBVIOUS
  <2> HIDE DEF f, F, of
  <2>. QED  BY <2>1, ImageIsFinite
<1>2. g = GraphFrom(m, Closure(m))
  BY DEF BuildGraph, The
<1>3. g.nodes = nodes /\ g.components = DOMAIN m
  BY <1>2 DEF GraphFrom
<1>4. IsFiniteSet(nodes)
  <2> DEFINE f == [c \in DOMAIN m |-> of(c)]
             U == {f[c] : c \in DOMAIN m}
  <2>1. nodes = UNION U
    OBVIOUS
  <2>2. IsFiniteSet(U)
    <3> HIDE DEF f
    <3>. QED  BY ImageIsFinite
  <2>3. \A T \in U : IsFiniteSet(T)
    BY <1>1
  <2> HIDE DEF U, nodes
  <2>. QED  BY <2>1, <2>2, <2>3, FS_UNION
<1>5. \A n \in nodes : n.on \in DOMAIN m
  <2>1. \A c, s : Node(c, s).on = c
    BY DEF Node
  <2>. QED  BY <2>1
<1> DEFINE carried(r, c) == {d \in DOMAIN m : Dependent(m, d, c) /\ Propagates(m, Closure(m), r, d, c)}
           on(r, n) == {k \in nodes : /\ k.on \in carried(r, n.on)
                                      /\ Matches(FailureAt(m, n).emits, FailureAt(m, k).triggeredBy)}
<1>6. \A r \in DOMAIN m : g.next[r] = [n \in nodes |-> on(r, n)]
  BY <1>2 DEF GraphFrom
<1> HIDE DEF nodes, g
<1>7. ASSUME NEW r \in DOMAIN m
      PROVE  /\ g.next[r] \in [nodes -> SUBSET nodes]
             /\ \A n \in nodes : \A k \in g.next[r][n] : n.on \in Closure(m)[k.on]
  <2>1. g.next[r] = [n \in nodes |-> on(r, n)]
    BY <1>6
  <2>2. \A n \in nodes : on(r, n) \in SUBSET nodes
    OBVIOUS
  <2>3. ASSUME NEW n \in nodes, NEW k \in on(r, n) PROVE n.on \in Closure(m)[k.on]
    <3>1. k \in nodes /\ k.on \in DOMAIN m /\ n.on \in DOMAIN m /\ Dependent(m, k.on, n.on)
      BY <1>5
    <3>. QED  BY <3>1, BehindIsTransitive
  <2> HIDE DEF on
  <2>. QED  BY <2>1, <2>2, <2>3
<1>. QED  BY <1>3, <1>4, <1>5, <1>7 DEF g, nodes

\* Finitely many failure states, and nothing stands behind itself.
Layered(m) ==
    /\ IsFiniteSet(DOMAIN m)
    /\ \A c \in DOMAIN m : IsFiniteSet(m[c].failures) /\ c \notin Closure(m)[c]

\* How far down a node may still go.
DepthOf(m, g) == [n \in g.nodes |-> Cardinality(DOMAIN m \ Closure(m)[n.on])]

\* Its graph has no way down for ever, and no way meets a component twice.
LEMMA LayeredIsRanked ==
    ASSUME NEW m, Layered(m)
    PROVE  LET g == BuildGraph(m) IN Ranked(g, DepthOf(m, g)) /\ Once(g)
<1> DEFINE g == BuildGraph(m)
           D == DOMAIN m
           rest(c) == D \ Closure(m)[c]
           rank == DepthOf(m, g)
<1>1. /\ IsFiniteSet(g.nodes) /\ g.components = D /\ IsFiniteSet(D)
      /\ \A n \in g.nodes : n.on \in D
      /\ \A r \in D : /\ g.next[r] \in [g.nodes -> SUBSET g.nodes]
                      /\ \A n \in g.nodes : \A k \in g.next[r][n] : n.on \in Closure(m)[k.on]
  BY GraphOfModel DEF Layered
<1>2. \A c \in D : c \notin Closure(m)[c]
  BY DEF Layered
<1> HIDE DEF g
<1>3. \A c \in D : IsFiniteSet(rest(c)) /\ Cardinality(rest(c)) \in Nat
  BY <1>1, FS_Subset, FS_CardinalityType
<1>4. ASSUME NEW c \in D, NEW b \in D, c \in Closure(m)[b] PROVE Cardinality(rest(b)) < Cardinality(rest(c))
  <2>1. rest(b) \subseteq rest(c)
    <3>1. \A x \in D : x \in Closure(m)[c] => x \in Closure(m)[b]
      BY <1>4, BehindIsTransitive
    <3>. QED  BY <3>1
  <2>2. c \in rest(c) /\ c \notin rest(b)
    BY <1>2, <1>4
  <2> DEFINE P == rest(b)
             Q == rest(c)
  <2>3. P \in SUBSET Q /\ P # Q /\ IsFiniteSet(Q) /\ Cardinality(P) \in Nat /\ Cardinality(Q) \in Nat
    BY <1>3, <2>1, <2>2
  <2> HIDE DEF P, Q
  <2>4. Cardinality(P) <= Cardinality(Q) /\ Cardinality(P) # Cardinality(Q)
    BY <2>3, FS_Subset
  <2>5. Cardinality(P) < Cardinality(Q)
    BY <2>3, <2>4
  <2>. QED  BY <2>5 DEF P, Q
<1>5. \A n \in g.nodes : rank[n] = Cardinality(rest(n.on))
  BY DEF DepthOf
<1>6. rank \in [g.nodes -> Nat]
  <2>1. rank = [n \in g.nodes |-> Cardinality(rest(n.on))]
    BY DEF DepthOf
  <2> HIDE DEF rank, rest
  <2>. QED  BY <1>1, <1>3, <2>1
<1> HIDE DEF rank, rest
<1>7. ASSUME NEW r \in D PROVE Descends(g.nodes, g.next[r], rank)
  <2>1. ASSUME NEW n \in g.nodes, NEW k \in g.next[r][n] PROVE rank[k] < rank[n]
    <3>1. k \in g.nodes
      BY <1>1
    <3>2. n.on \in D /\ k.on \in D /\ n.on \in Closure(m)[k.on]
      BY <1>1, <3>1
    <3>. QED  BY <1>4, <1>5, <3>1, <3>2
  <2>. QED  BY <1>1, <1>6, <2>1 DEF Descends
<1>8. ASSUME NEW r \in g.nodes, NEW p \in Seq(g.nodes), IsWay(g.next[r.on], {r}, p)
      PROVE  Len(p) <= Cardinality(D) /\ \A i, j \in 1..Len(p) : p[i].on = p[j].on => i = j
  <2>1. r.on \in D
    BY <1>1
  <2> DEFINE next == g.next[r.on]
             nodes == g.nodes
  <2>2. /\ \A n \in nodes : n.on \in DOMAIN m
        /\ \A n \in nodes : \A k \in next[n] : n.on \in Closure(m)[k.on]
        /\ p \in Seq(nodes) /\ IsWay(next, {r}, p) /\ IsFiniteSet(DOMAIN m)
    BY <1>1, <1>8, <2>1
  <2> HIDE DEF next, nodes
  <2>3. /\ Len(p) <= Cardinality(DOMAIN m) /\ (Len(p) > 1 => p[Len(p)].on # p[1].on)
        /\ \A i, j \in 1..Len(p) : p[i].on = p[j].on => i = j
    BY ONLY <1>2, <2>2, WayIsShort
  <2>. QED  BY <2>3, Zenon
<1>9. Cardinality(D) \in Nat
  BY <1>1, FS_CardinalityType
<1> HIDE DEF D
<1>10. Once(g)
  BY <1>8 DEF Once
<1>11. Ranked(g, rank)
  BY <1>1, <1>7, <1>8, <1>9 DEF Ranked
<1>. QED  BY <1>10, <1>11 DEF rank, g

=============================================================================
