----------------------------- MODULE PlanProofs -----------------------------
(***************************************************************************)
(* What `mgtt plan` shows, for every model, world and way to start: the    *)
(* paths of the path engine end at the components the strategies' walk     *)
(* visits, the component named has one, an elimination stands, and with    *)
(* every fact read the component named is the right one.                   *)
(***************************************************************************)
EXTENDS Plan, HealthProofs

-----------------------------------------------------------------------------
(* The paths.                                                              *)

NonEmpty == Seq(Components) \ {<<>>}

\* No two paths end at the same component.
Distinct(ps) == \A i, j \in DOMAIN ps : Last(ps[i]) = Last(ps[j]) => i = j

\* A path found more.
LEMMA OneMorePath ==
    ASSUME NEW ps \in Seq(NonEmpty), NEW p \in NonEmpty, NEW t \in Components,
           Distinct(ps), t \notin Ends(Range(ps))
    PROVE  LET qs == Append(ps, Append(p, t)) IN
           /\ qs \in Seq(NonEmpty) /\ Distinct(qs)
           /\ Len(qs) = Len(ps) + 1 /\ \A i \in 1..Len(ps) : qs[i] = ps[i]
           /\ Ends(Range(qs)) = Ends(Range(ps)) \cup {t}
<1> DEFINE q == Append(p, t)
           qs == Append(ps, q)
<1>1. q \in NonEmpty /\ Last(q) = t
  BY DEF NonEmpty, Last
<1> HIDE DEF q
<1>2. /\ qs \in Seq(NonEmpty) /\ Len(qs) = Len(ps) + 1 /\ Len(ps) \in Nat
      /\ \A i \in 1..Len(ps) : qs[i] = ps[i]
      /\ qs[Len(ps) + 1] = q /\ DOMAIN qs = 1..(Len(ps) + 1) /\ DOMAIN ps = 1..Len(ps)
  BY <1>1
<1>3. Range(qs) = Range(ps) \cup {q}
  BY <1>1, RangeOf
<1> HIDE DEF qs
<1>4. Ends(Range(qs)) = Ends(Range(ps)) \cup {t}
  BY <1>1, <1>3 DEF Ends
<1>5. \A i \in 1..Len(ps) : Last(qs[i]) # t
  BY <1>2 DEF Ends, Range
<1>6. Distinct(qs)
  <2>. SUFFICES ASSUME NEW i \in 1..(Len(ps) + 1), NEW j \in 1..(Len(ps) + 1), Last(qs[i]) = Last(qs[j])
                PROVE  i = j
    BY <1>2 DEF Distinct
  <2>1. CASE i \in 1..Len(ps) /\ j \in 1..Len(ps)
    BY <1>2, <2>1 DEF Distinct
  <2>2. CASE i = Len(ps) + 1 \/ j = Len(ps) + 1
    BY <1>1, <1>2, <1>5, <2>2
  <2>. QED  BY <1>2, <2>1, <2>2
<1>. QED  BY <1>2, <1>4, <1>6 DEF qs, q

\* The targets looked at so far all end a path, which keeps its place.
Reached(qs, ps, ts, k) ==
    /\ qs \in Seq(NonEmpty) /\ Distinct(qs)
    /\ Len(ps) <= Len(qs) /\ \A i \in 1..Len(ps) : qs[i] = ps[i]
    /\ Ends(Range(qs)) = Ends(Range(ps)) \cup {ts[i] : i \in 1..k}

\* Extended adds a path to each of them.
LEMMA ExtendedReaches ==
    ASSUME NEW ps \in Seq(NonEmpty), NEW p \in NonEmpty, NEW ts \in Seq(Components), Distinct(ps)
    PROVE  Reached(Extended(ps, p, ts), ps, ts, Len(ts))
<1> DEFINE S == Seq(NonEmpty)
           N == Len(ts)
           after(k, v) == IF ts[k] \in Ends(Range(v)) THEN v ELSE Append(v, Append(p, ts[k]))
           step == [x \in (1..N) \X S |-> after(x[1], x[2])]
           sol(f) == f = [k \in 0..N |->
                            IF k = 0 THEN ps
                            ELSE IF ts[k] \in Ends(Range(f[k - 1])) THEN f[k - 1]
                            ELSE Append(f[k - 1], Append(p, ts[k]))]
           u == CHOOSE f : sol(f)
<1>1. Extended(ps, p, ts) = u[N]
  BY DEF Extended
<1>2. N \in Nat /\ ps \in S /\ \A k \in 1..N : ts[k] \in Components
  OBVIOUS
<1>3. ASSUME NEW k \in 1..N, NEW v \in S PROVE after(k, v) \in S
  <2>1. Append(p, ts[k]) \in NonEmpty
    <3>1. ts[k] \in Components /\ p \in Seq(Components)
      BY <1>2 DEF NonEmpty
    <3> DEFINE t == ts[k]
    <3> HIDE DEF t
    <3>2. Append(p, t) \in Seq(Components) /\ Append(p, t) # <<>>
      BY <3>1 DEF t
    <3>. QED  BY <3>2 DEF NonEmpty, t
  <2>. QED  BY <2>1
<1> HIDE DEF S, N, after
<1>4. step \in [(1..N) \X S -> S] /\ \A k \in 1..N, v \in S : step[<<k, v>>] = after(k, v)
  <2>1. \A x \in (1..N) \X S : x[1] \in 1..N /\ x[2] \in S
    OBVIOUS
  <2>. QED  BY <1>3, <2>1
<1> HIDE DEF step
<1>5. PICK f : Computes(f, N, S, ps, step)
  BY <1>2, <1>4, RecursionUpTo
<1>6. f[0] = ps /\ f = [k \in 0..N |-> f[k]]
  BY <1>5 DEF Computes
<1>7. ASSUME NEW k \in 0..N, k # 0 PROVE f[k] = after(k, f[k - 1])
  <2>1. k \in 1..N /\ k - 1 \in 0..N
    BY <1>2, <1>7
  <2>2. f[k - 1] \in S /\ f[k] = step[<<k, f[k - 1]>>]
    BY <1>5, <2>1 DEF Computes
  <2>. QED  BY <1>4, <2>1, <2>2
<1>8. sol(f)
  BY <1>6, <1>7 DEF after
<1>9. sol(u)
  BY <1>8
<1> HIDE DEF u
<1>10. u[0] = ps /\ \A k \in 1..N : u[k] = after(k, u[k - 1])
  <2>1. 0 \in 0..N /\ \A k \in 1..N : k \in 0..N /\ k # 0
    BY <1>2
  <2>. QED  BY <1>9, <2>1 DEF after
<1> DEFINE P == {k \in Nat : Reached(u[k], ps, ts, k)}
<1>11. 0 \in P
  <2>1. {ts[i] : i \in 1..0} = {}
    OBVIOUS
  <2>2. Len(ps) \in Nat
    OBVIOUS
  <2>. QED  BY <1>10, <2>1, <2>2 DEF Reached
<1>12. ASSUME NEW k \in 1..N, k - 1 \in P PROVE k \in P
  <2> DEFINE v == u[k - 1]
             t == ts[k]
  <2>1. /\ v \in Seq(NonEmpty) /\ Distinct(v)
        /\ Len(ps) <= Len(v) /\ \A i \in 1..Len(ps) : v[i] = ps[i]
        /\ Ends(Range(v)) = Ends(Range(ps)) \cup {ts[i] : i \in 1..(k - 1)}
    BY <1>12 DEF Reached
  <2>2. u[k] = IF t \in Ends(Range(v)) THEN v ELSE Append(v, Append(p, t))
    BY <1>10 DEF after
  <2>3. {ts[i] : i \in 1..k} = {ts[i] : i \in 1..(k - 1)} \cup {t}
    <3>1. k \in 1..k /\ \A i \in 1..k : i = k \/ i \in 1..(k - 1)
      BY <1>2
    <3>2. \A i \in 1..(k - 1) : i \in 1..k
      BY <1>2
    <3>. QED  BY <3>1, <3>2
  <2>4. t \in Components /\ k \in Nat
    BY <1>2
  <2> HIDE DEF v, t
  <2>5. CASE t \in Ends(Range(v))
    BY <2>1, <2>2, <2>3, <2>4, <2>5 DEF Reached
  <2>6. CASE t \notin Ends(Range(v))
    <3> DEFINE q == Append(v, Append(p, t))
    <3>1. /\ q \in Seq(NonEmpty) /\ Distinct(q)
          /\ Len(q) = Len(v) + 1 /\ \A i \in 1..Len(v) : q[i] = v[i]
          /\ Ends(Range(q)) = Ends(Range(v)) \cup {t}
      BY <2>1, <2>4, <2>6, OneMorePath
    <3>2. u[k] = q
      BY <2>2, <2>6
    <3> HIDE DEF q
    <3>3. Len(v) \in Nat /\ Len(ps) \in Nat
      BY <2>1
    <3>4. Len(ps) <= Len(q) /\ \A i \in 1..Len(ps) : q[i] = ps[i]
      <4>1. \A i \in 1..Len(ps) : i \in 1..Len(v)
        BY <2>1, <3>3
      <4>. QED  BY <2>1, <3>1, <3>3, <4>1
    <3>. QED  BY <2>1, <2>3, <2>4, <3>1, <3>2, <3>4 DEF Reached
  <2>. QED  BY <2>5, <2>6
<1> HIDE DEF P
<1>13. N \in P
  <2>1. \A k \in 0..N : k \in P
    BY <1>2, <1>11, <1>12, InductionUpTo
  <2>. QED  BY <1>2, <2>1
<1>. QED  BY <1>1, <1>13 DEF P, N

-----------------------------------------------------------------------------

\* A set of components no target leads out of.
ClosedUnder(C, entry, targets) == entry \in C /\ \A c \in C : Range(targets[c]) \subseteq C

\* What holds of the paths found after n turns.
Searching(ps, n, entry, targets) ==
    /\ ps \in Seq(NonEmpty) /\ Distinct(ps)
    /\ entry \in Ends(Range(ps))
    /\ \A i \in DOMAIN ps : i <= n => Range(targets[Last(ps[i])]) \subseteq Ends(Range(ps))
    /\ \A C : ClosedUnder(C, entry, targets) => Ends(Range(ps)) \subseteq C

\* The paths end at components, each at another.
LEMMA EndsAreComponents ==
    ASSUME NEW ps \in Seq(NonEmpty), Distinct(ps)
    PROVE  /\ \A i \in DOMAIN ps : Last(ps[i]) \in Components
           /\ Len(ps) <= Cardinality(Components)
<1>1. DOMAIN ps = 1..Len(ps) /\ Len(ps) \in Nat
  OBVIOUS
<1>2. ASSUME NEW i \in 1..Len(ps) PROVE Last(ps[i]) \in Components
  <2>1. ps[i] \in Seq(Components) /\ ps[i] # <<>>
    BY DEF NonEmpty
  <2>. QED  BY <2>1 DEF Last
<1> DEFINE f == [i \in 1..Len(ps) |-> Last(ps[i])]
<1>3. f \in Injection(1..Len(ps), Components)
  <2>1. f \in [1..Len(ps) -> Components]
    BY <1>2
  <2>2. \A i, j \in 1..Len(ps) : f[i] = f[j] => i = j
    BY <1>1 DEF Distinct
  <2> HIDE DEF f
  <2>. QED  BY <2>1, <2>2 DEF Injection, IsInjective
<1>4. Cardinality(1..Len(ps)) <= Cardinality(Components)
  BY <1>3, ModelAssumption, FS_Injection
<1>5. Cardinality(1..Len(ps)) = Len(ps)
  <2> DEFINE n == Len(ps)
  <2>1. n \in Nat /\ 1 \in Int /\ n \in Int
    BY <1>1
  <2> HIDE DEF n
  <2>2. Cardinality(1..n) = n
    BY <2>1, FS_Interval
  <2>. QED  BY <2>2 DEF n
<1>. QED  BY <1>1, <1>2, <1>4, <1>5

\* What the enumeration keeps true: before its first turn,
LEMMA SearchStarts ==
    ASSUME NEW entry \in Components, NEW targets
    PROVE  Searching(<< <<entry>> >>, 0, entry, targets)
<1> DEFINE p == <<entry>>
           ps == <<p>>
<1>1. p \in NonEmpty /\ Last(p) = entry
  BY DEF NonEmpty, Last
<1> HIDE DEF p
<1>2. ps \in Seq(NonEmpty) /\ DOMAIN ps = 1..1 /\ ps[1] = p /\ Range(ps) = {p}
  BY <1>1 DEF Range
<1> HIDE DEF ps
<1>3. Distinct(ps) /\ Ends(Range(ps)) = {entry}
  BY <1>1, <1>2 DEF Distinct, Ends
<1>4. Searching(ps, 0, entry, targets)
  <2>1. \A i \in DOMAIN ps : ~(i <= 0)
    BY <1>2
  <2>. QED  BY <1>2, <1>3, <2>1 DEF Searching, ClosedUnder
<1>. QED  BY <1>4 DEF ps, p

\* and from each turn to the next.
LEMMA SearchGoesOn ==
    ASSUME NEW entry \in Components, NEW targets \in [Components -> Seq(Components)],
           NEW n \in Nat, NEW ps, Searching(ps, n, entry, targets), n + 1 <= Len(ps)
    PROVE  Searching(Extended(ps, ps[n + 1], targets[Last(ps[n + 1])]), n + 1, entry, targets)
<1> DEFINE p == ps[n + 1]
           c == Last(p)
           ts == targets[c]
           qs == Extended(ps, p, ts)
<1>1. ps \in Seq(NonEmpty) /\ Distinct(ps)
  BY DEF Searching
<1>2. n + 1 \in DOMAIN ps /\ DOMAIN ps = 1..Len(ps) /\ Len(ps) \in Nat
  BY <1>1
<1>3. p \in NonEmpty /\ c \in Components
  BY <1>1, <1>2, EndsAreComponents
<1>4. ts \in Seq(Components)
  BY <1>3
<1>5. c \in Ends(Range(ps))
  BY <1>2 DEF Ends, Range
<1> HIDE DEF p, c, ts
<1>6. Reached(qs, ps, ts, Len(ts))
  BY <1>1, <1>3, <1>4, ExtendedReaches
<1> HIDE DEF qs
<1>7. {ts[i] : i \in 1..Len(ts)} = Range(ts)
  <2>1. DOMAIN ts = 1..Len(ts)
    BY <1>4
  <2>. QED  BY <2>1 DEF Range
<1>8. Ends(Range(qs)) = Ends(Range(ps)) \cup Range(ts)
  BY <1>6, <1>7 DEF Reached
<1>9. ASSUME NEW i \in DOMAIN qs, i <= n + 1
      PROVE  Range(targets[Last(qs[i])]) \subseteq Ends(Range(qs))
  <2>1. i \in 1..Len(ps) /\ i \in DOMAIN ps
    <3>1. qs \in Seq(NonEmpty)
      BY <1>6 DEF Reached
    <3>. QED  BY <1>2, <1>9, <3>1
  <2>2. qs[i] = ps[i]
    BY <1>6, <2>1 DEF Reached
  <2>3. CASE i <= n
    BY <1>8, <2>1, <2>2, <2>3 DEF Searching
  <2>4. CASE i = n + 1
    <3>1. qs[i] = p
      BY <2>2, <2>4 DEF p
    <3>. QED  BY <1>8, <3>1 DEF ts, c
  <2>5. i \in Nat
    BY <2>1
  <2>. QED  BY <1>9, <2>3, <2>4, <2>5
<1>10. \A C : ClosedUnder(C, entry, targets) => Ends(Range(qs)) \subseteq C
  BY <1>5, <1>8 DEF Searching, ClosedUnder, ts
<1>11. Searching(qs, n + 1, entry, targets)
  BY <1>6, <1>8, <1>9, <1>10 DEF Searching, Reached
<1>. QED  BY <1>11 DEF qs, ts, c, p

\* The path engine finds one path to every component the targets lead to.
LEMMA PathsAreClosure ==
    ASSUME NEW entry \in Components, NEW targets \in [Components -> Seq(Components)]
    PROVE  LET E == {entry} \cup Ends(PathsAlong(entry, targets)) IN
           /\ PathsAlong(entry, targets) \subseteq NonEmpty
           /\ ClosedUnder(E, entry, targets)
           /\ \A C : ClosedUnder(C, entry, targets) => E \subseteq C
<1> DEFINE S == {v \in Seq(NonEmpty) : Distinct(v)}
           M == Cardinality(Components)
           base == << <<entry>> >>
           after(n, v) == IF n > Len(v) THEN v ELSE Extended(v, v[n], targets[Last(v[n])])
           step == [x \in Nat \X S |-> IF x[1] = 0 THEN x[2] ELSE after(x[1], x[2])]
           sol(f) == f = [n \in Nat |->
                            IF n = 0 THEN << <<entry>> >>
                            ELSE IF n > Len(f[n - 1]) THEN f[n - 1]
                            ELSE Extended(f[n - 1], f[n - 1][n], targets[Last(f[n - 1][n])])]
           found == CHOOSE f : sol(f)
<1>1. PathsAlong(entry, targets) = Range(found[M]) \ {<<entry>>}
  BY DEF PathsAlong
<1>2. base \in S /\ M \in Nat
  <2>1. Searching(base, 0, entry, targets)
    BY SearchStarts
  <2>2. M \in Nat
    BY ModelAssumption, FS_CardinalityType
  <2>. QED  BY <2>1, <2>2 DEF Searching
<1>3. ASSUME NEW n \in Nat, NEW v \in S, n # 0 PROVE after(n, v) \in S
  <2>1. CASE n > Len(v)
    BY <2>1
  <2>2. CASE ~(n > Len(v))
    <3>1. v \in Seq(NonEmpty) /\ Distinct(v) /\ n \in DOMAIN v
      BY <1>3, <2>2
    <3>2. v[n] \in NonEmpty /\ Last(v[n]) \in Components
      BY <3>1, EndsAreComponents
    <3>3. targets[Last(v[n])] \in Seq(Components)
      BY <3>2
    <3>4. Extended(v, v[n], targets[Last(v[n])]) \in S
      BY <3>1, <3>2, <3>3, ExtendedReaches DEF Reached
    <3>. QED  BY <2>2, <3>4
  <2>. QED  BY <2>1, <2>2
<1> HIDE DEF S, after, base, M
<1>4. step \in [Nat \X S -> S] /\ \A n \in Nat, v \in S : n # 0 => step[<<n, v>>] = after(n, v)
  <2>1. \A x \in Nat \X S : x[1] \in Nat /\ x[2] \in S
    OBVIOUS
  <2>. QED  BY <1>3, <2>1
<1> HIDE DEF step
<1>5. PICK f : Defines(f, S, base, step)
  BY <1>2, <1>4, Recursion
<1>6. \A n \in Nat : n # 0 => f[n] = after(n, f[n - 1])
  <2>. SUFFICES ASSUME NEW n \in Nat, n # 0 PROVE f[n] = after(n, f[n - 1])
    OBVIOUS
  <2>1. n - 1 \in Nat /\ (n - 1) + 1 = n
    OBVIOUS
  <2>2. f[n] = step[<<n, f[n - 1]>>] /\ f[n - 1] \in S
    BY <1>5, <2>1 DEF Defines
  <2>. QED  BY <1>4, <2>2
<1>7. f = [n \in Nat |-> f[n]] /\ f[0] = base
  BY <1>5 DEF Defines
<1>8. sol(f)
  BY <1>6, <1>7 DEF after, base
<1>9. sol(found)
  BY <1>8
<1> HIDE DEF found
<1>10. found[0] = base
  BY <1>9 DEF base
<1>11. \A n \in Nat : n # 0 => found[n] = after(n, found[n - 1])
  BY <1>9 DEF after
<1> DEFINE P == {n \in Nat : Searching(found[n], n, entry, targets)}
<1>12. 0 \in P
  BY <1>10, SearchStarts DEF base
<1>13. ASSUME NEW n \in Nat, n \in P PROVE n + 1 \in P
  <2> DEFINE ps == found[n]
  <2>1. Searching(ps, n, entry, targets) /\ found[n + 1] = after(n + 1, ps)
    <3>1. n + 1 \in Nat /\ n + 1 # 0 /\ (n + 1) - 1 = n
      OBVIOUS
    <3>. QED  BY <1>11, <1>13, <3>1
  <2> HIDE DEF ps
  <2>2. Len(ps) \in Nat /\ DOMAIN ps = 1..Len(ps)
    BY <2>1 DEF Searching
  <2>3. CASE n + 1 <= Len(ps)
    <3>1. found[n + 1] = Extended(ps, ps[n + 1], targets[Last(ps[n + 1])])
      BY <2>1, <2>2, <2>3 DEF after
    <3>2. Searching(found[n + 1], n + 1, entry, targets)
      BY <2>1, <2>3, <3>1, SearchGoesOn
    <3>. QED  BY <3>2
  <2>4. CASE n + 1 > Len(ps)
    <3>1. found[n + 1] = ps
      BY <2>1, <2>4 DEF after
    <3>2. \A i \in DOMAIN ps : i <= n
      BY <2>2, <2>4
    <3>3. Searching(ps, n + 1, entry, targets)
      BY <2>1, <3>2 DEF Searching
    <3>. QED  BY <3>1, <3>3
  <2>. QED  BY <2>2, <2>3, <2>4
<1> HIDE DEF P
<1> DEFINE ps == found[M]
<1>14. Searching(ps, M, entry, targets)
  <2>1. \A n \in Nat : n \in P
    BY <1>12, <1>13, SetInduction
  <2>. QED  BY <1>2, <2>1 DEF P
<1> HIDE DEF ps
<1> DEFINE ends == Ends(Range(ps))
<1>15. ps \in Seq(NonEmpty) /\ Distinct(ps) /\ Len(ps) <= M /\ DOMAIN ps = 1..Len(ps) /\ Len(ps) \in Nat
  BY <1>14, EndsAreComponents DEF Searching, M
<1>16. \A i \in DOMAIN ps : Range(targets[Last(ps[i])]) \subseteq ends
  <2>1. \A i \in DOMAIN ps : i <= M
    BY <1>2, <1>15
  <2>. QED  BY <1>14, <2>1 DEF Searching
<1>17. ClosedUnder(ends, entry, targets)
  <2>1. ASSUME NEW c \in ends PROVE \E i \in DOMAIN ps : c = Last(ps[i])
    BY DEF Ends, Range
  <2>. QED  BY <1>14, <1>16, <2>1 DEF Searching, ClosedUnder
<1>18. \A C : ClosedUnder(C, entry, targets) => ends \subseteq C
  BY <1>14 DEF Searching
<1>19. {entry} \cup Ends(PathsAlong(entry, targets)) = ends
  <2>1. PathsAlong(entry, targets) = Range(ps) \ {<<entry>>} /\ Last(<<entry>>) = entry
    BY <1>1 DEF ps, Last
  <2>2. entry \in ends
    BY <1>14 DEF Searching
  <2>. QED  BY <2>1, <2>2 DEF Ends
<1>20. PathsAlong(entry, targets) \subseteq NonEmpty
  BY <1>1, <1>15, RangeOf DEF ps
<1>. QED  BY <1>17, <1>18, <1>19, <1>20

\* The engine's walk and the strategies' walk agree on what is in play.
LEMMA TwoWalksAgree ==
    ASSUME NEW entry \in Components, NEW st
    PROVE  /\ {entry} \cup Ends(EnumeratePaths(entry, st)) = Range(BfsWalkFrom(entry, st))
           /\ EnumeratePaths(entry, st) \subseteq NonEmpty
<1> DEFINE targets == [c \in Components |-> OpenTargets(c, st, DerivedStates(st))]
           ends == {entry} \cup Ends(PathsAlong(entry, targets))
           walk == Range(BfsWalkFrom(entry, st))
<1>1. targets \in [Components -> Seq(Components)]
  BY FewTargets
<1>2. \A c \in Components : Range(targets[c]) = Targets(c, st) /\ Targets(c, st) \subseteq Components
  BY FewTargets, RangeOf DEF Targets
<1>3. EnumeratePaths(entry, st) = PathsAlong(entry, targets)
  BY DEF EnumeratePaths
<1> HIDE DEF targets
<1>4. /\ PathsAlong(entry, targets) \subseteq NonEmpty
      /\ ClosedUnder(ends, entry, targets)
      /\ \A C : ClosedUnder(C, entry, targets) => ends \subseteq C
  BY <1>1, PathsAreClosure
<1>5. /\ Closed(walk, entry, st) /\ \A C : Closed(C, entry, st) => walk \subseteq C
      /\ walk \subseteq Components
  BY WalkIsClosure, RangeOf
<1> HIDE DEF ends, walk
<1>6. \A C : C \subseteq Components => (Closed(C, entry, st) <=> ClosedUnder(C, entry, targets))
  BY <1>2 DEF Closed, ClosedUnder
<1>7. ends \subseteq walk
  BY <1>4, <1>5, <1>6
<1>8. walk \subseteq ends
  BY <1>4, <1>5, <1>6, <1>7
<1>. QED  BY <1>3, <1>4, <1>7, <1>8 DEF ends, walk

-----------------------------------------------------------------------------
(* The session.                                                            *)

\* What the operator added to the incident beforehand is a store of facts the
\* world has.
LEMMA RecollectionType ==
    ASSUME NEW w \in Worlds, NEW st \in Recollections(w)
    PROVE  /\ st \in Store
           /\ \A c \in Components : \A f \in Range(st[c]) :
                 /\ \E p \in Recalled : p.on = c /\ p.fact = f.key
                 /\ f.value = w[c][f.key] /\ f.value # NoValue /\ f.status = ""
<1> DEFINE record(p, c) == NewFact(p.fact, w[c][p.fact], "", "manual")
<1>1. PICK S \in SUBSET {p \in Recalled : w[p.on][p.fact] # NoValue} :
          st = [c \in Components |-> SetToSeq({record(p, c) : p \in {q \in S : q.on = c}})]
  BY DEF Recollections
<1>2. ASSUME NEW c \in Components
      PROVE  /\ st[c] \in Seq(Fact)
             /\ \A f \in Range(st[c]) :
                 /\ \E p \in Recalled : p.on = c /\ p.fact = f.key
                 /\ f.value = w[c][f.key] /\ f.value # NoValue /\ f.status = ""
  <2> DEFINE T == {q \in S : q.on = c}
             F == {record(p, c) : p \in T}
             n == Cardinality(F)
  <2>1. ASSUME NEW p \in T
        PROVE  /\ p \in Recalled /\ p.on = c /\ record(p, c) \in Fact
               /\ record(p, c).key = p.fact /\ record(p, c).status = ""
               /\ record(p, c).value = w[c][p.fact] /\ w[c][p.fact] # NoValue
    <3>1. p \in Recalled /\ p.on = c /\ w[c][p.fact] # NoValue
      BY <1>1
    <3>2. p.fact \in Keys /\ w[c][p.fact] \in Values \cup {NoValue}
      BY <3>1, PlanAssumption, ProbingAssumption DEF Probes
    <3>. QED  BY <3>1, <3>2 DEF NewFact, Fact, Statuses, Collectors
  <2>2. IsFiniteSet(T)
    BY <1>1, PlanAssumption, FS_Subset
  <2>3. IsFiniteSet(F)
    <3> DEFINE g == [p \in T |-> record(p, c)]
    <3>1. g \in Surjection(T, F)
      BY DEF Surjection
    <3> HIDE DEF g, F, T
    <3>. QED  BY <2>2, <3>1, FS_Surjection
  <2>4. n \in Nat /\ ExistsBijection(1..n, F)
    BY <2>3, FS_CardinalityType
  <2>5. st[c] = SetToSeq(F)
    BY <1>1
  <2>6. F \subseteq Fact
    BY <2>1
  <2>7. \A f \in F : \E p \in T : f = record(p, c)
    OBVIOUS
  <2> HIDE DEF F, T, record
  <2>8. \E g \in [1..n -> F] : IsInjective(g)
    BY <2>4 DEF ExistsBijection, Bijection, Injection, IsInjective
  <2>9. st[c] \in [1..n -> F]
    BY <2>5, <2>8 DEF SetToSeq, n
  <2>10. st[c] \in Seq(Fact)
    BY <2>4, <2>6, <2>9, SeqDef
  <2>11. ASSUME NEW f \in Range(st[c])
         PROVE  /\ \E p \in Recalled : p.on = c /\ p.fact = f.key
                /\ f.value = w[c][f.key] /\ f.value # NoValue /\ f.status = ""
    <3>1. f \in F
      BY <2>9 DEF Range
    <3>. QED  BY <2>1, <2>7, <3>1
  <2>. QED  BY <2>10, <2>11
<1>3. st = [c \in Components |-> st[c]]
  BY <1>1
<1>. QED  BY <1>2, <1>3 DEF Store

\* What holds of a session: what is offered or run is a fact of its
\* component's type that is not on record, and nothing is said before the end.
TInv ==
    /\ world \in Worlds /\ options \in PlanOptions /\ store \in Store
    /\ pc \in {"planning", "asking", "probing", "stopped"}
    /\ pc \in {"asking", "probing"} =>
          /\ pending \in Probes /\ pending.fact \in Range(TypeFacts[pending.on])
          /\ ~Collected(store[pending.on], pending.fact)

\* Every session starts so.
LEMMA InitTypes == Init => TInv
<1>. SUFFICES ASSUME Init PROVE TInv
  OBVIOUS
<1>1. EmptyStore \in Store
  BY DEF EmptyStore, Store
<1>2. store \in Store
  BY <1>1, RecollectionType DEF Init
<1>. QED  BY <1>2 DEF Init, TInv

\* Recording appends one answer to the question in hand.
LEMMA ProbeRecords ==
    ASSUME TInv, ProbeReturns
    PROVE  /\ world' = world /\ pending \in Probes
           /\ \E f \in Fact : /\ f.key = pending.fact /\ Answers(world, pending.on, f)
                              /\ store' = Appended(store, pending.on, f)
           /\ store' \in Store /\ \A K : Sees(store, store', K)
<1>1. /\ pending \in Probes /\ pending.fact \in Range(TypeFacts[pending.on])
      /\ ~Collected(store[pending.on], pending.fact) /\ world \in Worlds /\ store \in Store
  BY DEF TInv, ProbeReturns
<1>2. PICK f \in Outcomes(world, pending) : store' = Appended(store, pending.on, f)
  BY DEF ProbeReturns
<1>3. f \in Fact /\ f.key = pending.fact /\ Answers(world, pending.on, f)
  BY <1>1, OutcomeIsAnswer
<1>4. pending.on \in Components
  BY <1>1 DEF Probes
<1>5. store' \in Store
  BY <1>1, <1>2, <1>3, <1>4, AppendedIsStore
<1>6. \A K : Sees(store, store', K)
  BY <1>1, <1>2, <1>3, <1>4, AppendedSees
<1>7. world' = world
  BY DEF ProbeReturns
<1>. QED  BY <1>1, <1>2, <1>3, <1>5, <1>6, <1>7

\* Every step keeps it.
LEMMA NextTypes == TInv /\ [Next]_vars => TInv'
<1>. SUFFICES ASSUME TInv, [Next]_vars PROVE TInv'
  OBVIOUS
<1>1. CASE OutOfIterations \/ Conclude \/ Decline \/ ProbeFails
  BY <1>1 DEF OutOfIterations, Conclude, Decline, ProbeFails, Stop, TInv
<1>2. CASE Suggest
  <2>1. pending' \in NextProbes
    BY <1>2 DEF Suggest
  <2>2. /\ pending' \in Probes /\ pending'.fact \in Range(TypeFacts[pending'.on])
        /\ ~Collected(store[pending'.on], pending'.fact)
    BY <2>1, SuggestedIsOpen DEF NextProbes
  <2>. QED  BY <1>2, <2>2 DEF Suggest, TInv
<1>3. CASE Accept
  BY <1>3 DEF Accept, TInv
<1>4. CASE ProbeReturns
  BY <1>4, ProbeRecords DEF ProbeReturns, TInv
<1>5. CASE Over \/ UNCHANGED vars
  BY <1>5 DEF Over, vars, TInv
<1>. QED  BY <1>1, <1>2, <1>3, <1>4, <1>5 DEF Next

\* The path engine, which `mgtt plan` shows, and the strategies' walk, which
\* asks and concludes, visit the same components: none is named that no path
\* ends at, and none is shown that is never asked about.
THEOREM PathsCover == Spec => []PathsCoverTheWalk
<1>1. TInv => PathsCoverTheWalk
  <2>1. TInv => options.entry \in Components
    BY PlanAssumption DEF TInv
  <2>. QED  BY <2>1, TwoWalksAgree DEF PathsCoverTheWalk
<1>. QED  BY <1>1, InitTypes, NextTypes, PTL DEF Spec

\* The component plan names ends a path, and that path survives unless a
\* redundancy group cuts it: in a plain model there is a way to show.
THEOREM CauseIsShown ==
    ASSUME NEW K, PlainModel(K)
    PROVE  Spec => []CauseHasAPath
<1>1. ASSUME TInv PROVE CauseHasAPath
  <2>. SUFFICES ASSUME NEW root \in {Named} \ {NoValue, options.entry}
                PROVE  \E p \in EnumeratePaths(options.entry, store) :
                          Last(p) = root /\ Reason(store, p) \in {"", "redundancy holds"}
    BY DEF CauseHasAPath
  <2>1. options.entry \in Components /\ store \in Store
    BY <1>1, PlanAssumption DEF TInv
  <2> DEFINE walk == Range(BfsWalkFrom(options.entry, store))
  <2>2. root \in Candidates(store, walk)
    <3>1. root = RootCauseFrom(options.entry, store) /\ root # NoValue
      BY DEF Named
    <3>. QED  BY <2>1, <3>1, CauseIsCandidate
  <2>3. root \in walk /\ Unhealthy(store, root)
    BY <2>2 DEF Candidates
  <2>4. walk = {options.entry} \cup Ends(EnumeratePaths(options.entry, store)) /\ walk \subseteq Components
    BY <2>1, TwoWalksAgree, WalkIsClosure, RangeOf
  <2>5. PICK p \in EnumeratePaths(options.entry, store) : Last(p) = root
    BY <2>3, <2>4 DEF Ends
  <2>6. store[root] # <<>>
    BY <2>1, <2>3, <2>4, UnhealthyIsOnRecord
  <2>7. ComponentVerdict(store, root) = "unhealthy"
    BY <2>3 DEF ComponentVerdict
  <2>8. Reason(store, p) \in {"", "redundancy holds"}
    BY <2>5, <2>6, <2>7 DEF Reason
  <2>. QED  BY <2>5, <2>8
<1>. QED  BY <1>1, InitTypes, NextTypes, PTL DEF Spec

\* No answer brings back a path eliminated because its end is healthy or
\* because a group on it holds, in a plain model.
THEOREM EliminationsStand ==
    ASSUME NEW K, PlainModel(K)
    PROVE  Spec => EliminationStands
<1>1. ASSUME TInv, [Next]_vars, store' # store
      PROVE  \A settled \in {Settled(options.entry, store)} :
                settled \cap Surviving(options.entry, store') = {}
  <2>1. ProbeReturns
    BY <1>1 DEF Next, OutOfIterations, Conclude, Suggest, Accept, Decline, ProbeFails, Over, Stop, vars
  <2>2. Sees(store, store', K)
    BY <1>1, <2>1, ProbeRecords
  <2>3. options.entry \in Components
    BY <1>1, PlanAssumption DEF TInv
  <2>. SUFFICES ASSUME NEW p \in Settled(options.entry, store), p \in Surviving(options.entry, store')
                PROVE  FALSE
    OBVIOUS
  <2>4. p \in NonEmpty /\ Reason(store, p) \in {"healthy", "redundancy holds"}
    BY <2>3, TwoWalksAgree DEF Settled
  <2>5. \/ Reason(store', p) = ""
        \/ p = <<options.entry>> /\ ComponentVerdict(store', options.entry) = "unhealthy"
    BY DEF Surviving
  <2>6. /\ Len(p) \in Nat \ {0} /\ Last(p) \in Components
        /\ \A i \in 1..(Len(p) - 1) : p[i] \in Components
    <3>1. p \in Seq(Components) /\ p # <<>>
      BY <2>4 DEF NonEmpty
    <3>. QED  BY <3>1 DEF Last
  <2>7. CASE SatisfiedGroupOn(store, p)
    <3>1. PICK i \in 1..(Len(p) - 1) : SatisfiedGroup(store, p[i], p[i + 1])
      BY <2>7 DEF SatisfiedGroupOn
    <3>2. SatisfiedGroup(store', p[i], p[i + 1])
      BY <2>2, <2>6, <3>1, SatisfiedIsStable
    <3>3. Reason(store', p) = "redundancy holds"
      BY <3>1, <3>2 DEF Reason, SatisfiedGroupOn
    <3>4. p # <<options.entry>>
      BY <3>1
    <3>. QED  BY <2>5, <3>3, <3>4
  <2>8. CASE Reason(store, p) = "healthy"
    <3> DEFINE end == Last(p)
    <3>1. ComponentVerdict(store, end) = "healthy" /\ store[end] # <<>>
      BY <2>8 DEF Reason
    <3>2. Healthy(store, end)
      BY <3>1 DEF ComponentVerdict, Unknown
    <3>3. Healthy(store', end) /\ ~Unhealthy(store', end)
      BY <2>2, <2>6, <3>2, HealthyIsStable
    <3>4. ComponentVerdict(store', end) = "healthy"
      BY <3>3 DEF ComponentVerdict
    <3>5. p = <<options.entry>> => end = options.entry
      BY DEF Last
    <3>6. store'[end] # <<>>
      <4>1. PICK f \in Fact : store' = Appended(store, pending.on, f)
        BY <1>1, <2>1, ProbeRecords
      <4>2. store \in Store /\ pending.on \in Components
        BY <1>1, <2>1, ProbeRecords DEF TInv, Probes
      <4>3. Range(store[end]) \subseteq Range(Appended(store, pending.on, f)[end])
        BY <2>6, <4>2, AppendedRange
      <4>4. store[end] \in Seq(Fact)
        BY <2>6, <4>2 DEF Store
      <4>5. Range(store[end]) # {}
        BY <3>1, <4>4, RangeOf
      <4>. QED  BY <4>1, <4>3, <4>5 DEF Range
    <3>7. Reason(store', p) # ""
      BY <3>4, <3>6 DEF Reason
    <3>. QED  BY <2>5, <3>4, <3>5, <3>7
  <2>9. Reason(store, p) = "healthy" \/ SatisfiedGroupOn(store, p)
    BY <2>4 DEF Reason
  <2>. QED  BY <2>7, <2>8, <2>9
<1>2. TInv /\ [Next]_vars => [store' # store =>
          \A settled \in {Settled(options.entry, store)} :
              settled \cap Surviving(options.entry, store') = {}]_vars
  BY <1>1
<1>. QED  BY <1>2, InitTypes, NextTypes, PTL DEF Spec, EliminationStands

-----------------------------------------------------------------------------
(* The conclusion.                                                         *)

\* What is on record answers, and what was said is what the rule names.
NInv ==
    /\ TInv
    /\ \A c \in Components : \A f \in Range(store[c]) : Answers(world, c, f)
    /\ said.kind \in {"root_cause", "all_healthy"} =>
          pc = "stopped" /\ NextProbes = {} /\ said.root = Named
    /\ pc # "stopped" => said.kind = "nothing"

\* The naming invariant holds at first,
LEMMA InitNaming ==
    ASSUME KnownFacts, Init
    PROVE  NInv
<1>0. world \in Worlds
  BY DEF Init
<1>1. \A c \in Components : Range(EmptyStore[c]) = {}
  BY DEF EmptyStore, Range
<1>2. ASSUME store \in Recollections(world), NEW c \in Components, NEW f \in Range(store[c])
      PROVE  Answers(world, c, f)
  <2>1. /\ \E p \in Recalled : p.on = c /\ p.fact = f.key
        /\ f.value = world[c][f.key] /\ f.value # NoValue /\ f.status = ""
    BY <1>0, <1>2, RecollectionType
  <2>. QED  BY <2>1 DEF Answers, Faithful, KnownFacts
<1>3. store = EmptyStore \/ store \in Recollections(world)
  BY DEF Init
<1>4. \A c \in Components : \A f \in Range(store[c]) : Answers(world, c, f)
  BY <1>1, <1>2, <1>3
<1>. QED  BY <1>4, InitTypes DEF Init, NInv, Said

\* and every step keeps it.
LEMMA NextNaming == NInv /\ [Next]_vars => NInv'
<1>. SUFFICES ASSUME NInv, [Next]_vars PROVE NInv'
  OBVIOUS
<1>1. TInv /\ TInv'
  BY NextTypes DEF NInv
<1>2. CASE OutOfIterations \/ Decline \/ ProbeFails
  BY <1>1, <1>2 DEF OutOfIterations, Decline, ProbeFails, Stop, Said, NInv
<1>3. CASE Conclude
  <2>1. /\ UNCHANGED <<world, options, store>> /\ pc' = "stopped"
        /\ said' = IF Named = NoValue THEN Said("all_healthy", NoValue) ELSE Said("root_cause", Named)
        /\ NextProbes = {}
    BY <1>3 DEF Conclude, Stop
  <2>2. NextProbes' = NextProbes /\ Named' = Named
    BY <2>1 DEF NextProbes, Named
  <2>3. said'.root = Named
    BY <2>1 DEF Said
  <2>. QED  BY <1>1, <2>1, <2>2, <2>3 DEF NInv
<1>4. CASE Suggest \/ Accept
  BY <1>1, <1>4 DEF Suggest, Accept, Planning, NInv
<1>5. CASE ProbeReturns
  <2>1. PICK f \in Fact : /\ Answers(world, pending.on, f) /\ store' = Appended(store, pending.on, f)
    BY <1>1, <1>5, ProbeRecords
  <2>2. world' = world /\ pending.on \in Components /\ store \in Store
    BY <1>1, <1>5, ProbeRecords DEF TInv, Probes
  <2>3. ASSUME NEW c \in Components, NEW g \in Range(store'[c]) PROVE Answers(world, c, g)
    <3>1. g \in Range(store[c]) \/ (c = pending.on /\ g = f)
      BY <2>1, <2>2, <2>3, AppendedRange
    <3>. QED  BY <2>1, <3>1 DEF NInv
  <2>4. pc' = "planning" /\ said' = said /\ said.kind = "nothing"
    BY <1>5 DEF ProbeReturns, NInv
  <2>. QED  BY <1>1, <2>2, <2>3, <2>4 DEF NInv
<1>6. CASE Over \/ UNCHANGED vars
  <2>1. UNCHANGED <<world, options, store, pc, said>>
    BY <1>6 DEF Over, vars
  <2>2. NextProbes' = NextProbes /\ Named' = Named
    BY <2>1 DEF NextProbes, Named
  <2>. QED  BY <1>1, <2>1, <2>2 DEF NInv
<1>. QED  BY <1>2, <1>3, <1>4, <1>5, <1>6 DEF Next

\* With every fact in play read or found missing, plan names the component
\* that full visibility names, whatever the order its probes came in, which of
\* them failed and which facts were there before: in every plain, grounded
\* model.
THEOREM NamingIsComplete ==
    ASSUME NEW K, PlainModel(K), Grounded, KnownFacts
    PROVE  Spec => []PlanNamesTheCause
<1>1. ASSUME NInv PROVE PlanNamesTheCause
  <2>. SUFFICES ASSUME said.kind \in {"root_cause", "all_healthy"}, ~options.scenarios,
                       PartialVisibility(store) = {}, options.entry \in Range(BfsWalk(store))
                PROVE  said.root = RootCauseFrom(options.entry, Seen(world))
    BY DEF PlanNamesTheCause
  <2>1. BfsProbes(store) = {} /\ said.root = RootCauseFrom(options.entry, store)
    BY <1>1 DEF NInv, NextProbes, Suggested, Named
  <2>2. \A c \in Components : Unreadable(store[c]) = {}
    BY NothingUnread
  <2>3. Range(BfsWalk(store)) \subseteq Components
    BY WalkIsClosure, RangeOf DEF BfsWalk, Grounded
  <2>4. world \in Worlds /\ store \in Store
    BY <1>1 DEF NInv, TInv
  <2>5. \A c \in Range(BfsWalk(store)) : /\ Unreadable(store[c]) = {}
                                          /\ \A f \in Range(store[c]) : Answers(world, c, f)
    BY <1>1, <2>2, <2>3 DEF NInv
  <2>6. RootCauseFrom(options.entry, store) = RootCauseFrom(options.entry, Seen(world))
    BY <2>1, <2>4, <2>5, FullReadingNamesTheCause
  <2>. QED  BY <2>1, <2>6
<1>2. Init => NInv
  BY InitNaming
<1>. QED  BY <1>1, <1>2, NextNaming, PTL DEF Spec

=============================================================================
