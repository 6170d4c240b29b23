---------------------------- MODULE BillingProofs ----------------------------
(***************************************************************************)
(* What holds of the billing tables for any tenants, plans and prices, any *)
(* number of months, PATCHes and runs of the seed.                         *)
(***************************************************************************)
EXTENDS Billing, FiniteSetTheorems, WellFoundedInduction, TLAPS

C == Cardinality(Ages)

Seed == [at : {"idle", "subs", "invoices", "done", "failed"}, todo : SUBSET Tenants,
         tiers : [Tenants -> Tiers \cup {NoRow}], prices : [Plans -> Prices \cup {NoRow}],
         subs : [Tenants -> Subscription \cup {NoRow}], tenant : Tenants \cup {NoRow},
         ages : SUBSET Ages, counter : {0} \cup Numbers]

\* What a run goes by is there, and the numbers it has yet to give fit.
Fits(s) ==
    /\ s.at = "subs" => s.prices \in [Plans -> Prices]
    /\ s.at # "invoices" => s.tenant = NoRow
    /\ s.at = "invoices" =>
        /\ \A t \in s.todo : s.subs[t] # NoRow
        /\ s.tenant # NoRow => s.subs[s.tenant] # NoRow
        /\ s.counter + C * Cardinality(s.todo) + Cardinality(s.ages) <= C * Cardinality(Tenants)
        /\ s.tenant # NoRow => \E k \in Ages : s.ages = 0..k

Typed ==
    /\ now \in 0..MaxNow
    /\ tier \in [Tenants -> Tiers \cup {NoRow}]
    /\ active \in [Tenants -> BOOLEAN]
    /\ price \in [Plans -> Prices]
    /\ subs \in [Tenants -> Subscription \cup {NoRow}]
    /\ invoices \in [Numbers -> Invoice \cup {NoRow}]
    /\ seed \in Seed /\ Fits(seed)
    /\ "at" \in DOMAIN report /\ report.at \in 0..2
    /\ writes \in 0..MaxWrites /\ runs \in 0..MaxRuns
    /\ torn \in BOOLEAN
    /\ repicked \subseteq Tenants /\ reopened \subseteq Tenants /\ cut \subseteq Tenants
    /\ repaid \subseteq Numbers
    /\ counted \in [Numbers -> (0..MaxNow) \cup {NoRow}]

-----------------------------------------------------------------------------
(***************************************************************************)
(* Sums, of what the subscriptions of a set of tenants pay: in whatever    *)
(* order they are added up, and in whichever groups, the sum is the same.  *)
(* Induction is by a smallest counterexample: among any subsets of a       *)
(* finite set one contains no other.                                       *)
(***************************************************************************)

\* A finite set's subsets have a smallest one among any of them.  Induction
\* here is by a smallest counterexample.
LEMMA Smallest ==
    ASSUME NEW S, IsFiniteSet(S), NEW B \in SUBSET SUBSET S, B # {}
    PROVE  \E t \in B : \A u \in B : u \subseteq t => u = t
<1>1. B \subseteq FiniteSubsetsOf(S)
  BY FS_Subset DEF FiniteSubsetsOf
<1>2. PICK t \in B : \A u \in B : <<u, t>> \notin StrictSubsetOrdering(S)
  BY <1>1, WFMin, FS_StrictSubsetOrderingWellFounded
<1> QED
  BY <1>2 DEF StrictSubsetOrdering

LEMMA SmallestNumber ==
    ASSUME NEW m \in Nat, NEW N \in SUBSET (0 .. m), N # {}
    PROVE  \E n \in N : \A k \in N : n =< k
<1> DEFINE B == {0 .. n : n \in N}
           M == 0 .. m
<1>1. B \in SUBSET SUBSET M /\ B # {}
  <2>1. ASSUME NEW n \in N PROVE 0 .. n \in SUBSET (0 .. m)
    BY <2>1
  <2> QED
    BY <2>1
<1>2. PICK t \in B : \A u \in B : u \subseteq t => u = t
  <2>1. IsFiniteSet(M)
    BY FS_Interval
  <2> HIDE DEF B, M
  <2> QED
    BY <1>1, <2>1, Smallest
<1>3. PICK n \in N : t = 0 .. n
  OBVIOUS
<1>4. ASSUME NEW k \in N, ~(n =< k) PROVE FALSE
  <2>1. 0 .. k \subseteq 0 .. n /\ 0 .. k # 0 .. n
    BY <1>4
  <2> QED
    BY <1>2, <1>3, <2>1
<1> QED
  BY <1>4

First(s) == CHOOSE x \in s : TRUE

\* The partial sums SumFunctionOnSet goes through.
Sums(f, S, g) ==
    g = [s \in SUBSET S |-> IF s = {} THEN 0 ELSE f[First(s)] + g[s \ {First(s)}]]

LEMMA SumsExist ==
    ASSUME NEW f, NEW S, IsFiniteSet(S)
    PROVE  \E g : Sums(f, S, g)
<1> DEFINE m == Cardinality(S)
           Upto(n) == {s \in SUBSET S : Cardinality(s) =< n}
           SumsUpto(n, g) == \A s \in Upto(n) :
               g[s] = IF s = {} THEN 0 ELSE f[First(s)] + g[s \ {First(s)}]
           Bad == {n \in 0 .. m : ~\E g : SumsUpto(n, g)}
<1>1. m \in Nat /\ \A s \in SUBSET S : IsFiniteSet(s) /\ Cardinality(s) \in Nat /\ Cardinality(s) =< m
  BY FS_Subset, FS_CardinalityType
<1>2. Bad = {}
  <2> SUFFICES ASSUME Bad # {} PROVE FALSE
    OBVIOUS
  <2>1. PICK n \in Bad : \A k \in Bad : n =< k
    <3>1. Bad \in SUBSET (0 .. m)
      OBVIOUS
    <3> HIDE DEF Bad, m
    <3> QED
      BY <1>1, <3>1, SmallestNumber
  <2>2. n # 0
    <3> SUFFICES ASSUME n = 0 PROVE FALSE
      OBVIOUS
    <3>1. Upto(0) \subseteq {{}}
      BY <1>1, FS_EmptySet
    <3>2. SumsUpto(0, [s \in {{}} |-> 0])
      BY <3>1
    <3> QED
      BY <3>2
  <2>3. n - 1 \in 0 .. m /\ n - 1 \notin Bad
    <3>1. n \in 0 .. m
      OBVIOUS
    <3>2. n - 1 \in 0 .. m /\ ~(n =< n - 1)
      BY <1>1, <2>2, <3>1
    <3> HIDE DEF Bad
    <3> QED
      BY <2>1, <3>2
  <2>4. PICK g : SumsUpto(n - 1, g)
    BY <2>3
  <2> DEFINE h == [s \in Upto(n) |-> IF s = {} THEN 0 ELSE f[First(s)] + g[s \ {First(s)}]]
  <2>5. ASSUME NEW s \in Upto(n - 1) PROVE h[s] = g[s]
    <3>1. s \in Upto(n)
      BY <1>1, <2>1
    <3> QED
      BY <3>1, <2>4
  <2>6. ASSUME NEW s \in Upto(n), s # {} PROVE s \ {First(s)} \in Upto(n - 1)
    <3>1. First(s) \in s
      BY <2>6 DEF First
    <3>2. Cardinality(s \ {First(s)}) = Cardinality(s) - 1
      BY <3>1, <1>1, FS_RemoveElement
    <3> QED
      BY <1>1, <3>2, <2>1
  <2>7. SumsUpto(n, h)
    <3> SUFFICES ASSUME NEW s \in Upto(n)
                 PROVE  h[s] = IF s = {} THEN 0 ELSE f[First(s)] + h[s \ {First(s)}]
      OBVIOUS
    <3>1. CASE s = {}
      BY <3>1
    <3>2. CASE s # {}
      <4>1. h[s \ {First(s)}] = g[s \ {First(s)}]
        BY <3>2, <2>5, <2>6
      <4>2. h[s] = f[First(s)] + g[s \ {First(s)}]
        BY <3>2
      <4> QED
        BY <3>2, <4>1, <4>2
    <3> QED
      BY <3>1, <3>2
  <2> QED
    BY <2>1, <2>7
<1>3. PICK g : SumsUpto(m, g)
  <2>1. m \in 0 .. m
    BY <1>1
  <2> HIDE DEF m, SumsUpto
  <2> QED
    BY <1>2, <2>1
<1> DEFINE h == [s \in SUBSET S |-> g[s]]
<1>4. Sums(f, S, h)
  <2>1. \A s \in SUBSET S : s \in Upto(m)
    BY <1>1
  <2>2. \A s \in SUBSET S : h[s] = IF s = {} THEN 0 ELSE f[First(s)] + h[s \ {First(s)}]
    BY <1>3, <2>1
  <2> HIDE DEF SumsUpto, Upto
  <2> QED
    BY <2>2 DEF Sums
<1> QED
  BY <1>4

LEMMA SumIsLast ==
    ASSUME NEW f, NEW S, IsFiniteSet(S)
    PROVE  \E g : Sums(f, S, g) /\ SumFunctionOnSet(f, S) = g[S]
<1>1. PICK g : Sums(f, S, g)
  BY SumsExist
<1> QED
  BY <1>1 DEF SumFunctionOnSet, FoldFunctionOnSet, MapThenFoldSet, Sums, First

\* A sum depends on its terms only.
LEMMA SumsAgree ==
    ASSUME NEW f, NEW g, NEW S, NEW T, T \subseteq S, IsFiniteSet(S), \A x \in T : f[x] = g[x],
           NEW F, Sums(f, T, F), NEW G, Sums(g, S, G)
    PROVE  \A s \in SUBSET T : F[s] = G[s]
<1> DEFINE Bad == {s \in SUBSET T : F[s] # G[s]}
<1>1. ASSUME NEW s \in Bad, \A u \in Bad : u \subseteq s => u = s PROVE FALSE
  <2>0. /\ F[s] = IF s = {} THEN 0 ELSE f[First(s)] + F[s \ {First(s)}]
        /\ G[s] = IF s = {} THEN 0 ELSE g[First(s)] + G[s \ {First(s)}]
    <3>1. s \in SUBSET T /\ s \in SUBSET S
      OBVIOUS
    <3> HIDE DEF Bad
    <3> QED
      BY <3>1 DEF Sums
  <2>1. CASE s = {}
    BY <2>0, <2>1
  <2>2. CASE s # {}
    <3> DEFINE x == First(s)
               u == s \ {x}
    <3>1. x \in s
      BY <2>2 DEF First
    <3>2. u \notin Bad /\ u \in SUBSET T
      BY <1>1, <3>1
    <3>3. F[u] = G[u] /\ f[x] = g[x]
      BY <3>1, <3>2
    <3> QED
      BY <2>0, <2>2, <3>3
  <2> QED
    BY <2>1, <2>2
<1>2. IsFiniteSet(T) /\ Bad \in SUBSET SUBSET T
  BY FS_Subset
<1>3. Bad = {}
  <2> HIDE DEF Bad
  <2> QED
    BY <1>1, <1>2, Smallest
<1> QED
  BY <1>3

LEMMA SameTerms ==
    ASSUME NEW f, NEW g, NEW S, IsFiniteSet(S), \A x \in S : f[x] = g[x]
    PROVE  SumFunctionOnSet(f, S) = SumFunctionOnSet(g, S)
<1>1. PICK F : Sums(f, S, F) /\ SumFunctionOnSet(f, S) = F[S]
  BY SumIsLast
<1>2. PICK G : Sums(g, S, G) /\ SumFunctionOnSet(g, S) = G[S]
  BY SumIsLast
<1>3. \A s \in SUBSET S : F[s] = G[s]
  <2>1. S \subseteq S
    OBVIOUS
  <2> QED
    BY <1>1, <1>2, <2>1, SumsAgree
<1>4. S \in SUBSET S
  OBVIOUS
<1> QED
  BY <1>1, <1>2, <1>3, <1>4

\* The sum of no terms, and one term more.
LEMMA SumOfNone ==
    ASSUME NEW f
    PROVE  SumFunctionOnSet(f, {}) = 0
<1>1. PICK g : Sums(f, {}, g) /\ SumFunctionOnSet(f, {}) = g[{}]
  BY SumIsLast, FS_EmptySet
<1> QED
  BY <1>1 DEF Sums

LEMMA SumTakesFirst ==
    ASSUME NEW f, NEW S, IsFiniteSet(S), S # {}
    PROVE  /\ First(S) \in S
           /\ SumFunctionOnSet(f, S) = f[First(S)] + SumFunctionOnSet(f, S \ {First(S)})
<1> DEFINE T == S \ {First(S)}
<1>1. PICK F : Sums(f, S, F) /\ SumFunctionOnSet(f, S) = F[S]
  BY SumIsLast
<1>2. IsFiniteSet(T) /\ T \subseteq S
  BY FS_Subset
<1>3. PICK G : Sums(f, T, G) /\ SumFunctionOnSet(f, T) = G[T]
  <2> HIDE DEF T
  <2> QED
    BY <1>2, SumIsLast
<1>4. G[T] = F[T]
  <2> HIDE DEF T
  <2>1. \A s \in SUBSET T : G[s] = F[s]
    <3>1. \A x \in T : f[x] = f[x]
      OBVIOUS
    <3> QED
      BY <1>1, <1>2, <1>3, <3>1, SumsAgree
  <2>2. T \in SUBSET T
    OBVIOUS
  <2> QED
    BY <2>1, <2>2
<1>5. F[S] = f[First(S)] + F[T]
  BY <1>1 DEF Sums
<1> QED
  BY <1>1, <1>3, <1>4, <1>5 DEF First

LEMMA SumIsWhole ==
    ASSUME NEW S, IsFiniteSet(S), NEW f, \A x \in S : f[x] \in Int
    PROVE  SumFunctionOnSet(f, S) \in Int
<1> DEFINE Bad == {s \in SUBSET S : SumFunctionOnSet(f, s) \notin Int}
<1>1. ASSUME NEW s \in Bad, \A u \in Bad : u \subseteq s => u = s PROVE FALSE
  <2>1. IsFiniteSet(s)
    BY FS_Subset
  <2>2. s # {}
    BY SumOfNone
  <2>3. First(s) \in s /\ SumFunctionOnSet(f, s) = f[First(s)] + SumFunctionOnSet(f, s \ {First(s)})
    BY <2>1, <2>2, SumTakesFirst
  <2>4. s \ {First(s)} \notin Bad
    BY <1>1, <2>3
  <2>5. SumFunctionOnSet(f, s \ {First(s)}) \in Int /\ f[First(s)] \in Int
    BY <2>3, <2>4
  <2>6. SumFunctionOnSet(f, s) \in Int
    BY <2>3, <2>5
  <2> QED
    BY <2>6
<1>2. Bad \in SUBSET SUBSET S
  OBVIOUS
<1>3. Bad = {}
  <2> HIDE DEF Bad
  <2> QED
    BY <1>1, <1>2, Smallest
<1> QED
  BY <1>3

\* Any term may be the first.
LEMMA SumTakesAny ==
    ASSUME NEW S, IsFiniteSet(S), NEW f, \A x \in S : f[x] \in Int
    PROVE  \A s \in SUBSET S : \A x \in s :
               SumFunctionOnSet(f, s) = f[x] + SumFunctionOnSet(f, s \ {x})
<1> DEFINE Sum(s) == SumFunctionOnSet(f, s)
           Good(s) == \A x \in s : Sum(s) = f[x] + Sum(s \ {x})
           Bad == {s \in SUBSET S : ~Good(s)}
<1>1. ASSUME NEW s \in Bad, \A u \in Bad : u \subseteq s => u = s PROVE FALSE
  <2>1. PICK x \in s : Sum(s) # f[x] + Sum(s \ {x})
    OBVIOUS
  <2> DEFINE y == First(s)
  <2>2. IsFiniteSet(s) /\ s # {} /\ s \subseteq S
    BY <2>1, FS_Subset
  <2>3. y \in s /\ Sum(s) = f[y] + Sum(s \ {y})
    BY <2>2, SumTakesFirst
  <2>4. x # y
    BY <2>1, <2>3
  <2>5. s \ {y} \notin Bad /\ s \ {x} \notin Bad
    BY <1>1, <2>1, <2>3
  <2>6. Good(s \ {y}) /\ Good(s \ {x})
    BY <2>2, <2>5
  <2>7. /\ Sum(s \ {y}) = f[x] + Sum((s \ {y}) \ {x})
        /\ Sum(s \ {x}) = f[y] + Sum((s \ {x}) \ {y})
    BY <2>1, <2>3, <2>4, <2>6
  <2>8. (s \ {y}) \ {x} = (s \ {x}) \ {y} /\ (s \ {x}) \ {y} \subseteq S
    BY <2>2
  <2>9. Sum((s \ {x}) \ {y}) \in Int
    <3>1. IsFiniteSet((s \ {x}) \ {y})
      BY <2>8, FS_Subset
    <3> QED
      BY <2>8, <3>1, SumIsWhole
  <2>10. f[x] \in Int /\ f[y] \in Int
    BY <2>1, <2>2, <2>3
  <2> DEFINE rest == Sum((s \ {x}) \ {y})
  <2>11. Sum(s) = f[y] + (f[x] + rest) /\ f[x] + Sum(s \ {x}) = f[x] + (f[y] + rest)
    BY <2>3, <2>7, <2>8
  <2> QED
    <3> HIDE DEF Sum, rest, y
    <3> QED
      BY <2>1, <2>9, <2>10, <2>11 DEF rest
<1>2. Bad \in SUBSET SUBSET S
  OBVIOUS
<1>3. Bad = {}
  <2> HIDE DEF Bad
  <2> QED
    BY <1>1, <1>2, Smallest
<1> QED
  BY <1>3

LEMMA SumOfOnes ==
    ASSUME NEW S, IsFiniteSet(S), NEW f, \A x \in S : f[x] = 1
    PROVE  SumFunctionOnSet(f, S) = Cardinality(S)
<1> DEFINE Bad == {s \in SUBSET S : SumFunctionOnSet(f, s) # Cardinality(s)}
<1>1. ASSUME NEW s \in Bad, \A u \in Bad : u \subseteq s => u = s PROVE FALSE
  <2>1. IsFiniteSet(s)
    BY FS_Subset
  <2>2. s # {}
    BY SumOfNone, FS_EmptySet
  <2>3. First(s) \in s /\ SumFunctionOnSet(f, s) = f[First(s)] + SumFunctionOnSet(f, s \ {First(s)})
    BY <2>1, <2>2, SumTakesFirst
  <2>4. SumFunctionOnSet(f, s \ {First(s)}) = Cardinality(s \ {First(s)}) /\ f[First(s)] = 1
    BY <1>1, <2>3
  <2>5. Cardinality(s) \in Nat /\ Cardinality(s \ {First(s)}) = Cardinality(s) - 1
    BY <2>1, <2>3, FS_RemoveElement, FS_CardinalityType
  <2>6. SumFunctionOnSet(f, s) = Cardinality(s)
    BY <2>3, <2>4, <2>5
  <2> QED
    BY <2>6
<1>2. Bad \in SUBSET SUBSET S
  OBVIOUS
<1>3. Bad = {}
  <2> HIDE DEF Bad
  <2> QED
    BY <1>1, <1>2, Smallest
<1> QED
  BY <1>3

\* Groups: what is added up group by group is what is added up at once.
LEMMA SumOfGroups ==
    ASSUME NEW S, IsFiniteSet(S), NEW T, IsFiniteSet(T),
           NEW group, \A t \in T : group[t] \in S,
           NEW f, \A t \in T : f[t] \in Int
    PROVE  SumFunctionOnSet([p \in S |-> SumFunctionOnSet(f, {t \in T : group[t] = p})], S)
         = SumFunctionOnSet(f, T)
<1> DEFINE Of(U, p) == {t \in U : group[t] = p}
           Groups(U) == [p \in S |-> SumFunctionOnSet(f, Of(U, p))]
           Good(U) == SumFunctionOnSet(Groups(U), S) = SumFunctionOnSet(f, U)
           Bad == {U \in SUBSET T : ~Good(U)}
<1>0. ASSUME NEW U \in SUBSET T
      PROVE  /\ IsFiniteSet(U)
             /\ \A p \in S : Groups(U)[p] \in Int
    <2>1. IsFiniteSet(U)
      BY FS_Subset
    <2>2. ASSUME NEW p \in S PROVE SumFunctionOnSet(f, Of(U, p)) \in Int
      <3>1. IsFiniteSet(Of(U, p)) /\ Of(U, p) \subseteq T
        BY FS_Subset
      <3> HIDE DEF Of
      <3> QED
        BY <3>1, SumIsWhole
    <2> QED
      BY <2>1, <2>2
<1>1. ASSUME NEW U \in Bad, \A V \in Bad : V \subseteq U => V = U PROVE FALSE
  <2>1. CASE U = {}
    <3>1. \A p \in S : Of(U, p) = {}
      BY <2>1
    <3>2. \A p \in S : Groups(U)[p] = 0
      BY <3>1, SumOfNone
    <3>3. SumFunctionOnSet(Groups(U), S) = 0
      <4> DEFINE zero == [p \in S |-> 0]
                 k == Groups(U)
                 BadZ == {s \in SUBSET S : SumFunctionOnSet(k, s) # 0}
      <4>0. \A p \in S : k[p] = 0
        BY <3>2
      <4> HIDE DEF k
      <4>1. ASSUME NEW s \in BadZ, \A u \in BadZ : u \subseteq s => u = s PROVE FALSE
        <5>1. s # {} /\ IsFiniteSet(s)
          BY SumOfNone, FS_Subset
        <5>2. First(s) \in s /\ SumFunctionOnSet(k, s) = k[First(s)] + SumFunctionOnSet(k, s \ {First(s)})
          BY <5>1, SumTakesFirst
        <5>3. s \ {First(s)} \notin BadZ
          BY <4>1, <5>2
        <5> QED
          BY <4>0, <5>2, <5>3
      <4>2. BadZ \in SUBSET SUBSET S
        OBVIOUS
      <4>3. BadZ = {}
        <5> HIDE DEF BadZ
        <5> QED
          BY <4>1, <4>2, Smallest
      <4> QED
        BY <4>3 DEF k
    <3> QED
      BY <2>1, <3>3, SumOfNone
  <2>2. CASE U # {}
    <3>1. PICK x \in U : TRUE
      BY <2>2
    <3> DEFINE V == U \ {x}
               p == group[x]
               k == Groups(U)
               h == Groups(V)
               rest == S \ {p}
    <3>2. /\ U \in SUBSET T /\ V \in SUBSET T /\ V # U /\ V \subseteq U /\ p \in S /\ x \in T
      OBVIOUS
    <3>3. Good(V)
      BY <1>1, <3>2
    <3>4. SumFunctionOnSet(f, U) = f[x] + SumFunctionOnSet(f, V)
      BY <3>2, SumTakesAny
    <3>5. k[p] = f[x] + h[p]
      <4>1. Of(U, p) \in SUBSET T /\ x \in Of(U, p) /\ Of(U, p) \ {x} = Of(V, p)
        BY <3>2
      <4>2. SumFunctionOnSet(f, Of(U, p)) = f[x] + SumFunctionOnSet(f, Of(V, p))
        <5> HIDE DEF Of, p, V
        <5> QED
          BY <4>1, SumTakesAny
      <4> QED
        BY <3>2, <4>2
    <3>6. \A q \in rest : k[q] = h[q]
      <4>1. ASSUME NEW q \in rest PROVE Of(U, q) = Of(V, q)
        OBVIOUS
      <4> QED
        BY <4>1
    <3>7. IsFiniteSet(rest) /\ rest \subseteq S
      BY FS_Subset
    <3>8. SumFunctionOnSet(k, rest) = SumFunctionOnSet(h, rest)
      <4> HIDE DEF k, h, rest
      <4> QED
        BY <3>6, <3>7, SameTerms
    <3>9. /\ \A q \in S : k[q] \in Int /\ h[q] \in Int
      BY <1>0, <3>2
    <3>10. /\ SumFunctionOnSet(k, S) = k[p] + SumFunctionOnSet(k, rest)
           /\ SumFunctionOnSet(h, S) = h[p] + SumFunctionOnSet(h, rest)
      <4>1. \A q \in S : k[q] \in Int
        BY <3>9
      <4>2. \A q \in S : h[q] \in Int
        BY <3>9
      <4> HIDE DEF k, h, p
      <4>3. S \in SUBSET S
        OBVIOUS
      <4>4. SumFunctionOnSet(k, S) = k[p] + SumFunctionOnSet(k, S \ {p})
        BY <3>2, <4>1, <4>3, SumTakesAny
      <4>5. SumFunctionOnSet(h, S) = h[p] + SumFunctionOnSet(h, S \ {p})
        BY <3>2, <4>2, <4>3, SumTakesAny
      <4> QED
        BY <4>4, <4>5
    <3>11. SumFunctionOnSet(h, rest) \in Int /\ h[p] \in Int /\ f[x] \in Int
      <4>1. \A q \in rest : h[q] \in Int
        BY <3>7, <3>9
      <4>2. h[p] \in Int /\ f[x] \in Int
        BY <3>2, <3>9
      <4> HIDE DEF h, rest, p
      <4> QED
        BY <3>7, <4>1, <4>2, SumIsWhole
    <3>12. SumFunctionOnSet(h, S) = SumFunctionOnSet(f, V)
      BY <3>3
    <3>13. SumFunctionOnSet(k, S) = SumFunctionOnSet(f, U)
      <4> HIDE DEF h, k, rest, p, V, Good, Bad
      <4> QED
        BY <3>4, <3>5, <3>8, <3>10, <3>11, <3>12
    <3> QED
      BY <3>13
  <2> QED
    BY <2>1, <2>2
<1>2. Bad \in SUBSET SUBSET T
  OBVIOUS
<1>3. Bad = {}
  <2> HIDE DEF Bad
  <2> QED
    BY <1>1, <1>2, Smallest
<1>4. Good(T)
  BY <1>3
<1> QED
  BY <1>4

-----------------------------------------------------------------------------
(* Numbers. *)

LEMMA Sizes ==
    /\ C \in Nat \ {0} /\ Ages = 0..(C - 1)
    /\ Cardinality(Tenants) \in Nat
    /\ Numbers = 1..(Cardinality(Tenants) * C) /\ IsFiniteSet(Numbers)
<1>1. C \in Nat /\ Cardinality(Tenants) \in Nat /\ C # 0
  BY BillingAssumption, FS_CardinalityType, FS_EmptySet DEF C
<1>2. Cardinality(Tenants) * C \in Nat
  BY <1>1
<1>3. Numbers = 1..(Cardinality(Tenants) * C)
  BY DEF Numbers, C
<1>4. IsFiniteSet(Numbers)
  BY <1>2, <1>3, FS_Interval
<1> QED
  BY <1>1, <1>3, <1>4, BillingAssumption DEF C

LEMMA Oldest ==
    ASSUME NEW k \in Nat
    PROVE  Max(0..k) = k
BY DEF Max

LEMMA AgesUpTo ==
    ASSUME NEW k \in Ages
    PROVE  /\ k \in Nat /\ k < C
           /\ Max(0..k) = k
           /\ Cardinality(0..k) = k + 1
           /\ 0..k \subseteq Ages
           /\ Cardinality((0..k) \ {k}) = k
           /\ k # 0 => (0..k) \ {k} = 0..(k - 1) /\ k - 1 \in Ages
<1>1. k \in Nat /\ k < C /\ C \in Nat
  BY Sizes
<1>2. Cardinality(0..k) = k + 1 /\ IsFiniteSet(0..k)
  BY <1>1, FS_Interval
<1>3. Cardinality((0..k) \ {k}) = k
  <2>1. k \in 0..k /\ (k + 1) - 1 = k
    BY <1>1
  <2> QED
    BY <1>2, <2>1, FS_RemoveElement
<1> QED
  BY <1>1, <1>2, <1>3, Oldest, Sizes

\* A tenant fewer leaves room for its invoices.
LEMMA OneTenantFewer ==
    ASSUME NEW S \in SUBSET Tenants, NEW t \in S
    PROVE  /\ Cardinality(S) \in Nat /\ Cardinality(S \ {t}) \in Nat
           /\ C * Cardinality(S \ {t}) + C = C * Cardinality(S)
<1>1. IsFiniteSet(S) /\ Cardinality(S) \in Nat
  BY BillingAssumption, FS_Subset, FS_CardinalityType
<1>2. Cardinality(S \ {t}) = Cardinality(S) - 1 /\ Cardinality(S \ {t}) \in Nat
  BY <1>1, FS_RemoveElement, FS_CardinalityType
<1> DEFINE m == Cardinality(S \ {t})
<1>3. C * (m + 1) = C * m + C
  <2> HIDE DEF m
  <2> SUFFICES ASSUME m \in Nat  PROVE C * (m + 1) = C * m + C
    BY <1>2 DEF m
  <2> QED
    BY Sizes
<1> QED
  BY <1>1, <1>2, <1>3, Sizes

\* What a tenant was set aside is what its invoices take.
LEMMA RoomStays ==
    ASSUME NEW used \in Nat, NEW before \in Nat, NEW after \in Nat, NEW all \in Nat,
           NEW c \in Nat, NEW old \in Nat, NEW new,
           after + c = before, used + before + old <= all, new = old \/ new = c
    PROVE  used + after + new <= all
  OBVIOUS

LEMMA EveryoneFits ==
    ASSUME NEW S \in SUBSET Tenants
    PROVE  C * Cardinality(S) <= C * Cardinality(Tenants) /\ Cardinality(S) \in Nat
<1>1. Cardinality(S) \in Nat /\ Cardinality(S) <= Cardinality(Tenants)
  BY BillingAssumption, FS_Subset, FS_CardinalityType
<1>2. \A a, b, c \in Nat : a <= b => c * a <= c * b
  OBVIOUS
<1> QED
  BY <1>1, <1>2, Sizes

LEMMA RestTyped ==
    ASSUME NEW end \in {"idle", "subs", "invoices", "done", "failed"}
    PROVE  /\ Rest(end) \in Seed /\ Rest(end).at = end /\ Rest(end).todo = {}
           /\ Rest(end).tenant = NoRow /\ Rest(end).ages = {} /\ Rest(end).counter = 0
           /\ \A t \in Tenants : Rest(end).subs[t] = NoRow
BY DEF Rest, Seed

-----------------------------------------------------------------------------
LEMMA TypedInitially == Init => Typed
<1> SUFFICES ASSUME Init PROVE Typed
  OBVIOUS
<1>1. seed \in Seed /\ Fits(seed)
  BY RestTyped DEF Init, Fits
<1>2. "at" \in DOMAIN report /\ report.at \in 0..2
  BY DEF Init, NoReport
<1>3. tier \in [Tenants -> Tiers \cup {NoRow}]
  BY BillingAssumption DEF Init, Tiers
<1>4. now \in 0..MaxNow /\ price \in [Plans -> Prices] /\ writes \in 0..MaxWrites /\ runs \in 0..MaxRuns
  BY BillingAssumption DEF Init
<1> QED
  BY <1>1, <1>2, <1>3, <1>4 DEF Init, Typed

LEMMA NowIsATime == ASSUME Typed PROVE now \in Times /\ now \in Int /\ now # NoTime
BY Sizes, BillingAssumption, NullAssumption DEF Typed, Times, Month, C

\* The dates of an invoice of the seed.
LEMMA Dates ==
    ASSUME Typed, NEW k \in Ages
    PROVE  /\ IssuedAt(k) \in Times
           /\ k > 0 => IssuedAt(k) + 1 \in Times /\ IssuedAt(k) + 1 <= now
<1>1. k \in Nat /\ k <= C - 1 /\ C \in Nat
  BY Sizes
<1>2. now \in Nat /\ now <= MaxNow /\ MaxNow \in Nat
  BY BillingAssumption DEF Typed
<1>3. now % 2 \in 0..1 /\ now % 2 <= now
  BY <1>2
<1>4. Times = (-2 * C - 2)..MaxNow
  BY DEF Times, Month, C
<1>5. IssuedAt(k) = now - (now % 2) - 2 * k
  BY DEF IssuedAt, Month
<1> QED
  BY <1>1, <1>2, <1>3, <1>4, <1>5

\* The number a run gives next is one.
LEMMA NextNumber ==
    ASSUME Typed, SeedInvoice, NEW k \in Ages, seed.ages = 0..k
    PROVE  /\ seed.counter + 1 \in Numbers
           /\ seed.counter + 1 + C * Cardinality(seed.todo) + k <= C * Cardinality(Tenants)
<1> DEFINE a == C * Cardinality(seed.todo)  d == C * Cardinality(Tenants)
<1>1. seed \in Seed /\ seed.at = "invoices"
  BY DEF SeedInvoice, Typed
<1>2. a \in Nat /\ d \in Nat /\ seed.counter \in Nat
  BY <1>1, EveryoneFits, Sizes DEF Seed
<1>3. k \in Nat /\ seed.counter + a + (k + 1) <= d
  BY <1>1, AgesUpTo DEF Typed, Fits
<1>4. Numbers = 1..d
  BY Sizes
<1> HIDE DEF a, d
<1>5. seed.counter + 1 \in 1..d /\ seed.counter + 1 + a + k <= d
  BY <1>2, <1>3
<1> QED
  BY <1>4, <1>5 DEF a, d

\* The invoice it is given to.
LEMMA NextInvoice ==
    ASSUME Typed, SeedInvoice, invoices[seed.counter + 1] = NoRow
    PROVE  \E new \in Invoice :
              /\ invoices' = [invoices EXCEPT ![seed.counter + 1] = new]
              /\ new.tenant = seed.tenant /\ new.total = seed.subs[seed.tenant].mrr
              /\ new.paid # NoTime => new.paid <= now
<1> DEFINE t == seed.tenant
           n == seed.counter + 1
           age == Max(seed.ages)
           new == [tenant |-> t, status |-> IF age > 0 THEN "paid" ELSE "sent",
                   total |-> seed.subs[t].mrr, issued |-> IssuedAt(age),
                   paid |-> IF age > 0 THEN IssuedAt(age) + 1 ELSE NoTime]
<1>1. invoices' = [invoices EXCEPT ![n] = new]
  BY DEF SeedInvoice
<1>2. PICK k \in Ages : seed.ages = 0..k
  BY DEF SeedInvoice, Typed, Fits
<1>3. age = k /\ k \in Nat
  BY <1>2, AgesUpTo
<1>4. t \in Tenants /\ seed.subs[t] \in Subscription
  BY DEF SeedInvoice, Typed, Fits, Seed
<1>5. new \in Invoice
  BY <1>3, <1>4, Dates, BillingAssumption DEF Invoice, Subscription
<1>6. new.paid # NoTime => new.paid <= now
  BY <1>3, Dates
<1> QED
  BY <1>1, <1>5, <1>6

LEMMA TypedStep == Typed /\ [Next]_vars => Typed'
<1> SUFFICES ASSUME Typed, [Next]_vars PROVE Typed'
  OBVIOUS
<1>1. ASSUME NEW t \in Tenants, Signup(t)  PROVE Typed'
  BY <1>1, BillingAssumption DEF Signup, Write, Typed, Fits, Tiers
<1>2. ASSUME NEW t \in Tenants, PatchTier(t)  PROVE Typed'
  BY <1>2, BillingAssumption DEF PatchTier, Write, Typed, Fits
<1>3. ASSUME NEW t \in Tenants, PatchActive(t)  PROVE Typed'
  BY <1>3, BillingAssumption DEF PatchActive, Write, Typed, Fits
<1>4. ASSUME NEW t \in Tenants, PatchSubscription(t)  PROVE Typed'
  <2>1. PICK s \in Statuses : subs' = [subs EXCEPT ![t].status = s, ![t].canceled = CanceledAt(@, s)]
    BY <1>4 DEF PatchSubscription
  <2>2. subs[t] \in Subscription
    BY <1>4 DEF PatchSubscription, Typed
  <2>3. CanceledAt(subs[t].canceled, s) \in Times \cup {NoTime}
    BY <2>2, NowIsATime DEF CanceledAt, Subscription
  <2>4. subs' \in [Tenants -> Subscription \cup {NoRow}]
    BY <2>1, <2>2, <2>3 DEF Typed, Subscription
  <2> QED
    <3>1. torn' \in BOOLEAN
      BY <1>4 DEF PatchSubscription
    <3>2. reopened' \subseteq Tenants
      BY <1>4 DEF PatchSubscription, Typed
    <3>3. writes' \in 0..MaxWrites
      BY <1>4, BillingAssumption DEF PatchSubscription, Write, Typed
    <3> QED
      BY <1>4, <2>4, <3>1, <3>2, <3>3 DEF PatchSubscription, Typed, Fits
<1>5. ASSUME NEW p \in Plans, PatchPrice(p)  PROVE Typed'
  BY <1>5, BillingAssumption DEF PatchPrice, Write, Typed, Fits
<1>6. ASSUME NEW n \in Numbers, PatchInvoice(n)  PROVE Typed'
  <2>1. PICK s \in InvoiceStatuses :
           invoices' = [invoices EXCEPT ![n].status = s, ![n].paid = IF s = "paid" THEN now ELSE @]
    BY <1>6 DEF PatchInvoice
  <2>2. invoices[n] \in Invoice
    BY <1>6 DEF PatchInvoice, Typed
  <2>3. invoices' \in [Numbers -> Invoice \cup {NoRow}]
    BY <2>1, <2>2, NowIsATime DEF Typed, Invoice
  <2> QED
    <3>1. repaid' \subseteq Numbers
      BY <1>6 DEF PatchInvoice, Typed
    <3>2. writes' \in 0..MaxWrites
      BY <1>6, BillingAssumption DEF PatchInvoice, Write, Typed
    <3> QED
      BY <1>6, <2>3, <3>1, <3>2 DEF PatchInvoice, Typed, Fits
<1>7. CASE ReportMrr
  <2>1. "at" \in DOMAIN report' /\ report'.at = 1
    BY <1>7 DEF ReportMrr
  <2> QED
    BY <1>7, <2>1 DEF ReportMrr, Typed, Fits
<1>8. CASE ReportMix
  <2>1. "at" \in DOMAIN report' /\ report'.at = 2
    BY <1>8 DEF ReportMix, NoReport
  <2>2. torn' \in BOOLEAN
    BY <1>8 DEF ReportMix
  <2> QED
    BY <1>8, <2>1, <2>2 DEF ReportMix, Typed, Fits
<1>9. CASE ReportBilled
  BY <1>9 DEF ReportBilled, NoReport, Typed, Fits
<1>10. CASE SeedStart
  <2>1. seed' \in Seed /\ seed'.at = "subs" /\ seed'.prices = price /\ seed'.tenant = NoRow
    BY <1>10, RestTyped DEF SeedStart, Typed, Seed
  <2> QED
    <3>1. runs' \in 0..MaxRuns /\ Fits(seed')
      BY <1>10, <2>1, BillingAssumption DEF SeedStart, Typed, Fits
    <3> QED
      BY <1>10, <2>1, <3>1 DEF SeedStart, Typed
<1>11. ASSUME NEW t \in Tenants, SeedSubscription(t)  PROVE Typed'
  <2>1. /\ seed' \in Seed /\ seed'.at = "subs" /\ seed'.prices = seed.prices
        /\ seed.prices \in [Plans -> Prices]
    BY <1>11 DEF SeedSubscription, Typed, Seed, Fits
  <2>2. subs' \in [Tenants -> Subscription \cup {NoRow}] /\ torn' \in BOOLEAN
    <3>1. CASE subs[t] # NoRow
      BY <1>11, <3>1 DEF SeedSubscription, Typed
    <3>2. CASE subs[t] = NoRow
      <4>1. PlanOf(t) \in Plans
        BY BillingAssumption DEF PlanOf
      <4>2. subs'[t] \in Subscription /\ subs' = [subs EXCEPT ![t] = subs'[t]]
        <5> DEFINE new == [plan |-> PlanOf(t), status |-> "active",
                           mrr |-> seed.prices[PlanOf(t)], canceled |-> NoTime]
        <5>1. new \in Subscription
          BY <2>1, <4>1 DEF Subscription
        <5>2. subs' = [subs EXCEPT ![t] = new]
          BY <1>11, <3>2 DEF SeedSubscription
        <5> QED
          BY <5>1, <5>2 DEF Typed
      <4>3. torn' \in BOOLEAN
        BY <1>11, <3>2 DEF SeedSubscription
      <4> QED
        BY <4>2, <4>3 DEF Typed
    <3> QED
      BY <3>1, <3>2
  <2> QED
    BY <1>11, <2>1, <2>2 DEF SeedSubscription, Typed, Fits
<1>12. CASE SeedReadSubs
  <2>1. /\ seed' \in Seed /\ seed'.counter = 0 /\ seed'.ages = {} /\ seed'.todo \in SUBSET Tenants
        /\ seed'.tenant = NoRow /\ seed'.at = "invoices"
        /\ seed'.subs = subs /\ \A t \in seed'.todo : subs[t] # NoRow
    BY <1>12, RestTyped DEF SeedReadSubs, Typed, Seed
  <2>2. Fits(seed')
    BY <2>1, EveryoneFits, Sizes, FS_EmptySet DEF Fits
  <2> QED
    BY <1>12, <2>1, <2>2 DEF SeedReadSubs, Typed
<1>13. ASSUME NEW t \in Tenants, SeedTenant(t)  PROVE Typed'
  <2>1. seed' \in Seed /\ seed.todo \in SUBSET Tenants /\ t \in seed.todo
    BY <1>13 DEF SeedTenant, Typed, Seed
  <2>2. /\ seed'.at = "invoices" /\ seed'.counter = seed.counter /\ seed'.todo = seed.todo \ {t}
        /\ seed'.subs = seed.subs /\ (seed'.tenant = NoRow \/ seed'.tenant = t)
        /\ \/ seed'.ages = seed.ages /\ seed'.tenant = NoRow
           \/ seed'.ages = Ages
    BY <1>13 DEF SeedTenant, Typed, Seed
  <2>3. seed.counter \in Nat /\ Cardinality(seed.ages) \in Nat
    BY BillingAssumption, Sizes, FS_Subset, FS_CardinalityType DEF Typed, Seed
  <2>4. Ages = 0..(C - 1) /\ C - 1 \in Ages /\ Cardinality(Ages) = C /\ C \in Nat
    BY Sizes DEF C
  <2>5. seed.counter + C * Cardinality(seed.todo) + Cardinality(seed.ages) <= C * Cardinality(Tenants)
    BY <1>13 DEF SeedTenant, Typed, Fits
  <2>6. seed'.counter + C * Cardinality(seed'.todo) + Cardinality(seed'.ages) <= C * Cardinality(Tenants)
    <3>1. C * Cardinality(seed'.todo) + C = C * Cardinality(seed.todo)
      BY <2>1, <2>2, OneTenantFewer
    <3>2. C * Cardinality(seed.todo) \in Nat /\ C * Cardinality(seed'.todo) \in Nat
          /\ C * Cardinality(Tenants) \in Nat
      <4>1. Cardinality(seed.todo) \in Nat /\ Cardinality(seed'.todo) \in Nat
        BY <2>1, <2>2, OneTenantFewer
      <4>2. \A x, y \in Nat : x * y \in Nat
        OBVIOUS
      <4> QED
        BY <4>1, <4>2, Sizes
    <3>3. seed'.counter = seed.counter
          /\ (Cardinality(seed'.ages) = Cardinality(seed.ages) \/ Cardinality(seed'.ages) = C)
      BY <2>2, <2>4
    <3> QED
      BY <2>3, <2>4, <2>5, <3>1, <3>2, <3>3, RoomStays
  <2>7. Fits(seed')
    <3>1. \A u \in seed.todo : seed.subs[u] # NoRow
      BY <1>13 DEF SeedTenant, Typed, Fits
    <3> QED
      BY <2>1, <2>2, <2>4, <2>6, <3>1 DEF Fits
  <2> QED
    BY <1>13, <2>1, <2>7 DEF SeedTenant, Typed
<1>14. CASE SeedInvoice
  <2> DEFINE t == seed.tenant
             n == seed.counter + 1
             age == Max(seed.ages)
  <2>1. seed.at = "invoices" /\ t \in Tenants /\ seed \in Seed
    BY <1>14 DEF SeedInvoice, Typed, Seed
  <2>2. PICK k \in Ages : seed.ages = 0..k
    BY <1>14, <2>1 DEF SeedInvoice, Typed, Fits
  <2>3. age = k /\ k \in Nat /\ Cardinality(seed.ages) = k + 1
    BY <2>2, AgesUpTo
  <2>4. n \in Numbers /\ n + C * Cardinality(seed.todo) + k <= C * Cardinality(Tenants)
    BY <1>14, <2>2, NextNumber
  <2>5. CASE invoices[n] # NoRow
    <3>1. seed' = Rest("failed") /\ cut' = cut \cup {t} /\ UNCHANGED invoices
      BY <1>14, <2>5 DEF SeedInvoice
    <3> QED
      BY <1>14, <2>1, <3>1, RestTyped DEF SeedInvoice, Typed, Fits
  <2>6. CASE invoices[n] = NoRow
    <3>1. /\ seed' = [seed EXCEPT !.counter = n, !.ages = @ \ {age}, !.tenant = Leave(t, age)]
          /\ UNCHANGED cut
      BY <1>14, <2>6 DEF SeedInvoice
    <3>2. seed.subs[t] # NoRow /\ \A u \in seed.todo : seed.subs[u] # NoRow
      BY <1>14 DEF SeedInvoice, Typed, Fits
    <3>3. invoices' \in [Numbers -> Invoice \cup {NoRow}]
      BY <1>14, <2>6, NextInvoice DEF Typed
    <3>5. /\ seed' \in Seed /\ seed'.at = "invoices" /\ seed'.counter = n /\ seed'.todo = seed.todo
          /\ seed'.subs = seed.subs
          /\ seed'.ages = (0..k) \ {k} /\ seed'.tenant = IF k = 0 THEN NoRow ELSE t
      BY <2>1, <2>2, <2>3, <2>4, <3>1 DEF Seed, Leave
    <3>6. Fits(seed')
      BY <2>4, <3>2, <3>5, AgesUpTo DEF Fits
    <3> QED
      BY <1>14, <3>1, <3>3, <3>5, <3>6 DEF SeedInvoice, Typed
  <2> QED
    BY <2>5, <2>6
<1>15. CASE SeedDone
  BY <1>15, RestTyped DEF SeedDone, Typed, Fits
<1>16. CASE SeedKilled
  BY <1>16, RestTyped DEF SeedKilled, Typed, Fits, Seed
<1>17. CASE Tick
  BY <1>17, BillingAssumption DEF Tick, Typed, Fits
<1>18. CASE UNCHANGED vars
  BY <1>18 DEF vars, Typed, Fits
<1> QED
  BY <1>1, <1>2, <1>3, <1>4, <1>5, <1>6, <1>7, <1>8, <1>9, <1>10, <1>11, <1>12, <1>13, <1>14,
     <1>15, <1>16, <1>17, <1>18 DEF Next

-----------------------------------------------------------------------------
(* The subscription, the tier and the invoices. *)

\* What the seed read of a tenant's subscription is still so: no statement
\* changes a rate, or removes a row.
Terms ==
    /\ \A t \in Tenants : Exists(t) /\ t \notin repicked => tier[t] \in Plans
    /\ \A t \in Tenants : subs[t] # NoRow => Exists(t)
    /\ seed.at = "subs" => \A t \in seed.todo : /\ Exists(t)
                                                /\ t \notin repicked => seed.tiers[t] = tier[t]
    /\ \A t \in Tenants : seed.subs[t] # NoRow => /\ subs[t] # NoRow
                                                  /\ subs[t].mrr = seed.subs[t].mrr
    /\ \A n \in Numbers : invoices[n] # NoRow => subs[invoices[n].tenant] # NoRow
    /\ TermsAreKept

LEMMA TermsInitially == Init => Terms
BY RestTyped, BillingAssumption DEF Init, Terms, TermsAreKept, Exists

LEMMA TermsStep == Typed /\ Terms /\ [Next]_vars => Terms'
<1> SUFFICES ASSUME Typed, Terms, [Next]_vars PROVE Terms'
  OBVIOUS
<1> USE DEF Exists
<1>1. ASSUME NEW t \in Tenants, Signup(t)  PROVE Terms'
  <2>1. PICK p \in Plans : tier' = [tier EXCEPT ![t] = p]
    BY <1>1 DEF Signup
  <2>2. tier[t] = NoRow /\ subs[t] = NoRow /\ (seed.at = "subs" => t \notin seed.todo)
    BY <1>1 DEF Signup, Terms
  <2>3. UNCHANGED <<subs, invoices, repicked, seed>>
    BY <1>1 DEF Signup
  <2>4. tier'[t] = p /\ \A u \in Tenants \ {t} : tier'[u] = tier[u]
    BY <2>1 DEF Typed
  <2>5. seed.todo \subseteq Tenants
    BY DEF Typed, Seed
  <2> QED
    BY <2>2, <2>3, <2>4, <2>5 DEF Terms, TermsAreKept
<1>2. ASSUME NEW t \in Tenants, PatchTier(t)  PROVE Terms'
  <2>1. PICK p \in Tiers : tier' = [tier EXCEPT ![t] = p]
    BY <1>2 DEF PatchTier
  <2>2. p # NoRow /\ tier'[t] = p /\ \A u \in Tenants \ {t} : tier'[u] = tier[u]
    BY <2>1, NullAssumption DEF Typed
  <2>3. UNCHANGED <<subs, invoices, seed>> /\ repicked' = repicked \cup {t}
    BY <1>2 DEF PatchTier
  <2>4. seed.todo \subseteq Tenants
    BY DEF Typed, Seed
  <2> QED
    BY <2>2, <2>3, <2>4 DEF Terms, TermsAreKept
<1>4. ASSUME NEW t \in Tenants, PatchSubscription(t)  PROVE Terms'
  <2>1. subs[t] \in Subscription /\ subs[t] # NoRow
    BY <1>4 DEF PatchSubscription, Typed
  <2>2. /\ subs'[t] \in Subscription /\ subs'[t].mrr = subs[t].mrr /\ subs'[t].plan = subs[t].plan
        /\ \A u \in Tenants \ {t} : subs'[u] = subs[u]
    <3>1. PICK s \in Statuses : subs' = [subs EXCEPT ![t].status = s, ![t].canceled = CanceledAt(@, s)]
      BY <1>4 DEF PatchSubscription
    <3>2. CanceledAt(subs[t].canceled, s) \in Times \cup {NoTime}
      BY <2>1, NowIsATime DEF CanceledAt, Subscription
    <3> QED
      BY <2>1, <3>1, <3>2 DEF Subscription, Typed
  <2>3. \A u \in Tenants : /\ subs'[u] # NoRow <=> subs[u] # NoRow
                           /\ subs[u] # NoRow => subs'[u].mrr = subs[u].mrr /\ subs'[u].plan = subs[u].plan
    BY <2>1, <2>2, NullAssumption
  <2>4. \A n \in Numbers : invoices[n] # NoRow => invoices[n].tenant \in Tenants
    BY DEF Typed, Invoice
  <2>5. UNCHANGED <<tier, repicked, seed, invoices>>
    BY <1>4 DEF PatchSubscription
  <2> QED
    <3>1. seed.todo \subseteq Tenants
      BY DEF Typed, Seed
    <3>2. TermsAreKept'
      BY <2>3, <2>4, <2>5 DEF Terms, TermsAreKept
    <3>3. \A u \in Tenants : seed.subs[u] # NoRow => /\ subs'[u] # NoRow
                                                     /\ subs'[u].mrr = seed.subs[u].mrr
      BY <2>3 DEF Terms
    <3>4. \A n \in Numbers : invoices[n] # NoRow => subs'[invoices[n].tenant] # NoRow
      BY <2>3, <2>4 DEF Terms
    <3>5. \A u \in Tenants : subs'[u] # NoRow => Exists(u)
      BY <2>3 DEF Terms
    <3> QED
      BY <2>5, <3>1, <3>2, <3>3, <3>4, <3>5 DEF Terms
<1>6. ASSUME NEW n \in Numbers, PatchInvoice(n)  PROVE Terms'
  <2>1. invoices[n] \in Invoice /\ invoices[n] # NoRow
    BY <1>6 DEF PatchInvoice, Typed
  <2>2. /\ invoices'[n].tenant = invoices[n].tenant /\ invoices'[n].total = invoices[n].total
        /\ \A m \in Numbers \ {n} : invoices'[m] = invoices[m]
    BY <1>6, <2>1 DEF PatchInvoice, Typed, Invoice
  <2>3. UNCHANGED <<tier, subs, repicked, seed>>
    BY <1>6 DEF PatchInvoice
  <2> QED
    BY <2>1, <2>2, <2>3 DEF Terms, TermsAreKept
<1>10. CASE SeedStart
  <2>1. /\ seed'.at = "subs" /\ seed'.todo \subseteq {t \in Tenants : Exists(t)} /\ seed'.tiers = tier
        /\ \A t \in Tenants : seed'.subs[t] = NoRow
    BY <1>10, RestTyped DEF SeedStart, Seed
  <2>2. UNCHANGED <<tier, subs, invoices, repicked>>
    BY <1>10 DEF SeedStart
  <2> QED
    BY <2>1, <2>2 DEF Terms, TermsAreKept
<1>11. ASSUME NEW t \in Tenants, SeedSubscription(t)  PROVE Terms'
  <2>1. /\ UNCHANGED <<tier, repicked, invoices>> /\ seed.at = "subs" /\ t \in seed.todo
        /\ seed'.at = seed.at /\ seed'.todo = seed.todo \ {t} /\ seed'.tiers = seed.tiers
        /\ seed'.subs = seed.subs
    BY <1>11 DEF SeedSubscription, Typed, Seed
  <2>2. CASE subs[t] # NoRow
    <3>1. UNCHANGED subs
      BY <1>11, <2>2 DEF SeedSubscription
    <3> QED
      BY <2>1, <3>1 DEF Terms, TermsAreKept
  <2>3. CASE subs[t] = NoRow
    <3>1. /\ subs'[t].plan = PlanOf(t) /\ \A u \in Tenants \ {t} : subs'[u] = subs[u]
      BY <1>11, <2>3 DEF SeedSubscription, Typed
    <3>2. Exists(t) /\ (t \notin repicked => tier[t] = PlanOf(t))
      <4>1. Exists(t) /\ (t \notin repicked => seed.tiers[t] = tier[t])
        BY <2>1 DEF Terms
      <4>2. t \notin repicked => tier[t] \in Plans
        BY <4>1 DEF Terms
      <4> QED
        BY <4>1, <4>2 DEF PlanOf
    <3>3. \A n \in Numbers : invoices[n] # NoRow => invoices[n].tenant \in Tenants \ {t}
      BY <2>3 DEF Typed, Invoice, Terms
    <3>4. seed.subs[t] = NoRow
      BY <2>3 DEF Terms
    <3> QED
      BY <2>1, <3>1, <3>2, <3>3, <3>4 DEF Terms, TermsAreKept
  <2> QED
    BY <2>2, <2>3
<1>12. CASE SeedReadSubs
  <2>1. seed'.at = "invoices" /\ seed'.subs = subs
    BY <1>12, RestTyped DEF SeedReadSubs, Seed
  <2>2. UNCHANGED <<tier, subs, invoices, repicked>>
    BY <1>12 DEF SeedReadSubs
  <2> QED
    BY <2>1, <2>2 DEF Terms, TermsAreKept
<1>13. ASSUME NEW t \in Tenants, SeedTenant(t)  PROVE Terms'
  <2>1. seed'.at = "invoices" /\ seed'.subs = seed.subs
    BY <1>13 DEF SeedTenant, Typed, Seed
  <2>2. UNCHANGED <<tier, subs, invoices, repicked>>
    BY <1>13 DEF SeedTenant
  <2> QED
    BY <2>1, <2>2 DEF Terms, TermsAreKept
<1>14. CASE SeedInvoice
  <2> DEFINE t == seed.tenant
             n == seed.counter + 1
  <2>1. UNCHANGED <<tier, subs, repicked>> /\ t \in Tenants /\ seed.subs[t] # NoRow
    BY <1>14 DEF SeedInvoice, Typed, Fits, Seed
  <2>2. CASE invoices[n] # NoRow
    <3>1. /\ UNCHANGED invoices /\ seed'.at = "failed" /\ \A u \in Tenants : seed'.subs[u] = NoRow
      BY <1>14, <2>2, RestTyped DEF SeedInvoice
    <3> QED
      BY <2>1, <3>1 DEF Terms, TermsAreKept
  <2>3. CASE invoices[n] = NoRow
    <3>1. /\ n \in Numbers => invoices'[n].tenant = t /\ invoices'[n].total = seed.subs[t].mrr
          /\ \A m \in Numbers \ {n} : invoices'[m] = invoices[m]
      BY <1>14, <2>3, NextInvoice DEF Typed
    <3>2. seed'.subs = seed.subs /\ seed'.at = "invoices"
      BY <1>14, <2>3 DEF SeedInvoice, Typed, Seed
    <3> QED
      BY <2>1, <3>1, <3>2 DEF Terms, TermsAreKept
  <2> QED
    BY <2>2, <2>3
<1>15. CASE SeedDone \/ SeedKilled
  <2>1. seed'.at \notin {"subs", "invoices"} /\ \A u \in Tenants : seed'.subs[u] = NoRow
    BY <1>15, RestTyped DEF SeedDone, SeedKilled
  <2>2. UNCHANGED <<tier, subs, invoices, repicked>>
    BY <1>15 DEF SeedDone, SeedKilled
  <2> QED
    BY <2>1, <2>2 DEF Terms, TermsAreKept
<1>16. CASE UNCHANGED <<tier, subs, invoices, repicked, seed>>
  BY <1>16 DEF Terms, TermsAreKept
<1> QED
  BY <1>1, <1>2, <1>4, <1>6, <1>10, <1>11, <1>12, <1>13, <1>14, <1>15, <1>16
     DEF Next, vars, PatchActive, PatchPrice, ReportMrr, ReportMix, ReportBilled, Tick

-----------------------------------------------------------------------------
(* Cancellations. *)

LEMMA ChurnInitially == Init => ChurnIsExplained
BY DEF Init, ChurnIsExplained

LEMMA ChurnStep == Typed /\ ChurnIsExplained /\ [Next]_vars => ChurnIsExplained'
<1> SUFFICES ASSUME Typed, ChurnIsExplained, [Next]_vars PROVE ChurnIsExplained'
  OBVIOUS
<1>1. ASSUME NEW t \in Tenants, PatchSubscription(t)  PROVE ChurnIsExplained'
  <2>1. PICK s \in Statuses :
           /\ subs' = [subs EXCEPT ![t].status = s, ![t].canceled = CanceledAt(@, s)]
           /\ reopened' = IF subs[t].status = "canceled" /\ s # "canceled" THEN reopened \cup {t} ELSE reopened
    BY <1>1 DEF PatchSubscription
  <2>2. subs[t] \in Subscription /\ subs[t] # NoRow
    BY <1>1 DEF PatchSubscription, Typed
  <2>3. /\ subs'[t].status = s /\ subs'[t].canceled = CanceledAt(subs[t].canceled, s)
        /\ \A u \in Tenants \ {t} : subs'[u] = subs[u]
    BY <2>1, <2>2 DEF Typed, Subscription
  <2>4. /\ subs'[t].status = "canceled" => subs'[t].canceled # NoTime
        /\ subs'[t].canceled # NoTime => subs'[t].status = "canceled" \/ t \in reopened'
    BY <2>1, <2>2, <2>3, NowIsATime DEF CanceledAt, ChurnIsExplained
  <2>5. reopened \subseteq reopened'
    BY <2>1
  <2> QED
    BY <2>3, <2>4, <2>5 DEF ChurnIsExplained
<1>2. ASSUME NEW t \in Tenants, SeedSubscription(t)  PROVE ChurnIsExplained'
  <2>1. UNCHANGED reopened
    BY <1>2 DEF SeedSubscription
  <2>2. CASE subs[t] # NoRow
    BY <1>2, <2>1, <2>2 DEF SeedSubscription, ChurnIsExplained
  <2>3. CASE subs[t] = NoRow
    <3>1. /\ subs'[t].status = "active" /\ subs'[t].canceled = NoTime
          /\ \A u \in Tenants \ {t} : subs'[u] = subs[u]
      BY <1>2, <2>3 DEF SeedSubscription, Typed
    <3> QED
      BY <2>1, <3>1 DEF ChurnIsExplained
  <2> QED
    BY <2>2, <2>3
<1>3. CASE UNCHANGED <<subs, reopened>>
  BY <1>3 DEF ChurnIsExplained
<1> QED
  BY <1>1, <1>2, <1>3
     DEF Next, vars, Signup, PatchTier, PatchActive, PatchPrice, PatchInvoice, ReportMrr, ReportMix,
         ReportBilled, SeedStart, SeedReadSubs, SeedTenant, SeedInvoice, SeedDone, SeedKilled, Tick

-----------------------------------------------------------------------------
(* What is billed. *)

\* An invoice is marked paid on a day that has come, and was first reported
\* on that day or later, unless it was marked again.
Money ==
    \A n \in Numbers :
        /\ invoices[n] # NoRow /\ invoices[n].paid # NoTime => invoices[n].paid <= now
        /\ counted[n] # NoRow /\ n \notin repaid =>
              invoices[n] # NoRow /\ invoices[n].paid # NoTime /\ invoices[n].paid <= counted[n]

LEMMA MoneyInitially == Init => Money
BY DEF Init, Money

LEMMA PaidDates ==
    ASSUME Typed, NEW n \in Numbers, invoices[n] # NoRow
    PROVE  invoices[n] \in Invoice /\ (invoices[n].paid # NoTime => invoices[n].paid \in Int)
BY DEF Typed, Invoice, Times

LEMMA MoneyStep == Typed /\ Money /\ [Next]_vars => Money'
<1> SUFFICES ASSUME Typed, Money, [Next]_vars PROVE Money'
  OBVIOUS
<1>1. ASSUME NEW n \in Numbers, PatchInvoice(n)  PROVE Money'
  <2>1. PICK s \in InvoiceStatuses :
           /\ invoices' = [invoices EXCEPT ![n].status = s, ![n].paid = IF s = "paid" THEN now ELSE @]
           /\ repaid' = IF s = "paid" /\ invoices[n].paid # NoTime THEN repaid \cup {n} ELSE repaid
    BY <1>1 DEF PatchInvoice
  <2>2. invoices[n] \in Invoice /\ invoices[n] # NoRow
    BY <1>1 DEF PatchInvoice, Typed
  <2>3. /\ invoices'[n] \in Invoice /\ invoices'[n].paid = IF s = "paid" THEN now ELSE invoices[n].paid
        /\ \A m \in Numbers \ {n} : invoices'[m] = invoices[m]
    BY <2>1, <2>2, NowIsATime DEF Typed, Invoice
  <2>4. UNCHANGED <<now, counted>>
    BY <1>1 DEF PatchInvoice
  <2>5. invoices'[n] # NoRow
    BY <2>3, NullAssumption
  <2>6. /\ invoices'[n].paid # NoTime => invoices'[n].paid <= now
        /\ counted[n] # NoRow /\ n \notin repaid' =>
              invoices'[n].paid # NoTime /\ invoices'[n].paid <= counted[n]
    BY <2>1, <2>2, <2>3, NowIsATime DEF Money
  <2> QED
    BY <2>1, <2>3, <2>4, <2>5, <2>6 DEF Money
<1>2. CASE ReportBilled
  <2>1. /\ counted' = [n \in Numbers |-> IF Billed(n) /\ counted[n] = NoRow THEN now ELSE counted[n]]
        /\ UNCHANGED <<now, invoices, repaid>>
    BY <1>2 DEF ReportBilled
  <2> QED
    BY <2>1 DEF Money, Billed
<1>3. CASE SeedInvoice
  <2> DEFINE n == seed.counter + 1
  <2>1. UNCHANGED <<now, counted, repaid>>
    BY <1>3 DEF SeedInvoice
  <2>2. CASE invoices[n] # NoRow
    BY <1>3, <2>1, <2>2 DEF SeedInvoice, Money
  <2>3. CASE invoices[n] = NoRow
    <3>1. /\ n \in Numbers /\ invoices'[n].paid # NoTime => invoices'[n].paid <= now
          /\ \A m \in Numbers \ {n} : invoices'[m] = invoices[m]
      BY <1>3, <2>3, NextInvoice DEF Typed
    <3> QED
      BY <2>1, <2>3, <3>1 DEF Money
  <2> QED
    BY <2>2, <2>3
<1>4. CASE Tick
  <2>1. now' = now + 1 /\ UNCHANGED <<invoices, counted, repaid>>
    BY <1>4 DEF Tick
  <2> QED
    BY <2>1, PaidDates, NowIsATime DEF Money
<1>5. CASE UNCHANGED <<now, invoices, counted, repaid>>
  BY <1>5 DEF Money
<1> QED
  BY <1>1, <1>2, <1>3, <1>4, <1>5
     DEF Next, vars, Signup, PatchTier, PatchActive, PatchPrice, PatchSubscription, ReportMrr, ReportMix,
         SeedStart, SeedSubscription, SeedReadSubs, SeedTenant, SeedDone, SeedKilled

-----------------------------------------------------------------------------
(* The seed. *)

\* A tenant has all of its invoices or none, unless a run ended in the middle
\* of them; the run in progress owes those of the tenants it has yet to come to.
Owed(t, s) == s.at = "invoices" /\ s.tenant = t
Complete ==
    \A t \in Tenants \ cut :
        /\ Owed(t, seed) => Cardinality(Issued(t)) + Cardinality(seed.ages) = C
        /\ ~Owed(t, seed) => /\ Cardinality(Issued(t)) \in {0, C}
                             /\ seed.at = "invoices" /\ seed.subs[t] # NoRow /\ t \notin seed.todo =>
                                   Cardinality(Issued(t)) = C

LEMMA IssuedFinite ==
    ASSUME NEW t \in Tenants
    PROVE  IsFiniteSet(Issued(t)) /\ Cardinality(Issued(t)) \in Nat
           /\ (Cardinality(Issued(t)) = 0 <=> Issued(t) = {})
<1>1. Issued(t) \in SUBSET Numbers
  BY DEF Issued
<1> QED
  BY <1>1, Sizes, FS_Subset, FS_CardinalityType, FS_EmptySet

LEMMA CompleteInitially == Init => Complete
<1> SUFFICES ASSUME Init, NEW t \in Tenants
             PROVE  seed.at # "invoices" /\ Cardinality(Issued(t)) = 0
  BY DEF Complete, Owed
<1>1. Issued(t) = {}
  BY DEF Init, Issued
<1> QED
  BY <1>1, FS_EmptySet, RestTyped DEF Init

LEMMA CompleteStep == Typed /\ Complete /\ [Next]_vars => Complete'
<1> SUFFICES ASSUME Typed, Complete, [Next]_vars PROVE Complete'
  OBVIOUS
<1>1. ASSUME UNCHANGED <<invoices, cut>>,
             \A t \in Tenants : ~Owed(t, seed) /\ ~Owed(t, seed'),
             seed'.at = "invoices" => seed'.todo = {t \in Tenants : seed'.subs[t] # NoRow}
      PROVE  Complete'
  <2>1. \A t : Issued(t)' = Issued(t)
    BY <1>1 DEF Issued
  <2>2. ASSUME NEW t \in Tenants, seed'.at = "invoices", seed'.subs[t] # NoRow, t \notin seed'.todo
        PROVE  FALSE
    BY <1>1, <2>2
  <2> QED
    BY <1>1, <2>1, <2>2 DEF Complete, Owed
<1>2. ASSUME NEW n \in Numbers, PatchInvoice(n)  PROVE Complete'
  <2>1. invoices[n] \in Invoice /\ invoices[n] # NoRow
    BY <1>2 DEF PatchInvoice, Typed
  <2>2. /\ invoices'[n] \in Invoice /\ invoices'[n].tenant = invoices[n].tenant
        /\ \A m \in Numbers \ {n} : invoices'[m] = invoices[m]
    <3>1. PICK s \in InvoiceStatuses :
             invoices' = [invoices EXCEPT ![n].status = s, ![n].paid = IF s = "paid" THEN now ELSE @]
      BY <1>2 DEF PatchInvoice
    <3> QED
      BY <2>1, <3>1, NowIsATime DEF Typed, Invoice
  <2>3. invoices'[n] # NoRow
    BY <2>2, NullAssumption
  <2>4. \A t : Issued(t)' = Issued(t)
    BY <2>1, <2>2, <2>3 DEF Issued
  <2>5. UNCHANGED <<seed, cut>>
    BY <1>2 DEF PatchInvoice
  <2> QED
    BY <2>4, <2>5 DEF Complete, Owed
<1>3. CASE SeedStart
  <2>1. seed.at # "invoices" /\ UNCHANGED <<invoices, cut>>
    BY <1>3 DEF SeedStart
  <2>2. seed'.at = "subs"
    BY <1>3, RestTyped DEF SeedStart, Seed
  <2> QED
    BY <1>1, <2>1, <2>2 DEF Owed
<1>4. ASSUME NEW t \in Tenants, SeedSubscription(t)  PROVE Complete'
  <2>1. seed.at = "subs" /\ seed'.at = "subs" /\ UNCHANGED <<invoices, cut>>
    BY <1>4 DEF SeedSubscription, Typed, Seed
  <2> QED
    BY <1>1, <2>1 DEF Owed
<1>5. CASE SeedReadSubs
  <2>1. seed.at = "subs" /\ UNCHANGED <<invoices, cut>>
    BY <1>5 DEF SeedReadSubs
  <2>2. /\ seed'.at = "invoices" /\ seed'.tenant = NoRow /\ seed'.subs = subs
        /\ seed'.todo = {t \in Tenants : subs[t] # NoRow}
    BY <1>5, RestTyped DEF SeedReadSubs, Seed
  <2> QED
    BY <1>1, <2>1, <2>2, BillingAssumption DEF Owed
<1>6. ASSUME NEW t \in Tenants, SeedTenant(t)  PROVE Complete'
  <2>1. /\ UNCHANGED <<invoices, cut>> /\ seed.at = "invoices" /\ seed.tenant = NoRow /\ t \in seed.todo
        /\ seed'.at = "invoices" /\ seed'.todo = seed.todo \ {t} /\ seed'.subs = seed.subs
        /\ IF Issued(t) # {} THEN seed'.tenant = NoRow
                             ELSE seed'.tenant = t /\ seed'.ages = Ages
    BY <1>6 DEF SeedTenant, Typed, Seed
  <2>2. \A u : Issued(u)' = Issued(u)
    BY <2>1 DEF Issued
  <2>3. \A u \in Tenants : ~Owed(u, seed)
    BY <2>1, BillingAssumption DEF Owed
  <2>4. CASE Issued(t) # {}
    <3>1. t \notin cut => Cardinality(Issued(t)) = C
      BY <2>3, <2>4, IssuedFinite DEF Complete
    <3>2. \A u \in Tenants : ~Owed(u, seed')
      BY <2>1, <2>4, BillingAssumption DEF Owed
    <3> QED
      BY <2>1, <2>2, <2>3, <3>1, <3>2 DEF Complete
  <2>5. CASE Issued(t) = {}
    <3>1. seed'.tenant = t /\ seed'.ages = Ages
      BY <2>1, <2>5
    <3>2. Cardinality(Issued(t)) + Cardinality(seed'.ages) = C
      BY <2>5, <3>1, FS_EmptySet, Sizes DEF C
    <3>3. \A u \in Tenants : Owed(u, seed') <=> u = t
      BY <2>1, <3>1 DEF Owed
    <3>4. \A u \in Tenants \ {t} : u \in seed.todo <=> u \in seed'.todo
      BY <2>1
    <3> QED
      BY <2>1, <2>2, <2>3, <3>2, <3>3, <3>4 DEF Complete
  <2> QED
    BY <2>4, <2>5
<1>7. CASE SeedInvoice
  <2>0. PICK t \in Tenants : t = seed.tenant
    BY <1>7 DEF SeedInvoice, Typed, Seed
  <2>a. PICK n \in Nat : n = seed.counter + 1
    BY DEF Typed, Seed, Numbers
  <2> DEFINE age == Max(seed.ages)
  <2>1. seed.at = "invoices" /\ \A u \in Tenants : Owed(u, seed) <=> u = t
    BY <1>7, <2>0 DEF SeedInvoice, Owed
  <2>2. CASE invoices[n] # NoRow
    <3>1. seed'.at = "failed" /\ UNCHANGED invoices /\ cut' = cut \cup {t}
      BY <1>7, <2>0, <2>a, <2>2, RestTyped DEF SeedInvoice
    <3>2. \A u : Issued(u)' = Issued(u)
      BY <3>1 DEF Issued
    <3>3. \A u \in Tenants \ cut' : u \in Tenants \ cut /\ ~Owed(u, seed) /\ ~Owed(u, seed')
      BY <2>1, <3>1 DEF Owed
    <3> QED
      BY <3>1, <3>2, <3>3 DEF Complete
  <2>3. CASE invoices[n] = NoRow
    <3>1. PICK k \in Ages : seed.ages = 0..k
      BY <1>7 DEF SeedInvoice, Typed, Fits
    <3>2. age = k /\ k \in Nat /\ Cardinality(seed.ages) = k + 1 /\ Cardinality(seed.ages \ {age}) = k
      BY <3>1, AgesUpTo
    <3>3. n \in Numbers
      BY <1>7, <2>a, <3>1, NextNumber
    <3>4. /\ invoices'[n] \in Invoice /\ invoices'[n].tenant = t
          /\ \A m \in Numbers \ {n} : invoices'[m] = invoices[m]
      BY <1>7, <2>0, <2>a, <2>3, <3>3, NextInvoice DEF Typed
    <3>5. invoices'[n] # NoRow
      BY <3>4, NullAssumption
    <3>6. /\ n \notin Issued(t) /\ Issued(t)' = Issued(t) \cup {n}
          /\ \A u \in Tenants \ {t} : Issued(u)' = Issued(u)
      <4>1. \A m \in Numbers : m \in Issued(t)' <=> m \in Issued(t) \/ m = n
        BY <3>3, <3>4, <3>5 DEF Issued
      <4>2. \A u \in Tenants \ {t} : \A m \in Numbers : m \in Issued(u)' <=> m \in Issued(u)
        BY <2>3, <3>3, <3>4, <3>5 DEF Issued
      <4>3. n \notin Issued(t) /\ \A u : Issued(u) \subseteq Numbers /\ Issued(u)' \subseteq Numbers
        BY <2>3 DEF Issued
      <4> QED
        BY <3>3, <4>1, <4>2, <4>3
    <3>7. Cardinality(Issued(t)') = Cardinality(Issued(t)) + 1
      BY <2>1, <3>6, IssuedFinite, FS_AddElement
    <3>8. /\ UNCHANGED cut /\ seed'.at = "invoices" /\ seed'.subs = seed.subs /\ seed'.todo = seed.todo
          /\ seed'.ages = seed.ages \ {age} /\ seed'.tenant = IF k = 0 THEN NoRow ELSE t
      BY <1>7, <2>0, <2>a, <2>3, <3>2 DEF SeedInvoice, Typed, Seed, Leave
    <3>9. \A u \in Tenants : Owed(u, seed') <=> u = t /\ k # 0
      BY <2>1, <3>8, BillingAssumption DEF Owed
    <3>10. t \notin cut => Cardinality(Issued(t)') + Cardinality(seed'.ages) = C
      BY <2>1, <3>2, <3>7, <3>8, IssuedFinite DEF Complete
    <3>11. t \notin cut /\ k = 0 => Cardinality(Issued(t)') = C
      BY <2>1, <3>2, <3>8, <3>7, <3>10, IssuedFinite
    <3> QED
      <4> SUFFICES ASSUME NEW u \in Tenants \ cut
                   PROVE  /\ Owed(u, seed') => Cardinality(Issued(u)') + Cardinality(seed'.ages) = C
                          /\ ~Owed(u, seed') =>
                                /\ Cardinality(Issued(u)') \in {0, C}
                                /\ seed.subs[u] # NoRow /\ u \notin seed.todo => Cardinality(Issued(u)') = C
        BY <3>8 DEF Complete
      <4>1. CASE u = t
        BY <2>1, <3>9, <3>10, <3>11, <4>1
      <4>2. CASE u # t
        <5>1. ~Owed(u, seed) /\ ~Owed(u, seed') /\ Issued(u)' = Issued(u)
          BY <2>1, <3>6, <3>9, <4>2
        <5> QED
          BY <2>1, <5>1 DEF Complete
      <4> QED
        BY <4>1, <4>2
  <2> QED
    BY <2>2, <2>3
<1>8. CASE SeedDone
  <2>1. seed.tenant = NoRow /\ seed'.at = "done" /\ UNCHANGED <<invoices, cut>>
    BY <1>8, RestTyped DEF SeedDone
  <2> QED
    BY <1>1, <2>1, BillingAssumption DEF Owed
<1>9. CASE SeedKilled
  <2>1. seed'.at = "idle" /\ UNCHANGED invoices
        /\ cut' = IF seed.tenant = NoRow THEN cut ELSE cut \cup {seed.tenant}
    BY <1>9, RestTyped DEF SeedKilled
  <2>2. \A u : Issued(u)' = Issued(u)
    BY <2>1 DEF Issued
  <2>3. \A u \in Tenants \ cut' : u \in Tenants \ cut /\ ~Owed(u, seed) /\ ~Owed(u, seed')
    BY <2>1, BillingAssumption DEF Owed
  <2> QED
    BY <2>1, <2>2, <2>3 DEF Complete
<1>10. CASE UNCHANGED <<invoices, seed, cut>>
  <2>1. \A t : Issued(t)' = Issued(t)
    BY <1>10 DEF Issued
  <2> QED
    BY <1>10, <2>1 DEF Complete, Owed
<1> QED
  BY <1>2, <1>3, <1>4, <1>5, <1>6, <1>7, <1>8, <1>9, <1>10
     DEF Next, vars, Signup, PatchTier, PatchActive, PatchPrice, PatchSubscription, ReportMrr, ReportMix,
         ReportBilled, Tick

-----------------------------------------------------------------------------
(* The summary. *)

\* Between the first two statements the totals that were read are still those
\* of the table, unless a subscription was written.
ReadTotals ==
    report.at = 1 /\ ~torn => report.n = Cardinality(Earning) /\ report.mrr = SumOfMrr(Earning)

LEMMA TotalsInitially == Init => ReadTotals
BY DEF Init, NoReport, ReadTotals

LEMMA TotalsStep == ReadTotals /\ [Next]_vars => ReadTotals'
<1> SUFFICES ASSUME ReadTotals, [Next]_vars PROVE ReadTotals'
  OBVIOUS
<1>1. CASE UNCHANGED <<subs, report, torn>>
  BY <1>1 DEF ReadTotals, Earning, SumOfMrr, Mrr
<1>2. CASE report' = report /\ torn' = (torn \/ report.at = 1)
  BY <1>2 DEF ReadTotals
<1>3. CASE ReportMrr
  <2>1. UNCHANGED subs /\ report' = [at |-> 1, n |-> Cardinality(Earning), mrr |-> SumOfMrr(Earning)]
    BY <1>3 DEF ReportMrr
  <2>2. UNCHANGED <<Earning, Mrr>>
    BY <2>1 DEF Earning, Mrr
  <2>3. UNCHANGED <<Cardinality(Earning), SumOfMrr(Earning)>>
    BY <2>2 DEF SumOfMrr
  <2> QED
    BY <2>1, <2>3 DEF ReadTotals
<1>4. CASE ReportMix \/ ReportBilled
  <2>1. report'.at # 1
    BY <1>4 DEF ReportMix, ReportBilled, NoReport
  <2> QED
    BY <2>1 DEF ReadTotals
<1>5. ASSUME NEW t \in Tenants, SeedSubscription(t) PROVE ReadTotals'
  BY <1>1, <1>2, <1>5 DEF SeedSubscription
<1>6. ASSUME NEW t \in Tenants, PatchSubscription(t) PROVE ReadTotals'
  BY <1>2, <1>6 DEF PatchSubscription
<1> QED
  BY <1>1, <1>3, <1>4, <1>5, <1>6
     DEF Next, vars, Signup, PatchTier, PatchActive, PatchPrice, PatchInvoice, SeedStart, SeedTenant,
         SeedReadSubs, SeedInvoice, SeedDone, SeedKilled, Tick

\* Every subscription that earns is in the mix of one plan.
LEMMA MixAddsUp ==
    ASSUME Typed
    PROVE  /\ Cardinality(Earning) = SumFunction([p \in Plans |-> Mix(p)[1]])
           /\ SumOfMrr(Earning) = SumFunction([p \in Plans |-> Mix(p)[2]])
<1> DEFINE plan == [t \in Tenants |-> subs[t].plan]
           ones == [t \in Tenants |-> 1]
           Of(p) == {t \in Earning : plan[t] = p}
<1>1. IsFiniteSet(Plans) /\ IsFiniteSet(Earning) /\ Earning \subseteq Tenants
  BY BillingAssumption, FS_Subset DEF Earning
<1>2. \A t \in Earning : plan[t] \in Plans /\ Mrr[t] \in Int /\ ones[t] \in Int
  <2> TAKE t \in Earning
  <2>1. t \in Tenants /\ subs[t] # NoRow /\ subs[t] \in Subscription
    BY DEF Earning, Typed
  <2>2. subs[t].plan \in Plans /\ subs[t].mrr \in Prices
    BY <2>1 DEF Subscription
  <2>3. \A c \in Prices : c \in Int
    <3>1. Prices \subseteq Nat
      BY ONLY BillingAssumption
    <3> QED
      BY ONLY <3>1
  <2>4. Mrr[t] = subs[t].mrr
    BY <2>1 DEF Mrr
  <2>5. plan[t] = subs[t].plan /\ ones[t] = 1
    BY <2>1
  <2> HIDE DEF plan, ones
  <2> QED
    BY ONLY <2>2, <2>3, <2>4, <2>5
<1>3. ASSUME NEW p \in Plans PROVE {t \in Tenants : InMix(t, p)} = Of(p)
  BY DEF InMix, Earning
<1>4. ASSUME NEW U \in SUBSET Tenants PROVE Cardinality(U) = SumFunctionOnSet(ones, U)
  <2>1. IsFiniteSet(U)
    BY FS_Subset, BillingAssumption
  <2> QED
    BY <2>1, SumOfOnes
<1>5. \A p \in Plans : Mix(p) = <<SumFunctionOnSet(ones, Of(p)), SumFunctionOnSet(Mrr, Of(p))>>
  <2> TAKE p \in Plans
  <2>1. Of(p) \in SUBSET Tenants
    BY <1>1
  <2> HIDE DEF Of, ones
  <2> QED
    BY <1>3, <1>4, <2>1 DEF Mix, SumOfMrr
<1> DEFINE counts == [p \in Plans |-> Mix(p)[1]]
           sums   == [p \in Plans |-> Mix(p)[2]]
<1>6. /\ counts = [p \in Plans |-> SumFunctionOnSet(ones, Of(p))]
      /\ sums = [p \in Plans |-> SumFunctionOnSet(Mrr, Of(p))]
  <2> HIDE DEF Of, ones
  <2> QED
    BY <1>5
<1>7. SumFunctionOnSet(counts, Plans) = SumFunctionOnSet(ones, Earning)
  <2> HIDE DEF counts, sums, ones, plan
  <2> QED
    BY ONLY <1>1, <1>2, <1>6, SumOfGroups
<1>8. SumFunctionOnSet(sums, Plans) = SumFunctionOnSet(Mrr, Earning)
  <2> HIDE DEF counts, sums, ones, plan
  <2> QED
    BY ONLY <1>1, <1>2, <1>6, SumOfGroups
<1>9. SumFunction(counts) = SumFunctionOnSet(counts, Plans) /\ SumFunction(sums) = SumFunctionOnSet(sums, Plans)
  BY DEF SumFunction
<1> QED
  <2> HIDE DEF ones
  <2> QED
    BY <1>1, <1>4, <1>7, <1>8, <1>9 DEF SumOfMrr

-----------------------------------------------------------------------------
IInv == Typed /\ Terms /\ ChurnIsExplained /\ Money /\ Complete /\ ReadTotals

LEMMA IInvHolds == Spec => []IInv
<1>1. Init => IInv
  BY TypedInitially, TermsInitially, ChurnInitially, MoneyInitially, CompleteInitially,
     TotalsInitially DEF IInv
<1>2. IInv /\ [Next]_vars => IInv'
  BY TypedStep, TermsStep, ChurnStep, MoneyStep, CompleteStep, TotalsStep DEF IInv
<1> QED
  BY <1>1, <1>2, PTL DEF Spec

\* The types are right; above all, a run of the seed never gives an invoice a
\* number past the last.
THEOREM TypeCorrect == Spec => []TypeOK
<1>1. Typed => TypeOK
  <2> SUFFICES ASSUME Typed PROVE TypeOK
    OBVIOUS
  <2>1. seed.tenant # NoRow => seed.ages # {}
    <3> SUFFICES ASSUME seed.tenant # NoRow PROVE seed.ages # {}
      OBVIOUS
    <3>1. PICK k \in Ages : seed.ages = 0..k
      BY DEF Typed, Fits
    <3>2. k \in 0..k
      <4>1. k \in Nat
        BY <3>1, AgesUpTo
      <4> QED
        BY <4>1
    <3> QED
      BY <3>1, <3>2
  <2> QED
    BY <2>1 DEF Typed, TypeOK, Seed
<1> QED
  BY <1>1, IInvHolds, PTL DEF IInv

\* No price, status or run of the seed takes an invoice away from the rate of
\* its subscription, or a subscription from its tenant's tier.
THEOREM TermsStay == Spec => []TermsAreKept
BY IInvHolds, PTL DEF IInv, Terms

\* What the churn counts as canceled was canceled.
THEOREM ChurnCounts == Spec => []ChurnIsExplained
BY IInvHolds, PTL DEF IInv

\* The revenue page adds up (admin-revenue.js:247-261), in subscriptions and in
\* cents, for any number of plans and tenants, unless a subscription was
\* written between its two statements.
THEOREM SummaryAddsUp == Spec => SummaryIsConsistent
<1>1. IInv /\ report.at = 1 /\ ~torn =>
          /\ report.n = SumFunction([p \in Plans |-> Mix(p)[1]])
          /\ report.mrr = SumFunction([p \in Plans |-> Mix(p)[2]])
  BY MixAddsUp DEF IInv, ReadTotals
<1> QED
  BY <1>1, IInvHolds, PTL DEF SummaryIsConsistent

\* An invoice that nobody marked paid twice is the income of one month.
THEOREM BilledOnce == Spec => MoneyIsBilledOnce
<1>1. IInv => \A n \in Numbers : counted[n] # NoRow /\ Billed(n) => now - counted[n] <= Month \/ n \in repaid
  <2> SUFFICES ASSUME IInv, NEW n \in Numbers, counted[n] # NoRow, Billed(n), n \notin repaid
               PROVE  now - counted[n] <= Month
    OBVIOUS
  <2>1. invoices[n].paid <= counted[n] /\ invoices[n].paid >= now - Month /\ invoices[n].paid \in Int
    BY PaidDates DEF IInv, Money, Billed
  <2>2. now \in Int /\ counted[n] \in Int
    BY DEF IInv, Typed
  <2> QED
    BY <2>1, <2>2 DEF Month
<1> QED
  BY <1>1, IInvHolds, PTL DEF MoneyIsBilledOnce

\* A run that ends well has left out no invoice of a tenant whose invoices no
\* run broke off, however many runs there were, and were killed.
THEOREM NobodyLeftOut == Spec => SeedLeavesNobodyOut
<1>1. ASSUME IInv, [Next]_vars, seed.at = "invoices", seed'.at = "done",
             NEW t \in Tenants, seed.subs[t] # NoRow, t \notin cut
      PROVE  Cardinality(Issued(t)) = C
  <2>1. SeedDone
    <3>1. ASSUME NEW u \in Tenants, SeedTenant(u)  PROVE FALSE
      BY <1>1, <3>1 DEF SeedTenant, IInv, Typed, Seed
    <3>2. ASSUME SeedInvoice  PROVE FALSE
      <4>1. seed'.at = seed.at \/ seed'.at = "failed"
        <5>1. CASE invoices[seed.counter + 1] # NoRow
          BY <3>2, <5>1, RestTyped DEF SeedInvoice
        <5>2. CASE invoices[seed.counter + 1] = NoRow
          BY <1>1, <3>2, <5>2 DEF SeedInvoice, IInv, Typed, Seed
        <5> QED
          BY <5>1, <5>2
      <4> QED
        BY <1>1, <4>1
    <3>3. ASSUME SeedKilled  PROVE FALSE
      BY <1>1, <3>3, RestTyped DEF SeedKilled
    <3>4. ASSUME UNCHANGED seed  PROVE FALSE
      BY <1>1, <3>4
    <3> QED
      BY <1>1, <3>1, <3>2, <3>3, <3>4
         DEF Next, vars, Signup, PatchTier, PatchActive, PatchPrice, PatchSubscription, PatchInvoice,
             ReportMrr, ReportMix, ReportBilled, SeedStart, SeedSubscription, SeedReadSubs, Tick
  <2>2. seed.tenant = NoRow /\ seed.todo = {}
    BY <2>1 DEF SeedDone
  <2> QED
    BY <1>1, <2>2, BillingAssumption DEF IInv, Complete, Owed
<1>2. IInv /\ [Next]_vars =>
        [seed.at = "invoices" /\ seed'.at = "done" =>
          \A t \in Tenants : seed.subs[t] # NoRow =>
              Cardinality(Issued(t)) = Cardinality(Ages) \/ t \in cut]_vars
  BY <1>1 DEF C
<1> QED
  BY <1>2, IInvHolds, PTL DEF Spec, SeedLeavesNobodyOut

=============================================================================
