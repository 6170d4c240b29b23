---------------------------- MODULE QuotesProofs ----------------------------
(***************************************************************************)
(* What holds of quotes and earnings for any services, rules, commissions, *)
(* contexts and tax rates, any number of bookings, and however doubles are *)
(* rounded from a half cent.                                               *)
(***************************************************************************)
EXTENDS Quotes, FiniteSetTheorems, WellFoundedInduction, TLAPS

\* Division with remainder.
LEMMA Division ==
    ASSUME NEW n \in Int, NEW d \in Nat \ {0}
    PROVE  /\ n \div d \in Int /\ n % d \in Int
           /\ n = d * (n \div d) + (n % d)
           /\ 0 =< n % d /\ n % d < d
OBVIOUS

\* round2 (engine.js:164) returns a nearest cent: it is never off by more
\* than half of one, to either side.
LEMMA RoundedIsNearest ==
    ASSUME NEW x \in Int, NEW y \in Int, NEW d \in Nat \ {0}
    PROVE  /\ Rounded(x, y, d) \in Int
           /\ 2 * (d * Rounded(x, y, d) - x * y) =< d
           /\ 2 * (x * y - d * Rounded(x, y, d)) =< d
<1> DEFINE n == x * y
           q == n \div d
           r == n % d
           m == d * q
<1>1. n \in Int
  OBVIOUS
<1>2. /\ q \in Int /\ r \in Int /\ m \in Int
      /\ n = m + r /\ 0 =< r /\ r < d
      /\ d * (q + 1) = m + d
  <2> HIDE DEF n
  <2>1. q \in Int /\ r \in Int /\ n = d * q + r /\ 0 =< r /\ r < d
    BY <1>1, Division
  <2>2. d * (q + 1) = d * q + d /\ d * q \in Int
    BY <2>1
  <2> QED
    BY <2>1, <2>2
<1>3. CASE 2 * r > d \/ (2 * r = d /\ HalfUp(x, y, d))
  <2>1. Rounded(x, y, d) = q + 1
    BY <1>3 DEF Rounded
  <2> HIDE DEF n, q, r, m
  <2>2. d * Rounded(x, y, d) = m + d
    BY <2>1, <1>2
  <2>3. 2 * r >= d
    BY <1>2, <1>3
  <2> QED
    BY <1>1, <1>2, <2>1, <2>2, <2>3 DEF n
<1>4. CASE ~(2 * r > d \/ (2 * r = d /\ HalfUp(x, y, d)))
  <2>1. Rounded(x, y, d) = q
    BY <1>4 DEF Rounded
  <2>2. d * Rounded(x, y, d) = m
    BY <2>1
  <2>3. 2 * r =< d
    BY <1>2, <1>4
  <2> HIDE DEF n, q, r, m
  <2> QED
    BY <1>1, <1>2, <2>1, <2>2, <2>3 DEF n
<1> QED
  BY <1>3, <1>4

LEMMA RoundedIsWhole ==
    ASSUME NEW x \in Int, NEW y \in Int, NEW d \in Nat \ {0}
    PROVE  Rounded(x, y, d) \in Int
BY RoundedIsNearest

\* The limits of a commission (engine.js:78-79) hold of any amount: the cap
\* always, the floor unless the cap is below it.
LEMMA LimitsHold ==
    ASSUME NEW c, NEW amount \in Int,
           c.min_amount \in Nat \cup {None}, c.max_amount \in Nat \cup {None},
           None \notin Int
    PROVE  /\ Limited(c, amount) \in Int
           /\ c.max_amount # None => Limited(c, amount) =< c.max_amount
           /\ c.min_amount # None => \/ Limited(c, amount) >= c.min_amount
                                     \/ c.max_amount # None /\ c.max_amount < c.min_amount
BY DEF Limited, AtLeast, AtMost

-----------------------------------------------------------------------------
(***************************************************************************)
(* Sums.  SumFunction adds up an engine's lines and a report's bookings by *)
(* recursion on the set of what is left.  Induction on it is by a smallest *)
(* counterexample: among any subsets of a finite set one contains no other.*)
(***************************************************************************)

\* A finite set's subsets have a smallest one among any of them.  Induction
\* here is by a smallest counterexample.
LEMMA Smallest ==
    ASSUME NEW S, IsFiniteSet(S), NEW B \in SUBSET SUBSET S, B # {}
    PROVE  \E t \in B : \A u \in B : u \subseteq t => u = t
<1>1. B \subseteq FiniteSubsetsOf(S)
  BY FS_Subset DEF FiniteSubsetsOf
<1>2. PICK t \in B : \A u \in B : <<u, t>> \notin StrictSubsetOrdering(S)
  BY <1>1, WFMin, FS_StrictSubsetOrderingWellFounded
<1> QED
  BY <1>2 DEF StrictSubsetOrdering

First(s) == CHOOSE x \in s : TRUE

\* The partial sums SumFunction goes through.
Sums(f, g) ==
    g = [s \in SUBSET DOMAIN f |-> IF s = {} THEN 0 ELSE f[First(s)] + g[s \ {First(s)}]]

LEMMA SmallestNumber ==
    ASSUME NEW m \in Nat, NEW N \in SUBSET (0 .. m), N # {}
    PROVE  \E n \in N : \A k \in N : n =< k
<1> DEFINE B == {0 .. n : n \in N}
           M == 0 .. m
<1>1. B \in SUBSET SUBSET M /\ B # {}
  <2>1. ASSUME NEW n \in N PROVE 0 .. n \in SUBSET (0 .. m)
    BY <2>1
  <2> QED
    BY <2>1
<1>2. PICK t \in B : \A u \in B : u \subseteq t => u = t
  <2>1. IsFiniteSet(M)
    BY FS_Interval
  <2> HIDE DEF B, M
  <2> QED
    BY <1>1, <2>1, Smallest
<1>3. PICK n \in N : t = 0 .. n
  OBVIOUS
<1>4. ASSUME NEW k \in N, ~(n =< k) PROVE FALSE
  <2>1. 0 .. k \subseteq 0 .. n /\ 0 .. k # 0 .. n
    BY <1>4
  <2> QED
    BY <1>2, <1>3, <2>1
<1> QED
  BY <1>4

LEMMA SumsExist ==
    ASSUME NEW f, IsFiniteSet(DOMAIN f)
    PROVE  \E g : Sums(f, g)
<1> DEFINE m == Cardinality(DOMAIN f)
           Upto(n) == {s \in SUBSET DOMAIN f : Cardinality(s) =< n}
           SumsUpto(n, g) == \A s \in Upto(n) :
               g[s] = IF s = {} THEN 0 ELSE f[First(s)] + g[s \ {First(s)}]
           Bad == {n \in 0 .. m : ~\E g : SumsUpto(n, g)}
<1>1. m \in Nat /\ \A s \in SUBSET DOMAIN f : IsFiniteSet(s) /\ Cardinality(s) \in Nat /\ Cardinality(s) =< m
  BY FS_Subset, FS_CardinalityType
<1>2. Bad = {}
  <2> SUFFICES ASSUME Bad # {} PROVE FALSE
    OBVIOUS
  <2>1. PICK n \in Bad : \A k \in Bad : n =< k
    <3>1. Bad \in SUBSET (0 .. m)
      OBVIOUS
    <3> HIDE DEF Bad, m
    <3> QED
      BY <1>1, <3>1, SmallestNumber
  <2>2. n # 0
    <3> SUFFICES ASSUME n = 0 PROVE FALSE
      OBVIOUS
    <3>1. Upto(0) \subseteq {{}}
      BY <1>1, FS_EmptySet
    <3>2. SumsUpto(0, [s \in {{}} |-> 0])
      BY <3>1
    <3> QED
      BY <3>2
  <2>3. n - 1 \in 0 .. m /\ n - 1 \notin Bad
    <3>1. n \in 0 .. m
      OBVIOUS
    <3>2. n - 1 \in 0 .. m /\ ~(n =< n - 1)
      BY <1>1, <2>2, <3>1
    <3> HIDE DEF Bad
    <3> QED
      BY <2>1, <3>2
  <2>4. PICK g : SumsUpto(n - 1, g)
    BY <2>3
  <2> DEFINE h == [s \in Upto(n) |-> IF s = {} THEN 0 ELSE f[First(s)] + g[s \ {First(s)}]]
  <2>5. ASSUME NEW s \in Upto(n - 1) PROVE h[s] = g[s]
    <3>1. s \in Upto(n)
      BY <1>1, <2>1
    <3> QED
      BY <3>1, <2>4
  <2>6. ASSUME NEW s \in Upto(n), s # {} PROVE s \ {First(s)} \in Upto(n - 1)
    <3>1. First(s) \in s
      BY <2>6 DEF First
    <3>2. Cardinality(s \ {First(s)}) = Cardinality(s) - 1
      BY <3>1, <1>1, FS_RemoveElement
    <3> QED
      BY <1>1, <3>2, <2>1
  <2>7. SumsUpto(n, h)
    <3> SUFFICES ASSUME NEW s \in Upto(n)
                 PROVE  h[s] = IF s = {} THEN 0 ELSE f[First(s)] + h[s \ {First(s)}]
      OBVIOUS
    <3>1. CASE s = {}
      BY <3>1
    <3>2. CASE s # {}
      <4>1. h[s \ {First(s)}] = g[s \ {First(s)}]
        BY <3>2, <2>5, <2>6
      <4>2. h[s] = f[First(s)] + g[s \ {First(s)}]
        BY <3>2
      <4> QED
        BY <3>2, <4>1, <4>2
    <3> QED
      BY <3>1, <3>2
  <2> QED
    BY <2>1, <2>7
<1>3. PICK g : SumsUpto(m, g)
  <2>1. m \in 0 .. m
    BY <1>1
  <2> HIDE DEF m, SumsUpto
  <2> QED
    BY <1>2, <2>1
<1> DEFINE h == [s \in SUBSET DOMAIN f |-> g[s]]
<1>4. Sums(f, h)
  <2>1. \A s \in SUBSET DOMAIN f : s \in Upto(m)
    BY <1>1
  <2>2. \A s \in SUBSET DOMAIN f : h[s] = IF s = {} THEN 0 ELSE f[First(s)] + h[s \ {First(s)}]
    BY <1>3, <2>1
  <2> HIDE DEF SumsUpto, Upto
  <2> QED
    BY <2>2 DEF Sums
<1> QED
  BY <1>4

\* SumFunction is the last of them.
LEMMA SumIsLast ==
    ASSUME NEW f, IsFiniteSet(DOMAIN f)
    PROVE  \E g : Sums(f, g) /\ SumFunction(f) = g[DOMAIN f]
<1>1. PICK g : Sums(f, g)
  BY SumsExist
<1> QED
  BY <1>1 DEF SumFunction, SumFunctionOnSet, FoldFunctionOnSet, MapThenFoldSet, Sums, First

LEMMA Distributes ==
    ASSUME NEW a \in Int, NEW x \in Int, NEW y \in Int
    PROVE  a * (x + y) = a * x + a * y
OBVIOUS

\* A bound on each term of a difference bounds the difference of the sums.
LEMMA SumsCompare ==
    ASSUME NEW S, IsFiniteSet(S), NEW f \in [S -> Int], NEW g \in [S -> Int],
           NEW a \in Int, NEW b \in Int, NEW d \in Int,
           \A x \in S : a * f[x] + b * g[x] =< d
    PROVE  /\ SumFunction(f) \in Int
           /\ SumFunction(g) \in Int
           /\ a * SumFunction(f) + b * SumFunction(g) =< d * Cardinality(S)
<1>1. PICK F : Sums(f, F) /\ SumFunction(f) = F[S]
  BY SumIsLast
<1>2. PICK G : Sums(g, G) /\ SumFunction(g) = G[S]
  BY SumIsLast
<1> DEFINE Good(s) == /\ F[s] \in Int
                      /\ G[s] \in Int
                      /\ a * F[s] + b * G[s] =< d * Cardinality(s)
           Bad == {s \in SUBSET S : ~Good(s)}
<1>3. ASSUME NEW s \in SUBSET S PROVE
      /\ F[s] = IF s = {} THEN 0 ELSE f[First(s)] + F[s \ {First(s)}]
      /\ G[s] = IF s = {} THEN 0 ELSE g[First(s)] + G[s \ {First(s)}]
  <2>1. DOMAIN f = S /\ DOMAIN g = S
    OBVIOUS
  <2> QED
    BY <1>1, <1>2, <2>1 DEF Sums
<1>4. ASSUME NEW s \in Bad, \A u \in Bad : u \subseteq s => u = s PROVE FALSE
  <2>1. CASE s = {}
    <3>1. F[s] = 0 /\ G[s] = 0 /\ Cardinality(s) = 0
      BY <1>3, <2>1, FS_EmptySet
    <3> QED
      BY <3>1
  <2>2. CASE s # {}
    <3> DEFINE x == First(s)
               u == s \ {x}
    <3>1. x \in s /\ x \in S
      BY <2>2 DEF First
    <3>2. u \in SUBSET S /\ u # s /\ u \subseteq s
      BY <3>1
    <3>3. Good(u)
      BY <1>4, <3>2
    <3>4. Cardinality(s) = Cardinality(u) + 1 /\ Cardinality(u) \in Nat
      <4>1. IsFiniteSet(s) /\ IsFiniteSet(u)
        BY FS_Subset, <3>2
      <4>2. Cardinality(u) = Cardinality(s) - 1
        BY <4>1, <3>1, FS_RemoveElement
      <4>3. Cardinality(u) \in Nat /\ Cardinality(s) \in Nat
        BY <4>1, FS_CardinalityType
      <4> QED
        BY <4>2, <4>3
    <3>5. F[s] = f[x] + F[u] /\ G[s] = g[x] + G[u]
      BY <1>3, <2>2
    <3>6. f[x] \in Int /\ g[x] \in Int /\ a * f[x] + b * g[x] =< d
      BY <3>1
    <3> HIDE DEF x, u
    <3>7. Good(s)
      <4>1. /\ a * F[s] = a * f[x] + a * F[u]
            /\ b * G[s] = b * g[x] + b * G[u]
            /\ d * Cardinality(s) = d * Cardinality(u) + d
        <5>1. a * F[s] = a * f[x] + a * F[u]
          BY <3>3, <3>5, <3>6, Distributes
        <5>2. b * G[s] = b * g[x] + b * G[u]
          BY <3>3, <3>5, <3>6, Distributes
        <5>3. d * Cardinality(s) = d * Cardinality(u) + d * 1
          BY <3>4, Distributes
        <5> QED
          BY <5>1, <5>2, <5>3
      <4>2. /\ a * f[x] \in Int /\ a * F[u] \in Int /\ b * g[x] \in Int /\ b * G[u] \in Int
            /\ d * Cardinality(u) \in Int
        BY <3>3, <3>4, <3>6
      <4> QED
        BY <3>3, <3>5, <3>6, <4>1, <4>2
    <3> QED
      BY <3>7
  <2> QED
    BY <2>1, <2>2
<1>5. Bad = {}
  <2>1. Bad \in SUBSET SUBSET S
    OBVIOUS
  <2> HIDE DEF Bad
  <2> QED
    BY <1>4, <2>1, Smallest
<1>6. Good(S)
  BY <1>5
<1> QED
  BY <1>1, <1>2, <1>6

LEMMA SumIsWhole ==
    ASSUME NEW S, IsFiniteSet(S), NEW f \in [S -> Int]
    PROVE  SumFunction(f) \in Int
<1> DEFINE zero == 0
<1>1. zero \in Int /\ \A x \in S : zero * f[x] + zero * f[x] =< zero
  OBVIOUS
<1>2. SumFunction(f) \in Int /\ zero * SumFunction(f) + zero * SumFunction(f) =< zero * Cardinality(S)
  <2> HIDE DEF zero
  <2> QED
    BY <1>1, SumsCompare
<1> QED
  BY <1>2

\* In particular: terms a * f[x] and g[x] that are close have close sums.
LEMMA SumsClose ==
    ASSUME NEW S, IsFiniteSet(S), NEW f \in [S -> Int], NEW g \in [S -> Int],
           NEW a \in Int, NEW d \in Int,
           \A x \in S : a * f[x] - g[x] =< d /\ g[x] - a * f[x] =< d
    PROVE  /\ SumFunction(f) \in Int
           /\ SumFunction(g) \in Int
           /\ a * SumFunction(f) - SumFunction(g) =< d * Cardinality(S)
           /\ SumFunction(g) - a * SumFunction(f) =< d * Cardinality(S)
<1> DEFINE one == 1
           b == -1
<1>1. one \in Int /\ b \in Int
  OBVIOUS
<1>2. \A x \in S : a * f[x] + b * g[x] =< d
  <2> TAKE x \in S
  <2>1. f[x] \in Int /\ g[x] \in Int /\ a * f[x] \in Int
    OBVIOUS
  <2> QED
    BY <2>1
<1>3. \A x \in S : one * g[x] + (-a) * f[x] =< d
  <2> TAKE x \in S
  <2>1. f[x] \in Int /\ g[x] \in Int /\ a * f[x] \in Int /\ (-a) * f[x] = -(a * f[x])
    OBVIOUS
  <2> QED
    BY <2>1
<1> DEFINE minus == -a
<1>4. minus \in Int
  OBVIOUS
<1>5. /\ SumFunction(f) \in Int /\ SumFunction(g) \in Int
      /\ a * SumFunction(f) + b * SumFunction(g) =< d * Cardinality(S)
  <2> HIDE DEF b
  <2>1. a * SumFunction(f) + b * SumFunction(g) =< d * Cardinality(S)
    BY <1>1, <1>2, SumsCompare
  <2> QED
    BY <2>1, SumIsWhole
<1>6. one * SumFunction(g) + minus * SumFunction(f) =< d * Cardinality(S)
  <2>1. \A x \in S : one * g[x] + minus * f[x] =< d
    BY <1>3
  <2> HIDE DEF one, minus
  <2> QED
    BY <1>1, <1>4, <2>1, SumsCompare
<1>7. d * Cardinality(S) \in Int /\ a * SumFunction(f) \in Int /\ minus * SumFunction(f) = -(a * SumFunction(f))
  BY <1>5, FS_CardinalityType
<1> QED
  BY <1>5, <1>6, <1>7

\* Terms that are not negative have a sum that is not.
LEMMA SumIsNatural ==
    ASSUME NEW S, IsFiniteSet(S), NEW f \in [S -> Nat]
    PROVE  SumFunction(f) \in Nat
<1> DEFINE zero == 0
           minus == -1
<1>1. zero \in Int /\ minus \in Int /\ f \in [S -> Int]
  OBVIOUS
<1>2. \A x \in S : minus * f[x] + zero * f[x] =< zero
  OBVIOUS
<1>3. SumFunction(f) \in Int /\ minus * SumFunction(f) + zero * SumFunction(f) =< zero * Cardinality(S)
  <2> HIDE DEF zero, minus
  <2> QED
    BY <1>1, <1>2, SumsCompare
<1> QED
  BY <1>3, FS_CardinalityType

\* The sum of equal terms.
LEMMA SumOfEqual ==
    ASSUME NEW S, IsFiniteSet(S), NEW f \in [S -> Int], NEW c \in Int, \A x \in S : f[x] = c
    PROVE  SumFunction(f) = c * Cardinality(S)
<1> DEFINE zero == 0
           g == [x \in S |-> 0]
           one == 1
           minus == -1
           low == -c
<1>1. g \in [S -> Int] /\ zero \in Int /\ one \in Int /\ minus \in Int /\ low \in Int
  OBVIOUS
<1>2. \A x \in S : one * f[x] + zero * f[x] =< c
  OBVIOUS
<1>3. \A x \in S : minus * f[x] + zero * f[x] =< low
  OBVIOUS
<1>4. SumFunction(f) \in Int /\ one * SumFunction(f) + zero * SumFunction(f) =< c * Cardinality(S)
  <2> HIDE DEF zero, one, minus, low
  <2>1. one * SumFunction(f) + zero * SumFunction(f) =< c * Cardinality(S)
    BY <1>1, <1>2, SumsCompare
  <2> QED
    BY <2>1, SumIsWhole
<1>5. minus * SumFunction(f) + zero * SumFunction(f) =< low * Cardinality(S)
  <2> HIDE DEF zero, one, minus, low
  <2> QED
    BY <1>1, <1>3, SumsCompare
<1>6. c * Cardinality(S) \in Int /\ low * Cardinality(S) = -(c * Cardinality(S))
  BY FS_CardinalityType
<1> QED
  BY <1>4, <1>5, <1>6

-----------------------------------------------------------------------------
(***************************************************************************)
(* Prices.  Every amount is a whole number of cents, and close to what it  *)
(* is without rounding.                                                    *)
(***************************************************************************)

\* The first tier sorted downwards is there: a finite set of numbers has a
\* greatest.
LEMMA GreatestExists ==
    ASSUME NEW T, IsFiniteSet(T), T # {}, \A t \in T : t \in Int
    PROVE  \E t \in T : \A u \in T : u =< t
<1> DEFINE B == {{u \in T : u > t} : t \in T}
<1>1. IsFiniteSet(T) /\ B \in SUBSET SUBSET T /\ B # {}
  OBVIOUS
<1>2. PICK b \in B : \A c \in B : c \subseteq b => c = b
  <2> HIDE DEF B
  <2> QED
    BY ONLY <1>1, Smallest
<1>3. PICK t \in T : b = {u \in T : u > t}
  OBVIOUS
<1>4. ASSUME NEW u \in T, ~(u =< t) PROVE FALSE
  <2> DEFINE c == {v \in T : v > u}
  <2>1. t \in Int /\ u \in Int /\ u > t
    BY <1>4
  <2>2. ASSUME NEW v \in c PROVE v \in b
    <3>1. v \in T /\ v \in Int /\ v > u
      OBVIOUS
    <3> QED
      BY <1>3, <2>1, <3>1
  <2>3. u \in b /\ u \notin c
    BY <1>3, <2>1, <1>4
  <2>4. c \in B
    BY <1>4
  <2> HIDE DEF c, B
  <2> QED
    BY <1>2, <2>2, <2>3, <2>4
<1> QED
  BY <1>4

LEMMA OrIsWhole ==
    ASSUME NEW x \in Int \cup {None}, NEW y \in Int \cup {None}
    PROVE  /\ Or(x, y) \in Int \cup {None}
           /\ y \in Int => Or(x, y) \in Int
           /\ Or(x, y) # None /\ y = None => Or(x, y) = x /\ x \in Int
BY QuotesAssumption DEF Or

LEMMA ClampIsWhole ==
    ASSUME NEW n \in Int, NEW k \in Int
    PROVE  AtLeast(n, k) \in Int /\ AtMost(n, k) \in Int
BY DEF AtLeast, AtMost

LEMMA MinutesAreWhole ==
    ASSUME NEW rule, NEW context, NEW service, IsContext(context),
           {service.duration_mins, rule.config.min_hours, rule.config.max_hours} \subseteq Int \cup {None}
    PROVE  Minutes(rule, context, service) \in Int
<1> DEFINE min   == Or(rule.config.min_hours, 60)
           hours == Or(Or(context.hours, service.duration_mins), min)
           max   == rule.config.max_hours
<1>1. min \in Int
  <2>1. rule.config.min_hours \in Int \cup {None} /\ 60 \in Int
    OBVIOUS
  <2> QED
    BY <2>1, OrIsWhole
<1>2. hours \in Int
  <2>1. Or(context.hours, service.duration_mins) \in Int \cup {None}
    <3>1. context.hours \in Int \cup {None} /\ service.duration_mins \in Int \cup {None}
      BY DEF IsContext
    <3> QED
      BY <3>1, OrIsWhole
  <2> HIDE DEF min
  <2> QED
    BY <1>1, <2>1, OrIsWhole
<1>3. (IF Or(max, None) = None THEN hours ELSE AtMost(hours, max)) \in Int
  <2> HIDE DEF hours
  <2>1. CASE Or(max, None) = None
    BY <1>2, <2>1
  <2>2. CASE Or(max, None) # None
    <3>1. max \in Int
      BY <2>2, OrIsWhole
    <3> QED
      BY <1>2, <2>2, <3>1, ClampIsWhole
  <2> QED
    BY <2>1, <2>2
<1> QED
  <2> HIDE DEF min, hours, max
  <2>1. AtLeast(IF Or(max, None) = None THEN hours ELSE AtMost(hours, max), min) \in Int
    BY <1>1, <1>3, ClampIsWhole
  <2> QED
    BY <2>1 DEF Minutes, min, hours, max

LEMMA MilesAreWhole ==
    ASSUME NEW rule, NEW context, IsContext(context),
           rule.config.included_radius_miles \in Int \cup {None}
    PROVE  Miles(rule, context) \in Int
<1>1. Or(context.distance_miles, 0) \in Int /\ Or(context.included_radius_miles, 0) \in Int
  <2>1. context.distance_miles \in Int \cup {None} /\ context.included_radius_miles \in Int \cup {None}
    BY DEF IsContext
  <2>2. 0 \in Int
    OBVIOUS
  <2>3. Or(context.distance_miles, 0) \in Int
    BY <2>1, <2>2, OrIsWhole
  <2>4. Or(context.included_radius_miles, 0) \in Int
    BY <2>1, <2>2, OrIsWhole
  <2> QED
    BY <2>3, <2>4
<1>2. Or(rule.config.included_radius_miles, Or(context.included_radius_miles, 0)) \in Int
  BY <1>1, OrIsWhole
<1> QED
  BY <1>1, <1>2, ClampIsWhole DEF Miles

LEMMA TierRateIsWhole ==
    ASSUME NEW rule, NEW context, IsContext(context), rule.rate \in Int,
           IsFiniteSet(DOMAIN rule.config.tiers),
           \A t \in DOMAIN rule.config.tiers : t \in Int /\ rule.config.tiers[t] \in Int \cup {None}
    PROVE  TierRate(rule, context) \in Int
<1> DEFINE tiers   == rule.config.tiers
           reached == {t \in DOMAIN tiers : t =< Or(context.tier_input, 0)}
           top     == CHOOSE t \in reached : \A u \in reached : u =< t
<1>1. CASE reached = {}
  BY <1>1 DEF TierRate
<1>2. CASE reached # {}
  <2>1. top \in DOMAIN tiers
    <3>1. IsFiniteSet(reached) /\ \A t \in reached : t \in Int
      BY FS_Subset
    <3>2. top \in reached
      <4> HIDE DEF reached
      <4> QED
        BY <1>2, <3>1, GreatestExists
    <3> QED
      BY <3>2
  <2>2. TierRate(rule, context) = IF tiers[top] = None THEN rule.rate ELSE tiers[top]
    BY <1>2 DEF TierRate
  <2> QED
    BY <2>1, <2>2
<1> QED
  BY <1>1, <1>2

LEMMA Associates ==
    ASSUME NEW a \in Int, NEW x \in Int, NEW y \in Int
    PROVE  (a * x) * y = a * (x * y) /\ x * y \in Int
OBVIOUS

\* The amount of a line (engine.js:101-161) is within half a cent of what it
\* stands for: 30 of 1/60 of a cent.
LEMMA AmountIsClose ==
    ASSUME NEW offer, NEW context, NEW i \in DOMAIN offer.rules, IsOffer(offer), IsContext(context),
           Charges(offer.rules[i], context)
    PROVE  LET amount == Amount(offer.rules[i], context, offer.service)
               exact  == ExactAmount(offer.rules[i], context, offer.service)
           IN /\ amount \in Int /\ exact \in Int
              /\ 60 * amount - exact =< 30
              /\ exact - 60 * amount =< 30
<1> DEFINE rule   == offer.rules[i]
           amount == Amount(rule, context, offer.service)
           exact  == ExactAmount(rule, context, offer.service)
           tiers  == rule.config.tiers
<1>1. /\ rule.rate \in Int
      /\ offer.service.duration_mins \in Int \cup {None}
      /\ rule.config.min_hours \in Int \cup {None}
      /\ rule.config.max_hours \in Int \cup {None}
      /\ rule.config.included_radius_miles \in Int \cup {None}
      /\ IsFiniteSet(DOMAIN tiers)
      /\ \A t \in DOMAIN tiers : t \in Int /\ tiers[t] \in Int \cup {None}
  BY DEF IsOffer
<1>2. CASE rule.rule_type = "flat"
  <2>1. amount = rule.rate /\ exact = 60 * rule.rate
    BY <1>2 DEF Amount, ExactAmount
  <2> HIDE DEF amount, exact, rule
  <2> QED
    BY <1>1, <2>1 DEF amount, exact, rule
<1>3. CASE rule.rule_type = "hourly"
  <2> DEFINE n == Minutes(rule, context, offer.service)
  <2>1. n \in Int
    BY <1>1, MinutesAreWhole
  <2>2. amount = Rounded(n, rule.rate, 60) /\ exact = n * rule.rate
    BY <1>3 DEF Amount, ExactAmount
  <2> QED
    <3> DEFINE rate == rule.rate
    <3>0. rate \in Int /\ amount = Rounded(n, rate, 60) /\ exact = n * rate
      BY <1>1, <2>2
    <3> HIDE DEF n, rule, rate, amount, exact
    <3>1. amount \in Int /\ exact \in Int /\ 2 * (60 * amount - exact) =< 60 /\ 2 * (exact - 60 * amount) =< 60
      BY ONLY <3>0, <2>1, RoundedIsNearest
    <3>2. 60 * amount - exact =< 30 /\ exact - 60 * amount =< 30
      BY <3>1
    <3> QED
      BY <3>1, <3>2 DEF rule, amount, exact
<1>4. CASE rule.rule_type = "distance"
  <2> DEFINE n == Miles(rule, context)
  <2>1. n \in Int
    BY <1>1, MilesAreWhole
  <2>2. amount = Rounded(n, rule.rate, 10) /\ exact = 6 * n * rule.rate
    BY <1>4 DEF Amount, ExactAmount
  <2> QED
    <3> DEFINE rate == rule.rate
    <3>0. rate \in Int /\ amount = Rounded(n, rate, 10) /\ exact = 6 * n * rate
      BY <1>1, <2>2
    <3> HIDE DEF n, rule, rate, amount, exact
    <3>1. /\ amount \in Int
          /\ 2 * (10 * amount - n * rate) =< 10
          /\ 2 * (n * rate - 10 * amount) =< 10
      BY ONLY <3>0, <2>1, RoundedIsNearest
    <3>2. exact = 6 * (n * rate) /\ n * rate \in Int
      BY <3>0, <2>1, Associates
    <3>3. exact \in Int /\ 60 * amount - exact =< 30 /\ exact - 60 * amount =< 30
      BY <3>1, <3>2
    <3> QED
      BY <3>1, <3>3 DEF rule, amount, exact
<1>5. CASE rule.rule_type = "sqft"
  <2>1. context.sqft \in Int
    BY <1>5, OrIsWhole, QuotesAssumption DEF Charges, IsContext, Or
  <2>2. amount = context.sqft * rule.rate /\ exact = 60 * context.sqft * rule.rate
    BY <1>5 DEF Amount, ExactAmount
  <2> QED
    <3> HIDE DEF rule, amount, exact
    <3>1. amount \in Int /\ exact = 60 * amount
      BY <1>1, <2>1, <2>2, Associates
    <3> QED
      BY <3>1 DEF rule, amount, exact
<1>6. CASE rule.rule_type = "tiered"
  <2>1. TierRate(rule, context) \in Int
    BY <1>1, TierRateIsWhole
  <2>2. amount = TierRate(rule, context) /\ exact = 60 * TierRate(rule, context)
    BY <1>6 DEF Amount, ExactAmount
  <2> HIDE DEF amount, exact, rule
  <2> QED
    BY <2>1, <2>2 DEF amount, exact, rule
<1>7. rule.rule_type \in {"flat", "hourly", "distance", "sqft", "tiered"}
  BY DEF Charges
<1> QED
  BY <1>2, <1>3, <1>4, <1>5, <1>6, <1>7

\* The lines of an offer add up, to within half a cent a line.
LEMMA LinesAddUp ==
    ASSUME NEW offer, NEW context, IsOffer(offer), IsContext(context)
    PROVE  LET rules    == offer.rules
               charging == {i \in DOMAIN rules : Charges(rules[i], context)}
               base     == SumFunction(Lines(offer.service, rules, context))
               exact    == IF rules = <<>> THEN 60 * Or(offer.service.base_price, 0)
                           ELSE SumFunction([i \in charging |-> ExactAmount(rules[i], context, offer.service)])
               n        == Cardinality(DOMAIN rules)
           IN /\ base \in Int /\ exact \in Int /\ n \in Nat
              /\ 60 * base - exact =< 30 * n
              /\ exact - 60 * base =< 30 * n
<1> DEFINE rules    == offer.rules
           charging == {i \in DOMAIN rules : Charges(rules[i], context)}
           price    == offer.service.base_price
           lines    == Lines(offer.service, rules, context)
           base     == SumFunction(lines)
           exacts   == [i \in charging |-> ExactAmount(rules[i], context, offer.service)]
           n        == Cardinality(DOMAIN rules)
<1>1. n \in Nat /\ IsFiniteSet(charging) /\ Cardinality(charging) \in Nat /\ Cardinality(charging) =< n
  BY FS_Subset, FS_CardinalityType DEF IsOffer
<1>2. price \in Int \cup {None}
  BY DEF IsOffer
<1>3. CASE rules = <<>> /\ price # None
  <2>1. lines = <<price>> /\ price \in Int
    BY <1>2, <1>3 DEF Lines
  <2>2. base = price
    <3>1. lines \in [{1} -> Int] /\ \A x \in {1} : lines[x] = price
      BY <2>1
    <3>2. IsFiniteSet({1}) /\ Cardinality({1}) = 1
      BY FS_Singleton
    <3>3. base = price * Cardinality({1})
      <4> HIDE DEF lines, price
      <4> QED
        BY ONLY <2>1, <3>1, <3>2, SumOfEqual DEF base
    <3> QED
      BY <2>1, <3>2, <3>3
  <2>3. Or(price, 0) = price
    BY <1>3 DEF Or
  <2> HIDE DEF lines, base, price, n
  <2> QED
    BY <1>1, <1>3, <2>1, <2>2, <2>3 DEF lines, base, price, n
<1>4. CASE ~(rules = <<>> /\ price # None)
  <2> DEFINE amounts == [i \in charging |-> Amount(rules[i], context, offer.service)]
  <2>1. lines = amounts
    BY <1>4 DEF Lines
  <2>2. ASSUME NEW i \in charging
        PROVE  /\ amounts[i] \in Int /\ exacts[i] \in Int
               /\ 60 * amounts[i] - exacts[i] =< 30
               /\ exacts[i] - 60 * amounts[i] =< 30
    BY AmountIsClose
  <2>3. amounts \in [charging -> Int] /\ exacts \in [charging -> Int]
    BY <2>2
  <2>4. /\ SumFunction(amounts) \in Int /\ SumFunction(exacts) \in Int
        /\ 60 * SumFunction(amounts) - SumFunction(exacts) =< 30 * Cardinality(charging)
        /\ SumFunction(exacts) - 60 * SumFunction(amounts) =< 30 * Cardinality(charging)
    <3> HIDE DEF amounts, exacts, charging
    <3> DEFINE a == 60
               d == 30
    <3>1. a \in Int /\ d \in Int
      OBVIOUS
    <3>2. \A i \in charging : a * amounts[i] - exacts[i] =< d /\ exacts[i] - a * amounts[i] =< d
      BY <2>2
    <3> HIDE DEF a, d
    <3>3. /\ SumFunction(amounts) \in Int /\ SumFunction(exacts) \in Int
          /\ a * SumFunction(amounts) - SumFunction(exacts) =< d * Cardinality(charging)
          /\ SumFunction(exacts) - a * SumFunction(amounts) =< d * Cardinality(charging)
      BY ONLY <1>1, <2>3, <3>1, <3>2, SumsClose
    <3> QED
      BY <3>3 DEF a, d
  <2>5. CASE rules # <<>>
    <3> HIDE DEF amounts, exacts, charging, lines, n, rules
    <3>1. /\ base \in Int /\ SumFunction(exacts) \in Int /\ n \in Nat
          /\ 60 * base - SumFunction(exacts) =< 30 * n
          /\ SumFunction(exacts) - 60 * base =< 30 * n
      BY <1>1, <2>1, <2>4
    <3> QED
      BY <2>5, <3>1 DEF lines, exacts, charging, n, rules
  <2>6. CASE rules = <<>>
    <3>1. charging = {} /\ n = 0 /\ Cardinality(charging) = 0
      BY <2>6, FS_EmptySet
    <3>2. base = 0
      <4> HIDE DEF amounts, lines
      <4> DEFINE c == 0
      <4>1. c \in Int /\ \A i \in charging : amounts[i] = c
        BY <3>1
      <4> HIDE DEF c
      <4>2. SumFunction(amounts) = c * Cardinality(charging)
        BY ONLY <1>1, <2>3, <4>1, SumOfEqual
      <4> QED
        BY <2>1, <3>1, <4>2 DEF c
    <3>3. Or(price, 0) = 0
      BY <1>4, <2>6 DEF Or
    <3> HIDE DEF lines, base, price, n, rules
    <3> QED
      BY <2>6, <3>1, <3>2, <3>3 DEF lines, base, price, n, rules
  <2> QED
    BY <2>5, <2>6
<1> QED
  BY <1>3, <1>4

\* What requests are made of.
LEMMA RequestsAreTyped ==
    ASSUME NEW r \in Requests \cup PageRequests
    PROVE  IsOffer(r.offer) /\ IsContext(r.context) /\ r.tax_rate \in Int
<1>1. CASE r \in Requests
  BY <1>1, RequestsAssumption DEF Requests
<1>2. CASE r \in PageRequests
  <2>1. PICK offer \in PageServices, afterHours \in BOOLEAN : r = PageRequest(offer, afterHours)
    BY <1>2 DEF PageRequests
  <2>2. IsOffer(offer)
    BY RequestsAssumption, QuotesAssumption
  <2>3. r.offer = offer /\ r.tax_rate = 0
    BY <2>1 DEF PageRequest
  <2>4. IsContext(r.context)
    BY <2>1 DEF PageRequest, IsContext
  <2> QED
    BY <2>2, <2>3, <2>4
<1> QED
  BY <1>1, <1>2

\* The subtotal of an answer, step by step (engine.js:44-60).
LEMMA AnswerAddsUp ==
    ASSUME NEW r \in Requests \cup PageRequests, NEW S \in SUBSET Commissions
    PROVE  LET q     == Answer(r, S)
               offer == r.offer
               n     == Cardinality(DOMAIN offer.rules)
               error == 120 * q.subtotal - ExactPrice(offer.service, offer.rules, r.context)
           IN /\ {q.base, q.surcharge, q.subtotal, q.taxes, q.total} \subseteq Int
              /\ -(90 * n + 120) =< error
              /\ error =< 90 * n + 120
<1> DEFINE offer   == r.offer
           context == r.context
           rules   == offer.rules
           base    == SumFunction(Lines(offer.service, rules, context))
           charging == {i \in DOMAIN rules : Charges(rules[i], context)}
           exact   == IF rules = <<>> THEN 60 * Or(offer.service.base_price, 0)
                      ELSE SumFunction([i \in charging |-> ExactAmount(rules[i], context, offer.service)])
           n       == Cardinality(DOMAIN rules)
           surcharge == Surcharge(base, context)
           discount  == AtLeast(Or(context.discount_amount, 0), 0)
           tenths    == 10 * (base + surcharge) - discount
           subtotal  == Rounded(tenths, 1, 10)
           taxes     == Rounded(subtotal, r.tax_rate, 10000)
           price     == ExactPrice(offer.service, rules, context)
<1>1. IsOffer(offer) /\ IsContext(context) /\ r.tax_rate \in Int
  BY RequestsAreTyped
<1>2. /\ base \in Int /\ exact \in Int /\ n \in Nat
      /\ 60 * base - exact =< 30 * n
      /\ exact - 60 * base =< 30 * n
  BY <1>1, LinesAddUp
<1>3. /\ surcharge \in Int
      /\ context.after_hours => 2 * surcharge - base =< 1 /\ base - 2 * surcharge =< 1
      /\ ~context.after_hours => surcharge = 0
  <2> HIDE DEF base
  <2>1. CASE context.after_hours
    <3>1. surcharge = Rounded(base, 1, 2)
      BY <2>1 DEF Surcharge
    <3> DEFINE one == 1
               two == 2
    <3>2. surcharge \in Int /\ two * (two * surcharge - base * one) =< two /\ two * (base * one - two * surcharge) =< two
      <4>1. one \in Int /\ two \in Nat \ {0} /\ surcharge = Rounded(base, one, two)
        BY <3>1
      <4> HIDE DEF one, surcharge
      <4> QED
        BY <1>2, <4>1, RoundedIsNearest
    <3> HIDE DEF surcharge
    <3> QED
      BY <1>2, <2>1, <3>2
  <2>2. CASE ~context.after_hours
    BY <2>2 DEF Surcharge
  <2> QED
    BY <2>1, <2>2
<1>4. discount \in Int
  <2>1. context.discount_amount \in Int \cup {None} /\ 0 \in Int
    BY <1>1 DEF IsContext
  <2>2. Or(context.discount_amount, 0) \in Int
    BY <2>1, OrIsWhole
  <2> QED
    BY <2>1, <2>2, ClampIsWhole
<1>5. tenths \in Int
  <2> HIDE DEF base, surcharge, discount
  <2> QED
    BY <1>2, <1>3, <1>4
<1>6. subtotal \in Int /\ 10 * subtotal - tenths =< 5 /\ tenths - 10 * subtotal =< 5
  <2> DEFINE one == 1
             ten == 10
  <2>1. one \in Int /\ ten \in Nat \ {0} /\ subtotal = Rounded(tenths, one, ten)
    OBVIOUS
  <2> HIDE DEF one, subtotal, tenths
  <2>2. subtotal \in Int /\ 2 * (ten * subtotal - tenths * one) =< ten /\ 2 * (tenths * one - ten * subtotal) =< ten
    BY <1>5, <2>1, RoundedIsNearest
  <2> QED
    BY <1>5, <2>2 DEF one
<1>7. taxes \in Int
  <2> DEFINE d == 10000
  <2>1. d \in Nat \ {0} /\ taxes = Rounded(subtotal, r.tax_rate, d)
    OBVIOUS
  <2> HIDE DEF subtotal, d, taxes
  <2> QED
    BY <1>1, <1>6, <2>1, RoundedIsWhole
<1>8. price = (IF context.after_hours THEN 3 ELSE 2) * exact - 12 * discount
  BY DEF ExactPrice
<1>9. -(90 * n + 120) =< 120 * subtotal - price /\ 120 * subtotal - price =< 90 * n + 120
  <2>1. tenths = 10 * (base + surcharge) - discount
    OBVIOUS
  <2>2. context.after_hours \in BOOLEAN
    BY <1>1 DEF IsContext
  <2> HIDE DEF base, exact, n, surcharge, discount, tenths, subtotal, price
  <2>3. CASE context.after_hours
    <3>1. price = 3 * exact - 12 * discount
      BY <1>8, <2>3
    <3> QED
      BY <1>2, <1>3, <1>4, <1>5, <1>6, <2>1, <2>3, <3>1
  <2>4. CASE ~context.after_hours
    <3>1. price = 2 * exact - 12 * discount
      BY <1>8, <2>4
    <3> QED
      BY <1>2, <1>3, <1>4, <1>5, <1>6, <2>1, <2>4, <3>1
  <2> QED
    BY <2>2, <2>3, <2>4
<1>10. LET q == Answer(r, S)
       IN q.base = base /\ q.surcharge = surcharge /\ q.subtotal = subtotal
            /\ q.taxes = taxes /\ q.total = subtotal + taxes
  BY DEF Answer, ComputeQuote
<1>11. subtotal + taxes \in Int
  <2> HIDE DEF subtotal, taxes
  <2> QED
    BY <1>6, <1>7
<1> QED
  <2> HIDE DEF base, n, surcharge, subtotal, taxes, price
  <2>1. LET q == Answer(r, S)
        IN /\ {q.base, q.surcharge, q.subtotal, q.taxes, q.total} \subseteq Int
           /\ q.subtotal = subtotal
    BY <1>2, <1>3, <1>6, <1>7, <1>10, <1>11
  <2> QED
    BY <1>9, <2>1 DEF n, price

LEMMA ShareIsWhole ==
    ASSUME NEW c \in Commissions, NEW total \in Int
    PROVE  Share(c, total) \in Int
<1> DEFINE d == 10000
<1>1. c.rate_value \in Int
  BY QuotesAssumption
<1>2. /\ d \in Nat \ {0}
      /\ c.rate_type = "percent" => Share(c, total) = Rounded(total, c.rate_value, d)
      /\ c.rate_type # "percent" => Share(c, total) = c.rate_value
  BY DEF Share
<1> HIDE DEF d
<1> QED
  BY <1>1, <1>2, RoundedIsWhole

\* And its commissions: whole amounts for active rows.
LEMMA AnswerIsTyped ==
    ASSUME NEW r \in Requests \cup PageRequests, NEW S \in SUBSET Commissions
    PROVE  IsAmounts(Answer(r, S).commissions, Commissions)
<1> DEFINE q     == Answer(r, S)
           named == {c \in S : Concerns(c, r.offer.service)}
<1>1. q.commissions = [c \in named |-> Limited(c, Share(c, q.total))]
  BY DEF Answer, ComputeQuote
<1>2. q.total \in Int
  BY AnswerAddsUp
<1>3. ASSUME NEW c \in named PROVE Limited(c, Share(c, q.total)) \in Int
  <2> HIDE DEF q
  <2>1. c.rate_value \in Int /\ c.min_amount \in Nat \cup {None} /\ c.max_amount \in Nat \cup {None}
    BY QuotesAssumption
  <2>2. Share(c, q.total) \in Int
    BY <1>2, ShareIsWhole
  <2> QED
    BY <2>1, <2>2, LimitsHold, QuotesAssumption
<1>4. named \subseteq Commissions
  OBVIOUS
<1> HIDE DEF named
<1> QED
  BY <1>1, <1>3, <1>4 DEF IsAmounts

-----------------------------------------------------------------------------
(***************************************************************************)
(* Quotes and reports.  A quote is the answer to what its client asked, at *)
(* some commissions that were active then.                                 *)
(***************************************************************************)

AnswersAsked == quote # None => \E S \in SUBSET Commissions : quote = Answer(asked, S)

TInv == TypeOK /\ AnswersAsked

LEMMA AnswerHolds ==
    ASSUME NEW r \in Requests \cup PageRequests
    PROVE  /\ QuoteOf(r) # None /\ r # None
           /\ \E S \in SUBSET Commissions : QuoteOf(r) = Answer(r, S)
           /\ LET q == QuoteOf(r)
              IN /\ {q.base, q.surcharge, q.subtotal, q.taxes, q.total} \subseteq Int
                 /\ IsAmounts(q.commissions, Commissions)
<1>1. Active \in SUBSET Commissions
  BY DEF Active
<1> QED
  BY <1>1, AnswerAddsUp, AnswerIsTyped, NothingAssumption DEF QuoteOf

LEMMA TypedInitially == Init => TInv
BY DEF Init, TInv, TypeOK, AnswersAsked, NoCalls, Completed

QuoteIsTyped ==
    quote # None =>
        /\ {quote.base, quote.surcharge, quote.subtotal, quote.taxes, quote.total} \subseteq Int
        /\ IsAmounts(quote.commissions, Commissions)

LEMMA PageRequestsAreRequests ==
    ASSUME NEW offer \in PageServices, NEW afterHours \in BOOLEAN
    PROVE  PageRequest(offer, afterHours) \in PageRequests
BY DEF PageRequests

LEMMA TypedStep == TInv /\ [Next]_vars => TInv'
<1> SUFFICES ASSUME TInv, [Next]_vars PROVE TInv'
  OBVIOUS
<1> USE DEF TInv
<1>1. CASE AddCommissions \/ RemoveCommission \/ UNCHANGED vars
  <2>1. UNCHANGED <<asked, quote, form, calls, crossed, bookings>>
    BY <1>1 DEF AddCommissions, RemoveCommission, page, vars
  <2>2. rows' \in [Commissions -> {"absent", "active", "inactive"}]
    BY <1>1 DEF AddCommissions, RemoveCommission, vars, TypeOK
  <2> QED
    BY <2>1, <2>2 DEF TypeOK, AnswersAsked, Completed
<1>2. CASE Compute
  <2>1. PICK r \in Requests : asked' = r /\ quote' = QuoteOf(r) /\ UNCHANGED <<rows, form, calls, crossed, bookings>>
    BY <1>2 DEF Compute, page
  <2>2. /\ quote' # None /\ asked' # None
        /\ \E S \in SUBSET Commissions : quote' = Answer(asked', S)
        /\ QuoteIsTyped'
    BY <2>1, AnswerHolds DEF QuoteIsTyped
  <2> QED
    BY <2>1, <2>2 DEF TypeOK, QuoteIsTyped, AnswersAsked, Completed
<1>3. CASE OpenPage
  <2>1. PICK r \in PageRequests :
          /\ form' = r
          /\ calls' = [NoCalls EXCEPT !["newest"] = r]
          /\ asked' = None /\ quote' = None /\ crossed' = FALSE
          /\ UNCHANGED <<rows, bookings>>
    BY <1>3, PageRequestsAreRequests DEF OpenPage
  <2>2. calls' \in [{"older", "newest"} -> PageRequests \cup {None}]
    BY <2>1 DEF NoCalls
  <2> QED
    BY <2>1, <2>2 DEF TypeOK, AnswersAsked, Completed
<1>4. CASE Toggle
  <2>1. form \in PageRequests
    BY <1>4 DEF Toggle, TypeOK
  <2>2. PICK offer \in PageServices, afterHours \in BOOLEAN : form = PageRequest(offer, afterHours)
    BY <2>1 DEF PageRequests
  <2>3. form' \in PageRequests
    <3>1. form.offer = offer /\ (~form.context.after_hours) \in BOOLEAN
      BY <2>2 DEF PageRequest
    <3> QED
      BY <1>4, <3>1, PageRequestsAreRequests DEF Toggle
  <2>4. calls' \in [{"older", "newest"} -> PageRequests \cup {None}]
    BY <1>4, <2>3 DEF Toggle, TypeOK
  <2>5. crossed' = FALSE /\ UNCHANGED <<rows, asked, quote, bookings>>
    BY <1>4 DEF Toggle
  <2> QED
    BY <2>3, <2>4, <2>5 DEF TypeOK, AnswersAsked, Completed
<1>5. CASE Hear
  <2>1. PICK slot \in DOMAIN calls :
          /\ calls[slot] # None
          /\ \/ asked' = calls[slot] /\ quote' = QuoteOf(calls[slot])
             \/ asked' = None /\ quote' = None
          /\ calls' = [calls EXCEPT ![slot] = None]
          /\ crossed' = (crossed \/ (slot = "older" /\ calls["newest"] = None))
          /\ UNCHANGED <<rows, form, bookings>>
    BY <1>5 DEF Hear
  <2>2. calls[slot] \in PageRequests
    BY <2>1 DEF TypeOK
  <2>3. /\ (quote' = None) = (asked' = None)
        /\ AnswersAsked'
        /\ QuoteIsTyped'
        /\ asked' \in PageRequests \cup {None}
    BY <2>1, <2>2, AnswerHolds DEF QuoteIsTyped, AnswersAsked
  <2>4. calls' \in [{"older", "newest"} -> PageRequests \cup {None}] /\ crossed' \in BOOLEAN
    BY <2>1 DEF TypeOK
  <2> QED
    BY <2>1, <2>3, <2>4 DEF TypeOK, QuoteIsTyped, Completed
<1>6. CASE Book
  <2> DEFINE booking == [price |-> IF quote = None THEN None ELSE quote.total, promised |-> Promises]
  <2>1. PICK j \in Jobs :
          /\ quote # None => quote.total \in Nat
          /\ bookings' = [bookings EXCEPT ![j] = booking]
          /\ asked' = None /\ quote' = None /\ form' = None /\ calls' = NoCalls /\ crossed' = FALSE
          /\ rows' = rows
    BY <1>6 DEF Book, LeavePage
  <2>2. IsAmounts(Promises, OfStaff(Commissions))
    BY DEF Promises, IsAmounts, OfStaff, TypeOK
  <2>3. booking.price \in Nat \cup {None} /\ IsAmounts(booking.promised, OfStaff(Commissions))
    BY <2>1, <2>2
  <2>4. DOMAIN bookings' = Jobs
    BY <2>1 DEF TypeOK
  <2>5. ASSUME NEW k \in Jobs, bookings'[k] # None
        PROVE  bookings'[k].price \in Nat \cup {None} /\ IsAmounts(bookings'[k].promised, OfStaff(Commissions))
    <3> HIDE DEF booking
    <3>1. CASE k = j
      BY <2>1, <2>3, <3>1 DEF TypeOK
    <3>2. CASE k # j
      <4>1. bookings'[k] = bookings[k]
        BY <2>1, <3>2 DEF TypeOK
      <4> QED
        BY <4>1, <2>5 DEF TypeOK, Completed
    <3> QED
      BY <3>1, <3>2
  <2>6. NoCalls \in [{"older", "newest"} -> PageRequests \cup {None}]
    BY DEF NoCalls
  <2>7. \A k \in Completed' : /\ bookings'[k].price \in Nat \cup {None}
                            /\ IsAmounts(bookings'[k].promised, OfStaff(Commissions))
    BY <2>5 DEF Completed
  <2> HIDE DEF booking
  <2> QED
    BY <2>1, <2>4, <2>6, <2>7 DEF TypeOK, AnswersAsked
<1> QED
  BY <1>1, <1>2, <1>3, <1>4, <1>5, <1>6 DEF Next

THEOREM Typed == Spec => []TInv
BY TypedInitially, TypedStep, PTL DEF Spec

\* Rows, requests, quotes and bookings keep their shape: whatever the rules,
\* the contexts and the rates, every amount is a whole number of cents, and a
\* booking's price is not negative (public.js:25).
THEOREM QuotesAreTyped == Spec => []TypeOK
BY Typed, PTL DEF TInv

\* Rounding moves a quote's subtotal (engine.js:46, 60) by at most three
\* quarters of a cent for each rule and a cent besides, for any number of
\* rules of any kind.
THEOREM SubtotalsAreClose == Spec => []SubtotalIsClose
<1>1. TInv => SubtotalIsClose
  <2> SUFFICES ASSUME TypeOK, AnswersAsked, quote # None PROVE SubtotalIsClose
    BY DEF TInv, SubtotalIsClose
  <2>1. asked \in Requests \cup PageRequests
    BY DEF TypeOK
  <2>2. PICK S \in SUBSET Commissions : quote = Answer(asked, S)
    BY DEF AnswersAsked
  <2> QED
    BY <2>1, <2>2, AnswerAddsUp DEF SubtotalIsClose
<1> QED
  BY <1>1, Typed, PTL

\* No commission passes its cap (engine.js:78-79), and none falls below its
\* floor unless the cap is lower, for any rows, limits and totals.
THEOREM CommissionsAreLimited == Spec => []CommissionsWithinLimits
<1>1. TInv => CommissionsWithinLimits
  <2> SUFFICES ASSUME TypeOK, AnswersAsked, quote # None, NEW c \in DOMAIN quote.commissions
               PROVE  /\ c.max_amount # None => quote.commissions[c] =< c.max_amount
                      /\ c.min_amount # None =>
                             \/ quote.commissions[c] >= c.min_amount
                             \/ c.max_amount # None /\ c.max_amount < c.min_amount
    BY DEF TInv, CommissionsWithinLimits
  <2>1. asked \in Requests \cup PageRequests
    BY DEF TypeOK
  <2>2. PICK S \in SUBSET Commissions : quote = Answer(asked, S)
    BY DEF AnswersAsked
  <2>3. c \in S /\ quote.commissions[c] = Limited(c, Share(c, quote.total))
    BY <2>2 DEF Answer, ComputeQuote
  <2>4. Share(c, quote.total) \in Int
    BY <2>1, <2>2, <2>3, ShareIsWhole, AnswerAddsUp
  <2>5. c.min_amount \in Nat \cup {None} /\ c.max_amount \in Nat \cup {None}
    BY <2>3, QuotesAssumption
  <2> QED
    BY <2>3, <2>4, <2>5, LimitsHold, QuotesAssumption
<1> QED
  BY <1>1, Typed, PTL

\* The bookings the reports add up.
LEMMA PricesAreNatural ==
    ASSUME TypeOK
    PROVE  /\ IsFiniteSet(Completed)
           /\ \A j \in Completed : Price(j) \in Nat
           /\ Revenue \in Nat
<1>1. IsFiniteSet(Completed)
  BY JobsAssumption, FS_Subset DEF Completed
<1>2. ASSUME NEW j \in Completed PROVE Price(j) \in Nat
  BY QuotesAssumption DEF TypeOK, Price, Or
<1>3. [j \in Completed |-> Price(j)] \in [Completed -> Nat]
  BY <1>2
<1> QED
  BY <1>1, <1>2, <1>3, SumIsNatural DEF Revenue

\* The estimate (admin-tenant-detail.js:387-404) and the earnings (:463-497)
\* of a staff member under one row differ by half a cent a booking and half
\* a cent more, for any prices and rates, unless a flat rate is paid on jobs
\* that brought in nothing.
THEOREM ReportsAreClose == Spec => []ReportsAgree
<1>1. TInv => ReportsAgree
  <2> SUFFICES ASSUME TypeOK, NEW row \in OfStaff(Active)
               PROVE  LET difference == 2 * (Estimate(row) - TotalEarned(row))
                          bound == Cardinality(Completed) + 1
                      IN \/ -bound =< difference /\ difference =< bound
                         \/ row.rate_type = "flat" /\ Revenue = 0
    BY DEF TInv, ReportsAgree
  <2> DEFINE n      == Cardinality(Completed)
             rate   == row.rate_value
             prices == [j \in Completed |-> Price(j)]
             earned == [j \in Completed |-> Earned(row, Price(j))]
  <2>1. rate \in Nat
    BY QuotesAssumption DEF OfStaff, Active
  <2>2. n \in Nat /\ IsFiniteSet(Completed) /\ Revenue \in Nat /\ \A j \in Completed : Price(j) \in Nat
    BY PricesAreNatural, FS_CardinalityType
  <2>3. CASE row.rate_type = "percent"
    <3> DEFINE d == 10000
               a == 2 * d
               b == -(2 * rate)
               minusA == -a
               minusB == 2 * rate
               total == SumFunction(earned)
    <3>0. d \in Nat \ {0} /\ a \in Int /\ b \in Int /\ minusA \in Int /\ minusB \in Int /\ rate \in Int
      BY <2>1
    <3>1. ASSUME NEW j \in Completed
          PROVE  /\ earned[j] \in Int
                 /\ a * earned[j] + b * Price(j) =< d
                 /\ minusA * earned[j] + minusB * Price(j) =< d
      <4> DEFINE price == Price(j)
                 e == earned[j]
      <4>1. e = Rounded(price, rate, d)
        BY <2>3 DEF Earned
      <4>2. price \in Int
        BY <2>2
      <4> HIDE DEF d, e, rate, price
      <4>3. e \in Int /\ 2 * (d * e - price * rate) =< d /\ 2 * (price * rate - d * e) =< d
        BY <3>0, <4>1, <4>2, RoundedIsNearest
      <4>4. /\ price * rate \in Int
            /\ b * price = -(2 * (price * rate))
            /\ minusB * price = 2 * (price * rate)
        BY <3>0, <4>2
      <4> QED
        BY <4>3, <4>4 DEF d, e, price
    <3>2. earned \in [Completed -> Int] /\ prices \in [Completed -> Int]
      BY <2>2, <3>1
    <3>3. \A j \in Completed : a * earned[j] + b * prices[j] =< d
      BY <3>1
    <3>4. \A j \in Completed : minusA * earned[j] + minusB * prices[j] =< d
      BY <3>1
    <3>5. SumFunction(prices) = Revenue /\ total = TotalEarned(row)
      BY DEF Revenue, TotalEarned
    <3>6. Estimate(row) = Rounded(Revenue, rate, d)
      BY <2>3 DEF Estimate
    <3> DEFINE w == Revenue * rate
               estimate == Estimate(row)
    <3>7. /\ w \in Int
          /\ b * Revenue = -(2 * w)
          /\ minusB * Revenue = 2 * w
      <4> HIDE DEF rate
      <4> QED
        BY <2>2, <3>0
    <3>8. estimate \in Int /\ 2 * (d * estimate - w) =< d /\ 2 * (w - d * estimate) =< d
      <4> HIDE DEF d, rate, estimate
      <4>1. Revenue \in Int /\ estimate = Rounded(Revenue, rate, d)
        BY <2>2, <3>6 DEF estimate
      <4> QED
        BY <3>0, <4>1, RoundedIsNearest
    <3>9. total \in Int
      <4> HIDE DEF earned
      <4> QED
        BY <2>2, <3>2, SumIsWhole
    <3>10. a * total + b * SumFunction(prices) =< d * n
      <4>1. a \in Int /\ b \in Int /\ d \in Int /\ IsFiniteSet(Completed)
        BY <2>2, <3>0
      <4> HIDE DEF a, b, d, earned, prices
      <4>2. a * SumFunction(earned) + b * SumFunction(prices) =< d * Cardinality(Completed)
        BY ONLY <4>1, <3>2, <3>3, SumsCompare
      <4> QED
        BY <4>2
    <3>11. minusA * total + minusB * SumFunction(prices) =< d * n
      <4>1. minusA \in Int /\ minusB \in Int /\ d \in Int /\ IsFiniteSet(Completed)
        BY <2>2, <3>0
      <4> HIDE DEF minusA, minusB, d, earned, prices
      <4>2. minusA * SumFunction(earned) + minusB * SumFunction(prices) =< d * Cardinality(Completed)
        BY ONLY <4>1, <3>2, <3>4, SumsCompare
      <4> QED
        BY <4>2
    <3>12. /\ 20000 * total - 2 * w =< 10000 * n
           /\ 2 * w - 20000 * total =< 10000 * n
           /\ 20000 * estimate - 2 * w =< 10000
           /\ 2 * w - 20000 * estimate =< 10000
      <4> HIDE DEF total, n, w, estimate, earned, prices, rate, b, minusB
      <4> QED
        BY <2>2, <3>5, <3>7, <3>8, <3>9, <3>10, <3>11 DEF minusA, a, d
    <3>13. -(n + 1) =< 2 * (estimate - total) /\ 2 * (estimate - total) =< n + 1
      <4> HIDE DEF total, n, w, estimate
      <4> QED
        BY <2>2, <3>7, <3>8, <3>9, <3>12
    <3> HIDE DEF total, n
    <3> QED
      BY <3>5, <3>13 DEF total, n
  <2>4. CASE row.rate_type = "flat" /\ Revenue # 0
    <3>1. \A j \in Completed : earned[j] = rate
      BY <2>4 DEF Earned
    <3>2. earned \in [Completed -> Int] /\ rate \in Int
      BY <2>1, <3>1
    <3>3. TotalEarned(row) = rate * n
      <4> HIDE DEF rate, earned
      <4> QED
        BY <2>2, <3>1, <3>2, SumOfEqual DEF TotalEarned, earned
    <3>4. Estimate(row) = n * rate
      BY <2>2, <2>4 DEF Estimate
    <3>5. Estimate(row) - TotalEarned(row) = 0
      <4> HIDE DEF n, rate
      <4> QED
        BY <2>2, <3>2, <3>3, <3>4
    <3> QED
      BY <2>2, <3>5
  <2>5. CASE row.rate_type = "flat" /\ Revenue = 0
    BY <2>5
  <2>6. row.rate_type \in {"percent", "flat"}
    BY QuotesAssumption DEF OfStaff, Active
  <2> QED
    BY <2>3, <2>4, <2>5, <2>6
<1> QED
  BY <1>1, Typed, PTL

-----------------------------------------------------------------------------
(***************************************************************************)
(* Earnings.  EarnedAsQuoted says nothing of quotes nobody booked yet and  *)
(* nothing of rows that are not active now, so it is not inductive.  What  *)
(* is: every commission a quote names follows from the quote's total, and  *)
(* every commission a booking was promised follows from its price.         *)
(***************************************************************************)

Due(row, price) == Limited(row, Share(row, price))

QuotesAreDue ==
    quote # None => \A c \in DOMAIN quote.commissions : quote.commissions[c] = Due(c, quote.total)

BookingsAreDue ==
    /\ bookings = [j \in Jobs |-> bookings[j]]
    /\ \A j \in Completed : \A c \in DOMAIN bookings[j].promised :
           /\ bookings[j].price \in Nat
           /\ bookings[j].promised[c] = Due(c, bookings[j].price)

IInv == QuotesAreDue /\ BookingsAreDue

\* A computed quote follows its total.
LEMMA ComputedIsDue ==
    ASSUME NEW service, NEW rules, NEW commissions, NEW context, NEW taxRate
    PROVE  LET q == ComputeQuote(service, rules, commissions, context, taxRate)
           IN \A c \in DOMAIN q.commissions : q.commissions[c] = Due(c, q.total)
<1> DEFINE q == ComputeQuote(service, rules, commissions, context, taxRate)
           named == {d \in commissions : Concerns(d, service)}
<1>1. q.commissions = [c \in named |-> Limited(c, Share(c, q.total))]
  BY DEF ComputeQuote
<1> QED
  BY <1>1 DEF Due

LEMMA InitEstablishes == Init => IInv
BY DEF Init, IInv, QuotesAreDue, BookingsAreDue, Completed

LEMMA NextPreserves == IInv /\ [Next]_vars => IInv'
<1> SUFFICES ASSUME IInv, [Next]_vars PROVE IInv'
  OBVIOUS
<1>1. CASE AddCommissions \/ RemoveCommission \/ OpenPage \/ Toggle \/ UNCHANGED vars
  <2>1. UNCHANGED bookings /\ quote' \in {quote, None}
    BY <1>1 DEF AddCommissions, RemoveCommission, OpenPage, Toggle, vars
  <2> QED
    BY <2>1 DEF IInv, QuotesAreDue, BookingsAreDue, Completed
<1>2. CASE Compute \/ Hear
  <2>1. PICK r : quote' = QuoteOf(r) \/ quote' = None
    BY <1>2 DEF Compute, Hear
  <2>2. QuotesAreDue'
    BY <2>1, ComputedIsDue DEF QuotesAreDue, QuoteOf, Answer
  <2>3. BookingsAreDue'
    BY <1>2 DEF Compute, Hear, IInv, BookingsAreDue, Completed
  <2> QED
    BY <2>2, <2>3 DEF IInv
<1>3. CASE Book
  <2>1. PICK j \in Jobs :
          /\ quote # None => quote.total \in Nat
          /\ bookings' = [bookings EXCEPT ![j] =
                 [price |-> IF quote = None THEN None ELSE quote.total, promised |-> Promises]]
          /\ quote' = None
    BY <1>3 DEF Book, LeavePage
  <2>2. QuotesAreDue'
    BY <2>1 DEF QuotesAreDue
  <2>3. ASSUME NEW c \in DOMAIN Promises
        PROVE  /\ quote # None
               /\ Promises[c] = Due(c, quote.total)
    BY <2>3 DEF Promises, OfStaff, IInv, QuotesAreDue
  <2>4. ASSUME NEW k \in Jobs, bookings'[k] # None, NEW c \in DOMAIN bookings'[k].promised
        PROVE  /\ bookings'[k].price \in Nat
               /\ bookings'[k].promised[c] = Due(c, bookings'[k].price)
    <3>1. CASE k = j
      <4>1. bookings'[k] = [price |-> IF quote = None THEN None ELSE quote.total, promised |-> Promises]
        BY <2>1, <3>1 DEF IInv, BookingsAreDue
      <4> QED
        BY <4>1, <2>1, <2>3, <2>4
    <3>2. CASE k # j
      <4>1. bookings'[k] = bookings[k]
        BY <2>1, <3>2 DEF IInv, BookingsAreDue
      <4> QED
        BY <4>1, <2>4 DEF IInv, BookingsAreDue, Completed
    <3> QED
      BY <3>1, <3>2
  <2>5. bookings' = [k \in Jobs |-> bookings'[k]]
    BY <2>1 DEF IInv, BookingsAreDue
  <2> QED
    BY <2>2, <2>4, <2>5 DEF IInv, BookingsAreDue, Completed
<1> QED
  BY <1>1, <1>2, <1>3 DEF Next

\* Without limits a commission is its share, which is what the report pays.
LEMMA DueIsEarned ==
    ASSUME NEW row, NEW price, row.min_amount = None, row.max_amount = None
    PROVE  Due(row, price) = Earned(row, price)
BY DEF Due, Limited, Share, Earned

\* A staff member is paid what the quote said (admin-tenant-detail.js:463-472
\* against engine.js:65-87) as long as the tenant keeps its only staff row,
\* for every price, rate and rounding: the report recomputes the commission
\* from the stored price alone.
THEOREM Earnings == Spec => []EarnedAsQuoted
<1>1. IInv => EarnedAsQuoted
  <2> SUFFICES ASSUME IInv, NEW j \in Completed, NEW row \in OfStaff(Active),
                      {row} = DOMAIN bookings[j].promised,
                      {row.min_amount, row.max_amount} = {None}
               PROVE  Earned(row, Price(j)) = bookings[j].promised[row]
    BY DEF EarnedAsQuoted
  <2>1. /\ bookings[j].price \in Nat
        /\ bookings[j].promised[row] = Due(row, bookings[j].price)
    BY DEF IInv, BookingsAreDue
  <2>2. Price(j) = bookings[j].price
    BY <2>1, QuotesAssumption DEF Price, Or
  <2>3. row.min_amount = None /\ row.max_amount = None
    OBVIOUS
  <2> QED
    BY <2>1, <2>2, <2>3, DueIsEarned
<1> QED
  BY <1>1, InitEstablishes, NextPreserves, PTL DEF Spec

-----------------------------------------------------------------------------
(***************************************************************************)
(* The booking page.  The newest request is always the one the form says,  *)
(* and once it is answered and nothing older was heard since, the price    *)
(* the page shows is the form's.                                           *)
(***************************************************************************)

PageFollowsForm ==
    /\ calls = [older |-> calls["older"], newest |-> calls["newest"]]
    /\ form # None => calls["newest"] \in {None, form}
    /\ (form # None /\ calls["newest"] = None /\ ~crossed /\ quote # None)
           => quote.total = QuoteOf(form).total

\* The total is computed before the commissions (engine.js:60-65).
LEMMA TotalIgnoresCommissions ==
    ASSUME NEW service, NEW rules, NEW A, NEW B, NEW context, NEW taxRate
    PROVE  ComputeQuote(service, rules, A, context, taxRate).total
         = ComputeQuote(service, rules, B, context, taxRate).total
BY DEF ComputeQuote

LEMMA PageInitially == Init => PageFollowsForm
BY DEF Init, NoCalls, PageFollowsForm

LEMMA PageStep == PageFollowsForm /\ [Next]_vars => PageFollowsForm'
<1> SUFFICES ASSUME PageFollowsForm, [Next]_vars PROVE PageFollowsForm'
  OBVIOUS
<1>1. CASE AddCommissions \/ RemoveCommission \/ UNCHANGED vars
  <2>1. UNCHANGED <<quote, form, calls, crossed>>
    BY <1>1 DEF AddCommissions, RemoveCommission, page, vars
  <2>2. (QuoteOf(form).total)' = QuoteOf(form).total
    BY <2>1, TotalIgnoresCommissions DEF QuoteOf, Answer
  <2> QED
    BY <2>1, <2>2 DEF PageFollowsForm
<1>2. CASE Compute
  BY <1>2 DEF Compute, page, PageFollowsForm
<1>3. CASE OpenPage
  <2>1. PICK r : /\ form' = r
                 /\ calls' = [NoCalls EXCEPT !["newest"] = r]
                 /\ quote' = None
    BY <1>3 DEF OpenPage
  <2> QED
    BY <2>1 DEF NoCalls, PageFollowsForm
<1>4. CASE Toggle
  <2>1. \E older : calls' = [older |-> older, newest |-> form']
    BY <1>4 DEF Toggle
  <2> QED
    BY <2>1 DEF PageFollowsForm
<1>5. CASE Hear
  <2>1. PICK slot \in DOMAIN calls :
          /\ calls[slot] # None
          /\ quote' \in {QuoteOf(calls[slot]), None}
          /\ calls' = [calls EXCEPT ![slot] = None]
          /\ crossed' = (crossed \/ (slot = "older" /\ calls["newest"] = None))
          /\ UNCHANGED <<rows, form>>
    BY <1>5 DEF Hear
  <2>2. UNCHANGED QuoteOf(form)
    BY <2>1 DEF QuoteOf, Answer, Active
  <2>3. CASE slot = "newest"
    BY <2>1, <2>2, <2>3 DEF PageFollowsForm
  <2>4. CASE slot = "older"
    BY <2>1, <2>2, <2>4 DEF PageFollowsForm
  <2>5. DOMAIN calls = {"older", "newest"}
    BY DEF PageFollowsForm
  <2> QED
    BY <2>1, <2>3, <2>4, <2>5
<1>6. CASE Book
  BY <1>6 DEF Book, LeavePage, NoCalls, PageFollowsForm
<1> QED
  BY <1>1, <1>2, <1>3, <1>4, <1>5, <1>6 DEF Next

\* The price of a booking is the price of the options its form says
\* (page.js:36-38, 59), however many times they were changed, while
\* commissions come and go, unless the page was left with its last request
\* unanswered or with an answer heard out of order.
THEOREM PagePrice == Spec => PriceOfTheForm
<1>1. PageFollowsForm /\ [Next]_vars =>
        [\A j \in Jobs :
            /\ bookings[j] = None /\ bookings'[j] # None
            /\ form # None
            /\ calls["newest"] = None
            /\ ~crossed
            => bookings'[j].price \in {None, QuoteOf(form).total}]_vars
  <2> SUFFICES ASSUME PageFollowsForm, Next, NEW j \in Jobs,
                      bookings[j] = None, bookings'[j] # None,
                      form # None, calls["newest"] = None, ~crossed
               PROVE  bookings'[j].price \in {None, QuoteOf(form).total}
    OBVIOUS
  <2>1. Book
    BY DEF Next, AddCommissions, RemoveCommission, Compute, OpenPage, Toggle, Hear
  <2>2. PICK k \in Jobs :
          bookings' = [bookings EXCEPT ![k] =
              [price |-> IF quote = None THEN None ELSE quote.total, promised |-> Promises]]
    BY <2>1 DEF Book
  <2>3. bookings'[j] = [price |-> IF quote = None THEN None ELSE quote.total, promised |-> Promises]
    BY <2>2
  <2> QED
    BY <2>3 DEF PageFollowsForm
<1> QED
  BY <1>1, PageInitially, PageStep, PTL DEF Spec, PriceOfTheForm

=============================================================================
