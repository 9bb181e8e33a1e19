--------------------------- MODULE CounterCnfProofs ---------------------------
(***************************************************************************)
(* What the verifier keeps of one plan for the next, for any task and any  *)
(* plans.                                                                  *)
(***************************************************************************)
EXTENDS CounterCnf, SearchProofs

LEMMA CommonSuffixIsOne ==
  ASSUME NEW A, NEW p \in Seq(A), NEW q \in Seq(A)
  PROVE  /\ CommonSuffix(p, q) \in 0..Least(Len(p), Len(q))
         /\ SameSuffix(p, q, CommonSuffix(p, q))
<1> DEFINE m == Least(Len(p), Len(q))
           S == {k \in 0..m : SameSuffix(p, q, k)}
           T == {m - k : k \in S}
<1>1. m \in Nat
  BY DEF Least
<1> HIDE DEF m
<1>2. 0 \in S
  BY <1>1 DEF SameSuffix
<1>3. T \in SUBSET Nat /\ T # {}
  BY <1>1, <1>2
<1>4. PICK x \in T : \A y \in T : x <= y
  BY <1>3, LeastOf
<1>5. PICK k \in S : x = m - k
  BY <1>4
<1>6. \A n \in S : n <= k
  <2> TAKE n \in S
  <2>1. m - n \in T /\ n \in 0..m /\ k \in 0..m
    OBVIOUS
  <2>2. m - k <= m - n
    BY <1>4, <1>5, <2>1
  <2> QED
    BY <1>1, <2>1, <2>2
<1>7. k \in 0..m /\ SameSuffix(p, q, k) /\ \A n \in 0..m : SameSuffix(p, q, n) => n <= k
  BY <1>5, <1>6
<1> QED
  BY <1>7 DEF CommonSuffix, m

\* Where two plans agree, what is known of the one, moved to its new place, is what a
\* scan of the other would find.
LEMMA SummaryIsScan ==
  ASSUME NEW p \in Seq(DOMAIN Op), plan \in Seq(DOMAIN Op),
         NEW k \in 0..Least(Len(p), Len(plan)), SameSuffix(p, plan, k),
         SummaryIsPlan
  PROVE  Summary(p, k) = ScannedPoints(p, Len(p))
<1> DEFINE newStart == Len(p) - k
           oldStart == Len(plan) - k
<1>1. k \in Nat /\ k <= Len(p) /\ k <= Len(plan) /\ Len(p) \in Nat /\ Len(plan) \in Nat
  BY DEF Least
<1>2. \A t \in (newStart + 1)..Len(p) : /\ t - (newStart - oldStart) \in (oldStart + 1)..Len(plan)
                                     /\ p[t] = plan[t - (newStart - oldStart)]
  <2> TAKE t \in (newStart + 1)..Len(p)
  <2> DEFINE j == Len(p) - t
  <2>1. j \in 0..(k - 1) /\ Len(p) - j = t /\ Len(plan) - j = t - (newStart - oldStart)
    BY <1>1
  <2>2. p[Len(p) - j] = plan[Len(plan) - j]
    BY <2>1 DEF SameSuffix
  <2> QED
    BY <1>1, <2>1, <2>2
<1> SUFFICES ASSUME NEW v \in Vars
             PROVE  {x + (newStart - oldStart) : x \in {y \in points[v] : y > oldStart}}
                       \cup {t \in 1..newStart : v \in Changed(Op[p[t]])}
                     = {t \in 1..Len(p) : v \in Changed(Op[p[t]])}
  BY DEF Summary, ScannedPoints
<1>3. points[v] = {t \in 1..Len(plan) : v \in Changed(Op[plan[t]])}
  BY DEF SummaryIsPlan, ScannedPoints
<1>4. ASSUME NEW x \in points[v], x > oldStart
      PROVE  x + (newStart - oldStart) \in {t \in 1..Len(p) : v \in Changed(Op[p[t]])}
  <2> DEFINE t == x + (newStart - oldStart)
  <2>1. x \in 1..Len(plan) /\ v \in Changed(Op[plan[x]])
    BY <1>3
  <2>2. t \in (newStart + 1)..Len(p) /\ t - (newStart - oldStart) = x
    BY <1>1, <1>4, <2>1
  <2>3. p[t] = plan[x]
    BY <1>2, <2>2
  <2> QED
    BY <1>1, <2>1, <2>2, <2>3
<1>5. ASSUME NEW t \in 1..Len(p), v \in Changed(Op[p[t]]), t > newStart
      PROVE  \E x \in points[v] : x > oldStart /\ t = x + (newStart - oldStart)
  <2> DEFINE x == t - (newStart - oldStart)
  <2>1. t \in (newStart + 1)..Len(p)
    BY <1>1, <1>5
  <2>2. x \in (oldStart + 1)..Len(plan) /\ p[t] = plan[x]
    BY <1>2, <2>1
  <2>3. x \in 1..Len(plan) /\ x > oldStart /\ t = x + (newStart - oldStart)
    BY <1>1, <2>2
  <2>4. x \in points[v]
    BY <1>3, <1>5, <2>2, <2>3
  <2> QED
    BY <2>3, <2>4
<1> QED
  BY <1>1, <1>4, <1>5

-----------------------------------------------------------------------------
Reused == plan \in Seq(DOMAIN Op) /\ SummaryIsPlan

LEMMA InitReused == Init => Reused
<1> SUFFICES ASSUME Init PROVE Reused
  OBVIOUS
<1>1. plan = << >> /\ plan \in Seq(DOMAIN Op) /\ Len(plan) = 0
  BY DEF Init
<1>2. \A v \in Vars : {t \in 1..0 : v \in Changed(Op[plan[t]])} = {}
  OBVIOUS
<1> QED
  BY <1>1, <1>2 DEF Init, Reused, SummaryIsPlan, ScannedPoints

LEMMA PrepareReused ==
  ASSUME Reused, NEW p \in Plans, NEW B, Prepare(p, B)
  PROVE  Reused'
<1> DEFINE k == IF round = 0 THEN 0 ELSE CommonSuffix(p, plan)
<1>1. p \in Seq(DOMAIN Op) /\ plan \in Seq(DOMAIN Op)
  BY CnfInputs DEF Reused
<1>2. k \in 0..Least(Len(p), Len(plan)) /\ SameSuffix(p, plan, k)
  <2>1. CASE round = 0
    BY <1>1, <2>1 DEF Least, SameSuffix
  <2>2. CASE round # 0
    BY <1>1, <2>2, CommonSuffixIsOne
  <2> QED
    BY <2>1, <2>2
<1>3. points' = Summary(p, k) /\ plan' = p
  BY DEF Prepare
<1> HIDE DEF k
<1>4. points' = ScannedPoints(p, Len(p))
  BY <1>1, <1>2, <1>3, SummaryIsScan DEF Reused
<1> QED
  BY <1>1, <1>3, <1>4 DEF Reused, SummaryIsPlan

\* For any task and any sequence of plans, what the verifier takes over from the plan
\* before about when a variable can change is what a scan of the new plan would give
\* (counter_cnf.cc:608).
THEOREM SummaryCorrect == Spec => []SummaryIsPlan
<1>1. ASSUME Reused, [Next]_vars
      PROVE  Reused'
  <2>1. CASE \E p \in Plans, B \in Bans : Prepare(p, B)
    BY <1>1, <2>1, PrepareReused
  <2>2. CASE UNCHANGED <<plan, points>>
    BY <1>1, <2>2 DEF Reused, SummaryIsPlan, ScannedPoints
  <2>3. (\E p \in Plans, B \in Bans : Prepare(p, B)) \/ UNCHANGED <<plan, points>>
    BY <1>1 DEF Next, Regress, PassOver, Solve, vars
  <2> QED
    BY <2>1, <2>2, <2>3
<1>2. Reused => SummaryIsPlan
  BY DEF Reused
<1> QED
  BY InitReused, <1>1, <1>2, PTL DEF Spec

-----------------------------------------------------------------------------
(* The layers a fresh object would ask for.                                 *)

\* The change points of a plan, and what its layer t asks for, given the later ones.
Points(p) == ScannedPoints(p, Len(p))
GoalsAt(p, t) == {f \in Undefined(Reached) : Canonical(Points(p), f, Len(p)) = t}
AskedBy(p, g, u, t) ==
  IF g[u] = {} THEN {} ELSE {f \in Asked(Op[p[u]], g[u]) : Canonical(Points(p), f, u - 1) = t}
LayerOf(p, g, t) == GoalsAt(p, t) \cup UNION {AskedBy(p, g, u, t) : u \in (t + 1)..Len(p)}

\* The layers of p, none of them replayed.
IsFresh(p, g) == g = [t \in 1..Len(p) |-> LayerOf(p, g, t)]
Fresh(p) == CHOOSE g : IsFresh(p, g)

\* What a layer asks for depends on the later layers only.
LEMMA LayerOfLater ==
  ASSUME NEW p, NEW t, NEW g, NEW h, \A u \in (t + 1)..Len(p) : g[u] = h[u]
  PROVE  LayerOf(p, g, t) = LayerOf(p, h, t)
<1>1. \A u \in (t + 1)..Len(p) : AskedBy(p, g, u, t) = AskedBy(p, h, u, t)
  BY DEF AskedBy
<1> QED
  BY <1>1 DEF LayerOf

LEMMA FreshExists ==
  ASSUME NEW p \in Seq(DOMAIN Op)
  PROVE  \E g : IsFresh(p, g)
<1> DEFINE n == Len(p)
           Part(m) == \E g : g = [t \in (n - m + 1)..n |-> LayerOf(p, g, t)]
           T == {m \in 0..n : ~Part(m)}
<1>0. n \in Nat
  OBVIOUS
<1> HIDE DEF n
<1>1. T = {}
  <2> SUFFICES ASSUME T # {} PROVE FALSE
    OBVIOUS
  <2>1. T \in SUBSET Nat
    BY <1>0
  <2> HIDE DEF T
  <2>2. PICK m \in T : \A k \in T : m <= k
    BY <2>1, LeastOf
  <2>3. m \in 0..n /\ ~Part(m)
    BY <2>2 DEF T
  <2> HIDE DEF Part
  <2>4. m # 0
    <3> DEFINE g == [t \in (n - 0 + 1)..n |-> LayerOf(p, << >>, t)]
    <3>1. (n - 0 + 1)..n = {}
      BY <1>0
    <3>2. g = [t \in (n - 0 + 1)..n |-> LayerOf(p, g, t)]
      BY <3>1
    <3> HIDE DEF g
    <3>3. Part(0)
      BY <3>2 DEF Part
    <3> QED
      BY <2>3, <3>3
  <2>5. m - 1 \in 0..n /\ ~(m <= m - 1) /\ m - 1 \notin T
    BY <1>0, <2>2, <2>3, <2>4
  <2>6. Part(m - 1)
    BY <2>5 DEF T
  <2>7. PICK h : h = [t \in (n - (m - 1) + 1)..n |-> LayerOf(p, h, t)]
    BY <2>6 DEF Part
  <2> DEFINE first == n - m + 1
             g == [t \in first..n |-> IF t = first THEN LayerOf(p, h, t) ELSE h[t]]
  <2>8. first \in 1..n /\ n - (m - 1) + 1 = first + 1
    BY <1>0, <2>3, <2>4
  <2> HIDE DEF first
  <2>9. \A t \in first..n : g[t] = LayerOf(p, g, t)
    <3> TAKE t \in first..n
    <3>1. \A u \in (t + 1)..n : g[u] = h[u]
      BY <1>0, <2>8
    <3>2. LayerOf(p, g, t) = LayerOf(p, h, t)
      BY <3>1, LayerOfLater DEF n
    <3>3. CASE t = first
      BY <3>2, <3>3
    <3>4. CASE t # first
      <4>1. t \in (first + 1)..n
        BY <1>0, <2>8, <3>4
      <4>2. h[t] = LayerOf(p, h, t)
        BY <2>7, <2>8, <4>1
      <4> QED
        BY <3>2, <3>4, <4>2
    <3> QED
      BY <3>3, <3>4
  <2>10. g = [t \in first..n |-> g[t]]
    OBVIOUS
  <2> HIDE DEF g
  <2>11. g = [t \in first..n |-> LayerOf(p, g, t)]
    BY <2>9, <2>10
  <2> QED
    BY <2>3, <2>11 DEF Part, first
<1>2. n \in 0..n /\ n - n + 1 = 1
  BY <1>0
<1> HIDE DEF Part
<1>3. Part(n)
  BY <1>1, <1>2
<1> QED
  BY <1>2, <1>3 DEF Part, IsFresh, n

LEMMA FreshIsOne ==
  ASSUME NEW p \in Seq(DOMAIN Op), NEW g, NEW h, IsFresh(p, g), IsFresh(p, h)
  PROVE  g = h
<1> DEFINE n == Len(p)
           T == {n - t : t \in {u \in 1..n : g[u] # h[u]}}
<1>0. n \in Nat
  OBVIOUS
<1>1. T = {}
  <2> SUFFICES ASSUME T # {} PROVE FALSE
    OBVIOUS
  <2>1. T \in SUBSET Nat
    BY <1>0
  <2> HIDE DEF T
  <2>2. PICK m \in T : \A k \in T : m <= k
    BY <2>1, LeastOf
  <2>3. PICK t \in 1..n : g[t] # h[t] /\ m = n - t
    BY <2>2 DEF T
  <2>4. \A u \in (t + 1)..n : g[u] = h[u]
    <3> SUFFICES ASSUME NEW u \in (t + 1)..n, g[u] # h[u] PROVE FALSE
      OBVIOUS
    <3>1. n - u \in T
      BY <1>0, <2>3 DEF T
    <3>2. n - t <= n - u
      BY <2>2, <2>3, <3>1
    <3> QED
      BY <1>0, <2>3, <3>2
  <2>5. LayerOf(p, g, t) = LayerOf(p, h, t)
    BY <2>4, LayerOfLater
  <2>6. g[t] = LayerOf(p, g, t) /\ h[t] = LayerOf(p, h, t)
    BY <2>3 DEF IsFresh
  <2> QED
    BY <2>3, <2>5, <2>6
<1>2. \A u \in 1..n : g[u] = h[u]
  BY <1>1
<1> QED
  BY <1>2 DEF IsFresh

LEMMA FreshIs ==
  ASSUME NEW p \in Seq(DOMAIN Op)
  PROVE  IsFresh(p, Fresh(p))
BY FreshExists DEF Fresh

LEMMA FreshLayersAre ==
  ASSUME plan \in Seq(DOMAIN Op)
  PROVE  FreshLayers = Fresh(plan)
<1> DEFINE E(g) == [t \in 1..Len(plan) |->
          {f \in Undefined(Reached) : Canonical(ScannedPoints(plan, Len(plan)), f, Len(plan)) = t}
          \cup UNION {IF g[u] = {} THEN {}
                      ELSE {f \in Asked(Op[plan[u]], g[u]) :
                              Canonical(ScannedPoints(plan, Len(plan)), f, u - 1) = t} :
                        u \in (t + 1)..Len(plan)}]
<1>1. \A g : IsFresh(plan, g) <=> g = E(g)
  BY DEF IsFresh, LayerOf, GoalsAt, AskedBy, Points
<1>2. FreshLayers = CHOOSE g : g = E(g)
  BY DEF FreshLayers
<1> HIDE DEF E
<1>3. IsFresh(plan, FreshLayers)
  BY <1>1, <1>2, FreshExists
<1> QED
  BY <1>3, FreshIs, FreshIsOne

-----------------------------------------------------------------------------
(* What the goal reads are facts, and what a layer asks for is.             *)

Read(x) == x \cup UNION UNION {Bodies(f) : f \in x}

LEMMA ReadFacts == \A x \in SUBSET Facts : Read(x) \in SUBSET Facts
BY TaskShape DEF Read, Bodies

LEMMA ReachedFrom ==
  \E s \in [0..Cardinality(Rules) -> SUBSET Facts] :
    /\ Reached = s[Cardinality(Rules)] /\ s[0] = Goal
    /\ \A k \in 1..Cardinality(Rules) : s[k] = Read(s[k - 1])
<1> DEFINE N == Cardinality(Rules)
           X == SUBSET Facts
           E(s) == [k \in 0..N |-> IF k = 0 THEN Goal
                                   ELSE s[k - 1] \cup UNION UNION {Bodies(f) : f \in s[k - 1]}]
           F == [y \in (1..N) \X X |-> Read(y[2])]
           r == CHOOSE s : s = E(s)
<1>1. N \in Nat
  BY FS_CardinalityType, TaskShape
<1>2. Reached = r[N]
  BY DEF Reached
<1>3. F \in [(1..N) \X X -> X] /\ Goal \in X
  BY ReadFacts, CnfInputs
<1>4. \A k \in 1..N, x \in X : F[<<k, x>>] = Read(x)
  OBVIOUS
<1> HIDE DEF N, X, F, E, r
<1>5. PICK s : Iteration(N, X, Goal, F, s)
  BY <1>1, <1>3, IterationExists
<1>6. s = E(s)
  <2>1. ASSUME NEW k \in 0..N, k # 0
        PROVE  s[k] = s[k - 1] \cup UNION UNION {Bodies(f) : f \in s[k - 1]}
    <3>1. s[k] = F[<<k, s[k - 1]>>] /\ k \in 1..N /\ k - 1 \in 0..N
      BY <1>1, <1>5, <2>1 DEF Iteration
    <3> QED
      BY <1>4, <1>5, <3>1 DEF Read, Iteration
  <2> QED
    BY <1>1, <1>5, <2>1 DEF E, Iteration
<1>7. r = E(r)
  BY <1>6 DEF r
<1>8. r[0] = Goal
  BY <1>1, <1>7 DEF E
<1>9. \A k \in 1..N : r[k] = Read(r[k - 1])
  <2> TAKE k \in 1..N
  <2>1. k \in 0..N /\ k # 0
    BY <1>1
  <2> QED
    BY <1>7, <2>1 DEF Read, E
<1>10. Iterates(N, X, Goal, F, r)
  BY <1>4, <1>8, <1>9 DEF Iterates
<1>11. \A k \in 0..N : r[k] \in X
  BY <1>1, <1>3, <1>10, IterationStays
<1>12. r \in [0..N -> X]
  BY <1>7, <1>11 DEF E
<1> QED
  BY <1>2, <1>8, <1>9, <1>12 DEF N, X

LEMMA ReachedFacts == Goal \subseteq Reached /\ Reached \subseteq Facts
<1> DEFINE N == Cardinality(Rules)
<1>1. N \in Nat
  BY FS_CardinalityType, TaskShape
<1>2. PICK s \in [0..N -> SUBSET Facts] :
        Reached = s[N] /\ s[0] = Goal /\ \A k \in 1..N : s[k] = Read(s[k - 1])
  BY ReachedFrom
<1> HIDE DEF N
<1>3. \A k \in 0..N : Goal \subseteq s[k]
  <2> DEFINE T == {k \in 0..N : ~(Goal \subseteq s[k])}
  <2> SUFFICES ASSUME T # {} PROVE FALSE
    OBVIOUS
  <2>1. T \in SUBSET Nat
    OBVIOUS
  <2> HIDE DEF T
  <2>2. PICK m \in T : \A k \in T : m <= k
    BY <2>1, LeastOf
  <2>3. m \in 0..N /\ ~(Goal \subseteq s[m])
    BY <2>2 DEF T
  <2>4. m # 0
    BY <1>2, <2>3
  <2>9. m \in 1..N /\ m - 1 \in 0..N /\ ~(m <= m - 1)
    BY <1>1, <2>3, <2>4
  <2>5. Goal \subseteq s[m - 1]
    BY <2>2, <2>9 DEF T
  <2>6. s[m] = Read(s[m - 1])
    BY <1>2, <2>9
  <2> QED
    BY <2>3, <2>5, <2>6 DEF Read
<1> QED
  BY <1>1, <1>2, <1>3

LEMMA EquationReads ==
  ASSUME NEW a \in DOMAIN Op, NEW f \in Facts
  PROVE  Needs(Op[a], f) \subseteq Facts
<1> DEFINE op == Op[a]
<1>1. \A i \in DOMAIN op.effects : op.effects[i].cond \subseteq Facts
  <2>1. \A i \in DOMAIN op.effects : op.effects[i] \in Effect
    BY TaskShape
  <2> QED
    BY <2>1 DEF Effect
<1>2. (\A c \in Adds(op, f) : c \subseteq Facts) /\ (\A c \in Dels(op, f) : c \subseteq Facts)
  BY <1>1 DEF Adds, Dels
<1>3. \A c \in Equation(op, f).adds \cup Equation(op, f).dels : c \subseteq Facts
  BY <1>2 DEF Equation, Always
<1> QED
  BY <1>3 DEF Needs

LEMMA AskedFacts ==
  ASSUME NEW a \in DOMAIN Op, NEW layer \in SUBSET Facts
  PROVE  Asked(Op[a], layer) \subseteq Facts
BY EquationReads, TaskShape DEF Asked

-----------------------------------------------------------------------------
(* Canonical times, and how they move with a shared suffix.                 *)

\* c is the last point up to t at which v can have changed.
LastChange(p, v, t, c) ==
  /\ c \in 0..t
  /\ c # 0 => c <= Len(p) /\ v \in Changed(Op[p[c]])
  /\ \A x \in 1..Len(p) : x <= t /\ v \in Changed(Op[p[x]]) => x <= c

LEMMA PointsAre ==
  ASSUME NEW p \in Seq(DOMAIN Op), NEW f \in Facts
  PROVE  Points(p)[f[1]] = {t \in 1..Len(p) : f[1] \in Changed(Op[p[t]])}
BY DEF Points, ScannedPoints, Facts

LEMMA CanonicalIs ==
  ASSUME NEW p \in Seq(DOMAIN Op), NEW f \in Facts, NEW t \in Nat
  PROVE  LastChange(p, f[1], t, Canonical(Points(p), f, t))
<1> DEFINE S == {x \in Points(p)[f[1]] : x <= t}
           T == {t - x : x \in S}
<1>1. S = {x \in 1..Len(p) : x <= t /\ f[1] \in Changed(Op[p[x]])}
  BY PointsAre
<1>2. Canonical(Points(p), f, t) = IF S = {} THEN 0 ELSE CHOOSE x \in S : \A y \in S : y <= x
  BY DEF Canonical
<1> HIDE DEF S
<1>3. CASE S = {}
  BY <1>1, <1>2, <1>3 DEF LastChange
<1>4. CASE S # {}
  <2>1. T \in SUBSET Nat /\ T # {}
    BY <1>1, <1>4
  <2> HIDE DEF T
  <2>2. PICK m \in T : \A k \in T : m <= k
    BY <2>1, LeastOf
  <2>3. PICK x \in S : m = t - x
    BY <2>2 DEF T
  <2>4. \A y \in S : y <= x
    <3> TAKE y \in S
    <3>1. t - y \in T
      BY DEF T
    <3>2. t - x <= t - y
      BY <2>2, <2>3, <3>1
    <3> QED
      BY <1>1, <2>3, <3>2
  <2>5. \E z \in S : \A y \in S : y <= z
    BY <2>3, <2>4
  <2> DEFINE c == CHOOSE z \in S : \A y \in S : y <= z
  <2>6. c \in S /\ \A y \in S : y <= c
    BY <2>5
  <2>7. Canonical(Points(p), f, t) = c
    BY <1>2, <1>4
  <2> HIDE DEF c
  <2> QED
    BY <1>1, <2>6, <2>7 DEF LastChange
<1> QED
  BY <1>3, <1>4

LEMMA CanonicalType ==
  ASSUME NEW p \in Seq(DOMAIN Op), NEW f \in Facts, NEW t \in Nat
  PROVE  Canonical(Points(p), f, t) \in 0..t
BY CanonicalIs DEF LastChange

LEMMA CanonicalIsOne ==
  ASSUME NEW p \in Seq(DOMAIN Op), NEW f \in Facts, NEW t \in Nat, NEW c,
         LastChange(p, f[1], t, c)
  PROVE  Canonical(Points(p), f, t) = c
<1> DEFINE d == Canonical(Points(p), f, t)
<1>1. LastChange(p, f[1], t, d)
  BY CanonicalIs
<1> HIDE DEF d
<1>2. c \in 0..t /\ d \in 0..t /\ Len(p) \in Nat
  BY <1>1 DEF LastChange
<1>3. d <= c
  BY <1>1, <1>2 DEF LastChange
<1>4. c <= d
  BY <1>1, <1>2 DEF LastChange
<1> QED
  BY <1>2, <1>3, <1>4 DEF d

\* Nothing changes between the canonical time and the time.
LEMMA CanonicalStays ==
  ASSUME NEW p \in Seq(DOMAIN Op), NEW f \in Facts, NEW t \in Nat, NEW u \in Nat, u <= t,
         Canonical(Points(p), f, t) <= u
  PROVE  Canonical(Points(p), f, u) = Canonical(Points(p), f, t)
<1> DEFINE c == Canonical(Points(p), f, t)
<1>1. LastChange(p, f[1], t, c) /\ c <= u
  BY CanonicalIs
<1> HIDE DEF c
<1>2. LastChange(p, f[1], u, c)
  BY <1>1 DEF LastChange
<1> QED
  BY <1>2, CanonicalIsOne DEF c

\* The places of a shared suffix of k actions.
Shift(p, q) == Len(q) - Len(p)

LEMMA SuffixMoves ==
  ASSUME NEW p \in Seq(DOMAIN Op), NEW q \in Seq(DOMAIN Op), NEW k \in Nat, k <= Len(p), k <= Len(q),
         SameSuffix(p, q, k), NEW t \in (Len(p) - k + 1)..Len(p)
  PROVE  /\ t + Shift(p, q) \in (Len(q) - k + 1)..Len(q)
         /\ q[t + Shift(p, q)] = p[t]
<1> DEFINE j == Len(p) - t
<1>1. Len(p) \in Nat /\ Len(q) \in Nat
  OBVIOUS
<1>2. j \in 0..(k - 1) /\ Len(p) - j = t /\ Len(q) - j = t + Shift(p, q)
  BY <1>1 DEF Shift
<1>3. p[Len(p) - j] = q[Len(q) - j]
  BY <1>2 DEF SameSuffix
<1>4. q[t + Shift(p, q)] = p[t]
  <2> HIDE DEF j
  <2> QED
    BY <1>2, <1>3
<1>5. t + Shift(p, q) \in (Len(q) - k + 1)..Len(q)
  BY <1>1 DEF Shift
<1> QED
  BY <1>4, <1>5

LEMMA SuffixSwaps ==
  ASSUME NEW p, NEW q, NEW k, SameSuffix(p, q, k)
  PROVE  SameSuffix(q, p, k)
BY DEF SameSuffix

\* A canonical time in the suffix moves with it.
LEMMA CanonicalMoves ==
  ASSUME NEW p \in Seq(DOMAIN Op), NEW q \in Seq(DOMAIN Op), NEW k \in Nat, k <= Len(p), k <= Len(q),
         SameSuffix(p, q, k), NEW f \in Facts, NEW x \in (Len(p) - k)..Len(p),
         NEW t \in (Len(p) - k + 1)..Len(p), Canonical(Points(p), f, x) = t
  PROVE  Canonical(Points(q), f, x + Shift(p, q)) = t + Shift(p, q)
<1> DEFINE d == Shift(p, q)
           v == f[1]
<1>1. Len(p) \in Nat /\ Len(q) \in Nat /\ d \in Int /\ d = Len(q) - Len(p) /\ x \in Nat
  BY DEF Shift
<1>2. LastChange(p, v, x, t)
  BY <1>1, CanonicalIs
<1>3. x + d \in Nat /\ t + d \in (Len(q) - k + 1)..Len(q) /\ q[t + d] = p[t]
  <2>1. t + d \in (Len(q) - k + 1)..Len(q) /\ q[t + d] = p[t]
    BY SuffixMoves
  <2>2. x + d \in Nat
    BY <1>1
  <2> QED
    BY <2>1, <2>2
<1>4. t # 0 /\ t <= x
  BY <1>1, <1>2 DEF LastChange
<1>5. t + d # 0 /\ t + d \in 0..(x + d) /\ t + d <= Len(q) /\ v \in Changed(Op[q[t + d]])
  BY <1>1, <1>2, <1>3, <1>4 DEF LastChange
<1>6. ASSUME NEW y \in 1..Len(q), y <= x + d, v \in Changed(Op[q[y]])
      PROVE  y <= t + d
  <2>1. CASE y <= Len(q) - k
    BY <1>1, <1>3, <2>1
  <2>2. CASE ~(y <= Len(q) - k)
    <3>1. y \in (Len(q) - k + 1)..Len(q)
      BY <1>1, <2>2
    <3>2. SameSuffix(q, p, k)
      BY SuffixSwaps
    <3>3. y + Shift(q, p) \in (Len(p) - k + 1)..Len(p) /\ p[y + Shift(q, p)] = q[y]
      BY <3>1, <3>2, SuffixMoves
    <3>4. y + Shift(q, p) = y - d
      BY <1>1 DEF Shift
    <3> HIDE DEF d
    <3>a. y - d \in (Len(p) - k + 1)..Len(p) /\ p[y - d] = q[y]
      BY <3>3, <3>4
    <3>5. y - d \in 1..Len(p)
      BY <1>1, <3>a
    <3>b. y - d <= x
      BY <1>1, <1>6
    <3>c. v \in Changed(Op[p[y - d]])
      BY <1>6, <3>a
    <3>6. y - d <= t
      BY <1>2, <3>5, <3>b, <3>c DEF LastChange
    <3> QED
      BY <1>1, <3>6
  <2> QED
    BY <2>1, <2>2
<1>7. LastChange(q, v, x + d, t + d)
  BY <1>5, <1>6 DEF LastChange
<1> QED
  BY <1>3, <1>7, CanonicalIsOne

-----------------------------------------------------------------------------
(* Two plans with a shared suffix ask for the same layers in it.            *)

LEMMA LayersAreFacts ==
  ASSUME NEW p \in Seq(DOMAIN Op), NEW g, IsFresh(p, g)
  PROVE  \A t \in 1..Len(p) : g[t] \subseteq Facts
<1> DEFINE n == Len(p)
           T == {n - t : t \in {u \in 1..n : ~(g[u] \subseteq Facts)}}
<1>0. n \in Nat
  OBVIOUS
<1>1. T = {}
  <2> SUFFICES ASSUME T # {} PROVE FALSE
    OBVIOUS
  <2>1. T \in SUBSET Nat
    BY <1>0
  <2> HIDE DEF T
  <2>2. PICK m \in T : \A k \in T : m <= k
    BY <2>1, LeastOf
  <2>3. PICK t \in 1..n : ~(g[t] \subseteq Facts) /\ m = n - t
    BY <2>2 DEF T
  <2>4. \A u \in (t + 1)..n : g[u] \subseteq Facts
    <3> SUFFICES ASSUME NEW u \in (t + 1)..n, ~(g[u] \subseteq Facts) PROVE FALSE
      OBVIOUS
    <3>1. n - u \in T
      BY <1>0, <2>3 DEF T
    <3>2. n - t <= n - u
      BY <2>2, <2>3, <3>1
    <3> QED
      BY <1>0, <2>3, <3>2
  <2>5. \A u \in (t + 1)..n : AskedBy(p, g, u, t) \subseteq Facts
    <3> TAKE u \in (t + 1)..n
    <3>1. g[u] \in SUBSET Facts /\ p[u] \in DOMAIN Op
      BY <1>0, <2>3, <2>4
    <3>2. Asked(Op[p[u]], g[u]) \subseteq Facts
      BY <3>1, AskedFacts
    <3> QED
      BY <3>2 DEF AskedBy
  <2>6. GoalsAt(p, t) \subseteq Facts
    BY ReachedFacts DEF GoalsAt, Undefined
  <2>7. g[t] = LayerOf(p, g, t)
    BY <2>3 DEF IsFresh
  <2>8. LayerOf(p, g, t) \subseteq Facts
    BY <2>5, <2>6 DEF LayerOf
  <2> QED
    BY <2>3, <2>7, <2>8
<1> QED
  BY <1>1

\* One direction: what p asks for in the suffix, q asks for at its place.
LEMMA SuffixLayerWithin ==
  ASSUME NEW p \in Seq(DOMAIN Op), NEW q \in Seq(DOMAIN Op),
         NEW k \in Nat, k <= Len(p), k <= Len(q), SameSuffix(p, q, k),
         NEW g, NEW h, IsFresh(p, g), NEW t \in (Len(p) - k + 1)..Len(p),
         \A u \in (t + 1)..Len(p) : g[u] = h[u + Shift(p, q)]
  PROVE  LayerOf(p, g, t) \subseteq LayerOf(q, h, t + Shift(p, q))
<1> DEFINE d == Shift(p, q)
<1>1. Len(p) \in Nat /\ Len(q) \in Nat /\ d \in Int /\ Len(q) = Len(p) + d
  BY DEF Shift
<1> HIDE DEF d
<1>2. GoalsAt(p, t) \subseteq GoalsAt(q, t + d)
  <2> SUFFICES ASSUME NEW f \in GoalsAt(p, t) PROVE f \in GoalsAt(q, t + d)
    OBVIOUS
  <2>1. f \in Undefined(Reached) /\ f \in Facts /\ Canonical(Points(p), f, Len(p)) = t
    BY ReachedFacts DEF GoalsAt, Undefined
  <2>2. Len(p) \in (Len(p) - k)..Len(p)
    BY <1>1
  <2>3. Canonical(Points(q), f, Len(p) + d) = t + d
    BY <2>1, <2>2, CanonicalMoves DEF d
  <2> QED
    BY <1>1, <2>1, <2>3 DEF GoalsAt
<1>3. ASSUME NEW u \in (t + 1)..Len(p)
      PROVE  AskedBy(p, g, u, t) \subseteq AskedBy(q, h, u + d, t + d)
  <2>1. u \in 1..Len(p) /\ u \in (Len(p) - k + 1)..Len(p) /\ u - 1 \in (Len(p) - k)..Len(p)
        /\ (u - 1) + d = (u + d) - 1
    BY <1>1
  <2>2. g[u] = h[u + d] /\ g[u] \in SUBSET Facts /\ p[u] \in DOMAIN Op
    BY <2>1, LayersAreFacts DEF d
  <2>3. q[u + d] = p[u]
    BY <2>1, SuffixMoves DEF d
  <2>4. Asked(Op[p[u]], g[u]) \subseteq Facts
    BY <2>2, AskedFacts
  <2>5. \A f \in Facts : Canonical(Points(p), f, u - 1) = t =>
                         Canonical(Points(q), f, (u + d) - 1) = t + d
    BY <2>1, CanonicalMoves DEF d
  <2> QED
    BY <2>2, <2>3, <2>4, <2>5 DEF AskedBy
<1>4. \A u \in (t + 1)..Len(p) : u + d \in (t + d + 1)..Len(q)
  BY <1>1
<1> QED
  BY <1>2, <1>3, <1>4 DEF LayerOf, d

LEMMA SuffixLayers ==
  ASSUME NEW p \in Seq(DOMAIN Op), NEW q \in Seq(DOMAIN Op),
         NEW k \in Nat, k <= Len(p), k <= Len(q), SameSuffix(p, q, k),
         NEW g, NEW h, IsFresh(p, g), IsFresh(q, h)
  PROVE  \A t \in (Len(p) - k + 1)..Len(p) : g[t] = h[t + Shift(p, q)]
<1> DEFINE n == Len(p)
           d == Shift(p, q)
           T == {n - t : t \in {u \in (n - k + 1)..n : g[u] # h[u + d]}}
<1>0. n \in Nat /\ Len(q) \in Nat /\ d \in Int /\ Len(q) = n + d /\ Shift(q, p) = -d
  BY DEF Shift
<1> HIDE DEF d
<1>1. T = {}
  <2> SUFFICES ASSUME T # {} PROVE FALSE
    OBVIOUS
  <2>1. T \in SUBSET Nat
    BY <1>0
  <2> HIDE DEF T
  <2>2. PICK m \in T : \A j \in T : m <= j
    BY <2>1, LeastOf
  <2>3. PICK t \in (n - k + 1)..n : g[t] # h[t + d] /\ m = n - t
    BY <2>2 DEF T
  <2>4. \A u \in (t + 1)..n : g[u] = h[u + d]
    <3> SUFFICES ASSUME NEW u \in (t + 1)..n, g[u] # h[u + d] PROVE FALSE
      OBVIOUS
    <3>0. u \in (n - k + 1)..n
      BY <1>0, <2>3
    <3>1. n - u \in T
      BY <3>0 DEF T
    <3>2. n - t <= n - u
      BY <2>2, <2>3, <3>1
    <3> QED
      BY <1>0, <2>3, <3>2
  <2>5. LayerOf(p, g, t) \subseteq LayerOf(q, h, t + d)
    BY <2>3, <2>4, SuffixLayerWithin DEF d
  <2>6. LayerOf(q, h, t + d) \subseteq LayerOf(p, g, t)
    <3>1. t + d \in (Len(q) - k + 1)..Len(q) /\ t + d + Shift(q, p) = t
      BY <1>0, <2>3
    <3>2. ASSUME NEW u \in (t + d + 1)..Len(q) PROVE h[u] = g[u + Shift(q, p)]
      <4>1. u + Shift(q, p) \in (t + 1)..n /\ u + Shift(q, p) + d = u
        BY <1>0, <2>3
      <4> QED
        BY <2>4, <4>1
    <3>3. SameSuffix(q, p, k)
      BY SuffixSwaps
    <3>4. LayerOf(q, h, t + d) \subseteq LayerOf(p, g, t + d + Shift(q, p))
      BY <3>1, <3>2, <3>3, SuffixLayerWithin
    <3> QED
      BY <3>1, <3>4
  <2>7. t \in 1..n /\ t + d \in 1..Len(q)
    BY <1>0, <2>3
  <2>8. g[t] = LayerOf(p, g, t) /\ h[t + d] = LayerOf(q, h, t + d)
    BY <2>7 DEF IsFresh
  <2>9. LayerOf(p, g, t) = LayerOf(q, h, t + d)
    BY <2>5, <2>6
  <2> QED
    BY <2>3, <2>8, <2>9
<1> QED
  BY <1>1 DEF d

-----------------------------------------------------------------------------
(* The regression of a plan: what is done is fresh, and what is scheduled   *)
(* is either replayed, hence all of a fresh layer, or what has been asked   *)
(* for so far.                                                              *)

\* What the goal and the layers after time T ask for at t.
AskedAfter(p, g, T, t) == GoalsAt(p, t) \cup UNION {AskedBy(p, g, u, t) : u \in (T + 1)..Len(p)}

Regressed ==
  /\ time \in 0..Len(plan) /\ replayed \subseteq 1..Len(plan)
  /\ frontier = [t \in 1..Len(plan) |-> IF t > time THEN Fresh(plan)[t] ELSE {}]
  /\ \A t \in 1..time :
       scheduled[t] = IF t \in replayed THEN Fresh(plan)[t]
                      ELSE AskedAfter(plan, Fresh(plan), time, t)

LayersInv ==
  /\ Reused /\ round \in Nat /\ (pc = "idle" <=> round = 0)
  /\ pc \in {"idle", "regress", "solved"} /\ (pc = "solved" => time = 0)
  /\ pc # "idle" => Regressed

LEMMA FreshAt ==
  ASSUME NEW p \in Seq(DOMAIN Op), NEW t \in 1..Len(p)
  PROVE  Fresh(p)[t] = LayerOf(p, Fresh(p), t)
BY FreshIs DEF IsFresh

LEMMA AskedInOrder ==
  ASSUME NEW p \in Seq(DOMAIN Op), NEW g, NEW T \in 1..Len(p), NEW t \in 1..Len(p)
  PROVE  /\ AskedAfter(p, g, T, T) = LayerOf(p, g, T)
         /\ AskedAfter(p, g, Len(p), t) = GoalsAt(p, t)
<1>1. (Len(p) + 1)..Len(p) = {}
  OBVIOUS
<1> QED
  BY <1>1 DEF AskedAfter, LayerOf

LEMMA InitLayers == Init => LayersInv
BY InitReused DEF Init, LayersInv

LEMMA PrepareLayers ==
  ASSUME LayersInv, NEW p \in Plans, NEW B, Prepare(p, B)
  PROVE  LayersInv'
<1> DEFINE n == Len(p)
           k == IF round = 0 THEN 0 ELSE CommonSuffix(p, plan)
<1>1. p \in Seq(DOMAIN Op) /\ plan \in Seq(DOMAIN Op) /\ n \in Nat /\ Len(plan) \in Nat
  BY CnfInputs DEF LayersInv, Reused
<1>2. Reused'
  BY PrepareReused DEF LayersInv
<1>3. /\ pc' = "regress" /\ round' = round + 1 /\ plan' = p /\ time' = n
      /\ frontier' = [t \in 1..n |-> {}]
  BY DEF Prepare
<1>4. points' = Points(p)
  BY <1>2, <1>3 DEF Reused, SummaryIsPlan, Points
<1>5. /\ scheduled' = [t \in 1..n |-> Landing(points', Undefined(Reached), n, n)[t] \cup OldLayer(p, k, t)]
      /\ replayed' = {t \in 1..n : OldLayer(p, k, t) # {}}
  BY DEF Prepare
<1> HIDE DEF k
<1>6. \A t \in 1..n : Landing(points', Undefined(Reached), n, n)[t] = GoalsAt(p, t)
  BY <1>1, <1>4 DEF Landing, GoalsAt
<1>7. ASSUME NEW t \in 1..n, OldLayer(p, k, t) # {} PROVE OldLayer(p, k, t) = Fresh(p)[t]
  <2>1. k > 1 /\ t > n - k /\ OldLayer(p, k, t) = frontier[t + Len(plan) - n]
    BY <1>7 DEF OldLayer
  <2>2. round # 0
    BY <2>1 DEF k
  <2>3. k \in 0..Least(n, Len(plan)) /\ SameSuffix(p, plan, k)
    BY <1>1, <2>2, CommonSuffixIsOne DEF k
  <2>4. k \in Nat /\ k <= n /\ k <= Len(plan)
    BY <1>1, <2>3 DEF Least
  <2>5. pc = "solved" /\ time = 0
    BY <2>2 DEF LayersInv, Prepare
  <2>6. frontier = [x \in 1..Len(plan) |-> IF x > time THEN Fresh(plan)[x] ELSE {}]
    BY <2>5 DEF LayersInv, Regressed
  <2>7. t \in (n - k + 1)..n
    BY <1>1, <2>1, <2>4
  <2>8. t + Shift(p, plan) \in 1..Len(plan) /\ t + Len(plan) - n = t + Shift(p, plan)
    BY <1>1, <2>4, <2>7 DEF Shift
  <2>9. frontier[t + Shift(p, plan)] = Fresh(plan)[t + Shift(p, plan)]
    BY <2>5, <2>6, <2>8
  <2>10. IsFresh(p, Fresh(p)) /\ IsFresh(plan, Fresh(plan))
    BY <1>1, FreshIs
  <2>11. Fresh(p)[t] = Fresh(plan)[t + Shift(p, plan)]
    BY <1>1, <2>3, <2>4, <2>7, <2>10, SuffixLayers
  <2> QED
    BY <2>1, <2>8, <2>9, <2>11
<1>8. ASSUME NEW t \in 1..n
      PROVE  scheduled'[t] = IF t \in replayed' THEN Fresh(p)[t] ELSE AskedAfter(p, Fresh(p), n, t)
  <2>1. scheduled'[t] = GoalsAt(p, t) \cup OldLayer(p, k, t)
    BY <1>5, <1>6
  <2>2. CASE OldLayer(p, k, t) = {}
    <3>1. AskedAfter(p, Fresh(p), n, t) = GoalsAt(p, t)
      BY <1>1, AskedInOrder
    <3> QED
      BY <1>5, <2>1, <2>2, <3>1
  <2>3. CASE OldLayer(p, k, t) # {}
    <3>1. GoalsAt(p, t) \subseteq Fresh(p)[t]
      BY <1>1, FreshAt DEF LayerOf
    <3> QED
      BY <1>5, <1>7, <2>1, <2>3, <3>1
  <2> QED
    BY <2>2, <2>3
<1>9. Regressed'
  <2>1. frontier' = [t \in 1..n |-> IF t > n THEN Fresh(p)[t] ELSE {}]
    BY <1>1, <1>3
  <2> QED
    BY <1>1, <1>3, <1>5, <1>8, <2>1 DEF Regressed
<1>10. round' \in Nat /\ round' # 0
  BY <1>3 DEF LayersInv
<1> QED
  BY <1>2, <1>3, <1>9, <1>10 DEF LayersInv

\* The layer that is regressed, or passed over, is the fresh one.
LEMMA LayerIsFresh ==
  ASSUME LayersInv, pc = "regress", time > 0
  PROVE  scheduled[time] = Fresh(plan)[time] /\ time \in 1..Len(plan) /\ plan \in Seq(DOMAIN Op)
<1>1. Regressed /\ plan \in Seq(DOMAIN Op)
  BY DEF LayersInv, Reused
<1>2. time \in 1..Len(plan) /\ time \in 1..time
  BY <1>1 DEF Regressed
<1>3. AskedAfter(plan, Fresh(plan), time, time) = Fresh(plan)[time]
  BY <1>1, <1>2, AskedInOrder, FreshAt
<1> QED
  BY <1>1, <1>2, <1>3 DEF Regressed

LEMMA RegressLayers ==
  ASSUME LayersInv, Regress
  PROVE  LayersInv'
<1> DEFINE n == Len(plan)
           g == Fresh(plan)
           lands == Landing(points, Asked(Op[plan[time]], scheduled[time]), time - 1, n)
<1>1. pc = "regress" /\ time > 0 /\ scheduled[time] # {}
  BY DEF Regress
<1>2. scheduled[time] = g[time] /\ time \in 1..n /\ plan \in Seq(DOMAIN Op)
  BY <1>1, LayerIsFresh
<1>3. Regressed /\ points = Points(plan)
  BY <1>1 DEF LayersInv, Reused, SummaryIsPlan, Points
<1>4. /\ frontier' = [frontier EXCEPT ![time] = scheduled[time]]
      /\ time' = time - 1 /\ plan' = plan /\ points' = points /\ replayed' = replayed
      /\ pc' = pc /\ round' = round
  BY DEF Regress
<1>5. \A t \in 1..n : scheduled'[t] = IF t = time THEN {}
                                      ELSE IF Suppressing /\ t \in replayed THEN scheduled[t]
                                      ELSE scheduled[t] \cup lands[t]
  BY DEF Regress
<1>6. \A t \in 1..n : lands[t] = AskedBy(plan, g, time, t)
  BY <1>1, <1>2, <1>3 DEF Landing, AskedBy
<1> HIDE DEF lands
<1>7. ASSUME NEW t \in 1..(time - 1)
      PROVE  scheduled'[t] = IF t \in replayed THEN g[t] ELSE AskedAfter(plan, g, time - 1, t)
  <2>1. t \in 1..n /\ t # time /\ t \in 1..time /\ time \in (t + 1)..n
    BY <1>2
  <2>2. scheduled[t] = IF t \in replayed THEN g[t] ELSE AskedAfter(plan, g, time, t)
    BY <1>3, <2>1 DEF Regressed
  <2>3. lands[t] \subseteq g[t]
    <3>1. g[t] = LayerOf(plan, g, t)
      BY <1>2, <2>1, FreshAt
    <3>2. AskedBy(plan, g, time, t) \subseteq LayerOf(plan, g, t)
      BY <2>1 DEF LayerOf
    <3> QED
      BY <1>6, <2>1, <3>1, <3>2
  <2>4. AskedAfter(plan, g, time - 1, t) = AskedAfter(plan, g, time, t) \cup lands[t]
    <3>0. time \in 1..Len(plan) /\ t \in 1..Len(plan) /\ plan \in Seq(DOMAIN Op)
      BY <1>2, <2>1
    <3> HIDE DEF g
    <3>a. (time - 1 + 1)..Len(plan) = ((time + 1)..Len(plan)) \cup {time}
      BY <3>0
    <3>1. AskedAfter(plan, g, time - 1, t)
          = AskedAfter(plan, g, time, t) \cup AskedBy(plan, g, time, t)
      BY <3>a DEF AskedAfter
    <3> QED
      BY <1>6, <2>1, <3>1
  <2>5. CASE t \in replayed
    BY <1>5, <2>1, <2>2, <2>3, <2>5
  <2>6. CASE t \notin replayed
    BY <1>5, <2>1, <2>2, <2>4, <2>6
  <2> QED
    BY <2>5, <2>6
<1>8. frontier' = [t \in 1..n |-> IF t > time - 1 THEN g[t] ELSE {}]
  <2>1. frontier = [t \in 1..n |-> IF t > time THEN g[t] ELSE {}]
    BY <1>3 DEF Regressed
  <2> HIDE DEF g, n
  <2>2. \A t \in 1..n : (IF t = time THEN scheduled[time] ELSE frontier[t])
                        = IF t > time - 1 THEN g[t] ELSE {}
    <3>1. n \in Nat
      BY <1>2 DEF n
    <3> QED
      BY <1>2, <2>1, <3>1
  <2> QED
    BY <1>4, <2>1, <2>2
<1>9. Regressed'
  <2>1. time - 1 \in 0..n
    BY <1>2
  <2> QED
    BY <1>3, <1>4, <1>7, <1>8, <2>1 DEF Regressed
<1>10. Reused'
  BY <1>4 DEF LayersInv, Reused, SummaryIsPlan, ScannedPoints
<1> QED
  BY <1>1, <1>4, <1>9, <1>10 DEF LayersInv

LEMMA PassOverLayers ==
  ASSUME LayersInv, PassOver
  PROVE  LayersInv'
<1> DEFINE n == Len(plan)
           g == Fresh(plan)
<1>1. pc = "regress" /\ time > 0 /\ scheduled[time] = {}
  BY DEF PassOver
<1>2. g[time] = {} /\ time \in 1..n /\ plan \in Seq(DOMAIN Op)
  BY <1>1, LayerIsFresh
<1>3. Regressed
  BY <1>1 DEF LayersInv
<1>4. /\ time' = time - 1
      /\ UNCHANGED <<pc, round, plan, points, frontier, scheduled, replayed>>
  BY DEF PassOver
<1>5. ASSUME NEW t \in 1..(time - 1)
      PROVE  scheduled[t] = IF t \in replayed THEN g[t] ELSE AskedAfter(plan, g, time - 1, t)
  <2>1. t \in 1..n /\ t \in 1..time
    BY <1>2
  <2>2. AskedBy(plan, g, time, t) = {}
    BY <1>2 DEF AskedBy
  <2>3. AskedAfter(plan, g, time - 1, t) = AskedAfter(plan, g, time, t)
    <3>0. time \in 1..Len(plan) /\ t \in 1..Len(plan) /\ plan \in Seq(DOMAIN Op)
      BY <1>2, <2>1
    <3> HIDE DEF g
    <3>a. (time - 1 + 1)..Len(plan) = ((time + 1)..Len(plan)) \cup {time}
      BY <3>0
    <3>1. AskedAfter(plan, g, time - 1, t)
          = AskedAfter(plan, g, time, t) \cup AskedBy(plan, g, time, t)
      BY <3>a DEF AskedAfter
    <3> QED
      BY <2>2, <3>1
  <2> QED
    BY <1>3, <2>1, <2>3 DEF Regressed
<1>6. frontier = [t \in 1..n |-> IF t > time - 1 THEN g[t] ELSE {}]
  <2>1. frontier = [t \in 1..n |-> IF t > time THEN g[t] ELSE {}]
    BY <1>3 DEF Regressed
  <2> HIDE DEF g, n
  <2>2. \A t \in 1..n : (IF t > time THEN g[t] ELSE {}) = IF t > time - 1 THEN g[t] ELSE {}
    <3> TAKE t \in 1..n
    <3>1. n \in Nat
      BY <1>2 DEF n
    <3>2. t = time \/ (t > time <=> t > time - 1)
      BY <1>2, <3>1
    <3>3. t = time => ~(t > time) /\ t > time - 1
      BY <1>2, <3>1
    <3> QED
      BY <1>2, <3>2, <3>3
  <2> QED
    BY <2>1, <2>2
<1>7. Regressed'
  <2>1. time - 1 \in 0..n
    BY <1>2
  <2> QED
    BY <1>3, <1>4, <1>5, <1>6, <2>1 DEF Regressed
<1>8. Reused'
  BY <1>4 DEF LayersInv, Reused, SummaryIsPlan, ScannedPoints
<1> QED
  BY <1>1, <1>4, <1>7, <1>8 DEF LayersInv

LEMMA NextLayers == LayersInv /\ [Next]_vars => LayersInv'
<1> SUFFICES ASSUME LayersInv, [Next]_vars PROVE LayersInv'
  OBVIOUS
<1>1. CASE \E p \in Plans, B \in Bans : Prepare(p, B)
  BY <1>1, PrepareLayers
<1>2. CASE Regress
  BY <1>2, RegressLayers
<1>3. CASE PassOver
  BY <1>3, PassOverLayers
<1>4. CASE Solve
  <2>1. Reused'
    BY <1>4 DEF Solve, LayersInv, Reused, SummaryIsPlan, ScannedPoints
  <2> QED
    BY <1>4, <2>1 DEF Solve, LayersInv, Regressed
<1>5. CASE UNCHANGED vars
  <2>1. Reused'
    BY <1>5 DEF vars, LayersInv, Reused, SummaryIsPlan, ScannedPoints
  <2> QED
    BY <1>5, <2>1 DEF vars, LayersInv, Regressed
<1> QED
  BY <1>1, <1>2, <1>3, <1>4, <1>5 DEF Next

\* For any task and any sequence of plans: when the regression is
\* over, every layer holds what an object that knew nothing of the last plan would have
\* asked for (counter_cnf.cc:1705, 1768).
THEOREM ReplayIsHarmless == Spec => []ReplayChangesNothing
<1>1. LayersInv => ReplayChangesNothing
  <2> SUFFICES ASSUME LayersInv, pc # "idle", time = 0 PROVE frontier = FreshLayers
    BY DEF ReplayChangesNothing
  <2>1. plan \in Seq(DOMAIN Op) /\ Regressed
    BY DEF LayersInv, Reused
  <2>2. frontier = [t \in 1..Len(plan) |-> Fresh(plan)[t]]
    BY <2>1 DEF Regressed
  <2>3. Fresh(plan) = [t \in 1..Len(plan) |-> LayerOf(plan, Fresh(plan), t)]
    BY <2>1, FreshIs DEF IsFresh
  <2>4. frontier = Fresh(plan)
    BY <2>2, <2>3
  <2> QED
    BY <2>1, <2>4, FreshLayersAre
<1> QED
  BY <1>1, InitLayers, NextLayers, PTL DEF Spec

-----------------------------------------------------------------------------
(* The formula of a plan, in terms of the fresh layers.                     *)

\* The timed facts with an equation and the roots when the layers after T are regressed.
AxiomDefined(p) == AllAt(Points(p), Reached \ Undefined(Reached), Len(p))
LayerDefined(p, t) == {<<f[1], f[2], t>> : f \in Fresh(p)[t]}
Defined(p, T) == AxiomDefined(p) \cup UNION {LayerDefined(p, t) : t \in (T + 1)..Len(p)}

RootsOf(p, t) ==
  IF Fresh(p)[t] = {} THEN {} ELSE AllAt(Points(p), Op[p[t]].prevail, t - 1)
Roots(p, T) == AllAt(Points(p), Goal, Len(p)) \cup UNION {RootsOf(p, t) : t \in (T + 1)..Len(p)}

LayerEquation(p, f, t) == Timed(Points(p), Equation(Op[p[t]], f), f, t - 1)
AxiomEquation(p, x) ==
  [adds |-> {AllAt(Points(p), c, Len(p)) : c \in Bodies(<<x[1], x[2]>>)}, dels |-> {}, prev |-> {}]

FormulaOf(p, T, eqs, rts) ==
  /\ DOMAIN eqs = Defined(p, T) /\ rts = Roots(p, T)
  /\ \A t \in (T + 1)..Len(p) : \A f \in Fresh(p)[t] : eqs[<<f[1], f[2], t>>] = LayerEquation(p, f, t)
  /\ \A x \in AxiomDefined(p) : eqs[x] = AxiomEquation(p, x)

FormulaInv == pc # "idle" => FormulaOf(plan, time, equations, roots)

\* No action sets a derived variable.
LEMMA DerivedUnchanged ==
  ASSUME NEW p \in Seq(DOMAIN Op), NEW f \in Facts, IsDerived(f), NEW t \in Nat
  PROVE  Canonical(Points(p), f, t) = 0
<1>1. \A x \in 1..Len(p) : f[1] \notin Changed(Op[p[x]])
  <2> TAKE x \in 1..Len(p)
  <2>1. p[x] \in DOMAIN Op
    OBVIOUS
  <2> QED
    BY <2>1, TranslatedOperators DEF Changed, IsDerived
<1>2. LastChange(p, f[1], t, 0)
  BY <1>1 DEF LastChange
<1> QED
  BY <1>2, CanonicalIsOne

LEMMA HeadsDerived == \A f : Bodies(f) # {} => f \in Facts /\ IsDerived(f)
BY TaskShape DEF Bodies

LEMMA AxiomDefinedAtZero ==
  ASSUME NEW p \in Seq(DOMAIN Op), NEW x \in AxiomDefined(p)
  PROVE  \E f \in Reached : Bodies(f) # {} /\ f \in Facts /\ IsDerived(f) /\ x = <<f[1], f[2], 0>>
<1>1. PICK f \in Reached \ Undefined(Reached) : x = At(Points(p), f, Len(p))
  BY DEF AxiomDefined, AllAt
<1>2. Bodies(f) # {} /\ f \in Facts /\ IsDerived(f)
  BY <1>1, HeadsDerived DEF Undefined
<1>3. Canonical(Points(p), f, Len(p)) = 0
  BY <1>2, DerivedUnchanged
<1> QED
  BY <1>1, <1>2, <1>3 DEF At

LEMMA PrepareFormula ==
  ASSUME LayersInv, NEW p \in Plans, NEW B, Prepare(p, B)
  PROVE  FormulaInv'
<1>1. p \in Seq(DOMAIN Op) /\ Len(p) \in Nat
  BY CnfInputs
<1>2. Reused'
  BY PrepareReused DEF LayersInv
<1>3. plan' = p /\ time' = Len(p)
  BY DEF Prepare
<1>4. points' = Points(p)
  BY <1>2, <1>3 DEF Reused, SummaryIsPlan, Points
<1>5. roots' = AllAt(Points(p), Goal, Len(p)) /\ equations' = AxiomEquations(Points(p), Len(p))
  BY <1>4 DEF Prepare
<1>6. (Len(p) + 1)..Len(p) = {}
  BY <1>1
<1>7. /\ DOMAIN equations' = AxiomDefined(p)
      /\ \A x \in AxiomDefined(p) : equations'[x] = AxiomEquation(p, x)
  BY <1>5 DEF AxiomEquations, AxiomEquation, AxiomDefined
<1>8. Defined(p, Len(p)) = AxiomDefined(p) /\ Roots(p, Len(p)) = roots'
  BY <1>5, <1>6 DEF Defined, Roots
<1> QED
  BY <1>3, <1>6, <1>7, <1>8 DEF FormulaInv, FormulaOf

LEMMA DefinedInOrder ==
  ASSUME NEW p \in Seq(DOMAIN Op), NEW T \in 1..Len(p)
  PROVE  /\ Defined(p, T - 1) = Defined(p, T) \cup LayerDefined(p, T)
         /\ Roots(p, T - 1) = Roots(p, T) \cup RootsOf(p, T)
<1>1. (T - 1 + 1)..Len(p) = ((T + 1)..Len(p)) \cup {T}
  OBVIOUS
<1> QED
  BY <1>1 DEF Defined, Roots

LEMMA RegressFormula ==
  ASSUME LayersInv, FormulaInv, Regress
  PROVE  FormulaInv'
<1> DEFINE g == Fresh(plan)
           P == Points(plan)
           defined == LayerDefined(plan, time)
           new(x) == Timed(P, Equation(Op[plan[time]], <<x[1], x[2]>>), <<x[1], x[2]>>, time - 1)
<1>1. pc = "regress" /\ time > 0 /\ scheduled[time] # {}
  BY DEF Regress
<1>2. scheduled[time] = g[time] /\ time \in 1..Len(plan) /\ plan \in Seq(DOMAIN Op)
  BY <1>1, LayerIsFresh
<1>3. points = P
  BY DEF LayersInv, Reused, SummaryIsPlan, Points
<1>4. /\ equations' = [x \in defined \cup DOMAIN equations |-> IF x \in defined THEN new(x) ELSE equations[x]]
      /\ roots' = roots \cup AllAt(P, Op[plan[time]].prevail, time - 1)
      /\ time' = time - 1 /\ plan' = plan
  BY <1>2, <1>3 DEF Regress, LayerDefined
<1>5. FormulaOf(plan, time, equations, roots)
  BY <1>1 DEF FormulaInv
<1>6. /\ DOMAIN equations' = Defined(plan, time - 1)
      /\ \A x \in defined : equations'[x] = new(x)
      /\ \A x \in DOMAIN equations \ defined : equations'[x] = equations[x]
  <2>2. DOMAIN equations = Defined(plan, time)
    BY <1>5 DEF FormulaOf
  <2>3. Defined(plan, time - 1) = Defined(plan, time) \cup defined
    BY <1>2, DefinedInOrder
  <2> HIDE DEF new, defined
  <2> QED
    BY <1>4, <2>2, <2>3
<1>7. roots' = Roots(plan, time - 1)
  <2>1. Roots(plan, time - 1) = Roots(plan, time) \cup RootsOf(plan, time)
    BY <1>2, DefinedInOrder
  <2> QED
    BY <1>1, <1>2, <1>4, <1>5, <2>1 DEF FormulaOf, RootsOf
<1>8. g[time] \subseteq Facts
  BY <1>2, FreshIs, LayersAreFacts
<1>9. ASSUME NEW t \in time..Len(plan), NEW f \in g[t]
      PROVE  equations'[<<f[1], f[2], t>>] = LayerEquation(plan, f, t)
  <2>1. CASE t = time
    <3>1. <<f[1], f[2], t>> \in defined
      BY <1>9, <2>1 DEF LayerDefined
    <3>2. f = <<f[1], f[2]>>
      BY <1>8, <1>9, <2>1 DEF Facts
    <3> QED
      BY <1>6, <2>1, <3>1, <3>2 DEF LayerEquation
  <2>2. CASE t # time
    <3>1. t \in (time + 1)..Len(plan)
      BY <1>2, <2>2
    <3>2. <<f[1], f[2], t>> \notin defined
      BY <2>2 DEF LayerDefined
    <3>3. <<f[1], f[2], t>> \in DOMAIN equations
      BY <1>5, <1>9, <3>1 DEF FormulaOf, Defined, LayerDefined
    <3>4. equations[<<f[1], f[2], t>>] = LayerEquation(plan, f, t)
      BY <1>5, <1>9, <3>1 DEF FormulaOf
    <3> QED
      BY <1>6, <3>2, <3>3, <3>4
  <2> QED
    BY <2>1, <2>2
<1>10. ASSUME NEW x \in AxiomDefined(plan) PROVE equations'[x] = AxiomEquation(plan, x)
  <2>1. x \notin defined
    <3>1. x[3] = 0
      BY <1>2, <1>10, AxiomDefinedAtZero
    <3> QED
      BY <1>1, <3>1 DEF LayerDefined
  <2>2. x \in DOMAIN equations /\ equations[x] = AxiomEquation(plan, x)
    BY <1>5 DEF FormulaOf, Defined
  <2> QED
    BY <1>6, <2>1, <2>2
<1>11. time - 1 + 1 = time
  BY <1>2
<1>12. FormulaOf(plan, time - 1, equations', roots')
  BY <1>6, <1>7, <1>9, <1>10, <1>11 DEF FormulaOf
<1> QED
  BY <1>4, <1>12 DEF FormulaInv

LEMMA PassOverFormula ==
  ASSUME LayersInv, FormulaInv, PassOver
  PROVE  FormulaInv'
<1>1. pc = "regress" /\ time > 0 /\ scheduled[time] = {}
  BY DEF PassOver
<1>2. Fresh(plan)[time] = {} /\ time \in 1..Len(plan) /\ plan \in Seq(DOMAIN Op)
  BY <1>1, LayerIsFresh
<1>3. /\ time' = time - 1 /\ plan' = plan /\ equations' = equations /\ roots' = roots
  BY DEF PassOver
<1>4. LayerDefined(plan, time) = {} /\ RootsOf(plan, time) = {}
  BY <1>2 DEF LayerDefined, RootsOf
<1>5. Defined(plan, time - 1) = Defined(plan, time) /\ Roots(plan, time - 1) = Roots(plan, time)
  BY <1>2, <1>4, DefinedInOrder
<1>6. FormulaOf(plan, time, equations, roots)
  BY <1>1 DEF FormulaInv
<1>7. ASSUME NEW t \in (time - 1 + 1)..Len(plan), NEW f \in Fresh(plan)[t]
      PROVE  t \in (time + 1)..Len(plan)
  BY <1>2, <1>7
<1>8. FormulaOf(plan, time - 1, equations, roots)
  BY <1>5, <1>6, <1>7 DEF FormulaOf
<1> QED
  BY <1>3, <1>8 DEF FormulaInv

\* What a round answers is what its formula says.
AnswerInv ==
  /\ answer.kind = "counterexample" =>
       pc = "solved" /\ \E m \in SatModels : answer.state = Closure(m[1])
  /\ answer.kind = "valid" => pc = "solved" /\ SatModels = {}

VerifierInv == LayersInv /\ FormulaInv /\ AnswerInv

LEMMA InitVerifier == Init => VerifierInv
BY InitLayers DEF Init, VerifierInv, FormulaInv, AnswerInv, Idle

LEMMA SolveAnswers ==
  ASSUME Solve
  PROVE  AnswerInv'
<1>1. SatModels' = SatModels
  BY DEF Solve, SatModels, Guessed, Timely, Satisfies, Valuation, Disjuncts, InitialFact, IsDerived, Evaluate
<1>2. pc' = "solved" /\ answer' \in Outcomes
  BY DEF Solve
<1>3. CASE answer' = [kind |-> "unknown", state |-> {}]
  BY <1>3 DEF AnswerInv
<1>4. CASE SatModels = {} /\ answer' = [kind |-> "valid", state |-> {}]
  BY <1>1, <1>2, <1>4 DEF AnswerInv
<1>5. CASE SatModels # {} /\ \E m \in SatModels :
             answer' = IF Conflict(m[2]) THEN [kind |-> "unusable", state |-> {}]
                       ELSE [kind |-> "counterexample", state |-> Closure(m[1])]
  BY <1>1, <1>2, <1>5 DEF AnswerInv
<1> QED
  BY <1>2, <1>3, <1>4, <1>5 DEF Outcomes

LEMMA NextVerifier == VerifierInv /\ [Next]_vars => VerifierInv'
<1> SUFFICES ASSUME VerifierInv, [Next]_vars PROVE VerifierInv'
  OBVIOUS
<1>0. LayersInv'
  BY NextLayers DEF VerifierInv
<1>1. CASE \E p \in Plans, B \in Bans : Prepare(p, B)
  <2>1. PICK p \in Plans, B \in Bans : Prepare(p, B)
    BY <1>1
  <2>2. FormulaInv'
    BY <2>1, PrepareFormula DEF VerifierInv
  <2>3. AnswerInv'
    BY <2>1 DEF Prepare, AnswerInv, Idle
  <2> QED
    BY <1>0, <2>2, <2>3 DEF VerifierInv
<1>2. CASE Regress \/ PassOver
  <2>1. FormulaInv'
    BY <1>2, RegressFormula, PassOverFormula DEF VerifierInv
  <2>2. answer' = answer /\ pc = "regress"
    BY <1>2 DEF Regress, PassOver
  <2>3. AnswerInv'
    BY <2>2 DEF VerifierInv, AnswerInv
  <2> QED
    BY <1>0, <2>1, <2>3 DEF VerifierInv
<1>3. CASE Solve
  <2>1. FormulaInv'
    BY <1>3 DEF Solve, VerifierInv, FormulaInv
  <2>2. AnswerInv'
    BY <1>3, SolveAnswers
  <2> QED
    BY <1>0, <2>1, <2>2 DEF VerifierInv
<1>4. CASE UNCHANGED vars
  <2>1. SatModels' = SatModels
    BY <1>4 DEF vars, SatModels, Guessed, Timely, Satisfies, Valuation, Disjuncts, InitialFact, IsDerived, Evaluate
  <2> QED
    BY <1>0, <1>4, <2>1 DEF vars, VerifierInv, FormulaInv, AnswerInv
<1> QED
  BY <1>1, <1>2, <1>3, <1>4 DEF Next

\* What the goal reads through all axioms is closed under them.
LEMMA ReachedClosed == Read(Reached) = Reached
<1> DEFINE N == Cardinality(Rules)
           G == [x \in SUBSET Facts |-> Read(x)]
<1>1. N \in Nat
  BY FS_CardinalityType, TaskShape
<1>2. PICK s \in [0..N -> SUBSET Facts] :
        Reached = s[N] /\ s[0] = Goal /\ \A k \in 1..N : s[k] = Read(s[k - 1])
  BY ReachedFrom
<1> DEFINE A == [k \in 0..N |-> {r \in Rules : r.head \in s[k]}]
<1>3. \A k \in 1..N : A[k - 1] \subseteq A[k]
  <2> TAKE k \in 1..N
  <2>1. k \in 0..N /\ k - 1 \in 0..N /\ s[k - 1] \subseteq s[k]
    BY <1>1, <1>2 DEF Read
  <2> QED
    BY <2>1
<1>4. Passes(N, G, s)
  <2>1. \A k \in 1..N : k - 1 \in 0..N
    BY <1>1
  <2> QED
    BY <1>2, <2>1 DEF Passes
<1>5. \A k \in 0..N : Read(s[k]) = s[k] \cup UNION {r.cond : r \in A[k]}
  BY DEF Read, Bodies
<1>6. \A k \in 0..N : Read(s[k]) = s[k] => Read(Reached) = Reached
  <2> TAKE k \in 0..N
  <2> HAVE Read(s[k]) = s[k]
  <2>1. G[s[k]] = s[k]
    BY <1>2
  <2> HIDE DEF G, N
  <2>2. s[N] = s[k]
    BY <1>1, <1>4, <2>1, FixedStays
  <2> QED
    BY <1>2, <2>2
<1>7. (\E k \in 1..N : A[k] = A[k - 1]) \/ (A[0] = {} /\ A[N] = Rules)
  <2>1. \A k \in 0..N : A[k] \subseteq Rules
    OBVIOUS
  <2>2. IsFiniteSet(Rules) /\ Cardinality(Rules) <= N
    BY <1>1, TaskShape
  <2> HIDE DEF A
  <2> QED
    BY <1>1, <1>3, <2>1, <2>2, ChainStops
<1> HIDE DEF A, N, G
<1>8. ASSUME NEW k \in 1..N, A[k] = A[k - 1] PROVE Read(Reached) = Reached
  <2>1. k \in 0..N /\ k - 1 \in 0..N
    BY <1>1
  <2>2. s[k] = Read(s[k - 1])
    BY <1>2
  <2> DEFINE U == UNION {r.cond : r \in A[k]}
  <2>a. Read(s[k]) = s[k] \cup U
    BY <1>5, <2>1
  <2>b. Read(s[k - 1]) = s[k - 1] \cup U
    BY <1>5, <1>8, <2>1
  <2> HIDE DEF U
  <2>3. Read(s[k]) = s[k]
    BY <2>2, <2>a, <2>b
  <2> QED
    BY <1>6, <2>1, <2>3
<1>9. ASSUME A[0] = {} PROVE Read(Reached) = Reached
  <2>1. 0 \in 0..N
    BY <1>1
  <2>2. Read(s[0]) = s[0]
    BY <1>5, <1>9, <2>1
  <2> QED
    BY <1>6, <2>1, <2>2
<1> QED
  BY <1>7, <1>8, <1>9

-----------------------------------------------------------------------------
(* What the equation of a fact says of an action that can be applied.       *)

\* Two effects that fire together agree.
LEMMA FiringAgree ==
  ASSUME NEW a \in DOMAIN Op, NEW v, NEW z, Applicable(Op[a], z),
         NEW i \in Firing(Op[a], v, z), NEW j \in Firing(Op[a], v, z)
  PROVE  Op[a].effects[i].post = Op[a].effects[j].post
<1> SUFFICES ASSUME Op[a].effects[i].post # Op[a].effects[j].post PROVE FALSE
  OBVIOUS
<1> DEFINE e == Op[a].effects[i]
           d == Op[a].effects[j]
<1>1. e.var = d.var /\ e.post # d.post
  BY DEF Firing
<1>2. PICK f \in Op[a].prevail \cup e.cond \cup d.cond, h \in Op[a].prevail \cup e.cond \cup d.cond :
        f[1] = h[1] /\ f[2] # h[2]
  BY <1>1, OneValueAtOnce DEF Firing
<1>3. \A x \in Op[a].prevail \cup e.cond \cup d.cond : z[x[1]] = x[2]
  BY DEF Firing, Fires, Applicable, Holds
<1> HIDE DEF e, d
<1>4. z[f[1]] = f[2] /\ z[h[1]] = h[2]
  BY <1>2, <1>3
<1> QED
  BY <1>2, <1>4

\* What an equation says of the state before the action.
Says(eq, z, f) ==
  /\ \A c \in eq.dels : ~Holds(z, c)
  /\ (\E c \in eq.adds : Holds(z, c)) \/ (eq.keep /\ z[f[1]] = f[2])

LEMMA EquationMeans ==
  ASSUME NEW a \in DOMAIN Op, NEW f \in Facts, NEW z, Applicable(Op[a], z)
  PROVE  (Effects(Op[a], z)[f[1]] = f[2]) <=> Says(Equation(Op[a], f), z, f)
<1> DEFINE op == Op[a]
           S == Firing(op, f[1], z)
           adding == \E i \in S : op.effects[i].post = f[2]
           deleting == \E i \in S : op.effects[i].post # f[2]
<1>0. f[1] \in Vars
  BY DEF Facts
<1>1. ~(adding /\ deleting)
  BY FiringAgree
<1>2. adding <=> \E c \in Adds(op, f) : Holds(z, c)
  BY DEF Adds, Firing, Fires
<1>3. (\E c \in Dels(op, f) : Holds(z, c)) => deleting
  BY DEF Dels, Firing, Fires
<1>4. deleting => (\E c \in Dels(op, f) : Holds(z, c)) \/ z[f[1]] # f[2]
  <2> SUFFICES ASSUME NEW i \in S, op.effects[i].post # f[2],
                      ~\E c \in Dels(op, f) : Holds(z, c)
               PROVE  z[f[1]] # f[2]
    OBVIOUS
  <2> DEFINE e == op.effects[i]
  <2>1. i \in DOMAIN op.effects /\ e.var = f[1] /\ Holds(z, e.cond)
    BY DEF Firing, Fires
  <2>2. e.pre \notin {-1, f[2]}
    BY <2>1 DEF Dels
  <2>3. e.post \in Nat /\ <<e.var, e.post>> \in Facts
    <3>1. e \in Effect
      BY <2>1, TaskShape
    <3> QED
      BY <2>1, <3>1, TranslatedOperators DEF Effect
  <2>4. e.pre = -1 \/ <<e.var, e.pre>> \in op.prevail \/ (Dom[e.var] = 2 /\ e.pre = 1 - e.post)
    BY <2>1, TranslatedOperators
  <2>5. CASE <<e.var, e.pre>> \in op.prevail
    BY <2>1, <2>2, <2>5 DEF Applicable, Holds
  <2>6. CASE Dom[e.var] = 2 /\ e.pre = 1 - e.post
    <3>1. f[2] \in 0..10 /\ f[2] < 2 /\ e.post < 2
      BY <2>1, <2>3, <2>6 DEF Facts
    <3> HIDE DEF e
    <3>2. e.post \in {0, 1} /\ f[2] \in {0, 1} /\ f[2] # e.post /\ f[2] # 1 - e.post
      BY <2>2, <2>3, <2>6, <3>1 DEF e
    <3> QED
      BY <3>2
  <2> HIDE DEF e
  <2> QED
    BY <2>2, <2>4, <2>5, <2>6
<1>5. (Effects(op, z)[f[1]] = f[2]) <=> adding \/ (~deleting /\ z[f[1]] = f[2])
  <2>1. S = {} => Effects(op, z)[f[1]] = z[f[1]]
    BY <1>0, EffectsAre
  <2>2. S # {} => \E i \in S : Effects(op, z)[f[1]] = op.effects[i].post
    BY <1>0, EffectsAre
  <2>3. \A i, j \in S : op.effects[i].post = op.effects[j].post
    BY FiringAgree
  <2> HIDE DEF S, op
  <2> QED
    BY <2>1, <2>2, <2>3
<1> HIDE DEF adding, deleting, S
<1>6. Holds(z, {})
  BY DEF Holds
<1>7. CASE {} \in Dels(op, f)
  <2>1. deleting
    BY <1>3, <1>6, <1>7
  <2>2. ~Says(Equation(op, f), z, f)
    BY <1>6, <1>7 DEF Says, Equation, Always
  <2> QED
    BY <1>1, <1>5, <2>1, <2>2
<1>8. CASE {} \notin Dels(op, f) /\ {} \in Adds(op, f)
  <2>1. adding
    BY <1>2, <1>6, <1>8
  <2>2. Says(Equation(op, f), z, f)
    BY <1>1, <1>3, <1>6, <1>8, <2>1 DEF Says, Equation, Always
  <2> QED
    BY <1>5, <2>1, <2>2
<1>9. CASE {} \notin Dels(op, f) /\ {} \notin Adds(op, f)
  <2>1. Equation(op, f) = [adds |-> Adds(op, f), dels |-> Dels(op, f), keep |-> TRUE]
    BY <1>9 DEF Equation
  <2>2. Says(Equation(op, f), z, f)
        <=> /\ ~\E c \in Dels(op, f) : Holds(z, c)
            /\ (\E c \in Adds(op, f) : Holds(z, c)) \/ z[f[1]] = f[2]
    BY <2>1 DEF Says
  <2> QED
    BY <1>1, <1>2, <1>3, <1>4, <1>5, <2>2
<1> QED
  BY <1>7, <1>8, <1>9

-----------------------------------------------------------------------------
(* The timed facts of a finished formula.                                   *)

Ready == plan \in Seq(DOMAIN Op) /\ FormulaOf(plan, 0, equations, roots)

\* f is read at time t: by the goal and its axioms, or by a regressed layer.
Wanted(p, f, t) ==
  /\ f \in Facts
  /\ \/ t = Len(p) /\ f \in Reached
     \/ \E u \in 1..Len(p) : t = u - 1 /\ Fresh(p)[u] # {} /\ f \in Asked(Op[p[u]], Fresh(p)[u])

LEMMA LayerFacts ==
  ASSUME NEW p \in Seq(DOMAIN Op), NEW t \in 1..Len(p), NEW f \in Fresh(p)[t]
  PROVE  f \in Facts /\ ~IsDerived(f) /\ f = <<f[1], f[2]>>
<1>1. f \in Facts
  BY FreshIs, LayersAreFacts
<1>2. PICK u \in 0..Len(p) : Canonical(Points(p), f, u) = t
  <2>1. f \in LayerOf(p, Fresh(p), t) /\ Len(p) \in 0..Len(p)
    BY FreshAt
  <2>2. \A u \in (t + 1)..Len(p) : u - 1 \in 0..Len(p)
    OBVIOUS
  <2> QED
    BY <2>1, <2>2 DEF LayerOf, GoalsAt, AskedBy
<1>3. ~IsDerived(f)
  BY <1>1, <1>2, DerivedUnchanged
<1> QED
  BY <1>1, <1>3 DEF Facts

\* What a layer asks for is a fact of a base variable.
LEMMA AskedBase ==
  ASSUME NEW p \in Seq(DOMAIN Op), NEW t \in 1..Len(p), NEW f \in Asked(Op[p[t]], Fresh(p)[t])
  PROVE  f \in Facts /\ ~IsDerived(f)
<1> DEFINE op == Op[p[t]]
<1>0. p[t] \in DOMAIN Op
  OBVIOUS
<1>1. Fresh(p)[t] \in SUBSET Facts
  BY FreshIs, LayersAreFacts
<1>2. f \in Facts
  BY <1>0, <1>1, AskedFacts
<1>3. CASE f \in op.prevail
  BY <1>0, <1>2, <1>3, TranslatedOperators
<1>4. CASE \E h \in Fresh(p)[t] : f \in Needs(op, h)
  <2>1. PICK h \in Fresh(p)[t] : f \in Needs(op, h)
    BY <1>4
  <2>2. CASE f = h
    BY <1>2, <2>2, LayerFacts
  <2>3. CASE f # h
    <3>1. PICK c \in Equation(op, h).adds \cup Equation(op, h).dels : f \in c
      BY <2>1, <2>3 DEF Needs
    <3>2. c \in Adds(op, h) \cup Dels(op, h)
      BY <3>1 DEF Equation, Always
    <3>3. PICK i \in DOMAIN op.effects : c = op.effects[i].cond
      BY <3>2 DEF Adds, Dels
    <3> QED
      BY <1>0, <1>2, <3>1, <3>3, TranslatedOperators
  <2> QED
    BY <2>2, <2>3
<1> QED
  BY <1>3, <1>4 DEF Asked

\* A fact that is read is settled by the initial state or has an equation.
LEMMA WantedDefined ==
  ASSUME NEW p \in Seq(DOMAIN Op), NEW f, NEW t, Wanted(p, f, t), ~IsDerived(f)
  PROVE  /\ t \in 0..Len(p) /\ Canonical(Points(p), f, t) \in 0..t
         /\ Canonical(Points(p), f, t) # 0 => f \in Fresh(p)[Canonical(Points(p), f, t)]
<1> DEFINE c == Canonical(Points(p), f, t)
           n == Len(p)
<1>0. n \in Nat
  OBVIOUS
<1>1. t \in 0..n /\ f \in Facts
  BY <1>0 DEF Wanted
<1>2. c \in 0..t
  BY <1>1, CanonicalType
<1>3. ASSUME c # 0 PROVE f \in Fresh(p)[c]
  <2>1. c \in 1..n
    BY <1>1, <1>2, <1>3
  <2>2. Fresh(p)[c] = LayerOf(p, Fresh(p), c)
    BY <2>1, FreshAt
  <2>3. CASE t = n /\ f \in Reached
    <3>1. Bodies(f) = {}
      BY HeadsDerived
    <3>2. f \in GoalsAt(p, c)
      BY <2>3, <3>1 DEF GoalsAt, Undefined
    <3> QED
      BY <2>2, <3>2 DEF LayerOf
  <2>4. CASE \E u \in 1..n : t = u - 1 /\ Fresh(p)[u] # {} /\ f \in Asked(Op[p[u]], Fresh(p)[u])
    <3>1. PICK u \in 1..n : t = u - 1 /\ Fresh(p)[u] # {} /\ f \in Asked(Op[p[u]], Fresh(p)[u])
      BY <2>4
    <3>2. f \in AskedBy(p, Fresh(p), u, c)
      BY <3>1 DEF AskedBy
    <3>3. u \in (c + 1)..n
      BY <1>0, <1>2, <3>1
    <3> QED
      BY <2>2, <3>2, <3>3 DEF LayerOf
  <2> QED
    BY <2>3, <2>4 DEF Wanted
<1> QED
  BY <1>1, <1>2, <1>3

LEMMA DisjunctsAre ==
  \A eq, d : d \in Disjuncts(eq) <=> d \in eq.prev \/ \E c \in eq.adds \cup eq.dels : d \in c
<1> TAKE eq, d
<1> DEFINE A == eq.adds
           B == eq.dels
           C == eq.prev
<1>1. Disjuncts(eq) = C \cup UNION (A \cup B)
  BY DEF Disjuncts
<1> HIDE DEF A, B, C
<1>2. d \in Disjuncts(eq) <=> d \in C \/ \E c \in A \cup B : d \in c
  BY <1>1
<1> QED
  BY <1>2 DEF A, B, C

LEMMA LayerDisjuncts ==
  ASSUME Ready, NEW t \in 1..Len(plan), NEW f \in Fresh(plan)[t]
  PROVE  /\ <<f[1], f[2], t>> \in DOMAIN equations
         /\ equations[<<f[1], f[2], t>>] = LayerEquation(plan, f, t)
         /\ \A d \in Disjuncts(LayerEquation(plan, f, t)) :
              d \in Timely /\ \E h : Wanted(plan, h, t - 1) /\ ~IsDerived(h) /\ d = At(Points(plan), h, t - 1)
<1> DEFINE x == <<f[1], f[2], t>>
           op == Op[plan[t]]
           eq == Equation(op, f)
<1>1. t \in (0 + 1)..Len(plan) /\ plan \in Seq(DOMAIN Op)
  BY DEF Ready
<1>2. x \in DOMAIN equations
  BY <1>1 DEF Ready, FormulaOf, Defined, LayerDefined
<1>3. equations[x] = LayerEquation(plan, f, t)
  BY <1>1 DEF Ready, FormulaOf
<1>4. ASSUME NEW d \in Disjuncts(LayerEquation(plan, f, t))
      PROVE  d \in Timely /\ \E h : Wanted(plan, h, t - 1) /\ ~IsDerived(h) /\ d = At(Points(plan), h, t - 1)
  <2>1. d \in Timely
    BY <1>2, <1>3 DEF Timely
  <2>2. PICK h \in Needs(op, f) : d = At(Points(plan), h, t - 1)
    <3>1. CASE d \in LayerEquation(plan, f, t).prev
      <4>1. eq.keep /\ d = At(Points(plan), f, t - 1)
        BY <3>1 DEF LayerEquation, Timed
      <4> QED
        BY <4>1 DEF Needs
    <3>2. CASE \E c \in LayerEquation(plan, f, t).adds \cup LayerEquation(plan, f, t).dels : d \in c
      <4>1. PICK c \in eq.adds \cup eq.dels : d \in AllAt(Points(plan), c, t - 1)
        BY <3>2 DEF LayerEquation, Timed
      <4>2. PICK h \in c : d = At(Points(plan), h, t - 1)
        BY <4>1 DEF AllAt
      <4>3. {} \notin eq.dels
        BY <4>1, <4>2 DEF Equation, Always
      <4>4. h \in Needs(op, f)
        BY <4>1, <4>2, <4>3 DEF Needs
      <4> QED
        BY <4>2, <4>4
    <3>3. \/ d \in LayerEquation(plan, f, t).prev
          \/ \E c \in LayerEquation(plan, f, t).adds \cup LayerEquation(plan, f, t).dels : d \in c
      BY DisjunctsAre, Zenon
    <3> QED
      BY <3>1, <3>2, <3>3
  <2>3. h \in Asked(op, Fresh(plan)[t])
    BY <2>2 DEF Asked
  <2>4. h \in Facts /\ ~IsDerived(h)
    BY <1>1, <2>3, AskedBase
  <2>5. Wanted(plan, h, t - 1)
    BY <2>3, <2>4 DEF Wanted
  <2> QED
    BY <2>1, <2>2, <2>4, <2>5
<1> QED
  BY <1>2, <1>3, <1>4

\* The three kinds of timed facts: of a layer, of the initial state, and derived ones.
OfLayer(x) == \E t \in 1..Len(plan) : \E f \in Fresh(plan)[t] : x = <<f[1], f[2], t>>
OfStart(x) == \E f \in Facts : ~IsDerived(f) /\ x = <<f[1], f[2], 0>>
OfAxioms(x) == \E f \in Reached : f \in Facts /\ IsDerived(f) /\ x = <<f[1], f[2], 0>>

LEMMA WantedKinds ==
  ASSUME plan \in Seq(DOMAIN Op), NEW f, NEW t, Wanted(plan, f, t), NEW x, x = At(Points(plan), f, t)
  PROVE  OfLayer(x) \/ OfStart(x) \/ OfAxioms(x)
<1> DEFINE c == Canonical(Points(plan), f, t)
<1>0. x = <<f[1], f[2], c>> /\ f \in Facts
  BY DEF At, Wanted
<1>1. CASE IsDerived(f)
  <2>1. t = Len(plan) /\ f \in Reached
    BY <1>1, AskedBase DEF Wanted
  <2>2. c = 0
    BY <1>0, <1>1, <2>1, DerivedUnchanged
  <2> QED
    BY <1>0, <1>1, <2>1, <2>2 DEF OfAxioms
<1>2. CASE ~IsDerived(f)
  <2>1. t \in 0..Len(plan) /\ c \in 0..t /\ (c # 0 => f \in Fresh(plan)[c])
    BY <1>2, WantedDefined
  <2>2. CASE c = 0
    BY <1>0, <1>2, <2>2 DEF OfStart
  <2>3. CASE c # 0
    <3>1. c \in 1..Len(plan)
      BY <2>1, <2>3
    <3> QED
      BY <1>0, <2>1, <2>3, <3>1 DEF OfLayer
  <2> QED
    BY <2>2, <2>3
<1> QED
  BY <1>1, <1>2

LEMMA TimelyKinds ==
  ASSUME Ready, NEW x \in Timely
  PROVE  OfLayer(x) \/ OfStart(x) \/ OfAxioms(x)
<1> DEFINE n == Len(plan)
           P == Points(plan)
<1>0. plan \in Seq(DOMAIN Op) /\ n \in Nat
  BY DEF Ready
<1>1. \A f \in Reached : Wanted(plan, f, n)
  BY ReachedFacts DEF Wanted
<1>2. CASE x \in roots
  <2>1. x \in Roots(plan, 0)
    BY <1>2 DEF Ready, FormulaOf
  <2>2. CASE x \in AllAt(P, Goal, n)
    BY <1>0, <1>1, <2>2, ReachedFacts, WantedKinds DEF AllAt
  <2>3. CASE \E t \in (0 + 1)..n : x \in RootsOf(plan, t)
    <3>1. PICK t \in 1..n : x \in RootsOf(plan, t)
      BY <2>3
    <3>2. PICK f \in Op[plan[t]].prevail : x = At(P, f, t - 1) /\ Fresh(plan)[t] # {}
      BY <3>1 DEF RootsOf, AllAt
    <3>3. f \in Asked(Op[plan[t]], Fresh(plan)[t])
      BY DEF Asked
    <3>4. Wanted(plan, f, t - 1)
      BY <1>0, <3>2, <3>3, AskedBase DEF Wanted
    <3> QED
      BY <1>0, <3>2, <3>4, WantedKinds
  <2> QED
    BY <2>1, <2>2, <2>3 DEF Roots
<1>3. CASE x \in DOMAIN equations
  <2>1. x \in Defined(plan, 0)
    BY <1>3 DEF Ready, FormulaOf
  <2>2. CASE x \in AxiomDefined(plan)
    BY <1>0, <1>1, <2>2, WantedKinds DEF AxiomDefined, AllAt
  <2>3. CASE \E t \in (0 + 1)..n : x \in LayerDefined(plan, t)
    BY <2>3 DEF LayerDefined, OfLayer
  <2> QED
    BY <2>1, <2>2, <2>3 DEF Defined
<1>4. CASE \E y \in DOMAIN equations : x \in Disjuncts(equations[y])
  <2>1. PICK y \in DOMAIN equations : x \in Disjuncts(equations[y])
    BY <1>4
  <2>2. y \in Defined(plan, 0)
    BY DEF Ready, FormulaOf
  <2>3. CASE y \in AxiomDefined(plan)
    <3>1. equations[y] = AxiomEquation(plan, y)
      BY <2>3 DEF Ready, FormulaOf
    <3>2. PICK c \in Bodies(<<y[1], y[2]>>) : \E f \in c : x = At(P, f, n)
      BY <2>1, <3>1 DEF AxiomEquation, Disjuncts, AllAt
    <3>6. PICK f \in c : x = At(P, f, n)
      BY <3>2
    <3>3. PICK h \in Reached : h \in Facts /\ y = <<h[1], h[2], 0>>
      BY <1>0, <2>3, AxiomDefinedAtZero
    <3>4. h = <<y[1], y[2]>>
      BY <3>3 DEF Facts
    <3>5. f \in Reached
      BY <3>2, <3>3, <3>4, <3>6, ReachedClosed DEF Read
    <3> QED
      BY <1>0, <1>1, <3>5, <3>6, WantedKinds
  <2>4. CASE \E t \in (0 + 1)..n : y \in LayerDefined(plan, t)
    <3>1. PICK t \in 1..n : \E f \in Fresh(plan)[t] : y = <<f[1], f[2], t>>
      BY <2>4 DEF LayerDefined
    <3>3. PICK f \in Fresh(plan)[t] : y = <<f[1], f[2], t>>
      BY <3>1
    <3>2. PICK h : Wanted(plan, h, t - 1) /\ x = At(P, h, t - 1)
      BY <2>1, <3>3, LayerDisjuncts
    <3> QED
      BY <1>0, <3>2, WantedKinds
  <2> QED
    BY <2>2, <2>3, <2>4 DEF Defined
<1> QED
  BY <1>2, <1>3, <1>4 DEF Timely

\* Only derived facts are guessed.
LEMMA GuessedAre == Ready => Guessed = {x \in Timely : OfAxioms(x)}
<1> SUFFICES ASSUME Ready, NEW x \in Timely PROVE x \in Guessed <=> OfAxioms(x)
  BY DEF Guessed
<1>1. OfLayer(x) => x \in DOMAIN equations /\ ~IsDerived(x)
  <2> SUFFICES ASSUME NEW t \in 1..Len(plan), NEW f \in Fresh(plan)[t], x = <<f[1], f[2], t>>
               PROVE  x \in DOMAIN equations /\ ~IsDerived(x)
    BY DEF OfLayer
  <2>1. ~IsDerived(f)
    BY LayerFacts DEF Ready
  <2> QED
    BY <2>1, LayerDisjuncts DEF IsDerived
<1>2. OfStart(x) => InitialFact(x) /\ ~IsDerived(x)
  BY DEF OfStart, InitialFact, IsDerived
<1>3. OfAxioms(x) => IsDerived(x)
  BY DEF OfAxioms, IsDerived
<1> QED
  BY <1>1, <1>2, <1>3, TimelyKinds DEF Guessed

-----------------------------------------------------------------------------
(* Every initial state and every guess have a valuation.                    *)

\* The value of x, given those below it.
ValueOf(s, guess, val, x) ==
  IF x \in Guessed THEN guess[x]
  ELSE IF InitialFact(x) THEN s[x[1]] = x[2]
  ELSE Evaluate(equations[x], val)

IsValuation(s, guess, val) == val = [x \in Timely |-> ValueOf(s, guess, val, x)]

LEMMA EvaluateReads ==
  ASSUME NEW eq, NEW v, NEW w, \A d \in Disjuncts(eq) : v[d] = w[d]
  PROVE  Evaluate(eq, v) = Evaluate(eq, w)
<1>1. \A c \in eq.adds \cup eq.dels : \A x \in c : v[x] = w[x]
  BY DisjunctsAre
<1>2. \A x \in eq.prev : v[x] = w[x]
  BY DisjunctsAre
<1> QED
  BY <1>1, <1>2 DEF Evaluate

LEMMA EvaluateType == \A eq, v : Evaluate(eq, v) \in BOOLEAN
BY DEF Evaluate

LEMMA ValueType ==
  ASSUME NEW s, NEW guess \in [Guessed -> BOOLEAN], NEW v, NEW x
  PROVE  ValueOf(s, guess, v, x) \in BOOLEAN
BY EvaluateType DEF ValueOf

\* The times of timed facts, and what the equation of one of a layer reads is earlier.
LEMMA TimelyTime ==
  ASSUME Ready, NEW x \in Timely
  PROVE  x[3] \in 0..Len(plan)
<1>1. Len(plan) \in Nat
  BY DEF Ready
<1> QED
  BY <1>1, TimelyKinds DEF OfLayer, OfStart, OfAxioms

LEMMA EarlierDisjuncts ==
  ASSUME Ready, NEW x \in Timely, x \notin Guessed, ~InitialFact(x)
  PROVE  \A d \in Disjuncts(equations[x]) : d \in Timely /\ d[3] < x[3]
<1>1. OfLayer(x)
  BY TimelyKinds, GuessedAre DEF OfStart, InitialFact, IsDerived
<1>2. PICK t \in 1..Len(plan) : \E f \in Fresh(plan)[t] : x = <<f[1], f[2], t>>
  BY <1>1 DEF OfLayer
<1>3. PICK f \in Fresh(plan)[t] : x = <<f[1], f[2], t>>
  BY <1>2
<1>4. ASSUME NEW d \in Disjuncts(equations[x]) PROVE d \in Timely /\ d[3] < x[3]
  <2>1. equations[x] = LayerEquation(plan, f, t)
    BY <1>3, LayerDisjuncts
  <2>2. d \in Timely /\ \E h : Wanted(plan, h, t - 1) /\ ~IsDerived(h) /\ d = At(Points(plan), h, t - 1)
    BY <2>1, LayerDisjuncts
  <2>3. PICK h : Wanted(plan, h, t - 1) /\ ~IsDerived(h) /\ d = At(Points(plan), h, t - 1)
    BY <2>2
  <2>4. Canonical(Points(plan), h, t - 1) \in 0..(t - 1) /\ Len(plan) \in Nat
    BY <2>3, WantedDefined DEF Ready
  <2>5. d[3] = Canonical(Points(plan), h, t - 1) /\ x[3] = t
    BY <1>3, <2>3 DEF At
  <2> QED
    BY <2>2, <2>4, <2>5
<1> QED
  BY <1>4

\* After k + 1 rounds of evaluation what has time k or less stays.
Rounds(s, guess, N, w) == \A k \in 1..N : w[k] = [x \in Timely |-> ValueOf(s, guess, w[k - 1], x)]

LEMMA RoundsSettle ==
  ASSUME Ready, NEW s, NEW guess \in [Guessed -> BOOLEAN], NEW N \in Nat, NEW w,
         Rounds(s, guess, N, w)
  PROVE  \A x \in Timely : \A k \in (x[3] + 2)..N : w[k][x] = w[k - 1][x]
<1> DEFINE bad(x) == \E k \in (x[3] + 2)..N : w[k][x] # w[k - 1][x]
           T == {x[3] : x \in {y \in Timely : bad(y)}}
<1> SUFFICES ASSUME T # {} PROVE FALSE
  OBVIOUS
<1>1. T \in SUBSET Nat
  BY TimelyTime
<1> HIDE DEF T
<1>2. PICK m \in T : \A k \in T : m <= k
  BY <1>1, LeastOf
<1>3. PICK x \in Timely : bad(x) /\ x[3] = m
  BY <1>2 DEF T
<1>4. PICK k \in (x[3] + 2)..N : w[k][x] # w[k - 1][x]
  BY <1>3
<1> HIDE DEF bad
<1>5. m \in Nat /\ x[3] = m
  BY <1>1, <1>2, <1>3
<1>6. k \in 1..N /\ k - 1 \in 1..N /\ k - 1 - 1 \in 0..N
  BY <1>4, <1>5
<1>7. /\ w[k][x] = ValueOf(s, guess, w[k - 1], x)
      /\ w[k - 1][x] = ValueOf(s, guess, w[k - 1 - 1], x)
  BY <1>6 DEF Rounds
<1>8. x \notin Guessed /\ ~InitialFact(x)
  BY <1>4, <1>7 DEF ValueOf
<1>9. \A d \in Disjuncts(equations[x]) : w[k - 1][d] = w[k - 1 - 1][d]
  <2> TAKE d \in Disjuncts(equations[x])
  <2>1. d \in Timely /\ d[3] < m
    BY <1>5, <1>8, EarlierDisjuncts
  <2>2. d[3] \in Nat
    BY <2>1, TimelyTime
  <2>3. ~bad(d)
    <3> SUFFICES ASSUME bad(d) PROVE FALSE
      OBVIOUS
    <3>1. d[3] \in T
      BY <2>1 DEF T
    <3> QED
      BY <1>2, <1>5, <2>1, <2>2, <3>1
  <2>4. k - 1 \in (d[3] + 2)..N
    BY <1>4, <1>5, <1>6, <2>1, <2>2
  <2> QED
    BY <2>3, <2>4 DEF bad
<1>10. Evaluate(equations[x], w[k - 1]) = Evaluate(equations[x], w[k - 1 - 1])
  BY <1>9, EvaluateReads
<1> QED
  BY <1>4, <1>7, <1>8, <1>10 DEF ValueOf

LEMMA ValuationExists ==
  ASSUME Ready, NEW s, NEW guess \in [Guessed -> BOOLEAN]
  PROVE  \E val : IsValuation(s, guess, val)
<1> DEFINE X == [Timely -> BOOLEAN]
           N == Len(plan) + 2
           F == [y \in (1..N) \X X |-> [x \in Timely |-> ValueOf(s, guess, y[2], x)]]
           a == [x \in Timely |-> FALSE]
<1>1. N \in Nat /\ Len(plan) \in Nat
  BY DEF Ready
<1>2. a \in X
  OBVIOUS
<1>3. \A v : [x \in Timely |-> ValueOf(s, guess, v, x)] \in X
  BY ValueType
<1>4. F \in [(1..N) \X X -> X]
  BY <1>3
<1>5. \A k \in 1..N, v \in X : F[<<k, v>>] = [x \in Timely |-> ValueOf(s, guess, v, x)]
  OBVIOUS
<1> HIDE DEF X, F, a
<1>6. PICK w : Iteration(N, X, a, F, w)
  BY <1>1, <1>2, <1>4, IterationExists
<1>7. Rounds(s, guess, N, w)
  <2> SUFFICES ASSUME NEW k \in 1..N PROVE w[k] = [x \in Timely |-> ValueOf(s, guess, w[k - 1], x)]
    BY DEF Rounds
  <2>1. k - 1 \in 0..N
    BY <1>1
  <2>2. w[k - 1] \in X /\ w[k] = F[<<k, w[k - 1]>>]
    BY <1>6, <2>1 DEF Iteration
  <2> QED
    BY <1>5, <2>2
<1>8. \A x \in Timely : \A k \in (x[3] + 2)..N : w[k][x] = w[k - 1][x]
  BY <1>1, <1>7, RoundsSettle
<1>9. N - 1 \in 1..N /\ N - 1 \in 0..N /\ N \in 1..N
  BY <1>1
<1>10. \A x \in Timely : w[N][x] = w[N - 1][x]
  <2> TAKE x \in Timely
  <2>1. x[3] \in 0..Len(plan)
    BY TimelyTime
  <2>2. N \in (x[3] + 2)..N
    BY <1>1, <2>1
  <2> QED
    BY <1>8, <2>2
<1>11. w[N] = [x \in Timely |-> ValueOf(s, guess, w[N - 1], x)]
  BY <1>7, <1>9 DEF Rounds
<1>12. w[N - 1] = [x \in Timely |-> ValueOf(s, guess, w[N - 1 - 1], x)]
  BY <1>7, <1>9 DEF Rounds
<1>13. w[N] = w[N - 1]
  BY <1>10, <1>11, <1>12
<1> QED
  BY <1>11, <1>13 DEF IsValuation

LEMMA ValuationIs ==
  ASSUME Ready, NEW s, NEW guess \in [Guessed -> BOOLEAN]
  PROVE  IsValuation(s, guess, Valuation(s, guess))
<1> DEFINE E(val) == [x \in Timely |-> IF x \in Guessed THEN guess[x]
                                       ELSE IF InitialFact(x) THEN s[x[1]] = x[2]
                                       ELSE Evaluate(equations[x], val)]
<1>1. \A val : IsValuation(s, guess, val) <=> val = E(val)
  BY DEF IsValuation, ValueOf
<1>2. Valuation(s, guess) = CHOOSE val : val = E(val)
  BY DEF Valuation
<1> HIDE DEF E
<1> QED
  BY <1>1, <1>2, ValuationExists

\* A trace of a plan: every action is applied or left out.
IsTrace(p, s, T) ==
  /\ T[0] = Closure(s)
  /\ \A t \in 1..Len(p) : T[t] = T[t - 1] \/ T[t] = Apply(Op[p[t]], T[t - 1])

LEMMA FollowsTrace == \A p, s, T : Follows(p, s, T) => IsTrace(p, s, T)
BY DEF Follows, IsTrace

LEMMA SkipsTrace == \A p, s, T : Skips(p, s, T) => IsTrace(p, s, T)
BY DEF Skips, Skip, IsTrace

\* A base variable changes only where the plan can change it.
LEMMA FactKeeps ==
  ASSUME NEW p \in Seq(DOMAIN Op), NEW s, NEW T, IsTrace(p, s, T),
         NEW f \in Facts, ~IsDerived(f), NEW t \in 0..Len(p)
  PROVE  T[t][f[1]] = T[Canonical(Points(p), f, t)][f[1]]
<1> DEFINE c == Canonical(Points(p), f, t)
           v == f[1]
           S == {x \in c..t : T[x][v] # T[c][v]}
<1>0. v \in Vars /\ v \notin Derived
  BY DEF Facts, IsDerived
<1>1. LastChange(p, v, t, c)
  BY CanonicalIs
<1> HIDE DEF c, v
<1>2. c \in 0..t /\ t \in c..t
  BY <1>1 DEF LastChange
<1>3. S = {}
  <2> SUFFICES ASSUME S # {} PROVE FALSE
    OBVIOUS
  <2>1. S \in SUBSET Nat
    BY <1>2
  <2> HIDE DEF S
  <2>2. PICK m \in S : \A k \in S : m <= k
    BY <2>1, LeastOf
  <2>3. m \in c..t /\ T[m][v] # T[c][v]
    BY <2>2 DEF S
  <2>4. m # c
    BY <2>3
  <2>5. m - 1 \in c..t /\ ~(m <= m - 1) /\ m \in 1..Len(p) /\ ~(m <= c) /\ m <= t
    BY <1>2, <2>3, <2>4
  <2>6. T[m - 1][v] = T[c][v]
    BY <2>2, <2>5 DEF S
  <2>7. v \notin Changed(Op[p[m]])
    BY <1>1, <2>5 DEF LastChange
  <2>8. p[m] \in DOMAIN Op
    BY <2>5
  <2>9. Apply(Op[p[m]], T[m - 1])[v] = T[m - 1][v]
    <3>1. Firing(Op[p[m]], v, T[m - 1]) = {}
      BY <2>7 DEF Firing, Changed
    <3>2. Effects(Op[p[m]], T[m - 1])[v] = T[m - 1][v]
      BY <1>0, <2>8, <3>1, EffectsAre
    <3> QED
      BY <1>0, <3>2, ClosureBase DEF Apply
  <2>10. T[m] = T[m - 1] \/ T[m] = Apply(Op[p[m]], T[m - 1])
    BY <2>5 DEF IsTrace
  <2> QED
    BY <2>3, <2>6, <2>9, <2>10
<1> QED
  BY <1>2, <1>3 DEF c, v

-----------------------------------------------------------------------------
(* The values of a valuation are what holds along the plan, as long as the  *)
(* actions somebody asks a fact of are applied.                             *)

AgreesUpTo(val, T, m) ==
  \A t \in 1..m : \A f \in Fresh(plan)[t] : val[<<f[1], f[2], t>>] <=> T[t][f[1]] = f[2]

LEMMA ReadsAgree ==
  ASSUME Ready, NEW s, NEW guess, NEW val, IsValuation(s, guess, val),
         NEW T, IsTrace(plan, s, T), NEW m, AgreesUpTo(val, T, m),
         NEW f, NEW t, Wanted(plan, f, t), ~IsDerived(f), t \in 0..m, m \in 0..Len(plan),
         NEW x, x = At(Points(plan), f, t), x \in Timely
  PROVE  val[x] <=> T[t][f[1]] = f[2]
<1> DEFINE c == Canonical(Points(plan), f, t)
<1>1. x = <<f[1], f[2], c>> /\ f \in Facts /\ t \in 0..Len(plan) /\ plan \in Seq(DOMAIN Op)
  BY DEF At, Wanted, Ready
<1>2. c \in 0..t /\ (c # 0 => f \in Fresh(plan)[c])
  BY <1>1, WantedDefined
<1>3. T[t][f[1]] = T[c][f[1]]
  BY <1>1, FactKeeps
<1> HIDE DEF c
<1>4. CASE c = 0
  <2>1. x \notin Guessed /\ InitialFact(x)
    BY <1>1, <1>4, GuessedAre DEF OfAxioms, InitialFact, IsDerived
  <2>2. val[x] = (s[f[1]] = f[2])
    BY <1>1, <2>1 DEF IsValuation, ValueOf
  <2>3. T[0][f[1]] = s[f[1]]
    BY <1>1, ClosureBase DEF IsTrace, Facts, IsDerived
  <2> QED
    BY <1>3, <1>4, <2>2, <2>3
<1>5. CASE c # 0
  <2>1. c \in 1..m
    BY <1>2, <1>5
  <2>2. val[x] <=> T[c][f[1]] = f[2]
    BY <1>1, <1>2, <1>5, <2>1 DEF AgreesUpTo
  <2> QED
    BY <1>3, <2>2
<1> QED
  BY <1>4, <1>5

LEMMA LayerValue ==
  ASSUME Ready, NEW s, NEW guess, NEW val, IsValuation(s, guess, val),
         NEW t \in 1..Len(plan), NEW f \in Fresh(plan)[t]
  PROVE  val[<<f[1], f[2], t>>] = Evaluate(LayerEquation(plan, f, t), val)
<1> DEFINE x == <<f[1], f[2], t>>
<1>1. x \in DOMAIN equations /\ equations[x] = LayerEquation(plan, f, t)
  BY LayerDisjuncts
<1>2. ~IsDerived(f)
  BY LayerFacts DEF Ready
<1>3. x \in Timely /\ x \notin Guessed /\ ~InitialFact(x)
  BY <1>1, <1>2, GuessedAre DEF Timely, OfAxioms, InitialFact, IsDerived
<1> QED
  BY <1>1, <1>3 DEF IsValuation, ValueOf

\* The values of timed conditions, where their facts have the values they have in z.
ReadIn(val, z, D) == \A d \in D : val[d] <=> z[d[1]] = d[2]

LEMMA TimedSays ==
  ASSUME NEW pts, NEW eq, NEW f, NEW t, NEW val, NEW z, ReadIn(val, z, Disjuncts(Timed(pts, eq, f, t)))
  PROVE  Evaluate(Timed(pts, eq, f, t), val) <=> Says(eq, z, f)
<1> DEFINE e == Timed(pts, eq, f, t)
<1>1. ASSUME NEW c \in eq.adds \cup eq.dels
      PROVE  \A h \in c : val[At(pts, h, t)] <=> z[h[1]] = h[2]
  <2> TAKE h \in c
  <2>1. At(pts, h, t) \in AllAt(pts, c, t)
    BY DEF AllAt
  <2>2. AllAt(pts, c, t) \in e.adds \cup e.dels
    BY <1>1 DEF Timed
  <2>3. At(pts, h, t) \in Disjuncts(e)
    BY <2>1, <2>2, DisjunctsAre
  <2> QED
    BY <2>3 DEF ReadIn, At
<1>2. \A c \in eq.adds \cup eq.dels : (\A x \in AllAt(pts, c, t) : val[x]) <=> Holds(z, c)
  BY <1>1 DEF AllAt, Holds
<1>3. (\A c \in e.dels : \E x \in c : ~val[x]) <=> \A c \in eq.dels : ~Holds(z, c)
  <2>1. e.dels = {AllAt(pts, c, t) : c \in eq.dels}
    BY DEF Timed
  <2> HIDE DEF e
  <2>2. (\A c \in e.dels : \E x \in c : ~val[x]) <=> \A c \in eq.dels : \E x \in AllAt(pts, c, t) : ~val[x]
    BY <2>1
  <2> QED
    BY <1>2, <2>2
<1>4. (\E c \in e.adds : \A x \in c : val[x]) <=> \E c \in eq.adds : Holds(z, c)
  <2>1. e.adds = {AllAt(pts, c, t) : c \in eq.adds}
    BY DEF Timed
  <2> HIDE DEF e
  <2>2. (\E c \in e.adds : \A x \in c : val[x]) <=> \E c \in eq.adds : \A x \in AllAt(pts, c, t) : val[x]
    BY <2>1
  <2> QED
    BY <1>2, <2>2
<1>5. (\E x \in e.prev : val[x]) <=> (eq.keep /\ z[f[1]] = f[2])
  <2>1. e.prev = IF eq.keep THEN {At(pts, f, t)} ELSE {}
    BY DEF Timed
  <2>2. eq.keep => (val[At(pts, f, t)] <=> z[f[1]] = f[2])
    <3> SUFFICES ASSUME eq.keep PROVE val[At(pts, f, t)] <=> z[f[1]] = f[2]
      OBVIOUS
    <3>1. At(pts, f, t) \in e.prev
      BY <2>1
    <3>2. At(pts, f, t) \in Disjuncts(e)
      BY <3>1, DisjunctsAre
    <3> QED
      BY <3>2 DEF ReadIn, At
  <2> HIDE DEF e
  <2> QED
    BY <2>1, <2>2
<1> HIDE DEF e
<1>6. Evaluate(e, val) <=> Says(eq, z, f)
  BY <1>3, <1>4, <1>5 DEF Evaluate, Says
<1> QED
  BY <1>6 DEF e

LEMMA StepAgrees ==
  ASSUME Ready, NEW s, NEW guess, NEW val, IsValuation(s, guess, val),
         NEW T, IsTrace(plan, s, T), NEW t \in 1..Len(plan), AgreesUpTo(val, T, t - 1),
         Applicable(Op[plan[t]], T[t - 1]), T[t] = Apply(Op[plan[t]], T[t - 1]),
         NEW f \in Fresh(plan)[t]
  PROVE  val[<<f[1], f[2], t>>] <=> T[t][f[1]] = f[2]
<1> DEFINE op == Op[plan[t]]
           z == T[t - 1]
<1>1. plan \in Seq(DOMAIN Op) /\ plan[t] \in DOMAIN Op /\ t - 1 \in 0..(t - 1) /\ t - 1 \in 0..Len(plan)
  BY DEF Ready
<1>2. f \in Facts /\ ~IsDerived(f)
  BY <1>1, LayerFacts
<1>3. ReadIn(val, z, Disjuncts(LayerEquation(plan, f, t)))
  <2> SUFFICES ASSUME NEW d \in Disjuncts(LayerEquation(plan, f, t)) PROVE val[d] <=> z[d[1]] = d[2]
    BY DEF ReadIn
  <2>1. d \in Timely /\ \E h : Wanted(plan, h, t - 1) /\ ~IsDerived(h) /\ d = At(Points(plan), h, t - 1)
    BY LayerDisjuncts
  <2>2. PICK h : Wanted(plan, h, t - 1) /\ ~IsDerived(h) /\ d = At(Points(plan), h, t - 1)
    BY <2>1
  <2>3. val[d] <=> T[t - 1][h[1]] = h[2]
    BY <1>1, <2>1, <2>2, ReadsAgree
  <2> QED
    BY <2>2, <2>3 DEF At
<1>4. Evaluate(LayerEquation(plan, f, t), val) <=> Says(Equation(op, f), z, f)
  BY <1>3, TimedSays DEF LayerEquation
<1>5. (Effects(op, z)[f[1]] = f[2]) <=> Says(Equation(op, f), z, f)
  BY <1>1, <1>2, EquationMeans
<1>6. T[t][f[1]] = Effects(op, z)[f[1]]
  BY <1>2, ClosureBase DEF Apply, Facts, IsDerived
<1>7. val[<<f[1], f[2], t>>] = Evaluate(LayerEquation(plan, f, t), val)
  BY LayerValue
<1> QED
  BY <1>4, <1>5, <1>6, <1>7

\* Asked-for actions are applied, and can be.
Carried(val, T) ==
  \A t \in 1..Len(plan) : Fresh(plan)[t] # {} /\ AgreesUpTo(val, T, t - 1) =>
    Applicable(Op[plan[t]], T[t - 1]) /\ T[t] = Apply(Op[plan[t]], T[t - 1])

LEMMA TraceAgrees ==
  ASSUME Ready, NEW s, NEW guess, NEW val, IsValuation(s, guess, val),
         NEW T, IsTrace(plan, s, T), Carried(val, T)
  PROVE  AgreesUpTo(val, T, Len(plan))
<1> DEFINE S == {t \in 1..Len(plan) : \E f \in Fresh(plan)[t] : ~(val[<<f[1], f[2], t>>] <=> T[t][f[1]] = f[2])}
<1>1. S = {}
  <2> SUFFICES ASSUME S # {} PROVE FALSE
    OBVIOUS
  <2>1. S \in SUBSET Nat
    OBVIOUS
  <2> HIDE DEF S
  <2>2. PICK m \in S : \A k \in S : m <= k
    BY <2>1, LeastOf
  <2>3. m \in 1..Len(plan) /\ \E f \in Fresh(plan)[m] : ~(val[<<f[1], f[2], m>>] <=> T[m][f[1]] = f[2])
    BY <2>2 DEF S
  <2>4. PICK f \in Fresh(plan)[m] : ~(val[<<f[1], f[2], m>>] <=> T[m][f[1]] = f[2])
    BY <2>3
  <2>5. AgreesUpTo(val, T, m - 1)
    <3> SUFFICES ASSUME NEW k \in 1..(m - 1), NEW h \in Fresh(plan)[k],
                        ~(val[<<h[1], h[2], k>>] <=> T[k][h[1]] = h[2])
                 PROVE  FALSE
      BY DEF AgreesUpTo
    <3>1. k \in 1..Len(plan) /\ ~(m <= k)
      BY <2>3
    <3>2. k \in S
      BY <3>1 DEF S
    <3> QED
      BY <2>2, <3>1, <3>2
  <2>6. Applicable(Op[plan[m]], T[m - 1]) /\ T[m] = Apply(Op[plan[m]], T[m - 1])
    BY <2>3, <2>5 DEF Carried
  <2>7. val[<<f[1], f[2], m>>] <=> T[m][f[1]] = f[2]
    BY <2>3, <2>5, <2>6, StepAgrees
  <2> QED
    BY <2>4, <2>7
<1> QED
  BY <1>1 DEF AgreesUpTo

-----------------------------------------------------------------------------
(* The derived facts of the goal.                                           *)

\* Nothing the goal reads, through all axioms, is the default of a derived variable.
PositiveGoal == \A f \in Reached : IsDerived(f) => f[2] # Default[f[1]]

LEMMA TraceClosed ==
  ASSUME NEW p \in Seq(DOMAIN Op), NEW s, NEW T, IsTrace(p, s, T)
  PROVE  \A t \in 0..Len(p) : \E y : T[t] = Closure(y)
<1> DEFINE S == {t \in 0..Len(p) : ~\E y : T[t] = Closure(y)}
<1> SUFFICES ASSUME S # {} PROVE FALSE
  OBVIOUS
<1>1. S \in SUBSET Nat
  OBVIOUS
<1> HIDE DEF S
<1>2. PICK m \in S : \A k \in S : m <= k
  BY <1>1, LeastOf
<1>3. m \in 0..Len(p) /\ ~\E y : T[m] = Closure(y)
  BY <1>2 DEF S
<1>4. m # 0
  BY <1>3 DEF IsTrace
<1>5. m \in 1..Len(p) /\ m - 1 \in 0..Len(p) /\ ~(m <= m - 1)
  BY <1>3, <1>4
<1>6. PICK y : T[m - 1] = Closure(y)
  BY <1>2, <1>5 DEF S
<1>7. T[m] = T[m - 1] \/ T[m] = Closure(Effects(Op[p[m]], T[m - 1]))
  BY <1>5 DEF IsTrace, Apply
<1> QED
  BY <1>3, <1>6, <1>7

LEMMA DerivedAt ==
  ASSUME plan \in Seq(DOMAIN Op), NEW f \in Facts, IsDerived(f)
  PROVE  At(Points(plan), f, Len(plan)) = <<f[1], f[2], 0>>
BY DerivedUnchanged DEF At

\* A fact that axioms define, and what its equation says.
LEMMA AxiomTimely ==
  ASSUME Ready, NEW h \in Reached, Bodies(h) # {}
  PROVE  /\ <<h[1], h[2], 0>> \in Guessed \cap DOMAIN equations
         /\ \A c \in Bodies(h) : \A g \in c :
              g \in Reached /\ g \in Facts /\ At(Points(plan), g, Len(plan)) \in Timely
         /\ \A val : Evaluate(equations[<<h[1], h[2], 0>>], val)
                       <=> \E c \in Bodies(h) : \A g \in c : val[At(Points(plan), g, Len(plan))]
<1> DEFINE x == <<h[1], h[2], 0>>
           P == Points(plan)
           n == Len(plan)
<1>0. plan \in Seq(DOMAIN Op) /\ h \in Facts /\ IsDerived(h) /\ h = <<h[1], h[2]>>
  BY HeadsDerived DEF Ready, Facts
<1>1. x \in AxiomDefined(plan)
  <2>1. At(P, h, n) = x
    BY <1>0, DerivedAt
  <2> QED
    BY <2>1 DEF AxiomDefined, AllAt, Undefined
<1>2. x \in DOMAIN equations /\ equations[x] = AxiomEquation(plan, x)
  BY <1>1 DEF Ready, FormulaOf, Defined
<1>3. x \in Guessed
  BY <1>0, <1>2, GuessedAre DEF Timely, OfAxioms
<1>4. equations[x] = [adds |-> {AllAt(P, c, n) : c \in Bodies(h)}, dels |-> {}, prev |-> {}]
  BY <1>0, <1>2 DEF AxiomEquation
<1>5. ASSUME NEW c \in Bodies(h), NEW g \in c
      PROVE  g \in Reached /\ g \in Facts /\ At(P, g, n) \in Timely
  <2>1. g \in Reached
    BY ReachedClosed DEF Read
  <2>2. AllAt(P, c, n) \in equations[x].adds /\ At(P, g, n) \in AllAt(P, c, n)
    BY <1>4 DEF AllAt
  <2>3. At(P, g, n) \in Disjuncts(equations[x])
    BY <2>2, DisjunctsAre
  <2> QED
    BY <1>2, <2>1, <2>3, ReachedFacts DEF Timely
<1>6. ASSUME NEW val
      PROVE  Evaluate(equations[x], val) <=> \E c \in Bodies(h) : \A g \in c : val[At(P, g, n)]
  <2>0. /\ equations[x].adds = {AllAt(P, c, n) : c \in Bodies(h)}
        /\ equations[x].dels = {} /\ equations[x].prev = {}
    BY <1>4
  <2> HIDE DEF x
  <2>1. Evaluate(equations[x], val)
          <=> \E d \in equations[x].adds : \A z \in d : val[z]
    BY <2>0 DEF Evaluate
  <2>a. (\E d \in equations[x].adds : \A z \in d : val[z])
          <=> \E c \in Bodies(h) : \A z \in AllAt(P, c, n) : val[z]
    BY <2>0
  <2>b. ASSUME NEW c \in Bodies(h)
        PROVE  (\A z \in AllAt(P, c, n) : val[z]) <=> \A g \in c : val[At(P, g, n)]
    BY DEF AllAt
  <2> QED
    BY <2>1, <2>a, <2>b
<1> QED
  BY <1>2, <1>3, <1>5, <1>6

\* A base fact the goal reads has its value in the last state.
LEMMA LastAgrees ==
  ASSUME Ready, NEW s, NEW guess, NEW val, IsValuation(s, guess, val),
         NEW T, IsTrace(plan, s, T), AgreesUpTo(val, T, Len(plan)),
         NEW f \in Reached, ~IsDerived(f), At(Points(plan), f, Len(plan)) \in Timely
  PROVE  val[At(Points(plan), f, Len(plan))] <=> T[Len(plan)][f[1]] = f[2]
<1>1. Len(plan) \in 0..Len(plan)
  BY DEF Ready
<1>2. Wanted(plan, f, Len(plan))
  BY ReachedFacts DEF Wanted
<1> QED
  BY <1>1, <1>2, ReadsAgree

Consistent(val) == \A x \in Guessed \cap DOMAIN equations : val[x] = Evaluate(equations[x], val)

\* What the axioms deduce in the last state is true in every model.
LEMMA DeducedTrue ==
  ASSUME PositiveGoal, Ready, NEW s, NEW guess, NEW val, IsValuation(s, guess, val), Consistent(val),
         NEW T, IsTrace(plan, s, T), AgreesUpTo(val, T, Len(plan)),
         NEW y, T[Len(plan)] = Closure(y)
  PROVE  \A h \in DeducedUpTo(y) : h \in Reached => val[<<h[1], h[2], 0>>]
<1> DEFINE n == Len(plan)
           P == Points(plan)
           Q == {h \in Heads : h \in Reached => val[<<h[1], h[2], 0>>]}
<1>1. ASSUME NEW D \in SUBSET Q, NEW r \in Rules, \A c \in r.cond : IsRead(y, D, c)
      PROVE  r.head \in Q
  <2> SUFFICES ASSUME r.head \in Reached PROVE val[<<r.head[1], r.head[2], 0>>]
    BY DEF Heads
  <2> DEFINE x == <<r.head[1], r.head[2], 0>>
  <2>1. r.cond \in Bodies(r.head)
    BY DEF Bodies
  <2>2. x \in Guessed \cap DOMAIN equations
    BY <2>1, AxiomTimely
  <2>3. ASSUME NEW g \in r.cond PROVE val[At(P, g, n)]
    <3>1. g \in Reached /\ g \in Facts /\ At(P, g, n) \in Timely
      BY <2>1, AxiomTimely
    <3>2. CASE IsDerived(g)
      <4>1. g \in D
        BY <1>1, <3>1, <3>2 DEF IsRead, PositiveGoal
      <4>2. val[<<g[1], g[2], 0>>]
        BY <3>1, <4>1
      <4>3. At(P, g, n) = <<g[1], g[2], 0>>
        BY <3>1, <3>2, DerivedAt DEF Ready
      <4> QED
        BY <4>2, <4>3
    <3>3. CASE ~IsDerived(g)
      <4>1. y[g[1]] = g[2]
        BY <1>1, <3>3 DEF IsRead
      <4>2. T[n][g[1]] = g[2]
        BY <3>1, <3>3, <4>1, ClosureBase DEF Facts, IsDerived
      <4> QED
        BY <3>1, <3>3, <4>2, LastAgrees
    <3> QED
      BY <3>2, <3>3
  <2>4. Evaluate(equations[x], val)
    BY <2>1, <2>3, AxiomTimely
  <2> QED
    BY <2>2, <2>4 DEF Consistent
<1>2. \A l \in 0..Cardinality(Derived) : Keeps(y, l, Q)
  BY <1>1 DEF Keeps, Deduced
<1>3. DeducedUpTo(y) \subseteq Q
  <2> HIDE DEF Q
  <2> QED
    BY <1>2, DeducedWithin
<1> QED
  BY <1>3

LEMMA RootsAre ==
  ASSUME Ready, NEW x \in roots
  PROVE  \/ \E f \in Goal : x = At(Points(plan), f, Len(plan))
         \/ \E t \in 1..Len(plan) : Fresh(plan)[t] # {} /\ \E f \in Op[plan[t]].prevail : x = At(Points(plan), f, t - 1)
<1>1. x \in Roots(plan, 0)
  BY DEF Ready, FormulaOf
<1> QED
  BY <1>1 DEF Roots, RootsOf, AllAt

LEMMA PrevailWanted ==
  ASSUME Ready, NEW t \in 1..Len(plan), Fresh(plan)[t] # {}, NEW f \in Op[plan[t]].prevail
  PROVE  Wanted(plan, f, t - 1) /\ ~IsDerived(f) /\ At(Points(plan), f, t - 1) \in roots
<1>1. f \in Asked(Op[plan[t]], Fresh(plan)[t])
  BY DEF Asked
<1>2. Wanted(plan, f, t - 1) /\ ~IsDerived(f)
  BY <1>1, AskedBase DEF Ready, Wanted
<1>3. At(Points(plan), f, t - 1) \in RootsOf(plan, t)
  BY DEF RootsOf, AllAt
<1>4. t \in (0 + 1)..Len(plan)
  OBVIOUS
<1>5. At(Points(plan), f, t - 1) \in Roots(plan, 0)
  BY <1>3, <1>4 DEF Roots
<1> QED
  BY <1>2, <1>5 DEF Ready, FormulaOf

\* On the initial state of a model the plan fails.
LEMMA ModelFails ==
  ASSUME PositiveGoal, Ready, NEW s \in State, NEW guess \in [Guessed -> BOOLEAN],
         Satisfies(Valuation(s, guess))
  PROVE  ~Executes(plan, s, Goal)
<1> SUFFICES ASSUME Executes(plan, s, Goal) PROVE FALSE
  OBVIOUS
<1> DEFINE val == Valuation(s, guess)
           n == Len(plan)
           P == Points(plan)
<1>0. plan \in Seq(DOMAIN Op) /\ n \in Nat
  BY DEF Ready
<1>1. IsValuation(s, guess, val)
  BY ValuationIs
<1>2. Consistent(val) /\ \E x \in roots : ~val[x]
  BY DEF Satisfies, Consistent
<1> HIDE DEF val
<1>3. PICK T : Follows(plan, s, T) /\ \A k \in 0..n : After(plan, s, k) = T[k]
  BY <1>0, AfterFollows
<1>4. IsTrace(plan, s, T)
  BY <1>3, FollowsTrace
<1>5. \A t \in 1..n : Applicable(Op[plan[t]], T[t - 1]) /\ T[t] = Apply(Op[plan[t]], T[t - 1])
  <2> TAKE t \in 1..n
  <2>1. t \in DOMAIN plan /\ t - 1 \in 0..n
    BY <1>0
  <2> QED
    BY <1>3, <2>1 DEF Executes, Follows
<1>6. Holds(T[n], Goal)
  BY <1>0, <1>3 DEF Executes
<1>7. Carried(val, T)
  BY <1>5 DEF Carried
<1>8. AgreesUpTo(val, T, n)
  BY <1>1, <1>4, <1>7, TraceAgrees
<1>9. PICK x \in roots : ~val[x]
  BY <1>2
<1>10. x \in Timely
  BY DEF Timely
<1>11. CASE \E t \in 1..n : Fresh(plan)[t] # {} /\ \E f \in Op[plan[t]].prevail : x = At(P, f, t - 1)
  <2>1. PICK t \in 1..n : Fresh(plan)[t] # {} /\ \E f \in Op[plan[t]].prevail : x = At(P, f, t - 1)
    BY <1>11
  <2>2. PICK f \in Op[plan[t]].prevail : x = At(P, f, t - 1)
    BY <2>1
  <2>3. Wanted(plan, f, t - 1) /\ ~IsDerived(f)
    BY <2>1, PrevailWanted
  <2>4. t - 1 \in 0..n /\ n \in 0..n
    BY <1>0
  <2>5. val[x] <=> T[t - 1][f[1]] = f[2]
    BY <1>1, <1>4, <1>8, <1>10, <2>2, <2>3, <2>4, ReadsAgree
  <2> QED
    BY <1>5, <1>9, <2>5 DEF Applicable, Holds
<1>12. CASE \E f \in Goal : x = At(P, f, n)
  <2>1. PICK f \in Goal : x = At(P, f, n)
    BY <1>12
  <2>2. f \in Reached /\ f \in Facts /\ T[n][f[1]] = f[2]
    BY <1>6, ReachedFacts DEF Holds
  <2>3. CASE ~IsDerived(f)
    BY <1>1, <1>4, <1>8, <1>9, <1>10, <2>1, <2>2, <2>3, LastAgrees
  <2>4. CASE IsDerived(f)
    <3>1. n \in 0..n
      BY <1>0
    <3>2. PICK y : T[n] = Closure(y)
      BY <1>0, <1>4, <3>1, TraceClosed
    <3>3. IsRead(y, DeducedUpTo(y), <<f[1], Closure(y)[f[1]]>>) /\ f = <<f[1], Closure(y)[f[1]]>>
      BY <2>2, <2>4, <3>2, ClosureReads DEF IsDerived, Facts
    <3>4. f \in DeducedUpTo(y)
      BY <2>2, <2>4, <3>3 DEF IsRead, PositiveGoal
    <3>5. val[<<f[1], f[2], 0>>]
      BY <1>1, <1>2, <1>4, <1>8, <2>2, <3>2, <3>4, DeducedTrue
    <3>6. x = <<f[1], f[2], 0>>
      BY <1>0, <2>1, <2>2, <2>4, DerivedAt
    <3> QED
      BY <1>9, <3>5, <3>6
  <2> QED
    BY <2>3, <2>4
<1> QED
  BY <1>11, <1>12, RootsAre

-----------------------------------------------------------------------------
(* A state the formula does not refute: the axioms' least model is a model  *)
(* of the equations, so it makes every root true.                           *)

LEMMA BaseDisjuncts ==
  ASSUME Ready, NEW x \in Timely, x \notin Guessed, ~InitialFact(x)
  PROVE  \A d \in Disjuncts(equations[x]) : d \notin Guessed
<1>1. OfLayer(x)
  BY TimelyKinds, GuessedAre DEF OfStart, InitialFact, IsDerived
<1>2. PICK t \in 1..Len(plan) : \E f \in Fresh(plan)[t] : x = <<f[1], f[2], t>>
  BY <1>1 DEF OfLayer
<1>3. PICK f \in Fresh(plan)[t] : x = <<f[1], f[2], t>>
  BY <1>2
<1> SUFFICES ASSUME NEW d \in Disjuncts(equations[x]) PROVE d \notin Guessed
  OBVIOUS
<1>4. PICK h : ~IsDerived(h) /\ d = At(Points(plan), h, t - 1)
  BY <1>3, LayerDisjuncts
<1>5. ~OfAxioms(d)
  BY <1>4 DEF At, OfAxioms, IsDerived
<1> QED
  BY <1>5, GuessedAre

\* The guess decides the facts of the axioms and no other.
LEMMA BaseSame ==
  ASSUME Ready, NEW s, NEW g \in [Guessed -> BOOLEAN], NEW v, IsValuation(s, g, v),
         NEW h \in [Guessed -> BOOLEAN], NEW w, IsValuation(s, h, w)
  PROVE  \A x \in Timely \ Guessed : v[x] = w[x]
<1> DEFINE bad(x) == x \notin Guessed /\ v[x] # w[x]
           S == {x[3] : x \in {y \in Timely : bad(y)}}
<1> SUFFICES ASSUME S # {} PROVE FALSE
  OBVIOUS
<1>1. S \in SUBSET Nat
  BY TimelyTime
<1> HIDE DEF S
<1>2. PICK m \in S : \A k \in S : m <= k
  BY <1>1, LeastOf
<1>3. PICK x \in Timely : bad(x) /\ x[3] = m
  BY <1>2 DEF S
<1>4. v[x] = ValueOf(s, g, v, x) /\ w[x] = ValueOf(s, h, w, x)
  BY DEF IsValuation
<1>5. ~InitialFact(x)
  BY <1>3, <1>4 DEF ValueOf
<1>6. \A d \in Disjuncts(equations[x]) : v[d] = w[d]
  <2> SUFFICES ASSUME NEW d \in Disjuncts(equations[x]), v[d] # w[d] PROVE FALSE
    OBVIOUS
  <2>1. d \in Timely /\ d[3] < x[3] /\ d \notin Guessed
    BY <1>3, <1>5, EarlierDisjuncts, BaseDisjuncts
  <2>2. d[3] \in S
    BY <2>1 DEF S
  <2>3. m <= d[3] /\ d[3] \in Nat /\ m \in Nat
    BY <1>1, <1>2, <2>2
  <2> QED
    BY <1>3, <2>1, <2>3
<1>7. Evaluate(equations[x], v) = Evaluate(equations[x], w)
  BY <1>6, EvaluateReads
<1> QED
  BY <1>3, <1>4, <1>5, <1>7 DEF ValueOf

\* What supports a fact: base facts by their value in w, derived ones by being in C.
Supports(c, C, w) ==
  \A f \in c : IF IsDerived(f) THEN f \in C ELSE w[At(Points(plan), f, Len(plan))]
IsClosed(C, w) == \A r \in Rules : r.head \in Reached /\ Supports(r.cond, C, w) => r.head \in C
LeastModel(w) == {h \in Heads : \A C \in SUBSET Heads : IsClosed(C, w) => h \in C}

LEMMA SupportsMore ==
  \A c, C, D, w : C \subseteq D /\ Supports(c, C, w) => Supports(c, D, w)
BY DEF Supports

LEMMA LeastClosed == \A w : IsClosed(LeastModel(w), w)
<1> SUFFICES ASSUME NEW w, NEW r \in Rules, r.head \in Reached, Supports(r.cond, LeastModel(w), w),
                    NEW C \in SUBSET Heads, IsClosed(C, w)
             PROVE  r.head \in C
  BY DEF IsClosed, LeastModel, Heads
<1>1. LeastModel(w) \subseteq C
  BY DEF LeastModel
<1> QED
  BY <1>1, SupportsMore DEF IsClosed

LEMMA LeastSupported ==
  ASSUME NEW w, NEW h \in LeastModel(w)
  PROVE  \E c \in Bodies(h) : Supports(c, LeastModel(w), w)
<1> SUFFICES ASSUME ~\E c \in Bodies(h) : Supports(c, LeastModel(w), w) PROVE FALSE
  OBVIOUS
<1> DEFINE L == LeastModel(w)
           C == L \ {h}
<1>1. C \in SUBSET Heads
  BY DEF LeastModel
<1>2. ASSUME NEW r \in Rules, r.head \in Reached, Supports(r.cond, C, w)
      PROVE  r.head \in C
  <2>1. Supports(r.cond, L, w)
    BY <1>2, SupportsMore
  <2>2. r.head \in L
    BY <1>2, <2>1, LeastClosed DEF IsClosed
  <2>3. r.head # h
    BY <2>1 DEF Bodies
  <2> QED
    BY <2>2, <2>3
<1>3. IsClosed(C, w)
  BY <1>2 DEF IsClosed
<1> QED
  BY <1>1, <1>3 DEF LeastModel

-----------------------------------------------------------------------------
\* The axioms derive one value of a variable only.
OneHead == \A r, q \in Rules : r.head[1] = q.head[1] => r.head = q.head

LeastGuess(w) == [x \in Guessed |-> <<x[1], x[2]>> \in LeastModel(w)]

\* The least model solves the equations of the axioms.
LEMMA LeastConsistent ==
  ASSUME Ready, NEW s, NEW g \in [Guessed -> BOOLEAN], NEW w, IsValuation(s, g, w),
         NEW val, IsValuation(s, LeastGuess(w), val)
  PROVE  Consistent(val)
<1> DEFINE n == Len(plan)
           P == Points(plan)
           L == LeastModel(w)
<1>0. plan \in Seq(DOMAIN Op) /\ n \in Nat
  BY DEF Ready
<1>1. LeastGuess(w) \in [Guessed -> BOOLEAN]
  BY DEF LeastGuess
<1>2. \A x \in Timely \ Guessed : val[x] = w[x]
  BY <1>1, BaseSame
<1>3. \A x \in Guessed : x \in Timely /\ val[x] = (<<x[1], x[2]>> \in L)
  <2> TAKE x \in Guessed
  <2>1. x \in Timely
    BY DEF Guessed
  <2>2. val[x] = ValueOf(s, LeastGuess(w), val, x)
    BY <2>1 DEF IsValuation
  <2> QED
    BY <2>1, <2>2 DEF ValueOf, LeastGuess
<1> HIDE DEF L
<1> SUFFICES ASSUME NEW x \in Guessed \cap DOMAIN equations
             PROVE  val[x] = Evaluate(equations[x], val)
  BY DEF Consistent
<1>4. PICK h \in Reached : Bodies(h) # {} /\ h \in Facts /\ IsDerived(h) /\ x = <<h[1], h[2], 0>>
  <2>1. OfAxioms(x)
    BY GuessedAre
  <2>2. x[3] = 0
    BY <2>1 DEF OfAxioms
  <2>3. x \in Defined(plan, 0)
    BY DEF Ready, FormulaOf
  <2>4. ~\E t \in 1..n : x \in LayerDefined(plan, t)
    BY <2>2 DEF LayerDefined
  <2>5. x \in AxiomDefined(plan)
    BY <1>0, <2>3, <2>4 DEF Defined
  <2> QED
    BY <1>0, <2>5, AxiomDefinedAtZero
<1>5. <<x[1], x[2]>> = h
  BY <1>4 DEF Facts
<1>6. ASSUME NEW c \in Bodies(h)
      PROVE  (\A f \in c : val[At(P, f, n)]) <=> Supports(c, L, w)
  <2>1. ASSUME NEW f \in c
        PROVE  val[At(P, f, n)] <=> IF IsDerived(f) THEN f \in L ELSE w[At(P, f, n)]
    <3>1. f \in Reached /\ f \in Facts /\ At(P, f, n) \in Timely
      BY <1>4, AxiomTimely
    <3>2. CASE IsDerived(f)
      <4>1. At(P, f, n) = <<f[1], f[2], 0>> /\ f = <<f[1], f[2]>>
        BY <1>0, <3>1, <3>2, DerivedAt DEF Facts
      <4>2. OfAxioms(At(P, f, n))
        BY <3>1, <3>2, <4>1 DEF OfAxioms
      <4>3. At(P, f, n) \in Guessed
        BY <3>1, <4>2, GuessedAre
      <4>4. val[At(P, f, n)] = (f \in L)
        BY <1>3, <4>1, <4>3
      <4> QED
        BY <3>2, <4>4
    <3>3. CASE ~IsDerived(f)
      <4>1. ~OfAxioms(At(P, f, n))
        BY <3>3 DEF At, OfAxioms, IsDerived
      <4>2. At(P, f, n) \in Timely \ Guessed
        BY <3>1, <4>1, GuessedAre
      <4> QED
        BY <1>2, <3>3, <4>2
    <3> QED
      BY <3>2, <3>3
  <2> QED
    BY <2>1 DEF Supports
<1>7. Evaluate(equations[x], val) <=> \E c \in Bodies(h) : Supports(c, L, w)
  BY <1>4, <1>6, AxiomTimely
<1>8. h \in L <=> \E c \in Bodies(h) : Supports(c, L, w)
  <2>1. h \in L => \E c \in Bodies(h) : Supports(c, L, w)
    BY LeastSupported DEF L
  <2>2. ASSUME NEW c \in Bodies(h), Supports(c, L, w) PROVE h \in L
    <3>1. PICK r \in Rules : r.head = h /\ r.cond = c
      BY DEF Bodies
    <3>2. IsClosed(L, w)
      BY LeastClosed DEF L
    <3> QED
      BY <2>2, <3>1, <3>2 DEF IsClosed
  <2> QED
    BY <2>1, <2>2
<1>9. val[x] = (h \in L)
  BY <1>3, <1>5
<1>10. Evaluate(equations[x], val) \in BOOLEAN
  BY EvaluateType
<1> QED
  BY <1>7, <1>8, <1>9, <1>10

\* What the least model holds, the axioms deduce in the last state.
LEMMA LeastDeduced ==
  ASSUME Ready, NEW s, NEW g \in [Guessed -> BOOLEAN], NEW w, IsValuation(s, g, w),
         NEW T, IsTrace(plan, s, T), AgreesUpTo(w, T, Len(plan)),
         NEW y, T[Len(plan)] = Closure(y)
  PROVE  LeastModel(w) \subseteq DeducedUpTo(y)
<1> DEFINE n == Len(plan)
           D == DeducedUpTo(y)
<1>1. ASSUME NEW r \in Rules, r.head \in Reached, Supports(r.cond, D, w)
      PROVE  r.head \in D
  <2>1. ASSUME NEW c \in r.cond
        PROVE  IF IsDerived(c) THEN c \in D /\ Layer[c[1]] <= Layer[r.head[1]] ELSE y[c[1]] = c[2]
    <3>1. CASE IsDerived(c)
      BY <1>1, <3>1, TranslatedAxioms DEF Supports
    <3>2. CASE ~IsDerived(c)
      <4>1. r.cond \in Bodies(r.head)
        BY DEF Bodies
      <4>2. c \in Reached /\ c \in Facts /\ At(Points(plan), c, n) \in Timely
        BY <1>1, <4>1, AxiomTimely
      <4>3. w[At(Points(plan), c, n)]
        BY <1>1, <3>2 DEF Supports
      <4>4. T[n][c[1]] = c[2]
        BY <3>2, <4>2, <4>3, LastAgrees
      <4>5. Closure(y)[c[1]] = y[c[1]]
        BY <3>2, <4>2, ClosureBase DEF Facts, IsDerived
      <4> QED
        BY <3>2, <4>4, <4>5
    <3> QED
      BY <3>1, <3>2
  <2> QED
    BY <2>1, DeducedClosed
<1>2. IsClosed(D, w)
  BY <1>1 DEF IsClosed
<1>3. D \in SUBSET Heads
  BY DeducedHeads
<1> QED
  BY <1>2, <1>3 DEF LeastModel

\* A deduced fact is true in the state.
LEMMA DeducedHolds ==
  ASSUME OneHead, NEW y, NEW f \in DeducedUpTo(y), f \in Facts, IsDerived(f)
  PROVE  Closure(y)[f[1]] = f[2]
<1> DEFINE D == DeducedUpTo(y)
           x == Closure(y)[f[1]]
<1>1. IsRead(y, D, <<f[1], x>>)
  BY ClosureReads DEF IsDerived
<1>2. <<f[1], x>> \in D
  BY <1>1 DEF IsRead, IsDerived
<1>3. <<f[1], x>> \in Heads /\ f \in Heads
  BY <1>2, DeducedHeads
<1> HIDE DEF x
<1>a. PICK r \in Rules : r.head = <<f[1], x>>
  BY <1>3 DEF Heads
<1>b. PICK q \in Rules : q.head = f
  BY <1>3 DEF Heads
<1>c. r.head[1] = q.head[1]
  BY <1>a, <1>b
<1>4. <<f[1], x>> = f
  BY <1>a, <1>b, <1>c DEF OneHead
<1> QED
  BY <1>4 DEF x, Facts

\* On a state no model refutes, the plan reaches the goal with inapplicable actions skipped.
LEMMA UnrefutedHolds ==
  ASSUME OneHead, Ready, NEW s \in State,
         \A guess \in [Guessed -> BOOLEAN] : ~Satisfies(Valuation(s, guess))
  PROVE  Holds(AfterSkipping(plan, s), Goal)
<1> DEFINE n == Len(plan)
           P == Points(plan)
           g == [x \in Guessed |-> FALSE]
           w == Valuation(s, g)
           guess == LeastGuess(w)
           val == Valuation(s, guess)
<1>0. plan \in Seq(DOMAIN Op) /\ n \in Nat
  BY DEF Ready
<1>1. g \in [Guessed -> BOOLEAN]
  OBVIOUS
<1>2. IsValuation(s, g, w)
  BY <1>1, ValuationIs
<1> HIDE DEF w, g
<1>3. guess \in [Guessed -> BOOLEAN]
  BY DEF LeastGuess
<1>4. IsValuation(s, guess, val)
  BY <1>3, ValuationIs
<1>5. ~Satisfies(val)
  BY <1>3
<1> HIDE DEF val
<1>6. Consistent(val)
  BY <1>1, <1>2, <1>4, LeastConsistent
<1>7. \A x \in roots : val[x]
  BY <1>5, <1>6 DEF Satisfies, Consistent
<1>8. PICK T : Skips(plan, s, T) /\ AfterSkipping(plan, s) = T[n]
  BY <1>0, AfterSkips
<1>9. IsTrace(plan, s, T)
  BY <1>8, SkipsTrace
<1>10. Carried(val, T)
  <2> SUFFICES ASSUME NEW t \in 1..n, Fresh(plan)[t] # {}, AgreesUpTo(val, T, t - 1)
               PROVE  Applicable(Op[plan[t]], T[t - 1]) /\ T[t] = Apply(Op[plan[t]], T[t - 1])
    BY DEF Carried
  <2>1. ASSUME NEW f \in Op[plan[t]].prevail PROVE T[t - 1][f[1]] = f[2]
    <3>1. Wanted(plan, f, t - 1) /\ ~IsDerived(f) /\ At(P, f, t - 1) \in roots
      BY PrevailWanted
    <3>2. val[At(P, f, t - 1)] /\ At(P, f, t - 1) \in Timely
      BY <1>7, <3>1 DEF Timely
    <3>3. t - 1 \in 0..(t - 1) /\ t - 1 \in 0..n
      BY <1>0
    <3> QED
      BY <1>4, <1>9, <3>1, <3>2, <3>3, ReadsAgree
  <2>2. Applicable(Op[plan[t]], T[t - 1])
    BY <2>1 DEF Applicable, Holds
  <2> QED
    BY <1>8, <2>2 DEF Skips, Skip
<1>11. AgreesUpTo(val, T, n)
  BY <1>4, <1>9, <1>10, TraceAgrees
<1>12. AgreesUpTo(w, T, n)
  <2> SUFFICES ASSUME NEW t \in 1..n, NEW f \in Fresh(plan)[t]
               PROVE  w[<<f[1], f[2], t>>] <=> T[t][f[1]] = f[2]
    BY DEF AgreesUpTo
  <2>1. <<f[1], f[2], t>> \in Timely
    BY LayerDisjuncts DEF Timely
  <2>2. ~OfAxioms(<<f[1], f[2], t>>)
    BY DEF OfAxioms
  <2>3. <<f[1], f[2], t>> \in Timely \ Guessed
    BY <2>1, <2>2, GuessedAre
  <2>4. val[<<f[1], f[2], t>>] = w[<<f[1], f[2], t>>]
    BY <1>1, <1>2, <1>3, <1>4, <2>3, BaseSame
  <2> QED
    BY <1>11, <2>4 DEF AgreesUpTo
<1>13. n \in 0..n
  BY <1>0
<1>14. PICK y : T[n] = Closure(y)
  BY <1>0, <1>9, <1>13, TraceClosed
<1>15. ASSUME NEW f \in Goal PROVE T[n][f[1]] = f[2]
  <2>1. f \in Reached /\ f \in Facts
    BY ReachedFacts
  <2>2. At(P, f, n) \in roots
    BY DEF Ready, FormulaOf, Roots, AllAt
  <2>3. val[At(P, f, n)] /\ At(P, f, n) \in Timely
    BY <1>7, <2>2 DEF Timely
  <2>4. CASE ~IsDerived(f)
    BY <1>4, <1>9, <1>11, <2>1, <2>3, <2>4, LastAgrees
  <2>5. CASE IsDerived(f)
    <3>1. At(P, f, n) = <<f[1], f[2], 0>> /\ f = <<f[1], f[2]>>
      BY <1>0, <2>1, <2>5, DerivedAt DEF Facts
    <3>2. At(P, f, n) \in Guessed
      BY <2>1, <2>3, <2>5, <3>1, GuessedAre DEF OfAxioms
    <3>3. val[At(P, f, n)] = ValueOf(s, guess, val, At(P, f, n))
      BY <1>4, <2>3 DEF IsValuation
    <3>a. val[At(P, f, n)] = guess[At(P, f, n)]
      BY <3>2, <3>3 DEF ValueOf
    <3>b. guess[At(P, f, n)] = (<<f[1], f[2]>> \in LeastModel(w))
      BY <3>1, <3>2 DEF LeastGuess
    <3>4. f \in LeastModel(w)
      BY <2>3, <3>1, <3>a, <3>b
    <3>5. f \in DeducedUpTo(y)
      BY <1>1, <1>2, <1>9, <1>12, <1>14, <3>4, LeastDeduced
    <3> QED
      BY <1>14, <2>1, <2>5, <3>5, DeducedHolds
  <2> QED
    BY <2>4, <2>5
<1> QED
  BY <1>8, <1>15 DEF Holds

-----------------------------------------------------------------------------
LEMMA WhenSettled ==
  ASSUME VerifierInv, pc # "idle", time = 0
  PROVE  Ready
BY DEF VerifierInv, LayersInv, Reused, FormulaInv, Ready

LEMMA BeliefStates == Belief \subseteq State
<1> SUFFICES ASSUME NEW s \in Belief PROVE s \in State
  OBVIOUS
<1>1. s \in [Vars -> 0..10] /\ 0..10 \subseteq Nat
  BY CnfInputs
<1> QED
  BY <1>1 DEF State

LEMMA NotRefuted ==
  ASSUME VerifierInv, pc # "idle", time = 0, OneHead, NEW s \in Belief \ banned, s \notin Refuted
  PROVE  Holds(AfterSkipping(plan, s), Goal)
<1>1. ASSUME NEW guess \in [Guessed -> BOOLEAN] PROVE ~Satisfies(Valuation(s, guess))
  <2> SUFFICES ASSUME Satisfies(Valuation(s, guess)) PROVE FALSE
    OBVIOUS
  <2>1. <<s, guess>> \in SatModels
    BY DEF SatModels
  <2>2. <<s, guess>>[1] = s
    OBVIOUS
  <2> QED
    BY <2>1, <2>2 DEF Refuted
<1>2. s \in State
  BY BeliefStates
<1> QED
  BY <1>1, <1>2, WhenSettled, UnrefutedHolds

\* Where nothing the goal reads is the default of a derived variable, a counterexample
\* that CounterCNF returns is an initial state nobody had forbidden on which carrying out
\* the plan fails: Kissat's model, read as a state, is one the plan was regressed to
\* (counter_cnf.cc:1705, extract_time0_sample).
THEOREM RefutedFails == PositiveGoal => (Spec => []RefutedReallyFails)
<1> SUFFICES ASSUME PositiveGoal PROVE Spec => []RefutedReallyFails
  OBVIOUS
<1>1. VerifierInv => RefutedReallyFails
  <2> SUFFICES ASSUME VerifierInv, answer.kind = "counterexample"
               PROVE  \E s \in Belief \ banned : answer.state = Closure(s) /\ ~Executes(plan, s, Goal)
    BY DEF RefutedReallyFails
  <2>1. PICK m \in SatModels : answer.state = Closure(m[1])
    BY DEF VerifierInv, AnswerInv
  <2>2. m[1] \in Belief \ banned /\ m[2] \in [Guessed -> BOOLEAN] /\ Satisfies(Valuation(m[1], m[2]))
    BY DEF SatModels
  <2>3. Ready
    BY WhenSettled DEF VerifierInv, AnswerInv, LayersInv
  <2>4. ~Executes(plan, m[1], Goal)
    BY <2>2, <2>3, BeliefStates, ModelFails
  <2> QED
    BY <2>1, <2>2, <2>4
<1> QED
  BY <1>1, InitVerifier, NextVerifier, PTL DEF Spec

\* Where the axioms derive one value of each variable, the plan reaches the goal from every
\* initial state the formula does not refute, with inapplicable actions skipped; an accepted
\* plan does so from every state that was not forbidden (regress_var_bucket, run_kissat_validation).
THEOREM UnrefutedReaches == OneHead => (Spec => []UnrefutedReachesGoal)
<1> SUFFICES ASSUME OneHead PROVE Spec => []UnrefutedReachesGoal
  OBVIOUS
<1>1. VerifierInv => UnrefutedReachesGoal
  <2> SUFFICES ASSUME VerifierInv PROVE UnrefutedReachesGoal
    OBVIOUS
  <2>1. (pc = "regress" /\ time = 0) =>
          \A s \in Belief \ (banned \cup Refuted) : Holds(AfterSkipping(plan, s), Goal)
    BY NotRefuted
  <2>2. answer.kind = "valid" => \A s \in Belief \ banned : Holds(AfterSkipping(plan, s), Goal)
    <3> SUFFICES ASSUME answer.kind = "valid", NEW s \in Belief \ banned
                 PROVE  Holds(AfterSkipping(plan, s), Goal)
      OBVIOUS
    <3>1. pc = "solved" /\ SatModels = {} /\ time = 0
      BY DEF VerifierInv, AnswerInv, LayersInv
    <3>2. s \notin Refuted
      BY <3>1 DEF Refuted
    <3> QED
      BY <3>1, <3>2, NotRefuted
  <2> QED
    BY <2>1, <2>2 DEF UnrefutedReachesGoal
<1> QED
  BY <1>1, InitVerifier, NextVerifier, PTL DEF Spec
===============================================================================
