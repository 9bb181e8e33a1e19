----------------------------- MODULE SearchProofs -----------------------------
(***************************************************************************)
(* That the search keeps its promise, for every task as SearchPromise      *)
(* describes it.  In this order:                                           *)
(*                                                                         *)
(*   what operators and axioms do (also used by CounterCnfProofs);         *)
(*   the relaxed exploration keeps SoundSoFar (SetupSound, PoppedSound);   *)
(*   a dead end of it is one (DeadEndIsHopeless);                          *)
(*   the estimate is 0 in goal states only, and preferred operators can    *)
(*   be applied (EstimateSays);                                            *)
(*   the invariant of the search (SearchInvHolds);                         *)
(*   the plans of the tree work (PathRuns), and what is not closed when    *)
(*   the lists are empty cannot be reached (ReachableClosed);              *)
(*   the search implements PlanSearch (SearchKeepsPromise).                *)
(***************************************************************************)
EXTENDS SearchPromise, FiniteSetTheorems, NaturalsInduction, WellFoundedInduction, SequenceTheorems, TLAPS

\* A set of numbers has a least one.
LEMMA LeastOf ==
  ASSUME NEW T \in SUBSET Nat, T # {}
  PROVE  \E x \in T : \A y \in T : x <= y
<1> DEFINE less == OpToRel(<, Nat)
<1>1. IsWellFoundedOn(less, Nat)
  BY NatLessThanWellFounded
<1>2. PICK x \in T : \A y \in T : <<y, x>> \notin less
  BY <1>1, WFMin
<1>3. \A y \in T : ~(y < x)
  BY <1>2 DEF OpToRel
<1> QED
  BY <1>3

-----------------------------------------------------------------------------
(* A function defined by recursion on a number, step by step within X.      *)

\* s comes about by applying F again and again to a.
Iterates(N, X, a, F, s) ==
  /\ s[0] = a
  /\ \A k \in 1..N : s[k - 1] \in X => s[k] = F[<<k, s[k - 1]>>]

\* ... as a function.
Iteration(N, X, a, F, s) ==
  s \in [0..N -> X] /\ s[0] = a /\ \A k \in 1..N : s[k] = F[<<k, s[k - 1]>>]

\* A function that says what comes next can be iterated N times.
LEMMA IterationExists ==
  ASSUME NEW N \in Nat, NEW X, NEW a \in X, NEW F \in [(1..N) \X X -> X]
  PROVE  \E s : Iteration(N, X, a, F, s)
<1> DEFINE Part(m) == \E s \in [0..m -> X] :
                        s[0] = a /\ \A k \in 1..m : s[k] = F[<<k, s[k - 1]>>]
           T == {m \in 0..N : ~Part(m)}
<1>1. T = {}
  <2> SUFFICES ASSUME T # {} PROVE FALSE
    OBVIOUS
  <2>1. T \in SUBSET Nat
    OBVIOUS
  <2> HIDE DEF T
  <2>2. PICK m \in T : \A k \in T : m <= k
    BY <2>1, LeastOf
  <2>3. m \in 0..N /\ ~Part(m)
    BY <2>2 DEF T
  <2> HIDE DEF Part
  <2>4. m # 0
    <3> DEFINE s == [k \in 0..0 |-> a]
    <3>1. s \in [0..0 -> X] /\ s[0] = a /\ 1..0 = {}
      OBVIOUS
    <3> HIDE DEF s
    <3>2. Part(0)
      BY <3>1 DEF Part
    <3> QED
      BY <2>3, <3>2
  <2>5. m - 1 \in 0..N /\ ~(m <= m - 1) /\ m - 1 \notin T
    BY <2>2, <2>3, <2>4
  <2>6. PICK r \in [0..(m - 1) -> X] : r[0] = a /\ \A k \in 1..(m - 1) : r[k] = F[<<k, r[k - 1]>>]
    BY <2>5 DEF T, Part
  <2> DEFINE s == [k \in 0..m |-> IF k = m THEN F[<<m, r[m - 1]>>] ELSE r[k]]
  <2>7. r[m - 1] \in X /\ m \in 1..N
    BY <2>3, <2>4, <2>5, <2>6
  <2>8. F[<<m, r[m - 1]>>] \in X
    BY <2>7
  <2>9. s \in [0..m -> X]
    <3> SUFFICES ASSUME NEW k \in 0..m, k # m PROVE r[k] \in X
      BY <2>8
    <3>1. k \in 0..(m - 1)
      BY <2>3
    <3> QED
      BY <2>6, <3>1
  <2>10. s[0] = a
    BY <2>3, <2>4, <2>6
  <2>11. \A k \in 1..m : s[k] = F[<<k, s[k - 1]>>]
    <3> TAKE k \in 1..m
    <3>1. s[k - 1] = r[k - 1]
      BY <2>3
    <3>2. CASE k = m
      <4>1. s[m] = F[<<m, r[m - 1]>>]
        BY <2>3
      <4> HIDE DEF s
      <4> QED
        BY <3>1, <3>2, <4>1
    <3>3. CASE k # m
      <4>1. k \in 1..(m - 1)
        BY <2>3, <3>3
      <4>2. s[k] = r[k]
        BY <2>3, <3>3
      <4> QED
        BY <2>6, <3>1, <4>1, <4>2
    <3> QED
      BY <3>2, <3>3
  <2> HIDE DEF s
  <2> QED
    BY <2>3, <2>9, <2>10, <2>11 DEF Part
<1> HIDE DEF Part
<1>2. Part(N)
  BY <1>1
<1> QED
  BY <1>2 DEF Part, Iteration

\* ... and whatever iterates it stays among its values.
LEMMA IterationStays ==
  ASSUME NEW N \in Nat, NEW X, NEW a \in X, NEW F \in [(1..N) \X X -> X],
         NEW s, Iterates(N, X, a, F, s)
  PROVE  \A k \in 0..N : s[k] \in X /\ (k # 0 => s[k] = F[<<k, s[k - 1]>>])
<1> DEFINE T == {k \in 0..N : s[k] \notin X}
<1>1. T = {}
  <2> SUFFICES ASSUME T # {} PROVE FALSE
    OBVIOUS
  <2>1. T \in SUBSET Nat
    OBVIOUS
  <2> HIDE DEF T
  <2>2. PICK m \in T : \A k \in T : m <= k
    BY <2>1, LeastOf
  <2>3. m \in 0..N /\ s[m] \notin X
    BY <2>2 DEF T
  <2>4. m # 0
    BY <2>3 DEF Iterates
  <2>5. m \in 1..N /\ m - 1 \in 0..N /\ ~(m <= m - 1)
    BY <2>3, <2>4
  <2>6. s[m - 1] \in X
    BY <2>2, <2>5 DEF T
  <2>7. s[m] = F[<<m, s[m - 1]>>]
    BY <2>5, <2>6 DEF Iterates
  <2> QED
    BY <2>3, <2>5, <2>6, <2>7
<1> TAKE k \in 0..N
<1>2. s[k] \in X
  BY <1>1
<1>3. ASSUME k # 0 PROVE s[k] = F[<<k, s[k - 1]>>]
  <2>1. k \in 1..N /\ k - 1 \in 0..N
    BY <1>3
  <2>2. s[k - 1] \in X
    BY <1>1, <2>1
  <2> QED
    BY <2>1, <2>2 DEF Iterates
<1> QED
  BY <1>2, <1>3

-----------------------------------------------------------------------------
(* Passes that only add stop adding after as many as there are rules.       *)

\* A growing chain in a finite set stands still once if it is longer than the set.
LEMMA ChainStops ==
  ASSUME NEW N \in Nat, NEW R, IsFiniteSet(R), Cardinality(R) <= N,
         NEW A, \A k \in 0..N : A[k] \subseteq R, \A k \in 1..N : A[k - 1] \subseteq A[k]
  PROVE  (\E k \in 1..N : A[k] = A[k - 1]) \/ (A[0] = {} /\ A[N] = R)
<1> SUFFICES ASSUME \A k \in 1..N : A[k] # A[k - 1] PROVE A[0] = {} /\ A[N] = R
  OBVIOUS
<1> DEFINE c(k) == Cardinality(A[k])
           T == {k \in 0..N : ~(k + c(0) <= c(k))}
<1>1. \A k \in 0..N : IsFiniteSet(A[k]) /\ c(k) \in Nat /\ c(k) <= N
  <2> TAKE k \in 0..N
  <2>1. IsFiniteSet(A[k]) /\ c(k) <= Cardinality(R)
    BY FS_Subset
  <2>2. Cardinality(R) \in Nat /\ c(k) \in Nat
    BY <2>1, FS_CardinalityType
  <2> HIDE DEF c
  <2> QED
    BY <2>1, <2>2
<1>2. \A k \in 1..N : c(k - 1) < c(k)
  <2> TAKE k \in 1..N
  <2>1. k \in 0..N /\ k - 1 \in 0..N
    OBVIOUS
  <2>2. IsFiniteSet(A[k]) /\ A[k - 1] \in SUBSET A[k] /\ A[k] # A[k - 1]
    BY <1>1, <2>1
  <2>3. c(k - 1) <= c(k) /\ (c(k) = c(k - 1) => A[k] = A[k - 1])
    BY <2>2, FS_Subset
  <2>4. c(k - 1) \in Nat /\ c(k) \in Nat
    BY <1>1, <2>1
  <2> HIDE DEF c
  <2> QED
    BY <2>2, <2>3, <2>4
<1>3. c(0) \in Nat /\ c(N) \in Nat /\ c(N) <= N
  BY <1>1
<1> HIDE DEF c
<1>4. T = {}
  <2> SUFFICES ASSUME T # {} PROVE FALSE
    OBVIOUS
  <2>1. T \in SUBSET Nat
    OBVIOUS
  <2> HIDE DEF T
  <2>2. PICK m \in T : \A k \in T : m <= k
    BY <2>1, LeastOf
  <2>3. m \in 0..N /\ ~(m + c(0) <= c(m))
    BY <2>2 DEF T
  <2>4. m # 0
    BY <1>3, <2>3
  <2>5. m \in 1..N /\ m - 1 \in 0..N /\ ~(m <= m - 1)
    BY <2>3, <2>4
  <2>6. m - 1 + c(0) <= c(m - 1)
    BY <2>2, <2>5 DEF T
  <2>7. c(m - 1) < c(m) /\ c(m) \in Nat /\ c(m - 1) \in Nat
    BY <1>1, <1>2, <2>5 DEF c
  <2> QED
    BY <1>3, <2>3, <2>5, <2>6, <2>7
<1>5. N + c(0) <= c(N)
  BY <1>4
<1>6. c(0) = 0 /\ c(N) = N
  BY <1>3, <1>5
<1>7. A[0] = {}
  BY <1>1, <1>6, FS_EmptySet DEF c
<1>8. A[N] \in SUBSET R /\ Cardinality(R) = Cardinality(A[N])
  <2>1. A[N] \in SUBSET R
    OBVIOUS
  <2>2. c(N) <= Cardinality(R) /\ Cardinality(R) \in Nat
    BY <2>1, FS_Subset, FS_CardinalityType DEF c
  <2>3. Cardinality(R) = c(N)
    BY <1>6, <2>2
  <2> QED
    BY <2>1, <2>3 DEF c
<1>9. A[N] = R
  BY <1>8, FS_Subset
<1> QED
  BY <1>7, <1>9

\* Every entry is made from the one before by G.
Passes(N, G, s) == \A k \in 1..N : s[k] = G[s[k - 1]]

\* What does not change in one pass does not change in the others.
LEMMA FixedStays ==
  ASSUME NEW N \in Nat, NEW G, NEW s, Passes(N, G, s), NEW k \in 0..N, G[s[k]] = s[k]
  PROVE  s[N] = s[k]
<1> DEFINE T == {j \in k..N : s[j] # s[k]}
<1>0. N \in k..N
  OBVIOUS
<1> SUFFICES ASSUME s[N] # s[k] PROVE FALSE
  OBVIOUS
<1>1. T \in SUBSET Nat /\ N \in T
  BY <1>0
<1> HIDE DEF T
<1>2. PICK m \in T : \A j \in T : m <= j
  BY <1>1, LeastOf
<1>3. m \in k..N /\ s[m] # s[k]
  BY <1>2 DEF T
<1>4. m \in 1..N /\ m - 1 \in k..N /\ ~(m <= m - 1)
  BY <1>3
<1>5. s[m - 1] = s[k]
  BY <1>2, <1>4 DEF T
<1> QED
  BY <1>3, <1>4, <1>5 DEF Passes

-----------------------------------------------------------------------------
(* The last of some numbers, and the effects of an operator.                *)

\* Among some positions there is a last one.
LEMMA LastOf ==
  ASSUME NEW n \in Nat, NEW S \in SUBSET (1..n), S # {}
  PROVE  \E x \in S : \A y \in S : y <= x
<1> DEFINE T == {n - x : x \in S}
<1>1. T \in SUBSET Nat /\ T # {}
  <2>1. \A x \in S : n - x \in Nat
    OBVIOUS
  <2>2. T \subseteq Nat
    BY <2>1
  <2>3. PICK x \in S : TRUE
    OBVIOUS
  <2>4. n - x \in T
    OBVIOUS
  <2> QED
    BY <2>2, <2>4
<1> HIDE DEF T
<1>2. PICK m \in T : \A k \in T : m <= k
  BY <1>1, LeastOf
<1>3. PICK x \in S : m = n - x
  BY <1>2 DEF T
<1>4. ASSUME NEW y \in S PROVE y <= x
  <2>1. n - y \in T
    BY DEF T
  <2>2. n - x <= n - y
    BY <1>2, <1>3, <2>1
  <2> QED
    BY <2>2
<1> QED
  BY <1>4

\* The effects on v that fire.
Firing(op, v, z) == {i \in DOMAIN op.effects : op.effects[i].var = v /\ Fires(op.effects[i], z)}

\* What an operator writes into a variable is the value of an effect that fires.
LEMMA EffectsAre ==
  ASSUME NEW a \in DOMAIN Op, NEW v \in Vars, NEW z
  PROVE  /\ Firing(Op[a], v, z) = {} => Effects(Op[a], z)[v] = z[v]
         /\ Firing(Op[a], v, z) # {} =>
              \E i \in Firing(Op[a], v, z) : Effects(Op[a], z)[v] = Op[a].effects[i].post
<1> DEFINE S == Firing(Op[a], v, z)
           last == CHOOSE i \in S : \A j \in S : j <= i
<1>1. Effects(Op[a], z)[v] = IF S = {} THEN z[v] ELSE Op[a].effects[last].post
  BY DEF Effects, Firing
<1>2. ASSUME S # {} PROVE last \in S
  <2>1. Op[a].effects \in Seq(Effect)
    BY TaskShape
  <2>2. S \in SUBSET (1..Len(Op[a].effects)) /\ Len(Op[a].effects) \in Nat
    BY <2>1 DEF Firing
  <2> HIDE DEF S
  <2>3. \E i \in S : \A j \in S : j <= i
    BY <1>2, <2>2, LastOf
  <2> QED
    BY <2>3
<1> HIDE DEF S, last
<1>3. S = {} => Effects(Op[a], z)[v] = z[v]
  BY <1>1
<1>4. S # {} => \E i \in S : Effects(Op[a], z)[v] = Op[a].effects[i].post
  BY <1>1, <1>2
<1> QED
  BY <1>3, <1>4 DEF S

-----------------------------------------------------------------------------
(* What the axioms deduce.                                                  *)

\* What the rules derive.
Heads == {r.head : r \in Rules}

\* There are no more heads than rules.
LEMMA HeadsAre == Heads \subseteq Facts /\ IsFiniteSet(Heads) /\ Cardinality(Heads) <= Cardinality(Rules)
<1> DEFINE h == [r \in Rules |-> r.head]
<1>1. h \in Surjection(Rules, Heads)
  BY DEF Heads, Surjection
<1>2. IsFiniteSet(Heads) /\ Cardinality(Heads) <= Cardinality(Rules)
  BY <1>1, TaskShape, FS_Surjection
<1> QED
  BY <1>2, TaskShape DEF Heads

\* The axioms of layer l do not lead out of Q.
Keeps(z, l, Q) == \A D \in SUBSET Q : Deduced(z, D, l) \subseteq Q

\* The passes of one layer.
LayerPasses(z, l, Q, B, s) ==
  /\ s \in [0..Cardinality(Rules) -> SUBSET Q] /\ s[0] = B
  /\ \A k \in 1..Cardinality(Rules) : s[k] = Deduced(z, s[k - 1], l)

\* Saturated is the last of its passes.
LEMMA SaturatedFrom ==
  ASSUME NEW z, NEW l, NEW Q, Keeps(z, l, Q), NEW B \in SUBSET Q
  PROVE  \E s : LayerPasses(z, l, Q, B, s) /\ Saturated(z, B, l) = s[Cardinality(Rules)]
<1> DEFINE N == Cardinality(Rules)
           X == SUBSET Q
           E(s) == [k \in 0..N |-> IF k = 0 THEN B ELSE Deduced(z, s[k - 1], l)]
           F == [y \in (1..N) \X X |-> Deduced(z, y[2], l)]
           r == CHOOSE s : s = E(s)
<1>1. N \in Nat
  BY FS_CardinalityType, TaskShape
<1>2. Saturated(z, B, l) = r[N]
  BY DEF Saturated
<1>3. F \in [(1..N) \X X -> X] /\ B \in X
  BY DEF Keeps
<1>4. \A k \in 1..N, x \in X : F[<<k, x>>] = Deduced(z, x, l)
  OBVIOUS
<1> HIDE DEF N, X, F, E, r
<1>5. PICK s : Iteration(N, X, B, F, s)
  BY <1>1, <1>3, IterationExists
<1>6. s = E(s)
  <2>1. ASSUME NEW k \in 0..N, k # 0 PROVE s[k] = Deduced(z, s[k - 1], l)
    <3>1. s[k] = F[<<k, s[k - 1]>>] /\ k \in 1..N /\ k - 1 \in 0..N
      BY <1>1, <1>5, <2>1 DEF Iteration
    <3> QED
      BY <1>4, <1>5, <3>1 DEF Iteration
  <2> QED
    BY <1>1, <1>5, <2>1 DEF E, Iteration
<1>7. r = E(r)
  BY <1>6 DEF r
<1>8. r[0] = B
  BY <1>1, <1>7 DEF E
<1>9. \A k \in 1..N : r[k] = Deduced(z, r[k - 1], l)
  <2> TAKE k \in 1..N
  <2>1. k \in 0..N /\ k # 0
    BY <1>1
  <2> QED
    BY <1>7, <2>1 DEF E
<1>10. Iterates(N, X, B, F, r)
  BY <1>4, <1>8, <1>9 DEF Iterates
<1>11. \A k \in 0..N : r[k] \in X
  BY <1>1, <1>3, <1>10, IterationStays
<1>12. r \in [0..N -> X]
  BY <1>7, <1>11 DEF E
<1> QED
  BY <1>2, <1>8, <1>9, <1>12 DEF N, X, LayerPasses

\* A layer is closed under its axioms.
LEMMA SaturatedClosed ==
  ASSUME NEW z, NEW l, NEW B \in SUBSET Heads
  PROVE  /\ B \subseteq Saturated(z, B, l) /\ Saturated(z, B, l) \subseteq Heads
         /\ \A f \in Saturated(z, B, l) \ B : Layer[f[1]] = l
         /\ Deduced(z, Saturated(z, B, l), l) = Saturated(z, B, l)
<1> DEFINE N == Cardinality(Rules)
           G == [D \in SUBSET Heads |-> Deduced(z, D, l)]
<1>1. N \in Nat
  BY FS_CardinalityType, TaskShape
<1>2. \A D \in SUBSET Heads : Deduced(z, D, l) \subseteq Heads /\ D \subseteq Deduced(z, D, l)
                              /\ \A f \in Deduced(z, D, l) \ D : Layer[f[1]] = l
  BY DEF Deduced, Heads
<1>0. Keeps(z, l, Heads)
  BY <1>2 DEF Keeps
<1>13. PICK s : LayerPasses(z, l, Heads, B, s) /\ Saturated(z, B, l) = s[Cardinality(Rules)]
  BY <1>0, SaturatedFrom
<1>3. /\ s \in [0..N -> SUBSET Heads] /\ Saturated(z, B, l) = s[N] /\ s[0] = B
      /\ \A k \in 1..N : s[k] = Deduced(z, s[k - 1], l)
  BY <1>13 DEF LayerPasses
<1>4. \A k \in 1..N : k - 1 \in 0..N /\ k \in 0..N
  BY <1>1
<1>5. Passes(N, G, s)
  BY <1>3, <1>4 DEF Passes
<1>6. \A k \in 1..N : s[k - 1] \subseteq s[k]
  BY <1>2, <1>3, <1>4
<1> HIDE DEF N
<1>7. \A k \in 0..N : B \subseteq s[k] /\ \A f \in s[k] \ B : Layer[f[1]] = l
  <2> DEFINE T == {k \in 0..N : ~(B \subseteq s[k] /\ \A f \in s[k] \ B : Layer[f[1]] = l)}
  <2> SUFFICES ASSUME T # {} PROVE FALSE
    OBVIOUS
  <2>1. T \in SUBSET Nat
    OBVIOUS
  <2> HIDE DEF T
  <2>2. PICK m \in T : \A k \in T : m <= k
    BY <2>1, LeastOf
  <2>3. m \in 0..N /\ ~(B \subseteq s[m] /\ \A f \in s[m] \ B : Layer[f[1]] = l)
    BY <2>2 DEF T
  <2>4. m # 0
    BY <1>3, <2>3
  <2>5. m \in 1..N /\ m - 1 \in 0..N /\ ~(m <= m - 1)
    BY <1>1, <2>3, <2>4
  <2>6. B \subseteq s[m - 1] /\ \A f \in s[m - 1] \ B : Layer[f[1]] = l
    BY <2>2, <2>5 DEF T
  <2>7. s[m] = Deduced(z, s[m - 1], l) /\ s[m - 1] \in SUBSET Heads
    BY <1>3, <2>5
  <2> QED
    BY <1>2, <2>3, <2>6, <2>7
<1>8. \A k \in 0..N : Deduced(z, s[k], l) = s[k] => Deduced(z, s[N], l) = s[N]
  <2> TAKE k \in 0..N
  <2> HAVE Deduced(z, s[k], l) = s[k]
  <2>1. G[s[k]] = s[k]
    BY <1>3
  <2> HIDE DEF G
  <2>2. s[N] = s[k]
    BY <1>1, <1>5, <2>1, FixedStays
  <2> QED
    BY <2>2
<1>9. (\E k \in 1..N : s[k] = s[k - 1]) \/ (s[0] = {} /\ s[N] = Heads)
  <2>1. \A k \in 0..N : s[k] \subseteq Heads
    BY <1>3
  <2>2. IsFiniteSet(Heads) /\ Cardinality(Heads) <= N
    BY HeadsAre DEF N
  <2> QED
    BY <1>1, <1>6, <2>1, <2>2, ChainStops
<1>10. Deduced(z, s[N], l) = s[N]
  <2>1. ASSUME NEW k \in 1..N, s[k] = s[k - 1] PROVE Deduced(z, s[N], l) = s[N]
    <3>1. Deduced(z, s[k - 1], l) = s[k - 1] /\ k - 1 \in 0..N
      BY <1>3, <1>4, <2>1
    <3> QED
      BY <1>8, <3>1
  <2>2. ASSUME s[N] = Heads PROVE Deduced(z, s[N], l) = s[N]
    <3>1. Heads \in SUBSET Heads
      OBVIOUS
    <3>2. Deduced(z, Heads, l) = Heads
      BY <1>2, <3>1
    <3> QED
      BY <2>2, <3>2
  <2> QED
    BY <1>9, <2>1, <2>2
<1>11. N \in 0..N
  BY <1>1
<1>12. s[N] \subseteq Heads
  BY <1>3, <1>11
<1> QED
  BY <1>3, <1>7, <1>10, <1>11, <1>12

-----------------------------------------------------------------------------
\* The layers of axioms one after the other.
UpTo(z, u) ==
  /\ u[-1] = {}
  /\ \A l \in 0..Cardinality(Derived) :
       u[l] = IF l \in Layers THEN Saturated(z, u[l - 1], l) ELSE u[l - 1]

\* DeducedUpTo is the last of its layers.
LEMMA DeducedFrom ==
  ASSUME NEW z, NEW Q, \A l \in 0..Cardinality(Derived) : Keeps(z, l, Q)
  PROVE  \E u : /\ UpTo(z, u) /\ \A l \in -1..Cardinality(Derived) : u[l] \in SUBSET Q
                /\ DeducedUpTo(z) = u[Cardinality(Derived)]
<1> DEFINE M == Cardinality(Derived)
           N == M + 1
           X == SUBSET Q
           H(l, x) == IF l \in Layers THEN Saturated(z, x, l) ELSE x
           E(u) == [l \in -1..M |-> IF l = -1 THEN {} ELSE IF l \in Layers THEN Saturated(z, u[l - 1], l) ELSE u[l - 1]]
           F == [y \in (1..N) \X X |-> H(y[1] - 1, y[2])]
           r == CHOOSE u : u = E(u)
           a == {}
<1>1. M \in Nat /\ N \in Nat
  BY FS_CardinalityType, TaskShape
<1>2. DeducedUpTo(z) = r[M]
  BY DEF DeducedUpTo
<1>3. ASSUME NEW l \in 0..M, NEW x \in X PROVE H(l, x) \in X
  <2>1. Keeps(z, l, Q) /\ x \in SUBSET Q
    OBVIOUS
  <2>2. PICK s : LayerPasses(z, l, Q, x, s) /\ Saturated(z, x, l) = s[Cardinality(Rules)]
    BY <2>1, SaturatedFrom
  <2>3. Cardinality(Rules) \in 0..Cardinality(Rules)
    BY FS_CardinalityType, TaskShape
  <2>4. Saturated(z, x, l) \in SUBSET Q
    BY <2>2, <2>3 DEF LayerPasses
  <2> QED
    BY <2>1, <2>4
<1> HIDE DEF H
<1>4. F \in [(1..N) \X X -> X] /\ a \in X
  <2>1. \A k \in 1..N, x \in X : H(k - 1, x) \in X
    BY <1>1, <1>3
  <2> HIDE DEF X, N
  <2>2. F \in [(1..N) \X X -> X]
    BY <2>1
  <2> QED
    BY <2>2 DEF X
<1>5. \A k \in 1..N, x \in X : F[<<k, x>>] = H(k - 1, x)
  OBVIOUS
<1>6. \A u : u = E(u) <=> u = [l \in -1..M |-> IF l = -1 THEN {} ELSE H(l, u[l - 1])]
  BY DEF H
<1> HIDE DEF X, F, E, r, M
<1>7. PICK s : Iteration(N, X, a, F, s)
  BY <1>1, <1>4, IterationExists
<1> DEFINE u == [l \in -1..M |-> s[l + 1]]
<1>8. u = E(u)
  <2>1. u[-1] = {}
    BY <1>1, <1>7 DEF Iteration
  <2>2. ASSUME NEW l \in -1..M, l # -1 PROVE u[l] = H(l, u[l - 1])
    <3>1. l + 1 \in 1..N /\ (l + 1) - 1 = l /\ (l + 1) - 1 \in 0..N /\ l - 1 \in -1..M /\ (l - 1) + 1 = l
      BY <1>1, <2>2
    <3>2. s[l + 1] = F[<<l + 1, s[l]>>] /\ s[l] \in X
      BY <1>7, <3>1 DEF Iteration
    <3>3. s[l + 1] = H(l, s[l])
      BY <1>5, <3>1, <3>2
    <3> QED
      BY <3>1, <3>3
  <2>3. u = [l \in -1..M |-> u[l]]
    OBVIOUS
  <2> HIDE DEF u
  <2>4. u = [l \in -1..M |-> IF l = -1 THEN {} ELSE H(l, u[l - 1])]
    BY <2>1, <2>2, <2>3
  <2> QED
    BY <1>6, <2>4
<1>9. r = E(r)
  BY <1>8 DEF r
<1>10. r = [l \in -1..M |-> IF l = -1 THEN {} ELSE H(l, r[l - 1])]
  BY <1>6, <1>9
<1>11. r[-1] = {} /\ \A l \in 0..M : r[l] = H(l, r[l - 1])
  <2>1. -1 \in -1..M /\ \A l \in 0..M : l \in -1..M /\ l # -1
    BY <1>1
  <2> QED
    BY <1>10, <2>1
<1> DEFINE w == [k \in 0..N |-> r[k - 1]]
<1>12. Iterates(N, X, a, F, w)
  <2>1. w[0] = a
    BY <1>1, <1>11
  <2>2. ASSUME NEW k \in 1..N, w[k - 1] \in X PROVE w[k] = F[<<k, w[k - 1]>>]
    <3>1. k - 1 \in 0..M /\ k - 1 \in 0..N /\ k \in 0..N
      BY <1>1
    <3>2. w[k] = r[k - 1] /\ w[k - 1] = r[k - 1 - 1]
      BY <3>1
    <3> HIDE DEF w
    <3>3. w[k] = H(k - 1, w[k - 1])
      BY <1>11, <3>1, <3>2
    <3> QED
      BY <1>5, <2>2, <3>3
  <2> QED
    BY <2>1, <2>2 DEF Iterates
<1>13. \A k \in 0..N : w[k] \in X
  BY <1>1, <1>4, <1>12, IterationStays
<1>14. \A l \in -1..M : r[l] \in SUBSET Q
  <2> TAKE l \in -1..M
  <2>1. l + 1 \in 0..N /\ l + 1 - 1 = l
    BY <1>1
  <2>2. w[l + 1] = r[l]
    BY <2>1
  <2> QED
    BY <1>13, <2>1, <2>2 DEF X
<1>15. UpTo(z, r)
  BY <1>11 DEF UpTo, H, M
<1> QED
  BY <1>2, <1>14, <1>15 DEF M

\* What no layer leads out of holds all that is deduced.
LEMMA DeducedWithin ==
  ASSUME NEW z, NEW Q, \A l \in 0..Cardinality(Derived) : Keeps(z, l, Q)
  PROVE  DeducedUpTo(z) \subseteq Q
<1>1. Cardinality(Derived) \in -1..Cardinality(Derived)
  BY FS_CardinalityType, TaskShape
<1> QED
  BY <1>1, DeducedFrom

\* No layer leads out of the heads.
LEMMA KeepsHeads == \A z, l : Keeps(z, l, Heads)
BY DEF Keeps, Deduced, Heads

\* Only heads are deduced.
LEMMA DeducedHeads == \A z : DeducedUpTo(z) \subseteq Heads
BY KeepsHeads, DeducedWithin

\* What is deduced is closed under the axioms whose conditions are read positively, in
\* their own layer or an earlier one.
LEMMA DeducedClosed ==
  ASSUME NEW z, NEW r \in Rules,
         \A c \in r.cond : IF IsDerived(c) THEN c \in DeducedUpTo(z) /\ Layer[c[1]] <= Layer[r.head[1]]
                           ELSE z[c[1]] = c[2]
  PROVE  r.head \in DeducedUpTo(z)
<1> DEFINE M == Cardinality(Derived)
           l == Layer[r.head[1]]
<1>1. M \in Nat
  BY FS_CardinalityType, TaskShape
<1>2. PICK u : UpTo(z, u) /\ (\A j \in -1..M : u[j] \in SUBSET Heads) /\ DeducedUpTo(z) = u[M]
  BY KeepsHeads, DeducedFrom
<1>3. l \in Layers /\ l \in 0..M /\ r.head[1] \in Vars
  <2>1. r.head \in Facts /\ r.head[1] \in Derived
    BY TaskShape DEF IsDerived
  <2>2. l \in -1..M /\ l # -1 /\ r.head[1] \in Vars
    BY <2>1, TaskShape DEF Derived
  <2> QED
    BY <1>1, <2>1, <2>2 DEF Layers
<1> HIDE DEF M, l
<1>4. \A j \in 0..M : /\ j - 1 \in -1..M /\ u[j - 1] \subseteq u[j]
                      /\ \A f \in u[j] \ u[j - 1] : Layer[f[1]] = j
  <2> TAKE j \in 0..M
  <2>1. j - 1 \in -1..M /\ u[j - 1] \in SUBSET Heads
    BY <1>1, <1>2
  <2>2. u[j] = IF j \in Layers THEN Saturated(z, u[j - 1], j) ELSE u[j - 1]
    BY <1>2 DEF UpTo, M
  <2>3. /\ u[j - 1] \subseteq Saturated(z, u[j - 1], j)
        /\ \A f \in Saturated(z, u[j - 1], j) \ u[j - 1] : Layer[f[1]] = j
    BY <2>1, SaturatedClosed
  <2> QED
    BY <2>1, <2>2, <2>3
<1>5. \A j \in l..M : u[l] \subseteq u[j] /\ \A f \in u[j] \ u[l] : ~(Layer[f[1]] <= l)
  <2> DEFINE T == {j \in l..M : ~(u[l] \subseteq u[j] /\ \A f \in u[j] \ u[l] : ~(Layer[f[1]] <= l))}
  <2> SUFFICES ASSUME T # {} PROVE FALSE
    OBVIOUS
  <2>1. T \in SUBSET Nat
    BY <1>3
  <2> HIDE DEF T
  <2>2. PICK m \in T : \A k \in T : m <= k
    BY <2>1, LeastOf
  <2>3. m \in l..M /\ ~(u[l] \subseteq u[m] /\ \A f \in u[m] \ u[l] : ~(Layer[f[1]] <= l))
    BY <2>2 DEF T
  <2>4. m # l
    BY <2>3
  <2>5. m - 1 \in l..M /\ ~(m <= m - 1) /\ m \in 0..M /\ ~(m <= l)
    BY <1>1, <1>3, <2>3, <2>4
  <2>6. u[l] \subseteq u[m - 1] /\ \A f \in u[m - 1] \ u[l] : ~(Layer[f[1]] <= l)
    BY <2>2, <2>5 DEF T
  <2>7. u[m - 1] \subseteq u[m] /\ \A f \in u[m] \ u[m - 1] : Layer[f[1]] = m
    BY <1>4, <2>5
  <2> QED
    BY <2>3, <2>5, <2>6, <2>7
<1>6. M \in l..M
  BY <1>1, <1>3
<1>7. ASSUME NEW c \in r.cond PROVE IsRead(z, u[l], c)
  <2>1. CASE IsDerived(c)
    <3>1. c \in u[M] /\ Layer[c[1]] <= l
      BY <1>2, <2>1 DEF l
    <3>2. c \in u[l]
      BY <1>5, <1>6, <3>1
    <3> QED
      BY <2>1, <3>2 DEF IsRead
  <2>2. CASE ~IsDerived(c)
    BY <2>2 DEF IsRead
  <2> QED
    BY <2>1, <2>2
<1>8. u[l] = Saturated(z, u[l - 1], l) /\ u[l - 1] \in SUBSET Heads
  BY <1>2, <1>3, <1>4 DEF UpTo, M
<1>9. Deduced(z, u[l], l) = u[l]
  BY <1>8, SaturatedClosed
<1>10. r.head \in Deduced(z, u[l], l)
  BY <1>7 DEF Deduced, l
<1> QED
  BY <1>2, <1>5, <1>6, <1>9, <1>10

-----------------------------------------------------------------------------
(* The state with its derived variables.                                    *)

\* The axioms leave the base variables alone.
LEMMA ClosureBase ==
  ASSUME NEW z, NEW v \in Vars, v \notin Derived
  PROVE  Closure(z)[v] = z[v]
BY DEF Closure

\* A derived variable has a value that is read of what is deduced.
LEMMA ClosureReads ==
  ASSUME NEW z, NEW v \in Derived
  PROVE  Closure(z)[v] \in 0..10 /\ IsRead(z, DeducedUpTo(z), <<v, Closure(z)[v]>>)
<1> DEFINE D == DeducedUpTo(z)
<1>1. v \in Vars
  BY DEF Derived
<1>2. Closure(z)[v] = CHOOSE x \in 0..10 : IsRead(z, D, <<v, x>>)
  BY <1>1 DEF Closure
<1>3. D \subseteq Facts
  BY DeducedHeads, HeadsAre
<1>4. \E x \in 0..10 : IsRead(z, D, <<v, x>>)
  <2>1. CASE \E g \in D : g[1] = v
    <3>1. PICK g \in D : g[1] = v
      BY <2>1
    <3>2. g[2] \in 0..10 /\ g = <<v, g[2]>>
      BY <1>3, <3>1 DEF Facts
    <3>3. IsRead(z, D, <<v, g[2]>>)
      BY <3>1, <3>2 DEF IsRead, IsDerived
    <3> QED
      BY <3>2, <3>3
  <2>2. CASE ~\E g \in D : g[1] = v
    <3>1. Default[v] \in 0..10
      BY TaskShape DEF Facts
    <3>2. IsRead(z, D, <<v, Default[v]>>)
      BY <2>2 DEF IsRead, IsDerived
    <3> QED
      BY <3>1, <3>2
  <2> QED
    BY <2>1, <2>2
<1> HIDE DEF D
<1>5. Closure(z)[v] \in 0..10 /\ IsRead(z, D, <<v, Closure(z)[v]>>)
  BY <1>2, <1>4
<1> QED
  BY <1>5 DEF D

\* All the states, whatever their values.
State == [Vars -> Nat]

\* The axioms evaluated in a state give a state.
LEMMA ClosureType ==
  ASSUME NEW z \in State
  PROVE  Closure(z) \in State
<1>1. Closure(z) = [v \in Vars |-> Closure(z)[v]]
  BY DEF Closure
<1>2. ASSUME NEW v \in Vars PROVE Closure(z)[v] \in Nat
  <2>1. CASE v \in Derived
    <3>1. Closure(z)[v] \in 0..10
      BY <2>1, ClosureReads
    <3> QED
      BY <3>1
  <2>2. CASE v \notin Derived
    BY <2>2, ClosureBase DEF State
  <2> QED
    BY <2>1, <2>2
<1> QED
  BY <1>1, <1>2 DEF State

\* An operator leads from a state to a state.
LEMMA ApplyType ==
  ASSUME NEW z \in State, NEW a \in DOMAIN Op
  PROVE  Apply(Op[a], z) \in State
<1>1. Effects(Op[a], z) = [v \in Vars |-> Effects(Op[a], z)[v]]
  BY DEF Effects
<1>2. ASSUME NEW v \in Vars PROVE Effects(Op[a], z)[v] \in Nat
  <2>1. CASE Firing(Op[a], v, z) = {}
    BY <2>1, EffectsAre DEF State
  <2>2. CASE Firing(Op[a], v, z) # {}
    <3>1. PICK i \in Firing(Op[a], v, z) : Effects(Op[a], z)[v] = Op[a].effects[i].post
      BY <2>2, EffectsAre
    <3>2. i \in DOMAIN Op[a].effects
      BY DEF Firing
    <3>3. Op[a].effects[i] \in Effect
      BY <3>2, TaskShape
    <3> QED
      BY <3>1, <3>3 DEF Effect
  <2> QED
    BY <2>1, <2>2
<1>3. Effects(Op[a], z) \in State
  BY <1>1, <1>2 DEF State
<1> QED
  BY <1>3, ClosureType DEF Apply

-----------------------------------------------------------------------------
(* The states a plan goes through.                                          *)

\* Two sequences that take the same steps are one.
InStep(N, s, r) == s[0] = r[0] /\ \A k \in 1..N : s[k - 1] = r[k - 1] => s[k] = r[k]

\* Two executions that start alike and go on alike are the same.
LEMMA SameSteps ==
  ASSUME NEW N \in Nat, NEW s, NEW r, InStep(N, s, r)
  PROVE  \A k \in 0..N : s[k] = r[k]
<1> DEFINE T == {k \in 0..N : s[k] # r[k]}
<1> SUFFICES ASSUME T # {} PROVE FALSE
  OBVIOUS
<1>1. T \in SUBSET Nat
  OBVIOUS
<1> HIDE DEF T
<1>2. PICK m \in T : \A k \in T : m <= k
  BY <1>1, LeastOf
<1>3. m \in 0..N /\ s[m] # r[m]
  BY <1>2 DEF T
<1>4. m # 0
  BY <1>3 DEF InStep
<1>5. m \in 1..N /\ m - 1 \in 0..N /\ ~(m <= m - 1)
  BY <1>3, <1>4
<1>6. s[m - 1] = r[m - 1]
  BY <1>2, <1>5 DEF T
<1> QED
  BY <1>3, <1>5, <1>6 DEF InStep

\* Every action applied, and every inapplicable action skipped.
Follows(p, s, T) ==
  /\ T \in [0..Len(p) -> State] /\ T[0] = Closure(s)
  /\ \A t \in 1..Len(p) : T[t] = Apply(Op[p[t]], T[t - 1])

\* One step of AfterSkipping.
Skip(op, z) == IF Applicable(op, z) THEN Apply(op, z) ELSE z

\* All of them.
Skips(p, s, T) ==
  /\ T \in [0..Len(p) -> State] /\ T[0] = Closure(s)
  /\ \A t \in 1..Len(p) : T[t] = Skip(Op[p[t]], T[t - 1])

\* After is an execution.
LEMMA AfterFollows ==
  ASSUME NEW p \in Seq(DOMAIN Op), NEW s \in State
  PROVE  \E T : Follows(p, s, T) /\ \A k \in 0..Len(p) : After(p, s, k) = T[k]
<1> DEFINE N == Len(p)
           F == [y \in (1..N) \X State |-> Apply(Op[p[y[1]]], y[2])]
           a == Closure(s)
<1>1. N \in Nat /\ a \in State
  BY ClosureType
<1>2. \A k \in 1..N : p[k] \in DOMAIN Op
  OBVIOUS
<1>3. F \in [(1..N) \X State -> State]
  BY <1>2, ApplyType
<1>4. \A k \in 1..N, z \in State : F[<<k, z>>] = Apply(Op[p[k]], z)
  OBVIOUS
<1> HIDE DEF N, F, a
<1>5. PICK T : Iteration(N, State, a, F, T)
  BY <1>1, <1>3, IterationExists
<1>6. T \in [0..N -> State] /\ T[0] = a /\ \A k \in 1..N : T[k] = Apply(Op[p[k]], T[k - 1])
  <2>1. \A k \in 1..N : k - 1 \in 0..N
    BY <1>1
  <2> QED
    BY <1>4, <1>5, <2>1 DEF Iteration
<1>7. ASSUME NEW k \in 0..N PROVE After(p, s, k) = T[k]
  <2> DEFINE E(st) == [j \in 0..k |-> IF j = 0 THEN Closure(s) ELSE Apply(Op[p[j]], st[j - 1])]
             r == CHOOSE st : st = E(st)
             u == [j \in 0..k |-> T[j]]
  <2>1. After(p, s, k) = r[k]
    BY DEF After
  <2>2. \A j \in 0..k : j # 0 => j \in 1..N /\ j - 1 \in 0..k
    BY <1>1
  <2>3. u = E(u)
    BY <1>6, <2>2 DEF a
  <2>4. r = E(r)
    BY <2>3
  <2>5. r[0] = T[0] /\ \A j \in 1..k : r[j] = Apply(Op[p[j]], r[j - 1])
    <3>1. 0 \in 0..k /\ \A j \in 1..k : j \in 0..k /\ j # 0
      BY <1>1
    <3> HIDE DEF r
    <3> QED
      BY <1>6, <2>4, <3>1 DEF a
  <2> HIDE DEF E, r, u
  <2>6. InStep(k, r, T)
    BY <1>6, <2>2, <2>5 DEF InStep
  <2>8. k \in Nat /\ r[0] = T[0]
    BY <1>1, <2>5
  <2>7. \A j \in 0..k : r[j] = T[j]
    BY <2>6, <2>8, SameSteps
  <2> QED
    BY <1>1, <2>1, <2>7
<1>8. Follows(p, s, T)
  BY <1>6 DEF Follows, N, a
<1> QED
  BY <1>7, <1>8 DEF N

\* AfterSkipping is an execution that skips.
LEMMA AfterSkips ==
  ASSUME NEW p \in Seq(DOMAIN Op), NEW s \in State
  PROVE  \E T : Skips(p, s, T) /\ AfterSkipping(p, s) = T[Len(p)]
<1> DEFINE N == Len(p)
           F == [y \in (1..N) \X State |-> Skip(Op[p[y[1]]], y[2])]
           a == Closure(s)
<1>1. N \in Nat /\ a \in State
  BY ClosureType
<1>2. \A k \in 1..N : p[k] \in DOMAIN Op
  OBVIOUS
<1>3. F \in [(1..N) \X State -> State]
  BY <1>2, ApplyType DEF Skip
<1>4. \A k \in 1..N, z \in State : F[<<k, z>>] = Skip(Op[p[k]], z)
  OBVIOUS
<1> DEFINE E(st) == [j \in 0..N |-> IF j = 0 THEN Closure(s)
                                    ELSE IF Applicable(Op[p[j]], st[j - 1]) THEN Apply(Op[p[j]], st[j - 1])
                                    ELSE st[j - 1]]
           r == CHOOSE st : st = E(st)
<1>5. AfterSkipping(p, s) = r[N]
  BY DEF AfterSkipping
<1>6. \A st : st = E(st) <=> st = [j \in 0..N |-> IF j = 0 THEN a ELSE Skip(Op[p[j]], st[j - 1])]
  BY DEF Skip
<1> HIDE DEF N, F, a, E, r
<1>7. PICK T : Iteration(N, State, a, F, T)
  BY <1>1, <1>3, IterationExists
<1>8. T \in [0..N -> State] /\ T[0] = a /\ \A k \in 1..N : T[k] = Skip(Op[p[k]], T[k - 1])
  <2>1. \A k \in 1..N : k - 1 \in 0..N
    BY <1>1
  <2> QED
    BY <1>4, <1>7, <2>1 DEF Iteration
<1>9. T = E(T)
  <2>1. \A j \in 0..N : j # 0 => j \in 1..N
    BY <1>1
  <2>2. T = [j \in 0..N |-> IF j = 0 THEN a ELSE Skip(Op[p[j]], T[j - 1])]
    BY <1>8, <2>1
  <2> QED
    BY <1>6, <2>2
<1>10. r = E(r)
  BY <1>9 DEF r
<1>11. r[0] = T[0] /\ \A j \in 1..N : r[j] = Skip(Op[p[j]], r[j - 1])
  <2>1. 0 \in 0..N /\ \A j \in 1..N : j \in 0..N /\ j # 0
    BY <1>1
  <2>2. r = [j \in 0..N |-> IF j = 0 THEN a ELSE Skip(Op[p[j]], r[j - 1])]
    BY <1>6, <1>10
  <2> QED
    BY <1>8, <2>1, <2>2
<1>12. InStep(N, r, T)
  BY <1>8, <1>11 DEF InStep
<1>13. \A j \in 0..N : r[j] = T[j]
  BY <1>1, <1>11, <1>12, SameSteps
<1>14. Skips(p, s, T)
  BY <1>8 DEF Skips, N, a
<1> QED
  BY <1>1, <1>5, <1>13, <1>14 DEF N

\* The costs of facts.
Costs == Nat \cup {-1}

\* The type of an exploration.
Exploration ==
  [cost : [Facts -> Costs], depth : [Facts -> Int], by : [Facts -> SUBSET UnaryOperators],
   queue : SUBSET (Nat \X Facts), unsolved : Int, missing : [UnaryOperators -> Int],
   opCost : [UnaryOperators -> Nat], opDepth : [UnaryOperators -> Int]]

\* There are finitely many facts.
LEMMA FactsFinite == EngineTask => IsFiniteSet(Facts)
<1> SUFFICES ASSUME EngineTask PROVE IsFiniteSet(Facts)
  OBVIOUS
<1>1. IsFiniteSet(0..10)
  <2>1. 0 \in Int /\ 10 \in Int
    OBVIOUS
  <2> QED
    BY <2>1, FS_Interval
<1>2. IsFiniteSet(Vars \X (0..10))
  BY <1>1, FS_Product DEF EngineTask
<1> QED
  BY <1>2, FS_Subset DEF Facts

\* What an operator reads and writes are facts.
LEMMA OperatorShape ==
  ASSUME EngineTask, NEW a \in DOMAIN Op
  PROVE  /\ Op[a].effects \in Seq(Effect) /\ Required(Op[a]) \subseteq Facts
         /\ \A i \in DOMAIN Op[a].effects :
              LET e == Op[a].effects[i]
              IN  e.cond \subseteq Facts /\ e.var \in Vars /\ <<e.var, e.post>> \in Facts /\ Old(e) \subseteq Facts
<1>1. Op[a].prevail \subseteq Facts /\ Op[a].effects \in Seq(Effect)
  BY TaskShape
<1>2. ASSUME NEW i \in DOMAIN Op[a].effects
      PROVE  LET e == Op[a].effects[i]
             IN  e.cond \subseteq Facts /\ e.var \in Vars /\ <<e.var, e.post>> \in Facts /\ Old(e) \subseteq Facts
  <2>1. Op[a].effects[i] \in Effect
    BY <1>1
  <2> QED
    BY <2>1 DEF Effect, EngineTask, Old
<1> QED
  BY <1>1, <1>2 DEF Required

\* So is what a unary operator needs and reaches; it costs 0 or 1 by itself.
LEMMA UnaryShape ==
  ASSUME EngineTask, NEW u \in UnaryOperators
  PROVE  u.pre \subseteq Facts /\ IsFiniteSet(u.pre) /\ u.effect \in Facts /\ BaseCost(u) \in 0..1
<1>1. u.pre \subseteq Facts /\ u.effect \in Facts
  <2>1. CASE \E r \in Rules : u = UnaryRule(r)
    <3>1. PICK r \in Rules : u = UnaryRule(r)
      BY <2>1
    <3>2. r.cond \subseteq Facts /\ r.head \in Facts /\ r.head[1] \in Derived
      BY TaskShape DEF IsDerived
    <3>3. Dom[r.head[1]] = 2
      BY <3>2 DEF EngineTask
    <3>4. r.head[1] \in Vars /\ r.head[2] \in 0..1
      BY <3>2, <3>3 DEF Facts
    <3>5. <<r.head[1], 1 - r.head[2]>> \in Facts
      BY <3>3, <3>4 DEF Facts
    <3> QED
      BY <3>1, <3>2, <3>5 DEF UnaryRule
  <2>2. CASE \E a \in DOMAIN Op : u \in Unary(a)
    <3>1. PICK a \in DOMAIN Op : u \in Unary(a)
      BY <2>2
    <3>2. PICK i \in DOMAIN Op[a].effects :
            u = [name |-> a, axiom |-> FALSE, pre |-> Required(Op[a]) \cup Op[a].effects[i].cond,
                 effect |-> <<Op[a].effects[i].var, Op[a].effects[i].post>>]
      BY <3>1 DEF Unary, ToSet
    <3> QED
      BY <3>2, OperatorShape
  <2>3. (\E a \in DOMAIN Op : u \in Unary(a)) \/ \E r \in Rules : u = UnaryRule(r)
    <3>1. u \in UNION {Unary(a) : a \in DOMAIN Op} \/ u \in {UnaryRule(r) : r \in Rules}
      BY DEF UnaryOperators
    <3>2. ASSUME u \in UNION {Unary(a) : a \in DOMAIN Op} PROVE \E a \in DOMAIN Op : u \in Unary(a)
      BY <3>2
    <3> QED
      BY <3>1, <3>2
  <2> QED
    BY <2>1, <2>2, <2>3
<1>2. IsFiniteSet(u.pre)
  BY <1>1, FactsFinite, FS_Subset
<1> QED
  BY <1>1, <1>2 DEF BaseCost

-----------------------------------------------------------------------------
\* What an effect of the operators us does to the fact f.
Cheaper(x, us, f) == {u \in us : u.effect = f /\ (x.cost[f] = Unreached \/ x.opCost[u] < x.cost[f])}

\* ... it makes it cheaper,
Improved(x, y, us, f) ==
  \E u \in Cheaper(x, us, f) :
    /\ y.cost[f] = x.opCost[u] /\ y.by[f] = {u} /\ y.depth[f] = DepthBehind(u, x.opDepth[u])
    /\ \A w \in Cheaper(x, us, f) : x.opCost[u] <= x.opCost[w]

\* ... or leaves it alone.
Left(x, y, us, f) ==
  Cheaper(x, us, f) = {} /\ y.cost[f] = x.cost[f] /\ y.by[f] = x.by[f] /\ y.depth[f] = x.depth[f]

\* Of some unary operators one is the cheapest.
LEMMA CheapestExists ==
  ASSUME NEW x \in Exploration, NEW us \in SUBSET UnaryOperators, NEW S \in SUBSET us, S # {}
  PROVE  \E u \in S : \A w \in S : x.opCost[u] <= x.opCost[w]
<1>1. \A u \in S : x.opCost[u] \in Nat
  BY DEF Exploration
<1>2. {x.opCost[u] : u \in S} \in SUBSET Nat /\ {x.opCost[u] : u \in S} # {}
  BY <1>1
<1>3. PICK c \in {x.opCost[u] : u \in S} : \A d \in {x.opCost[u] : u \in S} : c <= d
  BY <1>2, LeastOf
<1> QED
  BY <1>3

\* enqueue_if_necessary, fact by fact: it becomes as cheap as the cheapest of the
\* operators makes it, and is queued, or it is left alone.
LEMMA ReachingIs ==
  ASSUME EngineTask, NEW x \in Exploration, NEW us \in SUBSET UnaryOperators
  PROVE  LET y == Reaching(x, us)
         IN  /\ y \in Exploration
             /\ y.unsolved = x.unsolved /\ y.missing = x.missing
             /\ y.opCost = x.opCost /\ y.opDepth = x.opDepth
             /\ \A f \in Facts : Improved(x, y, us, f) \/ Left(x, y, us, f)
             /\ y.queue = x.queue \cup {<<y.cost[f], f>> : f \in {h \in Facts : Cheaper(x, us, h) # {}}}
<1> DEFINE better(f) == {u \in us : u.effect = f /\ (x.cost[f] = Unreached \/ x.opCost[u] < x.cost[f])}
           D == {g \in Facts : better(g) # {}}
           by == [f \in D |-> CHOOSE u \in better(f) : \A w \in better(f) : x.opCost[u] <= x.opCost[w]]
           cost == [f \in Facts |-> IF f \in D THEN x.opCost[by[f]] ELSE x.cost[f]]
           depth == [f \in Facts |-> IF f \in D THEN DepthBehind(by[f], x.opDepth[by[f]]) ELSE x.depth[f]]
           from == [f \in Facts |-> IF f \in D THEN {by[f]} ELSE x.by[f]]
           queue == x.queue \cup {<<x.opCost[by[f]], f>> : f \in D}
           y == Reaching(x, us)
<1>1. \A f \in D : by[f] \in better(f) /\ \A w \in better(f) : x.opCost[by[f]] <= x.opCost[w]
  <2> TAKE f \in D
  <2>1. better(f) # {} /\ better(f) \in SUBSET us
    OBVIOUS
  <2> HIDE DEF better
  <2>2. \E u \in better(f) : \A w \in better(f) : x.opCost[u] <= x.opCost[w]
    BY <2>1, CheapestExists
  <2> QED
    BY <2>2
<1>2. y = [x EXCEPT !.cost = cost, !.depth = depth, !.by = from, !.queue = queue]
  BY DEF Reaching
<1>3. \A f \in D : by[f] \in UnaryOperators /\ x.opCost[by[f]] \in Nat /\ DepthBehind(by[f], x.opDepth[by[f]]) \in Int
  <2> TAKE f \in D
  <2>1. by[f] \in UnaryOperators
    BY <1>1
  <2> DEFINE u == by[f]
  <2> HIDE DEF u
  <2>2. x.opCost[u] \in Nat /\ x.opDepth[u] \in Int
    BY <2>1 DEF u, Exploration
  <2>3. DepthBehind(u, x.opDepth[u]) \in Int
    BY <2>2 DEF DepthBehind
  <2> QED
    BY <2>1, <2>2, <2>3 DEF u
<1> HIDE DEF by, D
<1>4. /\ cost \in [Facts -> Costs] /\ depth \in [Facts -> Int] /\ from \in [Facts -> SUBSET UnaryOperators]
  BY <1>3 DEF Exploration, Costs
<1>5. queue \in SUBSET (Nat \X Facts)
  BY <1>3 DEF Exploration, D
<1>6. /\ y.cost = cost /\ y.depth = depth /\ y.by = from /\ y.queue = queue
      /\ y.unsolved = x.unsolved /\ y.missing = x.missing /\ y.opCost = x.opCost /\ y.opDepth = x.opDepth
      /\ y = [cost |-> y.cost, depth |-> y.depth, by |-> y.by, queue |-> y.queue, unsolved |-> y.unsolved,
              missing |-> y.missing, opCost |-> y.opCost, opDepth |-> y.opDepth]
  BY <1>2 DEF Exploration
<1>7. y \in Exploration
  BY <1>4, <1>5, <1>6 DEF Exploration
<1>8. \A f \in Facts : better(f) = Cheaper(x, us, f)
  BY DEF Cheaper
<1>9. ASSUME NEW f \in Facts PROVE Improved(x, y, us, f) \/ Left(x, y, us, f)
  <2>1. CASE f \in D
    <3>1. y.cost[f] = x.opCost[by[f]] /\ y.by[f] = {by[f]} /\ y.depth[f] = DepthBehind(by[f], x.opDepth[by[f]])
      BY <1>6, <2>1
    <3>2. by[f] \in Cheaper(x, us, f) /\ \A w \in Cheaper(x, us, f) : x.opCost[by[f]] <= x.opCost[w]
      BY <1>1, <1>8, <2>1
    <3> QED
      BY <3>1, <3>2 DEF Improved
  <2>2. CASE f \notin D
    <3>1. Cheaper(x, us, f) = {}
      BY <1>8, <2>2 DEF D
    <3> QED
      BY <1>6, <2>2, <3>1 DEF Left
  <2> QED
    BY <2>1, <2>2
<1>10. queue = x.queue \cup {<<y.cost[f], f>> : f \in {h \in Facts : Cheaper(x, us, h) # {}}}
  <2>1. D = {h \in Facts : Cheaper(x, us, h) # {}}
    BY <1>8 DEF D
  <2>2. \A f \in D : x.opCost[by[f]] = y.cost[f]
    BY <1>6, <2>1
  <2> HIDE DEF y
  <2>3. {<<x.opCost[by[f]], f>> : f \in D} = {<<y.cost[f], f>> : f \in D}
    BY <2>2
  <2> QED
    BY <2>1, <2>3
<1> QED
  BY <1>6, <1>7, <1>9, <1>10

\* The facts that are reached and not in the queue any more.
Settled(x) == {f \in Facts : x.cost[f] # Unreached /\ <<x.cost[f], f>> \notin x.queue}

\* What is settled costs no more than what is in the queue.
Orderly(x) ==
  /\ x \in Exploration
  /\ \A e \in x.queue : x.cost[e[2]] # Unreached /\ x.cost[e[2]] <= e[1]
  /\ \A f \in Settled(x), e \in x.queue : x.cost[f] <= e[1]

\* The goals that are not settled are counted.
Counted(x, g) == x.unsolved = Cardinality(g \ Settled(x))

\* Every unary operator knows how many of its preconditions are not settled, and costs as
\* much as each of those that are.
Informed(x) ==
  \A u \in UnaryOperators :
    /\ x.missing[u] = Cardinality(u.pre \ Settled(x))
    /\ BaseCost(u) <= x.opCost[u]
    /\ \A f \in u.pre \cap Settled(x) : BaseCost(u) + x.cost[f] <= x.opCost[u]
    /\ u.pre \subseteq Settled(x) => x.cost[u.effect] # Unreached

\* What holds in s is reached for nothing, by no operator.
Given(x, s) == \A f \in Facts : s[f[1]] = f[2] => x.cost[f] = 0 /\ x.by[f] = {}

\* The operator that reached a fact had all its preconditions, each settled earlier.
Reason(x, f, u) ==
  /\ u.effect = f /\ u.pre \subseteq Settled(x) /\ x.cost[f] = x.opCost[u] /\ BaseCost(u) <= x.opCost[u]
  /\ \A h \in u.pre : BaseCost(u) + x.cost[h] <= x.opCost[u]

\* An order in which the facts were settled: what reached a fact was settled before it.
RankedBy(x, rank, n) ==
  /\ rank \in [Facts -> Nat] /\ n \in Nat
  /\ \A f \in Facts : IF f \in Settled(x) THEN rank[f] < n ELSE rank[f] = n
  /\ \A f \in Facts : \A u \in x.by[f] : Reason(x, f, u) /\ \A h \in u.pre : rank[h] < rank[f]

\* What is reached by no operator holds in s.
Traced(x, s) == \A f \in Facts : x.by[f] = {} /\ x.cost[f] # Unreached => s[f[1]] = f[2]

\* The exploration of the state s for the goal g is sound.
SoundSoFar(x, s, g) ==
  /\ Orderly(x) /\ Counted(x, g) /\ (x.unsolved # 0 => Informed(x)) /\ Given(x, s)
  /\ Traced(x, s) /\ \E rank, n : RankedBy(x, rank, n)

\* Nothing becomes cheaper than it is for nothing.
LEMMA GivenStays ==
  ASSUME EngineTask, NEW x \in Exploration, NEW us \in SUBSET UnaryOperators, NEW s, Given(x, s)
  PROVE  Given(Reaching(x, us), s)
<1> DEFINE y == Reaching(x, us)
<1> SUFFICES ASSUME NEW f \in Facts, s[f[1]] = f[2] PROVE y.cost[f] = 0 /\ y.by[f] = {}
  BY DEF Given
<1>1. x.cost[f] = 0 /\ x.by[f] = {}
  BY DEF Given
<1>2. \A u \in us : x.opCost[u] \in Nat
  BY DEF Exploration
<1>3. Cheaper(x, us, f) = {}
  BY <1>1, <1>2 DEF Cheaper, Unreached
<1>4. Left(x, y, us, f)
  BY <1>3, ReachingIs DEF Improved
<1> QED
  BY <1>1, <1>4 DEF Left

\* The exploration starts sound (setup_exploration_queue).
LEMMA SetupSound ==
  ASSUME EngineTask, NEW s \in [Vars -> Nat], NEW g \in SUBSET Facts
  PROVE  SoundSoFar(Setup(s, g), s, g)
<1> DEFINE given(f) == s[f[1]] = f[2]
           x == [cost |-> [f \in Facts |-> IF given(f) THEN 0 ELSE Unreached],
                 depth |-> [f \in Facts |-> IF given(f) THEN 0 ELSE -1],
                 by |-> [f \in Facts |-> {}],
                 queue |-> {<<0, f>> : f \in {h \in Facts : given(h)}},
                 unsolved |-> Cardinality(g),
                 missing |-> [u \in UnaryOperators |-> Cardinality(u.pre)],
                 opCost |-> [u \in UnaryOperators |-> BaseCost(u)],
                 opDepth |-> [u \in UnaryOperators |-> IF u.pre = {} THEN 0 ELSE -1]]
           us == {u \in UnaryOperators : u.pre = {}}
           y == Reaching(x, us)
<1>1. Setup(s, g) = y
  BY DEF Setup
<1>2. x \in Exploration
  <2>1. \A u \in UnaryOperators : Cardinality(u.pre) \in Int /\ BaseCost(u) \in Nat
    BY UnaryShape, FS_CardinalityType
  <2>2. Cardinality(g) \in Int
    BY FactsFinite, FS_Subset, FS_CardinalityType
  <2>3. x.queue \in SUBSET (Nat \X Facts)
    OBVIOUS
  <2>4. x.cost \in [Facts -> Costs] /\ x.depth \in [Facts -> Int] /\ x.by \in [Facts -> SUBSET UnaryOperators]
    BY DEF Costs, Unreached
  <2>5. x.missing \in [UnaryOperators -> Int] /\ x.opCost \in [UnaryOperators -> Nat] /\ x.opDepth \in [UnaryOperators -> Int]
    BY <2>1
  <2> QED
    BY <2>2, <2>3, <2>4, <2>5 DEF Exploration
<1>3. us \in SUBSET UnaryOperators
  OBVIOUS
<1>4. /\ \A f \in Facts : x.cost[f] = IF given(f) THEN 0 ELSE Unreached
      /\ \A f \in Facts : given(f) <=> <<0, f>> \in x.queue
      /\ \A e \in x.queue : e[1] = 0 /\ e[2] \in Facts /\ given(e[2])
      /\ x.unsolved = Cardinality(g)
      /\ \A u \in UnaryOperators : x.missing[u] = Cardinality(u.pre) /\ x.opCost[u] = BaseCost(u)
      /\ \A u \in UnaryOperators : x.opCost[u] \in Nat
      /\ \A f \in Facts : x.by[f] = {}
      /\ Given(x, s)
  BY <1>2 DEF Given, Exploration
<1> HIDE DEF x
<1>5. /\ y \in Exploration /\ y.unsolved = x.unsolved /\ y.missing = x.missing /\ y.opCost = x.opCost
      /\ \A f \in Facts : Improved(x, y, us, f) \/ Left(x, y, us, f)
      /\ y.queue = x.queue \cup {<<y.cost[f], f>> : f \in {h \in Facts : Cheaper(x, us, h) # {}}}
  BY <1>2, <1>3, ReachingIs
<1>6. Given(y, s)
  BY <1>2, <1>3, <1>4, GivenStays
<1> HIDE DEF y, us
<1>7. \A f \in Facts : Improved(x, y, us, f) => y.cost[f] \in Nat /\ Cheaper(x, us, f) # {}
  BY <1>3, <1>4 DEF Improved, Cheaper
<1>8. Settled(y) = {}
  <2> SUFFICES ASSUME NEW f \in Settled(y) PROVE FALSE
    OBVIOUS
  <2>1. f \in Facts /\ y.cost[f] # Unreached /\ <<y.cost[f], f>> \notin y.queue
    BY DEF Settled
  <2>2. Left(x, y, us, f)
    BY <1>5, <1>7, <2>1
  <2>3. y.cost[f] = x.cost[f] /\ x.cost[f] = 0 /\ given(f)
    BY <1>4, <2>1, <2>2 DEF Left
  <2> QED
    BY <1>4, <1>5, <2>1, <2>3
<1>9. ASSUME NEW e \in y.queue PROVE y.cost[e[2]] # Unreached /\ y.cost[e[2]] <= e[1]
  <2>1. CASE e \in x.queue
    BY <1>4, <1>6, <2>1 DEF Given, Unreached
  <2>2. CASE e \notin x.queue
    <3>1. PICK f \in Facts : e = <<y.cost[f], f>> /\ Cheaper(x, us, f) # {}
      BY <1>5, <2>2
    <3>2. Improved(x, y, us, f)
      BY <1>5, <3>1 DEF Left
    <3> QED
      BY <1>7, <3>1, <3>2 DEF Unreached
  <2> QED
    BY <2>1, <2>2
<1>10. ASSUME NEW u \in UnaryOperators, u.pre \subseteq Settled(y) PROVE y.cost[u.effect] # Unreached
  <2>1. u.pre = {} /\ u \in us
    BY <1>8, <1>10 DEF us
  <2>2. u.effect \in Facts
    BY UnaryShape
  <2>3. CASE Improved(x, y, us, u.effect)
    BY <1>7, <2>2, <2>3 DEF Unreached
  <2>4. CASE Left(x, y, us, u.effect)
    BY <2>1, <2>2, <2>4 DEF Left, Cheaper
  <2> QED
    BY <1>5, <2>2, <2>3, <2>4
<1>11. g \ {} = g /\ \A u \in UnaryOperators : u.pre \ {} = u.pre
  OBVIOUS
<1>12. Orderly(y)
  BY <1>5, <1>8, <1>9 DEF Orderly
<1>13. Counted(y, g)
  BY <1>4, <1>5, <1>8, <1>11 DEF Counted
<1>14. Informed(y)
  <2>1. \A u \in UnaryOperators : BaseCost(u) <= y.opCost[u]
    BY <1>4, <1>5, UnaryShape
  <2> QED
    BY <1>4, <1>5, <1>8, <1>10, <1>11, <2>1 DEF Informed
<1>15. Traced(y, s)
  <2> SUFFICES ASSUME NEW f \in Facts, y.by[f] = {}, y.cost[f] # Unreached PROVE s[f[1]] = f[2]
    BY DEF Traced
  <2>1. ~Improved(x, y, us, f)
    BY DEF Improved
  <2>2. y.cost[f] = x.cost[f]
    BY <1>5, <2>1 DEF Left
  <2> QED
    BY <1>4, <2>2
<1>16. RankedBy(y, [f \in Facts |-> 0], 0)
  <2>1. ASSUME NEW f \in Facts, NEW u \in y.by[f] PROVE Reason(y, f, u) /\ u.pre = {}
    <3>1. Improved(x, y, us, f)
      BY <1>4, <1>5, <2>1 DEF Left
    <3>2. u \in Cheaper(x, us, f) /\ y.cost[f] = x.opCost[u]
      BY <2>1, <3>1 DEF Improved
    <3>3. u \in UnaryOperators /\ u.pre = {} /\ u.effect = f
      BY <3>2 DEF Cheaper, us
    <3> QED
      BY <1>5, <1>14, <3>2, <3>3 DEF Reason, Informed
  <2> QED
    BY <1>8, <2>1 DEF RankedBy
<1> QED
  BY <1>1, <1>6, <1>12, <1>13, <1>14, <1>15, <1>16 DEF SoundSoFar

\* What a fact tells the operators that wait for it.
LEMMA TriggeredIs ==
  ASSUME EngineTask, NEW x \in Exploration, NEW f \in Facts, x.cost[f] \in Nat
  PROVE  LET us == {u \in UnaryOperators : f \in u.pre /\ x.missing[u] = 1}
         IN  \E told \in Exploration :
               /\ Triggered(x, f) = Reaching(told, us)
               /\ told.cost = x.cost /\ told.depth = x.depth /\ told.by = x.by /\ told.queue = x.queue
               /\ told.unsolved = x.unsolved
               /\ \A u \in UnaryOperators :
                    IF f \in u.pre
                    THEN /\ told.missing[u] = x.missing[u] - 1 /\ told.opCost[u] = x.opCost[u] + x.cost[f]
                         /\ told.opDepth[u] = Larger(x.opDepth[u], x.depth[f])
                    ELSE /\ told.missing[u] = x.missing[u] /\ told.opCost[u] = x.opCost[u]
                         /\ told.opDepth[u] = x.opDepth[u]
<1> DEFINE waiting == {u \in UnaryOperators : f \in u.pre}
           missing == [u \in DOMAIN x.missing |-> IF u \in waiting THEN x.missing[u] - 1 ELSE x.missing[u]]
           opCost == [u \in DOMAIN x.opCost |-> IF u \in waiting THEN x.opCost[u] + x.cost[f] ELSE x.opCost[u]]
           opDepth == [u \in DOMAIN x.opDepth |-> IF u \in waiting THEN Larger(x.opDepth[u], x.depth[f]) ELSE x.opDepth[u]]
           told == [x EXCEPT !.missing = missing, !.opCost = opCost, !.opDepth = opDepth]
           us == {u \in waiting : x.missing[u] = 1}
<1>1. Triggered(x, f) = Reaching(told, us)
  BY DEF Triggered
<1>2. DOMAIN x.missing = UnaryOperators /\ DOMAIN x.opCost = UnaryOperators /\ DOMAIN x.opDepth = UnaryOperators
  BY DEF Exploration
<1>3. /\ missing \in [UnaryOperators -> Int] /\ opCost \in [UnaryOperators -> Nat] /\ opDepth \in [UnaryOperators -> Int]
  <2>1. x.depth[f] \in Int
    BY DEF Exploration
  <2>2. \A u \in UnaryOperators : x.missing[u] \in Int /\ x.opCost[u] \in Nat /\ x.opDepth[u] \in Int
    BY DEF Exploration
  <2> QED
    BY <1>2, <2>1, <2>2 DEF Larger
<1>4. /\ told.missing = missing /\ told.opCost = opCost /\ told.opDepth = opDepth
      /\ told.cost = x.cost /\ told.depth = x.depth /\ told.by = x.by /\ told.queue = x.queue /\ told.unsolved = x.unsolved
      /\ told = [cost |-> x.cost, depth |-> x.depth, by |-> x.by, queue |-> x.queue, unsolved |-> x.unsolved,
                 missing |-> missing, opCost |-> opCost, opDepth |-> opDepth]
  <2> HIDE DEF missing, opCost, opDepth
  <2>1. told = [x EXCEPT !.missing = missing, !.opCost = opCost, !.opDepth = opDepth]
    OBVIOUS
  <2> HIDE DEF told
  <2> QED
    BY <2>1 DEF Exploration
<1>5. told \in Exploration
  <2> HIDE DEF missing, opCost, opDepth, told
  <2>1. /\ x.cost \in [Facts -> Costs] /\ x.depth \in [Facts -> Int] /\ x.by \in [Facts -> SUBSET UnaryOperators]
        /\ x.queue \in SUBSET (Nat \X Facts) /\ x.unsolved \in Int
    BY DEF Exploration
  <2> QED
    BY <1>3, <1>4, <2>1 DEF Exploration
<1>6. \A u \in UnaryOperators :
        IF f \in u.pre
        THEN /\ missing[u] = x.missing[u] - 1 /\ opCost[u] = x.opCost[u] + x.cost[f]
             /\ opDepth[u] = Larger(x.opDepth[u], x.depth[f])
        ELSE /\ missing[u] = x.missing[u] /\ opCost[u] = x.opCost[u]
             /\ opDepth[u] = x.opDepth[u]
  BY <1>2
<1>7. us = {u \in UnaryOperators : f \in u.pre /\ x.missing[u] = 1}
  OBVIOUS
<1> HIDE DEF missing, opCost, opDepth, told, us
<1> QED
  BY <1>1, <1>4, <1>5, <1>6, <1>7

\* An exploration from which an entry of the cheapest bucket has been taken.
Taken(x, r, e) ==
  /\ e \in x.queue /\ \A d \in x.queue : e[1] <= d[1]
  /\ r \in Exploration /\ r.queue = x.queue \ {e}
  /\ r.cost = x.cost /\ r.depth = x.depth /\ r.by = x.by
  /\ r.missing = x.missing /\ r.opCost = x.opCost /\ r.opDepth = x.opDepth

\* The fact of that entry is settled, unless it has become cheaper since.
LEMMA TakenSettles ==
  ASSUME NEW x, Orderly(x), NEW r, NEW e, Taken(x, r, e)
  PROVE  /\ e[2] \in Facts /\ x.cost[e[2]] \in Nat /\ e[1] \in Nat /\ x.cost[e[2]] <= e[1]
         /\ x.cost[e[2]] < e[1] => Settled(r) = Settled(x) /\ Orderly(r)
         /\ x.cost[e[2]] >= e[1] =>
              /\ x.cost[e[2]] = e[1] /\ e[2] \notin Settled(x) /\ Settled(r) = Settled(x) \cup {e[2]}
              /\ \A f \in Settled(r), d \in r.queue : x.cost[f] <= d[1]
              /\ \A f \in Settled(r) : x.cost[f] <= x.cost[e[2]]
<1>1. /\ x \in Exploration /\ e \in x.queue /\ e \in Nat \X Facts /\ r \in Exploration
  BY DEF Orderly, Taken, Exploration
<1>2. e[1] \in Nat /\ e[2] \in Facts /\ e = <<e[1], e[2]>>
  BY <1>1
<1>3. x.cost[e[2]] # Unreached /\ x.cost[e[2]] <= e[1] /\ x.cost[e[2]] \in Costs
  BY <1>1, <1>2 DEF Orderly, Exploration
<1>4. x.cost[e[2]] \in Nat
  BY <1>3 DEF Costs, Unreached
<1>5. /\ \A f \in Facts : x.cost[f] # Unreached => x.cost[f] \in Nat
      /\ \A d \in x.queue : d[1] \in Nat
  BY <1>1 DEF Exploration, Costs, Unreached
<1>6. \A f \in Facts : <<x.cost[f], f>> \in r.queue <=> <<x.cost[f], f>> \in x.queue /\ ~(f = e[2] /\ x.cost[f] = e[1])
  BY <1>2 DEF Taken
<1>7. ASSUME x.cost[e[2]] < e[1] PROVE Settled(r) = Settled(x) /\ Orderly(r)
  <2>1. Settled(r) = Settled(x)
    BY <1>4, <1>2, <1>6, <1>7 DEF Settled, Taken
  <2> QED
    BY <2>1, <1>1 DEF Orderly, Taken
<1>8. ASSUME x.cost[e[2]] >= e[1]
      PROVE  /\ x.cost[e[2]] = e[1] /\ e[2] \notin Settled(x) /\ Settled(r) = Settled(x) \cup {e[2]}
             /\ \A f \in Settled(r), d \in r.queue : x.cost[f] <= d[1]
             /\ \A f \in Settled(r) : x.cost[f] <= x.cost[e[2]]
  <2>1. x.cost[e[2]] = e[1]
    BY <1>2, <1>3, <1>4, <1>8
  <2>2. e[2] \notin Settled(x)
    BY <1>1, <1>2, <2>1 DEF Settled
  <2>3. Settled(r) = Settled(x) \cup {e[2]}
    BY <1>2, <1>3, <1>6, <2>1 DEF Settled, Taken
  <2>4. \A f \in Settled(x) : x.cost[f] <= x.cost[e[2]]
    BY <1>1, <2>1 DEF Orderly
  <2>5. \A f \in Settled(r), d \in r.queue : x.cost[f] <= d[1]
    <3> TAKE f \in Settled(r), d \in r.queue
    <3>1. d \in x.queue /\ e[1] <= d[1]
      BY DEF Taken
    <3>2. CASE f \in Settled(x)
      BY <3>1, <3>2 DEF Orderly
    <3>3. CASE f = e[2]
      BY <2>1, <3>1, <3>3
    <3> QED
      BY <2>3, <3>2, <3>3
  <2> QED
    BY <1>4, <2>1, <2>2, <2>3, <2>4, <2>5
<1> QED
  BY <1>2, <1>3, <1>4, <1>7, <1>8

\* A turn that tells of a fact leaves it sound.
LEMMA TriggeredSound ==
  ASSUME EngineTask, NEW x, Orderly(x), Informed(x), NEW r, NEW e, Taken(x, r, e), x.cost[e[2]] >= e[1]
  PROVE  LET y == Triggered(r, e[2])
         IN  /\ Orderly(y) /\ Informed(y) /\ Settled(y) = Settled(x) \cup {e[2]} /\ y.unsolved = r.unsolved
             /\ \A s : Given(x, s) => Given(y, s)
             /\ \A s : Traced(x, s) => Traced(y, s)
             /\ (\E rank, n : RankedBy(x, rank, n)) => \E rank, n : RankedBy(y, rank, n)
<1> DEFINE f == e[2]
           c == x.cost[f]
           us == {u \in UnaryOperators : f \in u.pre /\ r.missing[u] = 1}
           y == Triggered(r, f)
<1>1. /\ f \in Facts /\ c \in Nat /\ c = e[1] /\ f \notin Settled(x) /\ Settled(r) = Settled(x) \cup {f}
      /\ \A h \in Settled(r), d \in r.queue : x.cost[h] <= d[1]
      /\ \A h \in Settled(r) : x.cost[h] <= c
  BY TakenSettles
<1>2. x \in Exploration /\ r \in Exploration /\ r.cost = x.cost /\ r.missing = x.missing /\ r.opCost = x.opCost
      /\ r.by = x.by /\ r.queue \subseteq x.queue
  BY DEF Taken, Orderly
<1>3. PICK told \in Exploration :
        /\ Triggered(r, f) = Reaching(told, {u \in UnaryOperators : f \in u.pre /\ r.missing[u] = 1})
        /\ told.cost = r.cost /\ told.depth = r.depth /\ told.by = r.by /\ told.queue = r.queue
        /\ told.unsolved = r.unsolved
        /\ \A u \in UnaryOperators :
             IF f \in u.pre
             THEN /\ told.missing[u] = r.missing[u] - 1 /\ told.opCost[u] = r.opCost[u] + r.cost[f]
                  /\ told.opDepth[u] = Larger(r.opDepth[u], r.depth[f])
             ELSE /\ told.missing[u] = r.missing[u] /\ told.opCost[u] = r.opCost[u]
                  /\ told.opDepth[u] = r.opDepth[u]
  <2>1. r.cost[f] \in Nat /\ r \in Exploration /\ f \in Facts
    BY <1>1, <1>2
  <2> HIDE DEF f
  <2> QED
    BY <2>1, TriggeredIs
<1>21. /\ y = Reaching(told, us)
       /\ told.cost = x.cost /\ told.by = x.by /\ told.queue = r.queue /\ told.unsolved = r.unsolved
       /\ \A u \in UnaryOperators :
            IF f \in u.pre
            THEN told.missing[u] = x.missing[u] - 1 /\ told.opCost[u] = x.opCost[u] + c
            ELSE told.missing[u] = x.missing[u] /\ told.opCost[u] = x.opCost[u]
  BY <1>2, <1>3
<1>4. us \in SUBSET UnaryOperators
  OBVIOUS
<1>5. /\ y \in Exploration /\ y.unsolved = told.unsolved /\ y.missing = told.missing /\ y.opCost = told.opCost
      /\ \A h \in Facts : Improved(told, y, us, h) \/ Left(told, y, us, h)
      /\ y.queue = told.queue \cup {<<y.cost[h], h>> : h \in {i \in Facts : Cheaper(told, us, i) # {}}}
  <2> HIDE DEF y, us
  <2>1. told \in Exploration
    BY <1>3
  <2> QED
    BY <1>21, <1>4, <2>1, ReachingIs
<1>6. \A s : Given(x, s) => Given(y, s)
  <2> TAKE s
  <2> HAVE Given(x, s)
  <2>1. Given(told, s)
    BY <1>21 DEF Given
  <2> QED
    BY <1>21, <1>4, <2>1, GivenStays
<1>7. /\ \A h \in Facts : x.cost[h] # Unreached => x.cost[h] \in Nat
      /\ \A u \in UnaryOperators : x.opCost[u] \in Nat
  BY <1>2 DEF Exploration, Costs, Unreached
<1>8. \A u \in us : u \in UnaryOperators /\ told.opCost[u] \in Nat /\ told.opCost[u] >= c /\ x.missing[u] = 1 /\ f \in u.pre
  BY <1>1, <1>2, <1>21, <1>7
<1>9. \A u \in UnaryOperators : f \in u.pre /\ x.missing[u] = 1 => u \in us
  BY <1>2
<1> HIDE DEF us, y
<1>10. \A h \in Facts : Improved(told, y, us, h) =>
         /\ Cheaper(told, us, h) # {} /\ y.cost[h] \in Nat /\ y.cost[h] >= c
         /\ x.cost[h] # Unreached => y.cost[h] < x.cost[h]
  BY <1>21, <1>8 DEF Improved, Cheaper
<1>11. \A h \in Facts : Left(told, y, us, h) => Cheaper(told, us, h) = {} /\ y.cost[h] = x.cost[h]
  BY <1>21 DEF Left
<1>12. \A h \in Settled(r) : h \in Facts /\ Left(told, y, us, h) /\ x.cost[h] \in Nat
  <2> TAKE h \in Settled(r)
  <2>1. h \in Facts /\ x.cost[h] # Unreached
    BY <1>2 DEF Settled
  <2>2. x.cost[h] <= c /\ x.cost[h] \in Nat
    BY <1>1, <1>7, <2>1
  <2> QED
    BY <1>1, <1>5, <1>10, <2>1, <2>2
<1>13. Settled(y) = Settled(r)
  <2> SUFFICES ASSUME NEW h \in Facts PROVE h \in Settled(y) <=> h \in Settled(r)
    BY DEF Settled
  <2>1. CASE Improved(told, y, us, h)
    <3>1. h \notin Settled(y)
      BY <1>5, <1>10, <2>1 DEF Settled
    <3>2. h \notin Settled(r)
      BY <1>10, <1>11, <1>12, <2>1
    <3> QED
      BY <3>1, <3>2
  <2>2. CASE Left(told, y, us, h)
    <3>1. Cheaper(told, us, h) = {} /\ y.cost[h] = x.cost[h]
      BY <1>11, <2>2
    <3>2. <<y.cost[h], h>> \in y.queue <=> <<y.cost[h], h>> \in r.queue
      BY <1>21, <1>5, <3>1
    <3> QED
      BY <1>2, <3>1, <3>2 DEF Settled
  <2> QED
    BY <1>5, <2>1, <2>2
<1>14. ASSUME NEW d \in y.queue
       PROVE  \/ d \in r.queue
              \/ \E h \in Facts : d = <<y.cost[h], h>> /\ Improved(told, y, us, h)
  BY <1>21, <1>5, <1>11
<1>15. ASSUME NEW d \in y.queue PROVE y.cost[d[2]] # Unreached /\ y.cost[d[2]] <= d[1]
  <2>1. CASE d \in r.queue
    <3>1. d \in x.queue /\ d[2] \in Facts /\ d[1] \in Nat
      BY <1>2, <2>1 DEF Exploration
    <3>2. x.cost[d[2]] # Unreached /\ x.cost[d[2]] <= d[1] /\ x.cost[d[2]] \in Nat
      BY <1>7, <3>1 DEF Orderly
    <3> QED
      BY <1>5, <1>10, <1>11, <3>1, <3>2 DEF Unreached
  <2>2. CASE \E h \in Facts : d = <<y.cost[h], h>> /\ Improved(told, y, us, h)
    BY <1>10, <2>2 DEF Unreached
  <2> QED
    BY <1>14, <2>1, <2>2
<1>16. ASSUME NEW h \in Settled(y), NEW d \in y.queue PROVE y.cost[h] <= d[1]
  <2>1. h \in Settled(r) /\ y.cost[h] = x.cost[h] /\ x.cost[h] \in Nat
    BY <1>11, <1>12, <1>13
  <2>2. CASE d \in r.queue
    BY <1>1, <2>1, <2>2
  <2>3. CASE \E i \in Facts : d = <<y.cost[i], i>> /\ Improved(told, y, us, i)
    BY <1>1, <1>10, <2>1, <2>3
  <2> QED
    BY <1>14, <2>2, <2>3
<1>17. ASSUME NEW u \in UnaryOperators
       PROVE  BaseCost(u) <= y.opCost[u] /\ \A h \in u.pre \cap Settled(y) : BaseCost(u) + y.cost[h] <= y.opCost[u]
  <2>0. x.opCost[u] \in Nat /\ told.opCost[u] \in Nat /\ x.opCost[u] <= told.opCost[u] /\ y.opCost[u] = told.opCost[u]
    BY <1>1, <1>3, <1>21, <1>5, <1>7 DEF Exploration
  <2>3. BaseCost(u) \in Nat
    BY UnaryShape
  <2>4. BaseCost(u) <= x.opCost[u] /\ BaseCost(u) \in Nat
    BY <2>3 DEF Informed
  <2>5. ASSUME NEW h \in u.pre \cap Settled(y) PROVE BaseCost(u) + y.cost[h] <= y.opCost[u]
    <3>1. h \in Settled(r) /\ y.cost[h] = x.cost[h] /\ x.cost[h] \in Nat
      BY <1>11, <1>12, <1>13
    <3>2. CASE h \in Settled(x)
      <4>1. BaseCost(u) + x.cost[h] <= x.opCost[u]
        BY <3>2 DEF Informed
      <4> QED
        BY <2>0, <2>4, <3>1, <4>1
    <3>3. CASE h = f
      <4>1. told.opCost[u] = x.opCost[u] + c
        BY <1>21, <2>5, <3>3
      <4> QED
        BY <1>1, <2>0, <2>4, <3>1, <3>3, <4>1
    <3> QED
      BY <1>1, <3>1, <3>2, <3>3
  <2> QED
    BY <2>0, <2>4, <2>5
<1>18. Orderly(y)
  BY <1>5, <1>15, <1>16 DEF Orderly
<1>19. ASSUME NEW u \in UnaryOperators PROVE y.missing[u] = Cardinality(u.pre \ Settled(y))
  <2>0. x.missing[u] = Cardinality(u.pre \ Settled(x)) /\ IsFiniteSet(u.pre \ Settled(x))
    BY UnaryShape, FS_Subset DEF Informed
  <2>1. CASE f \in u.pre
    <3>1. f \in u.pre \ Settled(x)
      BY <1>1, <2>1
    <3>2. Cardinality((u.pre \ Settled(x)) \ {f}) = Cardinality(u.pre \ Settled(x)) - 1
      BY <2>0, <3>1, FS_RemoveElement
    <3>3. u.pre \ Settled(y) = (u.pre \ Settled(x)) \ {f}
      BY <1>1, <1>13
    <3> QED
      BY <1>21, <1>5, <2>0, <2>1, <3>2, <3>3
  <2>2. CASE f \notin u.pre
    <3>1. u.pre \ Settled(y) = u.pre \ Settled(x)
      BY <1>1, <1>13, <2>2
    <3> QED
      BY <1>21, <1>5, <2>0, <2>2, <3>1
  <2> QED
    BY <2>1, <2>2
<1>20. ASSUME NEW u \in UnaryOperators, u.pre \subseteq Settled(y) PROVE y.cost[u.effect] # Unreached
  <2>1. u.effect \in Facts
    BY UnaryShape
  <2>2. x.cost[u.effect] # Unreached \/ u \in us
    <3>1. CASE f \notin u.pre
      BY <1>1, <1>13, <1>20, <3>1 DEF Informed
    <3>2. CASE f \in u.pre
      <4>1. u.pre \ Settled(x) = {f}
        BY <1>1, <1>13, <1>20, <3>2
      <4>2. x.missing[u] = 1
        BY <4>1, FS_Singleton DEF Informed
      <4> QED
        BY <1>9, <3>2, <4>2
    <3> QED
      BY <3>1, <3>2
  <2>3. CASE Improved(told, y, us, u.effect)
    BY <1>10, <2>1, <2>3 DEF Unreached
  <2>4. CASE Left(told, y, us, u.effect)
    BY <1>21, <1>11, <2>1, <2>2, <2>4 DEF Cheaper
  <2> QED
    BY <1>5, <2>1, <2>3, <2>4
<1>22. Informed(y)
  BY <1>17, <1>19, <1>20 DEF Informed
<1>23. \A s : Traced(x, s) => Traced(y, s)
  <2> SUFFICES ASSUME NEW s, Traced(x, s), NEW h \in Facts, y.by[h] = {}, y.cost[h] # Unreached PROVE s[h[1]] = h[2]
    BY DEF Traced
  <2>1. ~Improved(told, y, us, h)
    BY DEF Improved
  <2>2. y.cost[h] = x.cost[h] /\ y.by[h] = x.by[h]
    BY <1>5, <1>21, <2>1 DEF Left
  <2> QED
    BY <2>2 DEF Traced
<1>24. ASSUME NEW rank, NEW n, RankedBy(x, rank, n)
       PROVE  RankedBy(y, [h \in Facts |-> IF h \in Settled(x) THEN rank[h] ELSE IF h = f THEN n ELSE n + 1], n + 1)
  <2> DEFINE late == [h \in Facts |-> IF h \in Settled(x) THEN rank[h] ELSE IF h = f THEN n ELSE n + 1]
  <2>1. /\ \A h \in Facts : rank[h] \in Nat /\ rank[h] <= n /\ (h \in Settled(x) => rank[h] < n) /\ n \in Nat
        /\ \A h \in Facts : \A u \in x.by[h] : Reason(x, h, u) /\ \A i \in u.pre : rank[i] < rank[h]
    BY <1>24 DEF RankedBy
  <2>2. late \in [Facts -> Nat]
    BY <2>1
  <2>3. \A h \in Facts : late[h] = IF h \in Settled(x) THEN rank[h] ELSE IF h = f THEN n ELSE n + 1
    OBVIOUS
  <2> HIDE DEF late
  <2>4. \A h \in Facts : IF h \in Settled(y) THEN late[h] < n + 1 ELSE late[h] = n + 1
    BY <1>1, <1>13, <2>1, <2>3
  <2>5. ASSUME NEW h \in Facts, NEW u \in y.by[h] PROVE Reason(y, h, u) /\ \A i \in u.pre : late[i] < late[h]
    <3>1. CASE Improved(told, y, us, h)
      <4>1. u \in Cheaper(told, us, h) /\ y.cost[h] = y.opCost[u]
        BY <1>5, <2>5, <3>1 DEF Improved
      <4>2. u \in us /\ u.effect = h /\ u \in UnaryOperators /\ x.missing[u] = 1 /\ f \in u.pre
        BY <1>8, <4>1 DEF Cheaper
      <4>3. u.pre \subseteq Settled(x) \cup {f}
        <5>1. IsFiniteSet(u.pre \ Settled(x)) /\ Cardinality(u.pre \ Settled(x)) = 1
          BY <4>2, UnaryShape, FS_Subset DEF Informed
        <5>2. PICK i : u.pre \ Settled(x) = {i}
          BY <5>1, FS_Singleton
        <5> QED
          BY <1>1, <4>2, <5>2
      <4>4. u.pre \subseteq Settled(y)
        BY <1>1, <1>13, <4>3
      <4>5. h \notin Settled(y)
        BY <1>5, <3>1, <1>10, <1>11, <1>12, <1>13
      <4>6. Reason(y, h, u)
        BY <1>17, <4>1, <4>2, <4>4 DEF Reason
      <4>7. late[h] = n + 1
        BY <2>4, <4>5
      <4>8. \A i \in u.pre : i \in Facts /\ late[i] < n + 1
        BY <2>4, <4>4 DEF Settled
      <4> QED
        BY <4>6, <4>7, <4>8
    <3>2. CASE Left(told, y, us, h)
      <4>1. y.by[h] = x.by[h] /\ y.cost[h] = x.cost[h] /\ u \in x.by[h]
        BY <1>21, <2>5, <3>2 DEF Left
      <4>2. Reason(x, h, u) /\ (\A i \in u.pre : rank[i] < rank[h]) /\ u \in UnaryOperators
        BY <1>2, <2>1, <4>1 DEF Exploration
      <4>3. u.pre \subseteq Settled(x) /\ f \notin u.pre
        BY <1>1, <4>2 DEF Reason
      <4>4. y.opCost[u] = x.opCost[u]
        BY <1>5, <1>21, <4>2, <4>3
      <4>5. \A i \in u.pre : i \in Facts /\ y.cost[i] = x.cost[i] /\ late[i] = rank[i]
        BY <1>1, <1>11, <1>12, <2>3, <4>3
      <4>6. Reason(y, h, u)
        BY <1>1, <1>13, <4>1, <4>2, <4>3, <4>4, <4>5 DEF Reason
      <4>7. rank[h] <= late[h] /\ late[h] \in Nat
        BY <2>1, <2>2, <2>3
      <4> QED
        BY <2>1, <4>2, <4>5, <4>6, <4>7
    <3> QED
      BY <1>5, <3>1, <3>2
  <2>6. n + 1 \in Nat
    BY <1>24 DEF RankedBy
  <2>7. RankedBy(y, late, n + 1)
    BY <2>2, <2>4, <2>5, <2>6 DEF RankedBy
  <2> QED
    BY <2>7 DEF late
<1> QED
  BY <1>1, <1>21, <1>5, <1>6, <1>13, <1>18, <1>22, <1>23, <1>24 DEF y

\* Settling a fact changes nothing about how the facts were reached.
LEMMA RankGrows ==
  ASSUME NEW x, NEW r, NEW rank, NEW n, RankedBy(x, rank, n), NEW f \in Facts,
         r.cost = x.cost, r.by = x.by, r.opCost = x.opCost, Settled(r) = Settled(x) \cup {f}
  PROVE  RankedBy(r, [h \in Facts |-> IF h \in Settled(x) THEN rank[h] ELSE IF h = f THEN n ELSE n + 1], n + 1)
<1> DEFINE late == [h \in Facts |-> IF h \in Settled(x) THEN rank[h] ELSE IF h = f THEN n ELSE n + 1]
<1>1. /\ \A h \in Facts : rank[h] \in Nat /\ rank[h] <= n /\ (h \in Settled(x) => rank[h] < n) /\ n \in Nat
      /\ \A h \in Facts : \A u \in x.by[h] : Reason(x, h, u) /\ \A i \in u.pre : rank[i] < rank[h]
  BY DEF RankedBy
<1>2. late \in [Facts -> Nat]
  BY <1>1
<1>3. \A h \in Facts : late[h] = IF h \in Settled(x) THEN rank[h] ELSE IF h = f THEN n ELSE n + 1
  OBVIOUS
<1> HIDE DEF late
<1>4. \A h \in Facts : IF h \in Settled(r) THEN late[h] < n + 1 ELSE late[h] = n + 1
  BY <1>1, <1>3
<1>5. ASSUME NEW h \in Facts, NEW u \in r.by[h] PROVE Reason(r, h, u) /\ \A i \in u.pre : late[i] < late[h]
  <2>1. Reason(x, h, u) /\ \A i \in u.pre : rank[i] < rank[h]
    BY <1>1, <1>5
  <2>2. \A i \in u.pre : i \in Facts /\ late[i] = rank[i]
    BY <1>3, <2>1 DEF Reason, Settled
  <2>3. rank[h] <= late[h] /\ late[h] \in Nat
    BY <1>1, <1>2, <1>3
  <2> QED
    BY <1>1, <2>1, <2>2, <2>3 DEF Reason
<1> QED
  BY <1>1, <1>2, <1>4, <1>5 DEF RankedBy, late

\* So does every turn of relaxed_exploration.
LEMMA PoppedSound ==
  ASSUME EngineTask, NEW s, NEW g \in SUBSET Facts, NEW x, SoundSoFar(x, s, g), ~Explored(x)
  PROVE  SoundSoFar(Popped(x, g), s, g)
<1> DEFINE e == CHOOSE d \in x.queue : \A i \in x.queue : d[1] <= i[1]
           f == e[2]
           rest == [x EXCEPT !.queue = @ \ {e}]
           last == [rest EXCEPT !.unsolved = 0]
           next == [rest EXCEPT !.unsolved = @ - 1]
           y == Popped(x, g)
<1>1. /\ Orderly(x) /\ Counted(x, g) /\ Informed(x) /\ Given(x, s) /\ x \in Exploration /\ x.unsolved # 0 /\ x.queue # {}
      /\ Traced(x, s) /\ \E rank, n : RankedBy(x, rank, n)
  BY DEF SoundSoFar, Explored, Orderly
<1>2. e \in x.queue /\ \A i \in x.queue : e[1] <= i[1]
  <2>1. \A d \in x.queue : d[1] \in Nat
    BY <1>1 DEF Exploration
  <2>2. {d[1] : d \in x.queue} \in SUBSET Nat /\ {d[1] : d \in x.queue} # {}
    BY <1>1, <2>1
  <2>3. PICK n \in {d[1] : d \in x.queue} : \A m \in {d[1] : d \in x.queue} : n <= m
    BY <2>2, LeastOf
  <2>4. \E d \in x.queue : \A i \in x.queue : d[1] <= i[1]
    BY <2>3
  <2> QED
    BY <2>4
<1>3. y = IF x.cost[f] < e[1] THEN rest
          ELSE IF f \notin g THEN Triggered(rest, f)
          ELSE IF x.unsolved = 1 THEN last
          ELSE Triggered(next, f)
  BY DEF Popped
<1>4. Taken(x, rest, e) /\ rest.unsolved = x.unsolved
  <2>1. rest = [x EXCEPT !.queue = x.queue \ {e}]
    OBVIOUS
  <2> HIDE DEF e, rest
  <2> QED
    BY <1>1, <1>2, <2>1 DEF Taken, Exploration
<1>5. Taken(x, last, e) /\ last.unsolved = 0
  <2> HIDE DEF e, rest
  <2>1. last = [rest EXCEPT !.unsolved = 0]
    OBVIOUS
  <2> HIDE DEF last
  <2> QED
    BY <1>4, <2>1 DEF Taken, Exploration
<1>6. Taken(x, next, e) /\ next.unsolved = x.unsolved - 1
  <2> HIDE DEF e, rest
  <2>1. next = [rest EXCEPT !.unsolved = rest.unsolved - 1]
    OBVIOUS
  <2>2. x.unsolved - 1 \in Int
    BY <1>1 DEF Exploration
  <2> HIDE DEF next
  <2> QED
    BY <1>4, <2>1, <2>2 DEF Taken, Exploration
<1>7. x.cost[f] \in Nat /\ e[1] \in Nat /\ f \in Facts
  BY <1>1, <1>4, TakenSettles
<1>8. IsFiniteSet(g)
  BY FactsFinite, FS_Subset
<1> HIDE DEF e, rest, last, next, y
<1>9. CASE x.cost[f] < e[1]
  <2>1. Settled(rest) = Settled(x) /\ Orderly(rest) /\ y = rest
    BY <1>1, <1>3, <1>4, <1>9, TakenSettles
  <2>2. Counted(rest, g) /\ Informed(rest) /\ Given(rest, s)
    BY <1>1, <1>4, <2>1 DEF Counted, Informed, Given, Taken
  <2>3. Traced(rest, s)
    BY <1>1, <1>4 DEF Traced, Taken
  <2>4. \E rank, n : RankedBy(rest, rank, n)
    BY <1>1, <1>4, <2>1 DEF RankedBy, Reason, Taken
  <2> QED
    BY <2>1, <2>2, <2>3, <2>4 DEF SoundSoFar, y
<1>10. ASSUME ~(x.cost[f] < e[1]) PROVE SoundSoFar(y, s, g)
  <2>1. x.cost[e[2]] >= e[1]
    BY <1>7, <1>10
  <2>2. ASSUME NEW r, Taken(x, r, e), y = Triggered(r, f), r.unsolved = Cardinality(g \ (Settled(x) \cup {f}))
        PROVE  SoundSoFar(y, s, g)
    <3>1. /\ Orderly(y) /\ Informed(y) /\ Settled(y) = Settled(x) \cup {f} /\ y.unsolved = r.unsolved /\ Given(y, s)
          /\ Traced(y, s) /\ \E rank, n : RankedBy(y, rank, n)
      BY <1>1, <2>1, <2>2, TriggeredSound
    <3> QED
      BY <2>2, <3>1 DEF SoundSoFar, Counted
  <2>3. CASE f \notin g
    <3>1. g \ (Settled(x) \cup {f}) = g \ Settled(x)
      BY <2>3
    <3>2. y = Triggered(rest, f)
      BY <1>3, <1>10, <2>3
    <3> QED
      BY <1>1, <1>4, <2>2, <3>1, <3>2 DEF Counted
  <2>4. ASSUME f \in g PROVE Cardinality(g \ (Settled(x) \cup {f})) = x.unsolved - 1
    <3>1. f \in g \ Settled(x) /\ IsFiniteSet(g \ Settled(x))
      BY <1>1, <1>4, <1>8, <2>1, <2>4, TakenSettles, FS_Subset
    <3>2. g \ (Settled(x) \cup {f}) = (g \ Settled(x)) \ {f}
      OBVIOUS
    <3> DEFINE S == g \ Settled(x)
    <3> HIDE DEF S, f
    <3>3. Cardinality(S \ {f}) = Cardinality(S) - 1
      BY <3>1, FS_RemoveElement DEF S
    <3> QED
      BY <1>1, <3>2, <3>3 DEF Counted, S
  <2>5. CASE f \in g /\ x.unsolved = 1
    <3>1. y = last
      BY <1>3, <1>10, <2>5
    <3>2. Settled(last) = Settled(x) \cup {f}
      BY <1>1, <1>5, <2>1, TakenSettles
    <3>3. Counted(last, g)
      BY <1>5, <2>4, <2>5, <3>2 DEF Counted
    <3>4. Orderly(last)
      <4>1. /\ \A h \in Settled(last), d \in last.queue : x.cost[h] <= d[1]
            /\ \A h \in Settled(last) : x.cost[h] <= x.cost[f]
        BY <1>1, <1>5, <2>1, TakenSettles
      <4>2. last \in Exploration /\ last.cost = x.cost /\ last.queue \subseteq x.queue /\ last.opCost = x.opCost
        BY <1>5 DEF Taken
      <4> QED
        BY <1>1, <3>2, <4>1, <4>2 DEF Orderly
    <3>5. Given(last, s)
      BY <1>1, <1>5 DEF Given, Taken
    <3>6. Traced(last, s)
      BY <1>1, <1>5 DEF Traced, Taken
    <3>7. \E rank, n : RankedBy(last, rank, n)
      <4>1. PICK rank, n : RankedBy(x, rank, n)
        BY <1>1
      <4>2. last.cost = x.cost /\ last.by = x.by /\ last.opCost = x.opCost
        BY <1>5 DEF Taken
      <4> QED
        BY <1>7, <3>2, <4>1, <4>2, RankGrows
    <3> QED
      BY <1>5, <3>1, <3>3, <3>4, <3>5, <3>6, <3>7 DEF SoundSoFar
  <2>6. CASE f \in g /\ x.unsolved # 1
    <3>1. y = Triggered(next, f)
      BY <1>3, <1>10, <2>6
    <3> QED
      BY <1>6, <2>2, <2>4, <2>6, <3>1
  <2> QED
    BY <2>3, <2>5, <2>6
<1> QED
  BY <1>9, <1>10 DEF y

-----------------------------------------------------------------------------
(* What a dead end means.                                                   *)

\* A set of facts that nothing that is reachable leads out of.
Relaxation(R) ==
  /\ R \subseteq Facts
  /\ \A u \in UnaryOperators : u.pre \subseteq R => u.effect \in R
  /\ \A v \in Derived : \E c \in 0..1 : <<v, c>> \in R

\* What is true in z, and asked for if it is derived, lies in R.
Within(z, R, g) == \A f \in Facts : z[f[1]] = f[2] /\ (IsDerived(f) => f \in AskedFor(g)) => f \in R

\* The axioms give values in their ranges.
LEMMA ClosureValued == \A z \in Valued : Closure(z) \in Valued
<1> TAKE z \in Valued
<1>1. Closure(z) = [v \in Vars |-> Closure(z)[v]]
  BY DEF Closure
<1>2. ASSUME NEW v \in Vars PROVE Closure(z)[v] \in 0..10 /\ Closure(z)[v] < Dom[v]
  <2>1. CASE v \notin Derived
    BY <2>1, ClosureBase DEF Valued
  <2>2. CASE v \in Derived
    <3> DEFINE c == Closure(z)[v]
    <3>1. c \in 0..10 /\ IsRead(z, DeducedUpTo(z), <<v, c>>)
      BY <2>2, ClosureReads
    <3> HIDE DEF c
    <3>2. <<v, c>> \in Facts
      <4>1. DeducedUpTo(z) \subseteq Facts
        BY DeducedHeads, HeadsAre
      <4>2. <<v, Default[v]>> \in Facts
        BY <2>2, TaskShape
      <4>3. <<v, c>> \in DeducedUpTo(z) \/ c = Default[v]
        BY <2>2, <3>1 DEF IsRead, IsDerived
      <4> QED
        BY <4>1, <4>2, <4>3
    <3> QED
      BY <3>1, <3>2 DEF Facts, c
  <2> QED
    BY <2>1, <2>2
<1> QED
  BY <1>1, <1>2 DEF Valued

\* So do the effects.
LEMMA EffectsValued ==
  ASSUME EngineTask, NEW z \in Valued, NEW a \in DOMAIN Op
  PROVE  Effects(Op[a], z) \in Valued
<1>1. Effects(Op[a], z) = [v \in Vars |-> Effects(Op[a], z)[v]]
  BY DEF Effects
<1>2. ASSUME NEW v \in Vars PROVE Effects(Op[a], z)[v] \in 0..10 /\ Effects(Op[a], z)[v] < Dom[v]
  <2>1. CASE Firing(Op[a], v, z) = {}
    BY <2>1, EffectsAre DEF Valued
  <2>2. CASE Firing(Op[a], v, z) # {}
    <3>1. PICK i \in Firing(Op[a], v, z) : Effects(Op[a], z)[v] = Op[a].effects[i].post
      BY <2>2, EffectsAre
    <3>2. i \in DOMAIN Op[a].effects /\ Op[a].effects[i].var = v
      BY DEF Firing
    <3>3. <<v, Op[a].effects[i].post>> \in Facts
      BY <3>2, OperatorShape
    <3> QED
      BY <3>1, <3>3 DEF Facts
  <2> QED
    BY <2>1, <2>2
<1> QED
  BY <1>1, <1>2 DEF Valued

\* So does an operator.
LEMMA ApplyValued ==
  ASSUME EngineTask, NEW z \in Valued, NEW a \in DOMAIN Op
  PROVE  Apply(Op[a], z) \in Valued
BY EffectsValued, ClosureValued DEF Apply

\* A set that is closed under the unary operators and has the base facts of a state has
\* what is asked of the derived ones.
LEMMA ClosureWithin ==
  ASSUME EngineTask, NEW g \in SUBSET Facts, Supported(g), NEW R, Relaxation(R), NEW z \in Valued,
         \A v \in Vars \ Derived : <<v, z[v]>> \in R
  PROVE  Within(Closure(z), R, g)
<1> DEFINE w == Closure(z)
           D == {f \in R : IsDerived(f)}
<1>1. D \in SUBSET DerivedFacts
  BY DEF DerivedFacts, Relaxation
<1>2. ASSUME NEW f \in Facts, ~IsDerived(f), w[f[1]] = f[2] PROVE f \in R
  <2>1. f[1] \in Vars /\ f[1] \notin Derived /\ f = <<f[1], f[2]>>
    BY <1>2 DEF Facts, IsDerived
  <2>2. z[f[1]] = f[2]
    BY <1>2, <2>1, ClosureBase
  <2> QED
    BY <2>1, <2>2
<1>3. Reasons(w, D)
  <2> SUFFICES ASSUME NEW r \in Rules, Holds(w, r.cond), {f \in r.cond : IsDerived(f)} \subseteq D PROVE r.head \in D
    BY DEF Reasons
  <2>1. r.cond \subseteq Facts /\ r.head \in Facts /\ r.head[1] \in Derived /\ r.head[1] \in Vars /\ IsDerived(r.head)
    BY TaskShape DEF IsDerived, Derived
  <2>2. r.cond \subseteq R
    BY <1>2, <2>1 DEF Holds
  <2>3. PICK c \in 0..1 : <<r.head[1], c>> \in R
    BY <2>1 DEF Relaxation
  <2>4. r.head[2] \in 0..1 /\ r.head = <<r.head[1], r.head[2]>>
    <3>1. Dom[r.head[1]] = 2
      BY <2>1 DEF EngineTask
    <3> QED
      BY <2>1, <3>1 DEF Facts
  <2>5. CASE c = r.head[2]
    BY <2>1, <2>3, <2>4, <2>5
  <2>6. CASE c = 1 - r.head[2]
    <3>1. UnaryRule(r) \in UnaryOperators
      BY DEF UnaryOperators
    <3>2. UnaryRule(r).pre \subseteq R /\ UnaryRule(r).effect = r.head
      BY <2>2, <2>3, <2>6 DEF UnaryRule
    <3>3. r.head \in R
      BY <3>1, <3>2 DEF Relaxation
    <3> QED
      BY <2>1, <3>3
  <2> QED
    BY <2>3, <2>4, <2>5, <2>6
<1>4. ASSUME NEW f \in Facts, w[f[1]] = f[2], IsDerived(f), f \in AskedFor(g) PROVE f \in R
  <2>1. Grounded(w, f)
    BY <1>4 DEF Supported, DerivedFacts
  <2> HIDE DEF w
  <2> QED
    BY <1>1, <1>3, <2>1 DEF Grounded
<1> QED
  BY <1>2, <1>4 DEF Within

\* It has what is asked after any operator: nothing is ever deleted from it.
LEMMA ApplyWithin ==
  ASSUME EngineTask, NEW g \in SUBSET Facts, Supported(g), NEW R, Relaxation(R), NEW z \in Valued, Within(z, R, g),
         NEW a \in DOMAIN Op, FullyApplicable(Op[a], z)
  PROVE  Within(Apply(Op[a], z), R, g)
<1> DEFINE y == Effects(Op[a], z)
<1>1. y \in Valued
  BY EffectsValued
<1>2. \A f \in Facts : z[f[1]] = f[2] /\ f \in AskedFor(g) => f \in R
  BY DEF Within
<1>3. Required(Op[a]) \subseteq R
  <2> SUFFICES ASSUME NEW f \in Required(Op[a]) PROVE f \in R
    OBVIOUS
  <2>1. f \in Facts
    BY OperatorShape
  <2>2. f \in AskedFor(g)
    BY DEF AskedFor, AskedByOperators
  <2>3. z[f[1]] = f[2]
    <3>1. CASE f \in Op[a].prevail
      BY <3>1 DEF FullyApplicable, Holds
    <3>2. CASE f \notin Op[a].prevail
      <4>1. PICK i \in DOMAIN Op[a].effects : f \in Old(Op[a].effects[i])
        BY <3>2 DEF Required
      <4>2. Op[a].effects[i].pre \in {-1, z[Op[a].effects[i].var]}
        BY DEF FullyApplicable
      <4> QED
        BY <4>1, <4>2 DEF Old
    <3> QED
      BY <3>1, <3>2
  <2> QED
    BY <1>2, <2>1, <2>2, <2>3
<1>4. ASSUME NEW v \in Vars \ Derived PROVE <<v, y[v]>> \in R
  <2>1. CASE Firing(Op[a], v, z) = {}
    <3>1. y[v] = z[v]
      BY <2>1, EffectsAre
    <3>2. <<v, z[v]>> \in Facts /\ ~IsDerived(<<v, z[v]>>)
      BY DEF Valued, Facts, IsDerived
    <3> HIDE DEF y
    <3> QED
      BY <3>1, <3>2 DEF Within
  <2>2. CASE Firing(Op[a], v, z) # {}
    <3>1. PICK i \in Firing(Op[a], v, z) : y[v] = Op[a].effects[i].post
      BY <2>2, EffectsAre
    <3> DEFINE e == Op[a].effects[i]
               u == [name |-> a, axiom |-> FALSE, pre |-> Required(Op[a]) \cup e.cond, effect |-> <<e.var, e.post>>]
    <3>2. i \in DOMAIN Op[a].effects /\ e.var = v /\ Holds(z, e.cond) /\ e \in ToSet(Op[a].effects)
      BY DEF Firing, Fires, ToSet
    <3>3. e.cond \subseteq AskedFor(g)
      <4>1. e.cond \subseteq UNION {d.cond : d \in ToSet(Op[a].effects)}
        BY <3>2
      <4> QED
        BY <4>1 DEF AskedFor, AskedByOperators
    <3>4. e.cond \subseteq Facts
      BY <3>2, OperatorShape
    <3>5. e.cond \subseteq R
      BY <1>2, <3>2, <3>3, <3>4 DEF Holds
    <3>6. u \in Unary(a)
      BY <3>2 DEF Unary
    <3>7. u \in UnaryOperators
      BY <3>6 DEF UnaryOperators
    <3>8. u.pre \subseteq R /\ u.effect = <<v, y[v]>>
      BY <1>3, <3>1, <3>2, <3>5
    <3> HIDE DEF u
    <3> QED
      BY <3>7, <3>8 DEF Relaxation
  <2> QED
    BY <2>1, <2>2
<1> HIDE DEF y
<1>5. Within(Closure(y), R, g)
  BY <1>1, <1>4, ClosureWithin
<1> QED
  BY <1>5 DEF Apply, y

\* The facts an exploration has reached when its queue is empty.
LEMMA DeadEndRelaxation ==
  ASSUME EngineTask, NEW g \in SUBSET Facts, NEW s \in Valued, NEW x, SoundSoFar(x, s, g), Explored(x), DeadEnd(x, g)
  PROVE  \E R : Relaxation(R) /\ (\A f \in Facts : s[f[1]] = f[2] => f \in R) /\ \E f \in g : f \notin R
<1> DEFINE R == {f \in Facts : x.cost[f] # Unreached}
<1>1. PICK f \in g : x.cost[f] = Unreached
  BY DEF DeadEnd
<1>2. f \in g \ Settled(x) /\ IsFiniteSet(g \ Settled(x))
  BY <1>1, FactsFinite, FS_Subset DEF Settled
<1>3. x.unsolved # 0
  <2>1. x.unsolved = Cardinality(g \ Settled(x))
    BY DEF SoundSoFar, Counted
  <2> QED
    BY <1>2, <2>1, FS_EmptySet
<1>4. x.queue = {} /\ Informed(x) /\ Given(x, s)
  BY <1>3 DEF Explored, SoundSoFar
<1>5. Settled(x) = R
  BY <1>4 DEF Settled
<1>6. \A u \in UnaryOperators : u.pre \subseteq R => u.effect \in R
  BY <1>4, <1>5, UnaryShape DEF Informed
<1>7. \A h \in Facts : s[h[1]] = h[2] => h \in R
  BY <1>4 DEF Given, Unreached
<1>8. ASSUME NEW v \in Derived PROVE \E c \in 0..1 : <<v, c>> \in R
  <2>1. v \in Vars /\ Dom[v] = 2
    BY DEF Derived, EngineTask
  <2>2. s[v] \in 0..1 /\ <<v, s[v]>> \in Facts
    BY <2>1 DEF Valued, Facts
  <2>3. <<v, s[v]>> \in R
    BY <1>7, <2>2
  <2> QED
    BY <2>2, <2>3
<1>9. Relaxation(R) /\ f \notin R
  BY <1>1, <1>6, <1>8 DEF Relaxation
<1> QED
  BY <1>7, <1>9

\* p is carried out from s, and T are the states it goes through.
Run(p, s, T) ==
  /\ p \in Seq(DOMAIN Op) /\ T[0] = s
  /\ \A k \in 1..Len(p) : FullyApplicable(Op[p[k]], T[k - 1]) /\ T[k] = Apply(Op[p[k]], T[k - 1])

\* No plan leads from s to the goal.
Hopeless(s, g) == \A p, T : Run(p, s, T) => ~Holds(T[Len(p)], g)

\* It has what is asked after any plan.
LEMMA RunWithin ==
  ASSUME EngineTask, NEW g \in SUBSET Facts, Supported(g), NEW R, Relaxation(R), NEW s \in Valued, Within(s, R, g),
         NEW p, NEW T, Run(p, s, T)
  PROVE  \A k \in 0..Len(p) : T[k] \in Valued /\ Within(T[k], R, g)
<1> DEFINE B == {k \in 0..Len(p) : ~(T[k] \in Valued /\ Within(T[k], R, g))}
<1> SUFFICES ASSUME B # {} PROVE FALSE
  OBVIOUS
<1>1. p \in Seq(DOMAIN Op) /\ T[0] = s /\ Len(p) \in Nat
  BY DEF Run
<1>2. B \in SUBSET Nat
  OBVIOUS
<1> HIDE DEF B
<1>3. PICK m \in B : \A k \in B : m <= k
  BY <1>2, LeastOf
<1>4. m \in 0..Len(p) /\ ~(T[m] \in Valued /\ Within(T[m], R, g))
  BY <1>3 DEF B
<1>5. m # 0
  BY <1>1, <1>4
<1>6. m \in 1..Len(p) /\ m - 1 \in 0..Len(p) /\ m - 1 \notin B
  BY <1>1, <1>3, <1>4, <1>5
<1>7. T[m - 1] \in Valued /\ Within(T[m - 1], R, g)
  BY <1>6 DEF B
<1>8. p[m] \in DOMAIN Op /\ FullyApplicable(Op[p[m]], T[m - 1]) /\ T[m] = Apply(Op[p[m]], T[m - 1])
  BY <1>1, <1>6 DEF Run
<1> QED
  BY <1>4, <1>7, <1>8, ApplyValued, ApplyWithin

\* From a dead end no plan leads to the goal.
LEMMA DeadEndIsHopeless ==
  ASSUME EngineTask, NEW g \in SUBSET Facts, Supported(g), NEW s \in Valued,
         NEW x, SoundSoFar(x, s, g), Explored(x), DeadEnd(x, g)
  PROVE  Hopeless(s, g)
<1>1. PICK R : Relaxation(R) /\ (\A f \in Facts : s[f[1]] = f[2] => f \in R) /\ \E f \in g : f \notin R
  BY DeadEndRelaxation
<1>2. Within(s, R, g)
  BY <1>1 DEF Within
<1> SUFFICES ASSUME NEW p, NEW T, Run(p, s, T), Holds(T[Len(p)], g) PROVE FALSE
  BY DEF Hopeless
<1>3. Len(p) \in 0..Len(p)
  BY DEF Run
<1>4. Within(T[Len(p)], R, g)
  BY <1>1, <1>2, <1>3, RunWithin
<1>5. \A f \in g : f \in AskedFor(g) /\ f \in Facts
  BY DEF AskedFor
<1> QED
  BY <1>1, <1>4, <1>5 DEF Holds, Within

-----------------------------------------------------------------------------
(* Sequences one after the other, and recursion along a rank.               *)

\* Sequences one after the other.
LEMMA Flattened ==
  ASSUME NEW N \in Nat, NEW A, NEW q \in [1..N -> Seq(A)]
  PROVE  FlattenSeq(q) \in Seq(A) /\ ToSet(FlattenSeq(q)) = UNION {ToSet(q[i]) : i \in 1..N}
<1>1. q \in Seq(Seq(A)) /\ Len(q) = N
  OBVIOUS
<1>2. CASE N = 0
  <2>1. FlattenSeq(q) = q
    BY <1>1, <1>2 DEF FlattenSeq
  <2>2. q = << >>
    BY <1>1, <1>2
  <2>3. q \in Seq(A) /\ DOMAIN q = {} /\ 1..N = {}
    BY <1>2, <2>2
  <2> QED
    BY <2>1, <2>3 DEF ToSet
<1>3. CASE N # 0
  <2> DEFINE E(r) == [i \in 1..N |-> IF i = 1 THEN q[i] ELSE r[i - 1] \o q[i]]
             r == CHOOSE f : f = E(f)
             X == Seq(A)
             a == << >>
             F == [y \in (1..N) \X X |-> IF y[1] = 1 THEN q[y[1]] ELSE y[2] \o q[y[1]]]
             w == [k \in 0..N |-> IF k = 0 THEN a ELSE r[k]]
  <2>1. FlattenSeq(q) = r[N]
    BY <1>1, <1>3 DEF FlattenSeq
  <2>2. F \in [(1..N) \X X -> X] /\ a \in X
    OBVIOUS
  <2>3. \A k \in 1..N, x \in X : F[<<k, x>>] = IF k = 1 THEN q[k] ELSE x \o q[k]
    OBVIOUS
  <2> HIDE DEF X, F, a
  <2>4. PICK s : Iteration(N, X, a, F, s)
    BY <2>2, IterationExists
  <2>5. \A k \in 1..N : k - 1 \in 0..N /\ s[k - 1] \in X /\ s[k] = IF k = 1 THEN q[k] ELSE s[k - 1] \o q[k]
    <3> TAKE k \in 1..N
    <3>1. k - 1 \in 0..N
      OBVIOUS
    <3>2. s[k - 1] \in X /\ s[k] = F[<<k, s[k - 1]>>]
      BY <2>4, <3>1 DEF Iteration
    <3> QED
      BY <2>3, <3>1, <3>2
  <2> DEFINE u == [i \in 1..N |-> s[i]]
  <2>6. u = E(u)
    <3>1. \A i \in 1..N : i # 1 => i - 1 \in 1..N
      OBVIOUS
    <3> QED
      BY <2>5, <3>1
  <2> HIDE DEF u
  <2>7. r = E(r)
    BY <2>6
  <2> HIDE DEF r
  <2>8. \A k \in 1..N : r[k] = IF k = 1 THEN q[k] ELSE r[k - 1] \o q[k]
    BY <2>7
  <2> HIDE DEF E
  <2>9. \A k \in 1..N : w[k] = (IF k = 1 THEN q[k] ELSE w[k - 1] \o q[k]) /\ k - 1 \in 0..N
    BY <2>8
  <2>10. w[0] = a /\ w[N] = r[N] /\ N \in 0..N
    BY <1>3
  <2> HIDE DEF w
  <2>11. Iterates(N, X, a, F, w)
    BY <2>3, <2>9, <2>10 DEF Iterates
  <2>12. \A k \in 0..N : w[k] \in X
    BY <2>2, <2>11, IterationStays
  <2> DEFINE T == {k \in 0..N : ~(ToSet(w[k]) = UNION {ToSet(q[i]) : i \in 1..k})}
  <2>13. T = {}
    <3> SUFFICES ASSUME T # {} PROVE FALSE
      OBVIOUS
    <3>1. T \in SUBSET Nat
      OBVIOUS
    <3> HIDE DEF T
    <3>2. PICK m \in T : \A k \in T : m <= k
      BY <3>1, LeastOf
    <3>3. m \in 0..N /\ ~(ToSet(w[m]) = UNION {ToSet(q[i]) : i \in 1..m})
      BY <3>2 DEF T
    <3>4. m # 0
      <4>1. ToSet(w[0]) = {} /\ 1..0 = {}
        BY <2>10 DEF ToSet, a
      <4> QED
        BY <3>3, <4>1
    <3>5. m \in 1..N /\ m - 1 \in 0..N /\ ~(m <= m - 1) /\ 1..m = 1..(m - 1) \cup {m}
      BY <3>3, <3>4
    <3>6. ToSet(w[m - 1]) = UNION {ToSet(q[i]) : i \in 1..(m - 1)}
      BY <3>2, <3>5 DEF T
    <3>7. ToSet(w[m]) = ToSet(w[m - 1]) \cup ToSet(q[m])
      <4>1. CASE m = 1
        <5>1. w[m] = q[m] /\ w[m - 1] = << >>
          BY <2>9, <2>10, <3>5, <4>1 DEF a
        <5> QED
          BY <5>1 DEF ToSet
      <4>2. CASE m # 1
        <5>1. w[m] = w[m - 1] \o q[m] /\ w[m - 1] \in Seq(A) /\ q[m] \in Seq(A)
          BY <2>9, <2>12, <3>5, <4>2 DEF X
        <5> DEFINE x == w[m - 1]
                   y == q[m]
        <5> HIDE DEF x, y
        <5>2. x \in Seq(A) /\ y \in Seq(A) /\ w[m] = x \o y
          BY <5>1 DEF x, y
        <5>3. ToSet(x \o y) = ToSet(x) \cup ToSet(y)
          <6>1. ASSUME NEW e \in ToSet(x) \cup ToSet(y) PROVE e \in ToSet(x \o y)
            <7>1. CASE e \in ToSet(x)
              BY <5>2, <7>1 DEF ToSet
            <7>2. CASE e \in ToSet(y)
              <8>1. PICK j \in 1..Len(y) : e = y[j]
                BY <5>2, <7>2 DEF ToSet
              <8>2. Len(x) + j \in 1..Len(x \o y) /\ (x \o y)[Len(x) + j] = e
                BY <5>2, <8>1
              <8>3. DOMAIN (x \o y) = 1..Len(x \o y)
                BY <5>2
              <8> QED
                BY <8>2, <8>3 DEF ToSet
            <7> QED
              BY <6>1, <7>1, <7>2
          <6>2. ASSUME NEW e \in ToSet(x \o y) PROVE e \in ToSet(x) \cup ToSet(y)
            <7>1. PICK j \in 1..(Len(x) + Len(y)) : e = (x \o y)[j]
              BY <5>2 DEF ToSet
            <7>2. CASE j <= Len(x)
              BY <5>2, <7>1, <7>2 DEF ToSet
            <7>3. CASE ~(j <= Len(x))
              <8>1. j - Len(x) \in 1..Len(y) /\ e = y[j - Len(x)]
                BY <5>2, <7>1, <7>3
              <8> QED
                BY <5>2, <8>1 DEF ToSet
            <7> QED
              BY <7>2, <7>3
          <6> QED
            BY <6>1, <6>2
        <5> QED
          BY <5>2, <5>3 DEF x, y
      <4> QED
        BY <4>1, <4>2
    <3> QED
      BY <3>3, <3>5, <3>6, <3>7
  <2> QED
    BY <2>1, <2>10, <2>12, <2>13 DEF X
<1> QED
  BY <1>2, <1>3

\* A definition that asks for less than it defines has a meaning.
Descends(S, X, n, rank, F) ==
  /\ rank \in [S -> 0..n] /\ F \in [S \X [S -> X] -> X]
  /\ \A f \in S : \A g, h \in [S -> X] :
       (\A d \in S : rank[d] < rank[f] => g[d] = h[d]) => F[<<f, g>>] = F[<<f, h>>]

\* A function that does what F says.
Solves(S, X, F, g) == g \in [S -> X] /\ \A f \in S : g[f] = F[<<f, g>>]

\* ... the function that is defined.
LEMMA RankedRecursion ==
  ASSUME NEW S, NEW X, NEW a \in X, NEW n \in Nat, NEW rank, NEW F, Descends(S, X, n, rank, F)
  PROVE  \E g : Solves(S, X, F, g)
<1> DEFINE N == n + 2
           Y == [S -> X]
           b == [f \in S |-> a]
           G == [y \in (1..N) \X Y |-> [f \in S |-> F[<<f, y[2]>>]]]
<1>0. /\ rank \in [S -> 0..n] /\ F \in [S \X [S -> X] -> X]
      /\ \A f \in S : \A g, h \in [S -> X] :
           (\A d \in S : rank[d] < rank[f] => g[d] = h[d]) => F[<<f, g>>] = F[<<f, h>>]
  BY DEF Descends
<1>1. N \in Nat /\ b \in Y
  OBVIOUS
<1>2. \A k \in 1..N, g \in Y : G[<<k, g>>] = [f \in S |-> F[<<f, g>>]]
  OBVIOUS
<1>3. G \in [(1..N) \X Y -> Y]
  BY <1>0
<1> HIDE DEF b, G, Y
<1>4. PICK s : Iteration(N, Y, b, G, s)
  BY <1>1, <1>3, IterationExists
<1>5. \A k \in 0..N : s[k] \in Y
  BY <1>4 DEF Iteration
<1>6. \A k \in 1..N : k - 1 \in 0..N /\ s[k] = [f \in S |-> F[<<f, s[k - 1]>>]]
  <2> TAKE k \in 1..N
  <2>1. k - 1 \in 0..N /\ s[k - 1] \in Y
    BY <1>5
  <2>2. s[k] = G[<<k, s[k - 1]>>]
    BY <1>4 DEF Iteration
  <2> QED
    BY <1>2, <2>1, <2>2
<1> DEFINE T == {k \in 0..(n + 1) : ~\A f \in S : rank[f] < k => s[k + 1][f] = s[k][f]}
<1>7. T = {}
  <2> SUFFICES ASSUME T # {} PROVE FALSE
    OBVIOUS
  <2>1. T \in SUBSET Nat
    OBVIOUS
  <2> HIDE DEF T
  <2>2. PICK m \in T : \A k \in T : m <= k
    BY <2>1, LeastOf
  <2>3. m \in 0..(n + 1) /\ ~\A f \in S : rank[f] < m => s[m + 1][f] = s[m][f]
    BY <2>2 DEF T
  <2>4. PICK f \in S : rank[f] < m /\ s[m + 1][f] # s[m][f]
    BY <2>3
  <2>5. rank[f] \in 0..n /\ m # 0
    BY <1>0, <2>3, <2>4
  <2>6. m - 1 \in 0..(n + 1) /\ ~(m <= m - 1) /\ m \in 1..N /\ m + 1 \in 1..N /\ (m + 1) - 1 = m /\ (m - 1) + 1 = m
    BY <2>3, <2>5
  <2>7. \A d \in S : rank[d] < m - 1 => s[m][d] = s[m - 1][d]
    BY <2>2, <2>6 DEF T
  <2>8. \A d \in S : rank[d] < rank[f] => s[m][d] = s[m - 1][d]
    BY <1>0, <2>4, <2>5, <2>6, <2>7
  <2>9. s[m] \in Y /\ s[m - 1] \in Y
    BY <1>5, <1>6, <2>6
  <2>10. F[<<f, s[m]>>] = F[<<f, s[m - 1]>>]
    BY <1>0, <2>8, <2>9 DEF Y
  <2>11. s[m + 1] = [d \in S |-> F[<<d, s[m]>>]] /\ s[m] = [d \in S |-> F[<<d, s[m - 1]>>]]
    BY <1>6, <2>6
  <2>12. s[m + 1][f] = F[<<f, s[m]>>] /\ s[m][f] = F[<<f, s[m - 1]>>]
    BY <2>11
  <2> QED
    BY <2>4, <2>10, <2>12
<1>8. \A f \in S : s[n + 2][f] = s[n + 1][f]
  <2>1. n + 1 \in 0..(n + 1) /\ (n + 1) + 1 = n + 2
    OBVIOUS
  <2>2. \A f \in S : rank[f] < n + 1 => s[n + 2][f] = s[n + 1][f]
    BY <1>7, <2>1
  <2>3. \A f \in S : rank[f] < n + 1
    BY <1>0
  <2> QED
    BY <2>2, <2>3
<1>9. s[n + 2] = [f \in S |-> F[<<f, s[n + 1]>>]] /\ s[n + 1] \in Y
  <2>1. n + 2 \in 1..N /\ (n + 2) - 1 = n + 1 /\ n + 1 \in 0..N
    OBVIOUS
  <2> QED
    BY <1>5, <1>6, <2>1
<1>10. \A f \in S : s[n + 1][f] = F[<<f, s[n + 1]>>]
  BY <1>8, <1>9
<1> QED
  BY <1>9, <1>10 DEF Y, Solves

-----------------------------------------------------------------------------
(* Facts in their order.                                                    *)

\* In the order of their numbers.
Sorted(q) == \A i, j \in DOMAIN q : i < j => Sooner(q[i], q[j])

\* Any set of facts can be put in order.
LEMMA SortedExists ==
  ASSUME EngineTask, NEW S \in SUBSET Facts
  PROVE  \E q \in [1..Cardinality(S) -> S] : Sorted(q)
<1> DEFINE T == {n \in Nat : \E R \in SUBSET Facts : Cardinality(R) = n /\ ~\E q \in [1..n -> R] : Sorted(q)}
<1> SUFFICES ASSUME T # {} PROVE FALSE
  <2>1. Cardinality(S) \in Nat
    BY FactsFinite, FS_Subset, FS_CardinalityType
  <2> QED
    BY <2>1
<1>1. T \in SUBSET Nat
  OBVIOUS
<1> HIDE DEF T
<1>2. PICK m \in T : \A k \in T : m <= k
  BY <1>1, LeastOf
<1>3. PICK R \in SUBSET Facts : Cardinality(R) = m /\ ~\E q \in [1..m -> R] : Sorted(q)
  BY <1>2 DEF T
<1>4. IsFiniteSet(R) /\ m \in Nat
  BY <1>1, <1>2, FactsFinite, FS_Subset
<1>5. m # 0
  <2> SUFFICES ASSUME m = 0 PROVE FALSE
    OBVIOUS
  <2> DEFINE q == [i \in 1..0 |-> CHOOSE f \in R : TRUE]
  <2>1. 1..0 = {}
    OBVIOUS
  <2>2. q \in [1..m -> R] /\ Sorted(q)
    BY <2>1 DEF Sorted
  <2> HIDE DEF q
  <2> QED
    BY <1>3, <2>2
<1> DEFINE key(f) == 11 * f[1] + f[2]
<1>6. \A f \in Facts : key(f) \in Nat /\ f[1] \in Nat /\ f[2] \in 0..10
  <2> TAKE f \in Facts
  <2>1. f[1] \in Vars /\ f[2] \in 0..10
    BY DEF Facts
  <2>2. f[1] \in Nat
    BY <2>1 DEF EngineTask
  <2> QED
    BY <2>1, <2>2
<1>7. \A f, g \in Facts : f # g => key(f) # key(g)
  BY <1>6 DEF Facts
<1>8. \A f, g \in Facts : key(f) < key(g) => Sooner(f, g)
  BY <1>6 DEF Sooner
<1> HIDE DEF key
<1>9. PICK f \in R : \A g \in R : key(f) <= key(g)
  <2>1. R # {}
    BY <1>3, <1>5, FS_EmptySet
  <2>2. {key(g) : g \in R} \in SUBSET Nat /\ {key(g) : g \in R} # {}
    BY <1>6, <2>1
  <2>3. PICK c \in {key(g) : g \in R} : \A d \in {key(g) : g \in R} : c <= d
    BY <2>2, LeastOf
  <2> QED
    BY <2>3
<1> DEFINE Q == R \ {f}
<1>10. Cardinality(Q) = m - 1 /\ Q \in SUBSET Facts /\ m - 1 \in Nat /\ ~(m <= m - 1)
  <2>1. Cardinality(Q) = m - 1
    BY <1>3, <1>4, <1>9, FS_RemoveElement
  <2> QED
    BY <1>3, <1>4, <1>5, <2>1
<1>11. PICK p \in [1..(m - 1) -> Q] : Sorted(p)
  <2>1. m - 1 \notin T
    BY <1>2, <1>10
  <2> HIDE DEF Q
  <2> QED
    BY <1>10, <2>1 DEF T
<1> DEFINE q == [i \in 1..m |-> IF i = 1 THEN f ELSE p[i - 1]]
<1>12. \A i \in 1..m : i # 1 => i - 1 \in 1..(m - 1) /\ p[i - 1] \in Q
  BY <1>4, <1>11
<1>13. q \in [1..m -> R]
  BY <1>9, <1>12
<1>14. ASSUME NEW i \in 1..m, NEW j \in 1..m, i < j PROVE Sooner(q[i], q[j])
  <2>1. j # 1 /\ j - 1 \in 1..(m - 1) /\ q[j] = p[j - 1] /\ q[j] \in Q
    BY <1>12, <1>14
  <2>2. CASE i = 1
    <3>1. q[i] = f /\ f \in Facts /\ q[j] \in Facts /\ q[j] # f /\ key(f) <= key(q[j])
      BY <1>9, <1>14, <2>1, <2>2
    <3> HIDE DEF q
    <3>2. key(f) < key(q[j])
      BY <1>6, <1>7, <3>1
    <3> QED
      BY <1>8, <3>1, <3>2
  <2>3. CASE i # 1
    <3>1. i - 1 \in 1..(m - 1) /\ q[i] = p[i - 1] /\ i - 1 < j - 1
      BY <1>12, <1>14, <2>3
    <3> HIDE DEF q
    <3>2. DOMAIN p = 1..(m - 1)
      BY <1>11
    <3> QED
      BY <1>11, <2>1, <3>1, <3>2 DEF Sorted
  <2> QED
    BY <2>2, <2>3
<1>15. DOMAIN q = 1..m
  OBVIOUS
<1> HIDE DEF q
<1>16. Sorted(q)
  BY <1>14, <1>15 DEF Sorted
<1> QED
  BY <1>3, <1>13, <1>16

\* InOrder lists the facts of a set.
LEMMA InOrderIs ==
  ASSUME EngineTask, NEW S \in SUBSET Facts
  PROVE  /\ Cardinality(S) \in Nat /\ InOrder(S) \in [1..Cardinality(S) -> S]
         /\ \A f \in S : \E i \in 1..Cardinality(S) : InOrder(S)[i] = f
<1> DEFINE N == Cardinality(S)
           q == InOrder(S)
<1>1. IsFiniteSet(S) /\ N \in Nat
  BY FactsFinite, FS_Subset, FS_CardinalityType
<1>2. q \in [1..N -> S] /\ Sorted(q)
  BY SortedExists DEF InOrder, Sorted
<1> HIDE DEF q
<1>3. q \in Injection(1..N, S)
  <2> SUFFICES ASSUME NEW i \in 1..N, NEW j \in 1..N, q[i] = q[j], i # j PROVE FALSE
    BY <1>2 DEF Injection, IsInjective
  <2>1. Sooner(q[i], q[j]) \/ Sooner(q[j], q[i])
    <3>1. i < j \/ j < i
      BY <1>1
    <3> QED
      BY <1>2, <3>1 DEF Sorted
  <2>2. q[i] \in Facts
    BY <1>2
  <2>3. q[i][1] \in Vars /\ q[i][2] \in Nat
    BY <2>2 DEF Facts
  <2>4. q[i][1] \in Nat
    BY <2>3 DEF EngineTask
  <2> QED
    BY <2>1, <2>3, <2>4 DEF Sooner
<1>4. q \in Surjection(1..N, S)
  <2>1. IsFiniteSet(1..N) /\ Cardinality(1..N) = N
    BY <1>1, FS_Interval
  <2> QED
    BY <1>1, <1>3, <2>1, FS_Injection
<1> QED
  BY <1>1, <1>2, <1>4 DEF Surjection, q

-----------------------------------------------------------------------------
(* The operators on the way to the goal.                                    *)

\* The trails of the facts in S.
Joined(t, S) == FlattenSeq([i \in 1..Cardinality(S) |-> t[InOrder(S)[i]]])

\* The trails of several facts, one after the other.
LEMMA JoinedIs ==
  ASSUME EngineTask, NEW S \in SUBSET Facts, NEW A, NEW t, \A f \in S : t[f] \in Seq(A)
  PROVE  Joined(t, S) \in Seq(A) /\ ToSet(Joined(t, S)) = UNION {ToSet(t[f]) : f \in S}
<1> DEFINE N == Cardinality(S)
           o == InOrder(S)
           q == [i \in 1..N |-> t[o[i]]]
<1>1. N \in Nat /\ o \in [1..N -> S] /\ \A f \in S : \E i \in 1..N : o[i] = f
  BY InOrderIs
<1> HIDE DEF N, o
<1>2. q \in [1..N -> Seq(A)]
  BY <1>1
<1>3. \A i \in 1..N : q[i] = t[o[i]]
  OBVIOUS
<1> HIDE DEF q
<1>4. FlattenSeq(q) \in Seq(A) /\ ToSet(FlattenSeq(q)) = UNION {ToSet(q[i]) : i \in 1..N}
  BY <1>1, <1>2, Flattened
<1>5. UNION {ToSet(q[i]) : i \in 1..N} = UNION {ToSet(t[f]) : f \in S}
  <2>1. \A i \in 1..N : o[i] \in S /\ ToSet(q[i]) = ToSet(t[o[i]])
    BY <1>1, <1>3
  <2>2. {ToSet(q[i]) : i \in 1..N} = {ToSet(t[f]) : f \in S}
    BY <1>1, <2>1
  <2> QED
    BY <2>2
<1> QED
  BY <1>4, <1>5 DEF Joined, N, o, q

\* They depend on the trails of these facts only.
LEMMA JoinedAgree ==
  ASSUME EngineTask, NEW S \in SUBSET Facts, NEW t, NEW r, \A f \in S : t[f] = r[f]
  PROVE  Joined(t, S) = Joined(r, S)
<1> DEFINE N == Cardinality(S)
           o == InOrder(S)
<1>1. N \in Nat /\ o \in [1..N -> S]
  BY InOrderIs
<1> HIDE DEF N, o
<1>2. [i \in 1..N |-> t[o[i]]] = [i \in 1..N |-> r[o[i]]]
  BY <1>1
<1> QED
  BY <1>2 DEF Joined, N, o

\* The operator that reached a fact.
Via(x, f) == CHOOSE u \in x.by[f] : TRUE

\* The trail of a fact from those of others.
TrailTo(x, t, f) == IF x.by[f] = {} THEN << >> ELSE Append(Joined(t, Via(x, f).pre), Via(x, f))

\* The recursion of collect_relaxed_plan ends: whatever reached a fact was reached before.
LEMMA TrailIs ==
  ASSUME EngineTask, NEW x \in Exploration, NEW rank, NEW n, RankedBy(x, rank, n), NEW S \in SUBSET Facts
  PROVE  \E t : /\ \A f \in Facts : t[f] \in Seq(UnaryOperators) /\ t[f] = TrailTo(x, t, f)
                /\ Trail(x, S) = Joined(t, S)
<1> DEFINE X == Seq(UnaryOperators)
           E(t) == [f \in Facts |-> TrailTo(x, t, f)]
           r == CHOOSE t : t = E(t)
           F == [y \in Facts \X [Facts -> X] |-> TrailTo(x, y[2], y[1])]
           a == << >>
<1>1. rank \in [Facts -> 0..n] /\ n \in Nat /\ a \in X
  <2>1. \A f \in Facts : rank[f] \in Nat /\ n \in Nat /\ rank[f] <= n
    BY DEF RankedBy
  <2> QED
    BY <2>1 DEF RankedBy
<1>2. ASSUME NEW f \in Facts, x.by[f] # {}
      PROVE  /\ Via(x, f) \in UnaryOperators /\ Via(x, f).pre \in SUBSET Facts
             /\ \A h \in Via(x, f).pre : rank[h] < rank[f]
  <2>1. Via(x, f) \in x.by[f] /\ x.by[f] \subseteq UnaryOperators
    BY <1>2 DEF Via, Exploration
  <2> QED
    BY <2>1, UnaryShape DEF RankedBy
<1>3. ASSUME NEW f \in Facts, NEW t, x.by[f] # {} => \A h \in Via(x, f).pre : t[h] \in X PROVE TrailTo(x, t, f) \in X
  <2>1. CASE x.by[f] = {}
    BY <2>1 DEF TrailTo
  <2>2. CASE x.by[f] # {}
    <3>1. Joined(t, Via(x, f).pre) \in X
      BY <1>2, <1>3, <2>2, JoinedIs
    <3> QED
      BY <1>2, <2>2, <3>1 DEF TrailTo
  <2> QED
    BY <2>1, <2>2
<1>4. \A f \in Facts, t \in [Facts -> X] : TrailTo(x, t, f) \in X
  <2> TAKE f \in Facts, t \in [Facts -> X]
  <2>1. x.by[f] # {} => \A h \in Via(x, f).pre : t[h] \in X
    BY <1>2
  <2> QED
    BY <1>3, <2>1
<1>5. F \in [Facts \X [Facts -> X] -> X]
  <2> HIDE DEF X
  <2> QED
    BY <1>4
<1>6. \A f \in Facts, t \in [Facts -> X] : F[<<f, t>>] = TrailTo(x, t, f)
  OBVIOUS
<1>7. ASSUME NEW f \in Facts, NEW g \in [Facts -> X], NEW h \in [Facts -> X],
             \A d \in Facts : rank[d] < rank[f] => g[d] = h[d]
      PROVE  F[<<f, g>>] = F[<<f, h>>]
  <2>1. F[<<f, g>>] = TrailTo(x, g, f) /\ F[<<f, h>>] = TrailTo(x, h, f)
    BY <1>6
  <2>2. CASE x.by[f] = {}
    BY <2>1, <2>2 DEF TrailTo
  <2>3. CASE x.by[f] # {}
    <3>1. \A d \in Via(x, f).pre : g[d] = h[d]
      BY <1>2, <1>7, <2>3
    <3>2. Joined(g, Via(x, f).pre) = Joined(h, Via(x, f).pre)
      BY <1>2, <2>3, <3>1, JoinedAgree
    <3> QED
      BY <2>1, <3>2 DEF TrailTo
  <2> QED
    BY <2>2, <2>3
<1>8. Trail(x, S) = Joined(r, S)
  BY DEF Trail, Joined, TrailTo, Via
<1> HIDE DEF X, F, E, r, a
<1>9. PICK t : Solves(Facts, X, F, t)
  <2>1. Descends(Facts, X, n, rank, F)
    BY <1>1, <1>5, <1>7 DEF Descends
  <2>2. n \in Nat /\ a \in X
    BY <1>1
  <2> QED
    BY <2>1, <2>2, RankedRecursion
<1>10. t = E(t)
  <2>1. t \in [Facts -> X] /\ \A f \in Facts : t[f] = TrailTo(x, t, f)
    BY <1>6, <1>9 DEF Solves
  <2> QED
    BY <2>1 DEF E
<1>11. r = E(r)
  BY <1>10 DEF r
<1>12. \A f \in Facts : r[f] = TrailTo(x, r, f)
  BY <1>11 DEF E
<1> DEFINE B == {f \in Facts : r[f] \notin X}
<1>13. B = {}
  <2> SUFFICES ASSUME B # {} PROVE FALSE
    OBVIOUS
  <2>1. {rank[f] : f \in B} \in SUBSET Nat /\ {rank[f] : f \in B} # {}
    BY <1>1
  <2>2. PICK c \in {rank[f] : f \in B} : \A d \in {rank[f] : f \in B} : c <= d
    BY <2>1, LeastOf
  <2>3. PICK f \in B : \A h \in B : rank[f] <= rank[h]
    BY <2>2
  <2>4. ASSUME x.by[f] # {}, NEW h \in Via(x, f).pre PROVE r[h] \in X
    <3>1. h \in Facts /\ rank[h] < rank[f] /\ rank[h] \in Nat /\ rank[f] \in Nat
      BY <1>1, <1>2, <2>4
    <3>2. h \notin B
      BY <2>3, <3>1
    <3> QED
      BY <3>1, <3>2
  <2>5. TrailTo(x, r, f) \in X
    BY <1>3, <2>4
  <2> QED
    BY <1>12, <2>5
<1> QED
  BY <1>8, <1>12, <1>13 DEF X

-----------------------------------------------------------------------------
(* The estimate.                                                            *)

\* The unary operators of an axiom reach no fact that does not hold.
LEMMA AxiomReaches ==
  ASSUME EngineTask, NEW s, AxiomsHold(s), NEW u \in UnaryOperators, u.axiom \/ BaseCost(u) = 0, Holds(s, u.pre)
  PROVE  s[u.effect[1]] = u.effect[2]
<1>1. u.axiom
  BY DEF BaseCost
<1>2. u \in {UnaryRule(r) : r \in Rules} \/ u \in UNION {Unary(a) : a \in DOMAIN Op}
  BY DEF UnaryOperators
<1>3. ASSUME NEW a \in DOMAIN Op, u \in Unary(a) PROVE ~u.axiom
  BY <1>3 DEF Unary
<1>4. PICK r \in Rules : u = UnaryRule(r)
  <2> SUFFICES u \in {UnaryRule(r) : r \in Rules}
    OBVIOUS
  <2> QED
    BY <1>1, <1>2, <1>3
<1>5. Holds(s, r.cond) /\ u.effect = r.head
  BY <1>4 DEF UnaryRule, Holds
<1> QED
  BY <1>5 DEF AxiomsHold

\* Among facts of which one is not as it should be there is one of the least rank.
LEMMA LeastRank ==
  ASSUME NEW x, NEW rank, NEW n, RankedBy(x, rank, n), NEW B \in SUBSET Facts, B # {}
  PROVE  \E f \in B : \A h \in B : rank[f] <= rank[h]
<1>1. {rank[f] : f \in B} \in SUBSET Nat /\ {rank[f] : f \in B} # {}
  BY DEF RankedBy
<1>2. PICK c \in {rank[f] : f \in B} : \A d \in {rank[f] : f \in B} : c <= d
  BY <1>1, LeastOf
<1> QED
  BY <1>2

\* A fact that costs nothing holds already.
LEMMA FreeHolds ==
  ASSUME EngineTask, NEW s, AxiomsHold(s), NEW g, NEW x, SoundSoFar(x, s, g),
         NEW f \in Facts, x.cost[f] = 0
  PROVE  s[f[1]] = f[2]
<1>1. PICK rank, n : RankedBy(x, rank, n)
  BY DEF SoundSoFar
<1> DEFINE B == {h \in Facts : x.cost[h] = 0 /\ s[h[1]] # h[2]}
<1> SUFFICES ASSUME B # {} PROVE FALSE
  OBVIOUS
<1>2. PICK h \in B : \A k \in B : rank[h] <= rank[k]
  BY <1>1, LeastRank
<1>3. x \in Exploration /\ Traced(x, s)
  BY DEF SoundSoFar, Orderly
<1>4. x.by[h] # {}
  BY <1>2, <1>3 DEF Traced, Unreached
<1>5. PICK u \in x.by[h] : TRUE
  BY <1>4
<1>6. u \in UnaryOperators /\ Reason(x, h, u) /\ \A k \in u.pre : rank[k] < rank[h]
  BY <1>1, <1>2, <1>3, <1>5 DEF RankedBy, Exploration
<1>7. BaseCost(u) = 0 /\ u.effect = h /\ u.pre \subseteq Settled(x) /\ \A k \in u.pre : BaseCost(u) + x.cost[k] <= 0
  <2>1. BaseCost(u) \in 0..1
    BY <1>6, UnaryShape
  <2> QED
    BY <1>2, <1>6, <2>1 DEF Reason
<1>8. ASSUME NEW k \in u.pre PROVE s[k[1]] = k[2]
  <2>0. k \in Facts /\ x.cost[k] # Unreached
    BY <1>7 DEF Settled
  <2>5. x.cost[k] \in Costs
    BY <1>3, <2>0 DEF Exploration
  <2>1. k \in Facts /\ x.cost[k] # Unreached /\ x.cost[k] \in Costs /\ 0 + x.cost[k] <= 0
    BY <1>7, <2>0, <2>5
  <2>2. x.cost[k] = 0
    BY <1>7, <2>1 DEF Costs, Unreached
  <2>3. rank[k] < rank[h] /\ rank[k] \in Nat /\ rank[h] \in Nat
    BY <1>1, <1>2, <1>6, <2>1 DEF RankedBy
  <2>4. k \notin B
    BY <1>2, <2>3
  <2> QED
    BY <2>1, <2>2, <2>4
<1>9. Holds(s, u.pre)
  BY <1>8 DEF Holds
<1> QED
  BY <1>2, <1>6, <1>7, <1>9, AxiomReaches

\* On the trail to a fact are the operator that reached it and the trails to its preconditions.
LEMMA TrailSet ==
  ASSUME EngineTask, NEW x \in Exploration, NEW t, NEW f \in Facts, x.by[f] # {}, t[f] = TrailTo(x, t, f),
         \A h \in Facts : t[h] \in Seq(UnaryOperators)
  PROVE  /\ Via(x, f) \in x.by[f] /\ Via(x, f) \in UnaryOperators
         /\ ToSet(t[f]) = {Via(x, f)} \cup UNION {ToSet(t[h]) : h \in Via(x, f).pre}
<1> DEFINE u == Via(x, f)
           q == Joined(t, u.pre)
<1>1. u \in x.by[f] /\ u \in UnaryOperators
  BY DEF Via, Exploration
<1>2. u.pre \subseteq Facts
  BY <1>1, UnaryShape
<1>3. q \in Seq(UnaryOperators) /\ ToSet(q) = UNION {ToSet(t[h]) : h \in u.pre}
  BY <1>2, JoinedIs
<1>4. t[f] = Append(q, u)
  BY DEF TrailTo
<1> HIDE DEF u, q
<1>5. ToSet(Append(q, u)) = ToSet(q) \cup {u}
  <2>1. /\ DOMAIN q = 1..Len(q) /\ DOMAIN Append(q, u) = 1..(Len(q) + 1) /\ Len(q) \in Nat
        /\ \A i \in 1..Len(q) : Append(q, u)[i] = q[i]
        /\ Append(q, u)[Len(q) + 1] = u
    BY <1>1, <1>3
  <2>2. 1..(Len(q) + 1) = 1..Len(q) \cup {Len(q) + 1}
    BY <2>1
  <2> QED
    BY <2>1, <2>2 DEF ToSet
<1> QED
  BY <1>1, <1>3, <1>4, <1>5 DEF u

\* All operators on the trail reached something.
LEMMA TrailReasons ==
  ASSUME EngineTask, NEW x \in Exploration, NEW rank, NEW n, RankedBy(x, rank, n), NEW t,
         \A f \in Facts : t[f] \in Seq(UnaryOperators) /\ t[f] = TrailTo(x, t, f),
         NEW f \in Facts, NEW u \in ToSet(t[f])
  PROVE  \E h \in Facts : u \in x.by[h]
<1> DEFINE B == {h \in Facts : u \in ToSet(t[h])}
<1>1. PICK h \in B : \A k \in B : rank[h] <= rank[k]
  <2>1. B \in SUBSET Facts /\ B # {}
    OBVIOUS
  <2> HIDE DEF B
  <2> QED
    BY <2>1, LeastRank
<1>2. x.by[h] # {}
  <2> SUFFICES ASSUME x.by[h] = {} PROVE FALSE
    OBVIOUS
  <2>1. t[h] = << >>
    BY <1>1 DEF TrailTo
  <2> QED
    BY <1>1, <2>1 DEF ToSet
<1> DEFINE v == Via(x, h)
<1>3. v \in x.by[h] /\ v \in UnaryOperators /\ ToSet(t[h]) = {v} \cup UNION {ToSet(t[k]) : k \in v.pre}
  BY <1>1, <1>2, TrailSet
<1>4. \A k \in v.pre : k \in Facts /\ rank[k] < rank[h] /\ rank[k] \in Nat /\ rank[h] \in Nat
  BY <1>1, <1>3, UnaryShape DEF RankedBy
<1>5. \A k \in v.pre : k \notin B
  BY <1>1, <1>4
<1>6. u = v
  BY <1>1, <1>3, <1>4, <1>5
<1> QED
  BY <1>1, <1>3, <1>6

\* A fact reached by axioms alone holds already.
LEMMA AxiomsAlone ==
  ASSUME EngineTask, NEW s, AxiomsHold(s), NEW x \in Exploration, Traced(x, s), NEW rank, NEW n, RankedBy(x, rank, n),
         NEW t, \A f \in Facts : t[f] \in Seq(UnaryOperators) /\ t[f] = TrailTo(x, t, f),
         NEW f \in Facts, x.cost[f] # Unreached, \A u \in ToSet(t[f]) : u.axiom
  PROVE  s[f[1]] = f[2]
<1> DEFINE B == {h \in Facts : x.cost[h] # Unreached /\ (\A u \in ToSet(t[h]) : u.axiom) /\ s[h[1]] # h[2]}
<1> SUFFICES ASSUME B # {} PROVE FALSE
  OBVIOUS
<1>1. PICK h \in B : \A k \in B : rank[h] <= rank[k]
  <2>1. B \in SUBSET Facts /\ B # {}
    OBVIOUS
  <2> HIDE DEF B
  <2> QED
    BY <2>1, LeastRank
<1>2. x.by[h] # {}
  BY <1>1 DEF Traced
<1> DEFINE v == Via(x, h)
<1>3. v \in x.by[h] /\ v \in UnaryOperators /\ ToSet(t[h]) = {v} \cup UNION {ToSet(t[k]) : k \in v.pre}
  <2>1. h \in Facts /\ t[h] = TrailTo(x, t, h) /\ \A k \in Facts : t[k] \in Seq(UnaryOperators)
    BY <1>1
  <2> HIDE DEF B
  <2> QED
    BY <1>2, <2>1, TrailSet
<1>4. v.effect = h /\ v.pre \subseteq Settled(x) /\ \A k \in v.pre : rank[k] < rank[h]
  BY <1>1, <1>3 DEF RankedBy, Reason
<1>5. ASSUME NEW k \in v.pre PROVE s[k[1]] = k[2]
  <2>1. k \in Facts /\ x.cost[k] # Unreached
    BY <1>4 DEF Settled
  <2>2. rank[k] < rank[h] /\ rank[k] \in Nat /\ rank[h] \in Nat
    BY <1>1, <1>4, <2>1 DEF RankedBy
  <2>3. \A u \in ToSet(t[k]) : u.axiom
    BY <1>1, <1>3
  <2>4. k \notin B
    BY <1>1, <2>2
  <2> QED
    BY <2>1, <2>3, <2>4
<1>6. v.axiom /\ Holds(s, v.pre)
  BY <1>1, <1>3, <1>5 DEF Holds
<1> QED
  BY <1>1, <1>3, <1>4, <1>6, AxiomReaches

\* What is met on a trail: nothing if and only if there are only axioms.
Met(trail) ==
  {i \in DOMAIN trail : ~trail[i].axiom /\ \A j \in 1..(i - 1) : trail[j].axiom \/ trail[j].name # trail[i].name}

\* The relaxed plan is empty if all on the trail are axioms; who is preferred is on the
\* trail and could be applied at once.
LEMMA RelaxedIs ==
  ASSUME NEW x, NEW trail \in Seq(UnaryOperators)
  PROVE  LET r == Relaxed(trail, x)
         IN  /\ IsFiniteSet(r.plan) /\ (r.plan = {} => \A u \in ToSet(trail) : u.axiom)
             /\ (trail = << >> => r.plan = {})
             /\ \A a \in r.preferred : \E u \in ToSet(trail) : ~u.axiom /\ u.name = a /\ AtOnce(x, u)
<1> DEFINE r == Relaxed(trail, x)
           M == Met(trail)
<1>1. r.plan = {trail[i].name : i \in M} /\ r.preferred = {trail[i].name : i \in {j \in M : AtOnce(x, trail[j])}}
  BY DEF Relaxed, Met
<1>2. M \subseteq 1..Len(trail) /\ Len(trail) \in Nat /\ DOMAIN trail = 1..Len(trail)
  BY DEF Met
<1> HIDE DEF r
<1>3. IsFiniteSet(r.plan)
  <2> DEFINE f == [i \in M |-> trail[i].name]
  <2>1. f \in Surjection(M, r.plan)
    BY <1>1 DEF Surjection
  <2>2. IsFiniteSet(M)
    <3>1. IsFiniteSet(1..Len(trail))
      BY <1>2, FS_Interval
    <3> HIDE DEF M
    <3> QED
      BY <1>2, <3>1, FS_Subset
  <2> HIDE DEF f, M
  <2> QED
    BY <2>1, <2>2, FS_Surjection
<1>4. ASSUME r.plan = {}, NEW u \in ToSet(trail), ~u.axiom PROVE FALSE
  <2>1. PICK i \in DOMAIN trail : trail[i] = u
    BY DEF ToSet
  <2> DEFINE J == {j \in DOMAIN trail : ~trail[j].axiom /\ trail[j].name = u.name}
  <2>2. J \in SUBSET Nat /\ J # {}
    BY <1>2, <1>4, <2>1
  <2> HIDE DEF J
  <2>3. PICK j \in J : \A k \in J : j <= k
    BY <2>2, LeastOf
  <2>4. j \in 1..Len(trail) /\ ~trail[j].axiom /\ trail[j].name = u.name
    BY <1>2, <2>3 DEF J
  <2>5. \A k \in 1..(j - 1) : k \in 1..Len(trail) /\ ~(j <= k)
    BY <1>2, <2>4
  <2>6. \A k \in 1..(j - 1) : trail[k].axiom \/ trail[k].name # trail[j].name
    BY <1>2, <2>3, <2>4, <2>5 DEF J
  <2>7. j \in M
    BY <1>2, <2>4, <2>6 DEF Met
  <2> HIDE DEF M
  <2> QED
    BY <1>1, <1>4, <2>7
<1>5. ASSUME trail = << >> PROVE r.plan = {}
  <2>1. M = {}
    BY <1>5 DEF Met
  <2> HIDE DEF M
  <2> QED
    BY <1>1, <2>1
<1>6. ASSUME NEW a \in r.preferred PROVE \E u \in ToSet(trail) : ~u.axiom /\ u.name = a /\ AtOnce(x, u)
  <2>1. PICK j \in M : AtOnce(x, trail[j]) /\ a = trail[j].name
    BY <1>1
  <2>2. trail[j] \in ToSet(trail) /\ ~trail[j].axiom
    BY DEF Met, ToSet
  <2> QED
    BY <2>1, <2>2
<1> QED
  BY <1>3, <1>4, <1>5, <1>6 DEF r

\* An operator whose preconditions all hold can be applied.
LEMMA UnaryApplicable ==
  ASSUME EngineTask, NEW s, NEW u \in UnaryOperators, ~u.axiom, Holds(s, u.pre)
  PROVE  u.name \in DOMAIN Op /\ FullyApplicable(Op[u.name], s)
<1>1. u \in {UnaryRule(r) : r \in Rules} \/ u \in UNION {Unary(a) : a \in DOMAIN Op}
  BY DEF UnaryOperators
<1>2. \A r \in Rules : UnaryRule(r).axiom
  BY DEF UnaryRule
<1>3. PICK a \in DOMAIN Op : u \in Unary(a)
  <2> SUFFICES u \in UNION {Unary(a) : a \in DOMAIN Op}
    OBVIOUS
  <2> QED
    BY <1>1, <1>2
<1>4. u.name = a /\ Required(Op[a]) \subseteq u.pre
  BY <1>3 DEF Unary
<1>5. \A f \in Required(Op[a]) : s[f[1]] = f[2]
  BY <1>4 DEF Holds
<1>6. Holds(s, Op[a].prevail)
  BY <1>5 DEF Required, Holds
<1>7. ASSUME NEW i \in DOMAIN Op[a].effects PROVE Op[a].effects[i].pre \in {-1, s[Op[a].effects[i].var]}
  <2> DEFINE e == Op[a].effects[i]
  <2>1. CASE e.pre # -1
    <3>1. <<e.var, e.pre>> \in Required(Op[a])
      BY <2>1 DEF Required, Old
    <3> QED
      BY <1>5, <3>1
  <2> QED
    BY <2>1
<1> QED
  BY <1>4, <1>6, <1>7 DEF FullyApplicable

\* What the heuristic says of a state in which the axioms have been applied.
LEMMA EstimateSays ==
  ASSUME EngineTask, NEW s, AxiomsHold(s), NEW g \in SUBSET Facts, NEW x, SoundSoFar(x, s, g)
  PROVE  LET e == Estimate(x, g)
         IN  /\ e.dead <=> DeadEnd(x, g)
             /\ Holds(s, g) <=> ~e.dead /\ e.h = 0
             /\ \A a \in e.preferred : a \in DOMAIN Op /\ FullyApplicable(Op[a], s)
<1> DEFINE T == Trail(x, g)
           r == Relaxed(T, x)
           e == Estimate(x, g)
<1>1. e = IF DeadEnd(x, g) THEN [dead |-> TRUE, h |-> -1, preferred |-> {}]
          ELSE [dead |-> FALSE, h |-> Cardinality(r.plan), preferred |-> r.preferred]
  BY DEF Estimate
<1>2. x \in Exploration /\ Traced(x, s) /\ Given(x, s)
  BY DEF SoundSoFar, Orderly
<1>3. PICK rank, n : RankedBy(x, rank, n)
  BY DEF SoundSoFar
<1>4. PICK t : /\ \A f \in Facts : t[f] \in Seq(UnaryOperators) /\ t[f] = TrailTo(x, t, f)
               /\ T = Joined(t, g)
  BY <1>2, <1>3, TrailIs
<1>5. T \in Seq(UnaryOperators) /\ ToSet(T) = UNION {ToSet(t[f]) : f \in g}
  BY <1>4, JoinedIs
<1> HIDE DEF T
<1>6. /\ IsFiniteSet(r.plan) /\ (r.plan = {} => \A u \in ToSet(T) : u.axiom)
      /\ (T = << >> => r.plan = {})
      /\ \A a \in r.preferred : \E u \in ToSet(T) : ~u.axiom /\ u.name = a /\ AtOnce(x, u)
  BY <1>5, RelaxedIs
<1> HIDE DEF r, e
<1>7. ASSUME ~DeadEnd(x, g), Cardinality(r.plan) = 0 PROVE Holds(s, g)
  <2>1. \A u \in ToSet(T) : u.axiom
    BY <1>6, <1>7, FS_EmptySet
  <2>2. \A f \in g : f \in Facts /\ x.cost[f] # Unreached /\ \A u \in ToSet(t[f]) : u.axiom
    BY <1>5, <1>7, <2>1 DEF DeadEnd
  <2>3. \A f \in g : s[f[1]] = f[2]
    BY <1>2, <1>3, <1>4, <2>2, AxiomsAlone
  <2> QED
    BY <2>3 DEF Holds
<1>8. ASSUME Holds(s, g) PROVE ~DeadEnd(x, g) /\ Cardinality(r.plan) = 0
  <2>1. \A f \in g : f \in Facts /\ x.cost[f] = 0 /\ x.by[f] = {}
    BY <1>2, <1>8 DEF Holds, Given
  <2>2. \A f \in g : ToSet(t[f]) = {}
    BY <1>4, <2>1 DEF TrailTo, ToSet
  <2>3. ToSet(T) = {}
    BY <1>5, <2>2
  <2>4. T = << >>
    <3>1. DOMAIN T = {}
      BY <2>3 DEF ToSet
    <3>2. Len(T) = 0
      BY <1>5, <3>1
    <3> QED
      BY <1>5, <3>2
  <2> QED
    BY <1>6, <2>1, <2>4, FS_EmptySet DEF DeadEnd, Unreached
<1>9. ASSUME NEW a \in r.preferred PROVE a \in DOMAIN Op /\ FullyApplicable(Op[a], s)
  <2>1. PICK u \in ToSet(T) : ~u.axiom /\ u.name = a /\ AtOnce(x, u)
    BY <1>6, <1>9
  <2>2. PICK f \in g : u \in ToSet(t[f])
    BY <1>5, <2>1
  <2>3. PICK h \in Facts : u \in x.by[h]
    BY <1>2, <1>3, <1>4, <2>2, TrailReasons
  <2>4. u \in UnaryOperators /\ Reason(x, h, u) /\ BaseCost(u) \in 0..1
    BY <1>2, <1>3, <2>3, UnaryShape DEF RankedBy, Exploration
  <2>5. ASSUME NEW k \in u.pre PROVE s[k[1]] = k[2]
    <3>1. k \in Facts /\ x.cost[k] # Unreached
      BY <2>4 DEF Reason, Settled
    <3>2. x.cost[k] \in Costs
      BY <1>2, <3>1 DEF Exploration
    <3>3. BaseCost(u) + x.cost[k] <= BaseCost(u)
      BY <2>1, <2>4 DEF Reason, AtOnce
    <3>4. x.cost[k] = 0
      BY <2>4, <3>1, <3>2, <3>3 DEF Costs, Unreached
    <3> QED
      BY <3>1, <3>4, FreeHolds
  <2>6. Holds(s, u.pre)
    BY <2>5 DEF Holds
  <2> QED
    BY <2>1, <2>4, <2>6, UnaryApplicable
<1> QED
  BY <1>1, <1>7, <1>8, <1>9 DEF e

-----------------------------------------------------------------------------
(* The inductive invariant of the search.                                   *)

\* A state the search may come by: its axioms hold.
Regular(s) == s \in Valued /\ AxiomsHold(s)

\* The operator leads from a closed state that is not a goal state to s.
Edge(C, g, s, from) ==
  \E p \in C, a \in DOMAIN Op :
    from = <<p, a>> /\ ~Holds(p, g) /\ FullyApplicable(Op[a], p) /\ s = Apply(Op[a], p)
\* The start comes from nowhere, all others along an edge.
Comes(C, i, g, s, from) == (from = << >> /\ s = i) \/ Edge(C, g, s, from)

\* The closed list is a tree, with depths that are bounded.
Tree(c, i, g) ==
  /\ \A s \in DOMAIN c :
       /\ Regular(s) /\ c[s].g \in Nat /\ Comes(DOMAIN c, i, g, s, c[s].from)
       /\ c[s].from # << >> => c[c[s].from[1]].g < c[s].g
  /\ \E n \in Nat : \A s \in DOMAIN c : c[s].g <= n

\* An entry of an open list can be applied.
Promising(C, g, e) == e[3] \in C /\ ~Holds(e[3], g) /\ e[4] \in DOMAIN Op /\ FullyApplicable(Op[e[4]], e[3])

\* The open lists.
Lists == {"all", "preferred"}
\* The states the open lists lead to.
Waiting(o) == UNION {{Apply(Op[e[4]], e[3]) : e \in o[l]} : l \in Lists}

\* Nothing is left to do for s.
Finished(s, g, W) ==
  Holds(s, g) \/ Hopeless(s, g) \/ \A a \in DOMAIN Op : FullyApplicable(Op[a], s) => Apply(Op[a], s) \in W

\* The estimate e is right about s.
Sound(e, s, g) ==
  /\ e.dead => Hopeless(s, g)
  /\ Holds(s, g) <=> ~e.dead /\ e.h = 0
  /\ \A a \in e.preferred : a \in DOMAIN Op /\ FullyApplicable(Op[a], s)

\* The states that are closed or will be looked at.
Seen == DOMAIN closed \cup Waiting(open) \cup {s \in {current.state} : phase = "step"}
\* The state last closed has not been dealt with.
Busy == phase \in {"explore", "evaluated"}

\* What is searched for is a problem as assumed.
ProblemInv == Regular(start) /\ goal \in SUBSET Facts /\ Supported(goal)
\* There is an answer only when the search has stopped.
PhaseInv == phase \in {"idle", "step", "explore", "evaluated", "fetch", "done"} /\ (solved => phase = "done")
\* The next state comes from somewhere.
CurrentInv ==
  /\ Regular(current.state) /\ Comes(DOMAIN closed, start, goal, current.state, current.from)
  /\ Busy => current.state \in DOMAIN closed
\* All entries can be applied.
OpenInv == DOMAIN open = Lists /\ \A l \in Lists : \A e \in open[l] : Promising(DOMAIN closed, goal, e)
\* The exploration is sound.
RelaxedInv == phase = "explore" => SoundSoFar(relaxed, current.state, goal)
\* So is the estimate that came of it.
EstimateInv == phase = "evaluated" => Sound(estimate, current.state, goal)
\* The start is closed or comes next.
StartInv == start \in DOMAIN closed \/ (phase \in {"idle", "step"} /\ current.state = start)
\* Every closed state is finished but the one in work.
CompleteInv == \A s \in DOMAIN closed : (Busy /\ s = current.state) \/ Finished(s, goal, Seen)
\* The closed list is the tree of the paths.
TreeInv == Tree(closed, start, goal)

\* The inductive invariant.
SearchInv ==
  ProblemInv /\ PhaseInv /\ CurrentInv /\ OpenInv /\ RelaxedInv /\ EstimateInv /\ StartInv /\ CompleteInv /\ TreeInv

\* Where a state comes from stays closed.
LEMMA ComesOn ==
  ASSUME NEW C, NEW D, C \subseteq D, NEW i, NEW g, NEW s, NEW from, Comes(C, i, g, s, from)
  PROVE  Comes(D, i, g, s, from)
BY DEF Comes, Edge

\* What is finished stays so as long as nothing seen is lost.
LEMMA FinishedOn ==
  ASSUME NEW s, NEW g, NEW V, NEW W, V \subseteq W, Finished(s, g, V)
  PROVE  Finished(s, g, W)
BY DEF Finished

\* An operator leads from a regular state to a regular state.
LEMMA RegularApply ==
  ASSUME EngineInput, NEW z, Regular(z), NEW a \in DOMAIN Op
  PROVE  Regular(Apply(Op[a], z))
BY ApplyValued, EffectsValued DEF EngineInput, EngineProblems, Regular, Apply

\* The invariant holds at the start.
LEMMA InitSearchInv == EngineInput /\ InitSearch => SearchInv
<1> SUFFICES ASSUME EngineInput, InitSearch PROVE SearchInv
  OBVIOUS
<1> USE DEF InitSearch
<1>1. ProblemInv
  BY DEF ProblemInv, Regular, EngineInput, EngineProblems
<1>2. PhaseInv
  BY DEF PhaseInv
<1>3. DOMAIN closed = {}
  OBVIOUS
<1>4. CurrentInv
  BY <1>1 DEF CurrentInv, ProblemInv, Comes, Busy
<1>5. OpenInv
  <2>1. DOMAIN open = Lists /\ \A l \in Lists : open[l] = {}
    BY DEF Lists
  <2> QED
    BY <2>1 DEF OpenInv
<1>6. RelaxedInv /\ EstimateInv /\ StartInv
  BY DEF RelaxedInv, EstimateInv, StartInv
<1>7. CompleteInv /\ TreeInv
  BY <1>3 DEF CompleteInv, TreeInv, Tree
<1> QED
  BY <1>1, <1>2, <1>4, <1>5, <1>6, <1>7 DEF SearchInv

\* A step that closes nothing, and does not look at the open lists.
Quiet == UNCHANGED <<start, goal, current, closed, open>>

\* The steps that close nothing and leave the open lists alone keep the invariant.
LEMMA QuietStep ==
  ASSUME SearchInv, Quiet, PhaseInv', RelaxedInv', EstimateInv',
         Busy' => Busy,
         phase' # "idle", phase = "idle" => phase' = "step", phase = "step" /\ phase' # "step" => current.state \in DOMAIN closed,
         Busy /\ ~Busy' => Finished(current.state, goal, Seen)
  PROVE  SearchInv'
<1> USE DEF Quiet
<1>1. ProblemInv' /\ TreeInv' /\ OpenInv' /\ CurrentInv'
  BY DEF SearchInv, ProblemInv, TreeInv, OpenInv, CurrentInv
<1>2. Seen \subseteq Seen'
  BY DEF Seen
<1>3. StartInv'
  BY DEF SearchInv, StartInv
<1>4. CompleteInv'
  <2> SUFFICES ASSUME NEW s \in DOMAIN closed PROVE (Busy' /\ s = current.state) \/ Finished(s, goal, Seen')
    BY DEF CompleteInv
  <2>1. (Busy /\ s = current.state) \/ Finished(s, goal, Seen)
    BY DEF SearchInv, CompleteInv
  <2> QED
    BY <1>2, <2>1, FinishedOn
<1> QED
  BY <1>1, <1>3, <1>4 DEF SearchInv

\* SearchEngine::search keeps the invariant, also after an answer.
LEMMA SearchStep == SearchInv /\ Search => SearchInv'
<1> SUFFICES ASSUME SearchInv, Search PROVE SearchInv'
  OBVIOUS
<1> USE DEF Search
<1>1. Quiet /\ PhaseInv' /\ RelaxedInv' /\ EstimateInv' /\ ~Busy /\ ~Busy'
  BY DEF Quiet, PhaseInv, RelaxedInv, EstimateInv, Busy
<1> QED
  BY <1>1, QuietStep

\* A state that is closed already.
LEMMA KnownStep == SearchInv /\ Known => SearchInv'
<1> SUFFICES ASSUME SearchInv, Known PROVE SearchInv'
  OBVIOUS
<1> USE DEF Known
<1>1. Quiet /\ PhaseInv' /\ RelaxedInv' /\ EstimateInv' /\ ~Busy /\ ~Busy'
  BY DEF Quiet, PhaseInv, RelaxedInv, EstimateInv, Busy, SearchInv
<1> QED
  BY <1>1, QuietStep

\* A turn of the exploration.
LEMMA ExploreStep == EngineInput /\ SearchInv /\ Explore => SearchInv'
<1> SUFFICES ASSUME EngineInput, SearchInv, Explore PROVE SearchInv'
  OBVIOUS
<1> USE DEF Explore
<1>1. Quiet /\ PhaseInv' /\ EstimateInv' /\ Busy /\ Busy'
  BY DEF Quiet, PhaseInv, EstimateInv, Busy, SearchInv
<1>2. SoundSoFar(relaxed, current.state, goal) /\ goal \in SUBSET Facts
  BY DEF SearchInv, RelaxedInv, ProblemInv
<1>3. SoundSoFar(Popped(relaxed, goal), current.state, goal)
  BY <1>2, PoppedSound DEF EngineInput
<1>4. RelaxedInv'
  BY <1>1, <1>3 DEF RelaxedInv, Quiet
<1> QED
  BY <1>1, <1>4, QuietStep

\* The estimate says what it should of the state just closed.
LEMMA EvaluateHeuristicStep == EngineInput /\ SearchInv /\ EvaluateHeuristic => SearchInv'
<1> SUFFICES ASSUME EngineInput, SearchInv, EvaluateHeuristic PROVE SearchInv'
  OBVIOUS
<1> USE DEF EvaluateHeuristic
<1>1. Quiet /\ PhaseInv' /\ RelaxedInv' /\ Busy /\ Busy'
  BY DEF Quiet, PhaseInv, RelaxedInv, Busy, SearchInv
<1> DEFINE s == current.state
<1>2. SoundSoFar(relaxed, s, goal) /\ goal \in SUBSET Facts /\ Supported(goal) /\ EngineTask /\ s \in Valued /\ AxiomsHold(s)
  BY DEF SearchInv, RelaxedInv, ProblemInv, CurrentInv, Regular, EngineInput
<1> HIDE DEF s
<1>3. Sound(Estimate(relaxed, goal), s, goal)
  <2>1. Estimate(relaxed, goal).dead => Hopeless(s, goal)
    <3>1. Estimate(relaxed, goal).dead => DeadEnd(relaxed, goal)
      BY <1>2, EstimateSays
    <3> QED
      BY <1>2, <3>1, DeadEndIsHopeless
  <2>2. /\ Holds(s, goal) <=> ~Estimate(relaxed, goal).dead /\ Estimate(relaxed, goal).h = 0
        /\ \A a \in Estimate(relaxed, goal).preferred : a \in DOMAIN Op /\ FullyApplicable(Op[a], s)
    BY <1>2, EstimateSays
  <2> QED
    BY <2>1, <2>2 DEF Sound
<1>4. EstimateInv'
  BY <1>1, <1>3 DEF EstimateInv, Quiet, s
<1> QED
  BY <1>1, <1>4, QuietStep

\* A dead end may be given up: no plan leads from it to the goal.
LEMMA PruneStep == SearchInv /\ Prune => SearchInv'
<1> SUFFICES ASSUME SearchInv, Prune PROVE SearchInv'
  OBVIOUS
<1> USE DEF Prune
<1>1. Quiet /\ PhaseInv' /\ RelaxedInv' /\ EstimateInv' /\ Busy /\ ~Busy'
  BY DEF Quiet, PhaseInv, RelaxedInv, EstimateInv, Busy, SearchInv
<1>2. Finished(current.state, goal, Seen)
  BY DEF SearchInv, EstimateInv, Sound, Finished
<1> QED
  BY <1>1, <1>2, QuietStep

\* A goal state is not expanded.
LEMMA CheckGoalStep == SearchInv /\ CheckGoal => SearchInv'
<1> SUFFICES ASSUME SearchInv, CheckGoal PROVE SearchInv'
  OBVIOUS
<1> USE DEF CheckGoal
<1>1. Quiet /\ PhaseInv' /\ RelaxedInv' /\ EstimateInv' /\ Busy /\ ~Busy'
  BY DEF Quiet, PhaseInv, RelaxedInv, EstimateInv, Busy, SearchInv
<1>2. Finished(current.state, goal, Seen)
  BY DEF SearchInv, EstimateInv, Sound, Finished
<1> QED
  BY <1>1, <1>2, QuietStep

\* The end of the search.
LEMMA ExhaustedStep == SearchInv /\ Exhausted => SearchInv'
<1> SUFFICES ASSUME SearchInv, Exhausted PROVE SearchInv'
  OBVIOUS
<1> USE DEF Exhausted
<1>1. Quiet /\ PhaseInv' /\ RelaxedInv' /\ EstimateInv' /\ ~Busy /\ ~Busy'
  BY DEF Quiet, PhaseInv, RelaxedInv, EstimateInv, Busy, SearchInv
<1> QED
  BY <1>1, QuietStep

\* A state is put into the tree; its parent lies nearer to the root.
LEMMA CloseStep == EngineInput /\ SearchInv /\ Close => SearchInv'
<1> SUFFICES ASSUME EngineInput, SearchInv, Close PROVE SearchInv'
  OBVIOUS
<1> DEFINE C == DOMAIN closed
           s0 == current.state
           g0 == IF current.from = << >> THEN 0 ELSE closed[current.from[1]].g + 1
           n0 == [from |-> current.from, g |-> g0]
<1>1. /\ phase = "step" /\ s0 \notin C /\ phase' = "explore"
      /\ closed' = [s \in C \cup {s0} |-> IF s \in C THEN closed[s] ELSE n0]
      /\ relaxed' = Setup(s0, goal)
      /\ UNCHANGED <<start, goal, current, open, priority, best, estimate, solved, solution, calls>>
  BY DEF Close
<1>2. /\ DOMAIN closed' = C \cup {s0} /\ closed'[s0] = n0 /\ \A s \in C : closed'[s] = closed[s]
  BY <1>1
<1>3. ProblemInv /\ PhaseInv /\ CurrentInv /\ OpenInv /\ StartInv /\ CompleteInv /\ TreeInv
  BY DEF SearchInv
<1>4. Regular(s0) /\ Comes(C, start, goal, s0, current.from)
  BY <1>3 DEF CurrentInv
<1> HIDE DEF s0, g0, n0, C
<1>5. C \subseteq DOMAIN closed'
  BY <1>2
<1>6. ProblemInv' /\ PhaseInv'
  BY <1>1, <1>3 DEF ProblemInv, PhaseInv
<1>7. CurrentInv'
  <2>1. Comes(DOMAIN closed', start, goal, s0, current.from)
    BY <1>4, <1>5, ComesOn
  <2> QED
    BY <1>1, <1>2, <1>4, <2>1 DEF CurrentInv, s0
<1>8. OpenInv'
  <2>1. \A l \in Lists : \A e \in open[l] : Promising(C, goal, e)
    BY <1>3 DEF OpenInv, C
  <2>2. \A l \in Lists : \A e \in open[l] : Promising(DOMAIN closed', goal, e)
    BY <1>5, <2>1 DEF Promising
  <2> QED
    BY <1>1, <1>3, <2>2 DEF OpenInv
<1>9. RelaxedInv'
  <2>1. s0 \in [Vars -> Nat] /\ goal \in SUBSET Facts /\ EngineTask
    BY <1>3, <1>4 DEF Regular, Valued, ProblemInv, EngineInput
  <2>2. SoundSoFar(Setup(s0, goal), s0, goal)
    BY <2>1, SetupSound
  <2> QED
    BY <1>1, <2>2 DEF RelaxedInv, s0
<1>10. EstimateInv'
  BY <1>1 DEF EstimateInv
<1>11. StartInv'
  <2>1. start \in C \/ start = s0
    BY <1>3 DEF StartInv, C, s0
  <2> QED
    BY <1>1, <1>2, <2>1 DEF StartInv
<1>12. CompleteInv'
  <2>1. Seen \subseteq Seen'
    <3>1. Waiting(open)' = Waiting(open)
      BY <1>1
    <3> QED
      BY <1>2, <3>1 DEF Seen, s0, C
  <2>2. \A s \in C : Finished(s, goal, Seen)
    BY <1>1, <1>3 DEF CompleteInv, Busy, C
  <2>3. \A s \in C : Finished(s, goal, Seen')
    BY <2>1, <2>2, FinishedOn
  <2>4. \A s \in DOMAIN closed' : (Busy' /\ s = current'.state) \/ Finished(s, goal', Seen')
    BY <1>1, <1>2, <2>3 DEF Busy, s0
  <2> QED
    BY <2>4 DEF CompleteInv
<1>13. TreeInv'
  <2>1. /\ \A s \in C : /\ Regular(s) /\ closed[s].g \in Nat /\ Comes(C, start, goal, s, closed[s].from)
                        /\ closed[s].from # << >> => closed[closed[s].from[1]].g < closed[s].g
        /\ \E n \in Nat : \A s \in C : closed[s].g <= n
    BY <1>3 DEF TreeInv, Tree, C
  <2>2. ASSUME NEW s, NEW from, from # << >>, Comes(C, start, goal, s, from) PROVE from[1] \in C
    BY <2>2 DEF Comes, Edge
  <2>3. g0 \in Nat /\ (current.from # << >> => closed[current.from[1]].g < g0)
    BY <1>4, <2>1, <2>2 DEF g0
  <2>4. n0.from = current.from /\ n0.g = g0
    BY DEF n0
  <2>5. ASSUME NEW s \in DOMAIN closed'
        PROVE  /\ Regular(s) /\ closed'[s].g \in Nat /\ Comes(DOMAIN closed', start, goal, s, closed'[s].from)
               /\ closed'[s].from # << >> => closed'[closed'[s].from[1]].g < closed'[s].g
    <3>1. CASE s \in C
      <4>1. closed'[s] = closed[s] /\ (closed[s].from # << >> => closed[s].from[1] \in C)
        BY <1>2, <2>1, <2>2, <3>1
      <4> QED
        BY <1>2, <1>5, <2>1, <3>1, <4>1, ComesOn
    <3>2. CASE s = s0
      <4>1. current.from # << >> => current.from[1] \in C
        BY <1>4, <2>2
      <4>2. closed'[s].g = g0 /\ closed'[s].from = current.from
        BY <1>2, <2>4, <3>2
      <4> QED
        BY <1>2, <1>4, <1>5, <2>3, <3>2, <4>1, <4>2, ComesOn
    <3> QED
      BY <1>2, <3>1, <3>2
  <2>6. \E n \in Nat : \A s \in DOMAIN closed' : closed'[s].g <= n
    <3>1. PICK n \in Nat : \A s \in C : closed[s].g <= n
      BY <2>1
    <3>2. n + g0 \in Nat /\ \A s \in C : closed[s].g <= n + g0
      BY <2>1, <2>3, <3>1
    <3>3. g0 <= n + g0
      BY <2>3
    <3>4. \A s \in DOMAIN closed' : closed'[s].g <= n + g0
      BY <1>2, <2>4, <3>2, <3>3
    <3> QED
      BY <3>2, <3>4
  <2>7. Tree(closed', start, goal)
    BY <2>5, <2>6 DEF Tree
  <2> QED
    BY <1>1, <2>7 DEF TreeInv
<1> QED
  BY <1>6, <1>7, <1>8, <1>9, <1>10, <1>11, <1>12, <1>13 DEF SearchInv

\* Every successor is in the open list of all; those of the second list can be applied.
LEMMA ExpandStep == SearchInv /\ Expand => SearchInv'
<1> SUFFICES ASSUME SearchInv, Expand PROVE SearchInv'
  OBVIOUS
<1> DEFINE s0 == current.state
           h == estimate.h
           A == {a \in DOMAIN Op : FullyApplicable(Op[a], s0)}
<1>1. /\ phase = "evaluated" /\ ~estimate.dead /\ h # 0 /\ phase' = "fetch"
      /\ open' = [all |-> open.all \cup Entries(A, h), preferred |-> open.preferred \cup Entries(estimate.preferred, h)]
      /\ UNCHANGED <<start, goal, current, closed, relaxed, estimate, solved, solution, calls>>
  BY DEF Expand
<1>2. ProblemInv /\ PhaseInv /\ CurrentInv /\ OpenInv /\ StartInv /\ CompleteInv /\ TreeInv /\ EstimateInv
  BY DEF SearchInv
<1>3. /\ DOMAIN open' = Lists
      /\ open'["all"] = open["all"] \cup Entries(A, h)
      /\ open'["preferred"] = open["preferred"] \cup Entries(estimate.preferred, h)
  BY <1>1 DEF Lists
<1>4. ~Holds(s0, goal) /\ s0 \in DOMAIN closed /\ \A a \in estimate.preferred : a \in A
  BY <1>1, <1>2 DEF EstimateInv, Sound, CurrentInv, Busy
<1>5. \A ops : \A e \in Entries(ops, h) : e[3] = s0 /\ e[4] \in ops
  BY DEF Entries
<1>6. \A ops : \A a \in ops : \E e \in Entries(ops, h) : e[3] = s0 /\ e[4] = a
  <2> TAKE ops
  <2> TAKE a \in ops
  <2>1. <<h, closed[s0].g + 1, s0, a>> \in Entries(ops, h)
    BY DEF Entries
  <2> QED
    BY <2>1
<1>7. \A a \in A : a \in DOMAIN Op /\ FullyApplicable(Op[a], s0)
  OBVIOUS
<1>8. \A a \in DOMAIN Op : FullyApplicable(Op[a], s0) => a \in A
  OBVIOUS
<1> HIDE DEF A
<1>9. ProblemInv' /\ PhaseInv' /\ CurrentInv' /\ StartInv' /\ TreeInv' /\ RelaxedInv' /\ EstimateInv'
  BY <1>1, <1>2 DEF ProblemInv, PhaseInv, CurrentInv, StartInv, TreeInv, RelaxedInv, EstimateInv, Busy
<1>10. OpenInv'
  <2>1. ASSUME NEW l \in Lists, NEW e \in open'[l] PROVE Promising(DOMAIN closed, goal, e)
    <3>1. CASE e \in open[l]
      BY <1>2, <3>1 DEF OpenInv
    <3>2. CASE e \notin open[l]
      <4>1. e \in Entries(A, h) \/ e \in Entries(estimate.preferred, h)
        BY <1>3, <2>1, <3>2 DEF Lists
      <4>2. e[3] = s0 /\ e[4] \in A
        BY <1>4, <1>5, <4>1
      <4> QED
        BY <1>4, <1>7, <4>2 DEF Promising
    <3> QED
      BY <3>1, <3>2
  <2>2. \A l \in Lists : \A e \in open'[l] : Promising(DOMAIN closed, goal, e)
    BY <2>1
  <2> QED
    BY <1>1, <1>3, <2>2 DEF OpenInv
<1>11. CompleteInv'
  <2>1. Waiting(open) \subseteq Waiting(open')
    <3>1. \A l \in Lists : open[l] \subseteq open'[l]
      BY <1>3 DEF Lists
    <3> QED
      BY <3>1 DEF Waiting
  <2>2. Seen \subseteq Seen'
    BY <1>1, <2>1 DEF Seen
  <2>3. Finished(s0, goal, Seen')
    <3> SUFFICES ASSUME NEW a \in DOMAIN Op, FullyApplicable(Op[a], s0) PROVE Apply(Op[a], s0) \in Waiting(open')
      BY DEF Finished, Seen
    <3>1. PICK e \in Entries(A, h) : e[3] = s0 /\ e[4] = a
      BY <1>6, <1>8
    <3>2. e \in open'["all"] /\ "all" \in Lists
      BY <1>3 DEF Lists
    <3> QED
      BY <3>1, <3>2 DEF Waiting
  <2>4. ASSUME NEW s \in DOMAIN closed, s # s0 PROVE Finished(s, goal, Seen')
    <3>1. Finished(s, goal, Seen)
      BY <1>2, <2>4 DEF CompleteInv
    <3> QED
      BY <2>2, <3>1, FinishedOn
  <2>5. \A s \in DOMAIN closed : Finished(s, goal, Seen')
    BY <2>3, <2>4
  <2> QED
    BY <1>1, <2>5 DEF CompleteInv
<1> QED
  BY <1>9, <1>10, <1>11 DEF SearchInv

\* The entry taken becomes the state to look at, so nothing seen is lost.
LEMMA FetchStep == EngineInput /\ SearchInv /\ Fetch => SearchInv'
<1> SUFFICES ASSUME EngineInput, SearchInv, Fetch PROVE SearchInv'
  OBVIOUS
<1>0. PICK l \in DOMAIN open :
        \E e \in open[l] : /\ open' = [open EXCEPT ![l] = @ \ {e}]
                          /\ current' = [state |-> Apply(Op[e[4]], e[3]), from |-> <<e[3], e[4]>>]
  BY DEF Fetch
<1>1. PICK e \in open[l] :
        /\ open' = [open EXCEPT ![l] = @ \ {e}]
        /\ current' = [state |-> Apply(Op[e[4]], e[3]), from |-> <<e[3], e[4]>>]
  BY <1>0
<1>2. phase = "fetch" /\ phase' = "step" /\ UNCHANGED <<start, goal, closed, best, relaxed, estimate, solved, solution, calls>>
  BY DEF Fetch
<1>3. ProblemInv /\ PhaseInv /\ CurrentInv /\ OpenInv /\ StartInv /\ CompleteInv /\ TreeInv
  BY DEF SearchInv
<1> DEFINE t == Apply(Op[e[4]], e[3])
<1>4. current'.state = t /\ current'.from = <<e[3], e[4]>>
  BY <1>1
<1>5. Promising(DOMAIN closed, goal, e) /\ l \in Lists
  BY <1>3 DEF OpenInv
<1>6. Regular(t) /\ Comes(DOMAIN closed, start, goal, t, <<e[3], e[4]>>)
  <2>1. e[3] \in DOMAIN closed /\ e[4] \in DOMAIN Op /\ ~Holds(e[3], goal) /\ FullyApplicable(Op[e[4]], e[3])
    BY <1>5 DEF Promising
  <2>2. Regular(e[3])
    BY <1>3, <2>1 DEF TreeInv, Tree
  <2>3. Regular(t)
    BY <2>1, <2>2, RegularApply
  <2> QED
    BY <2>1, <2>3 DEF Comes, Edge
<1>7. DOMAIN open' = Lists /\ \A m \in Lists : open'[m] = IF m = l THEN open[m] \ {e} ELSE open[m]
  BY <1>1, <1>3 DEF OpenInv
<1> HIDE DEF t
<1>8. ProblemInv' /\ PhaseInv' /\ CurrentInv' /\ StartInv' /\ TreeInv' /\ RelaxedInv' /\ EstimateInv'
  <2>1. ProblemInv' /\ PhaseInv' /\ TreeInv' /\ RelaxedInv' /\ EstimateInv'
    BY <1>2, <1>3 DEF ProblemInv, PhaseInv, TreeInv, RelaxedInv, EstimateInv
  <2>2. CurrentInv'
    BY <1>2, <1>4, <1>6 DEF CurrentInv, Busy
  <2>3. StartInv'
    BY <1>2, <1>3 DEF StartInv
  <2> QED
    BY <2>1, <2>2, <2>3
<1>9. OpenInv'
  <2>1. \A m \in Lists : \A d \in open'[m] : Promising(DOMAIN closed, goal, d)
    BY <1>3, <1>7 DEF OpenInv
  <2> QED
    BY <1>2, <1>7, <2>1 DEF OpenInv
<1>10. CompleteInv'
  <2>1. ASSUME NEW z \in Waiting(open) PROVE z \in Waiting(open') \/ z = t
    <3>1. PICK m \in Lists : z \in {Apply(Op[d[4]], d[3]) : d \in open[m]}
      BY DEF Waiting
    <3>0. PICK d \in open[m] : z = Apply(Op[d[4]], d[3])
      BY <3>1
    <3>2. CASE d = e
      BY <3>0, <3>2 DEF t
    <3>3. CASE d # e
      <4>1. d \in open'[m]
        BY <1>7, <3>0, <3>3
      <4> QED
        BY <3>0, <4>1 DEF Waiting
    <3> QED
      BY <3>2, <3>3
  <2>2. Seen \subseteq Seen'
    BY <1>2, <1>4, <2>1 DEF Seen
  <2>3. \A s \in DOMAIN closed : Finished(s, goal, Seen')
    <3>1. \A s \in DOMAIN closed : Finished(s, goal, Seen)
      BY <1>2, <1>3 DEF CompleteInv, Busy
    <3> QED
      BY <2>2, <3>1, FinishedOn
  <2> QED
    BY <1>2, <2>3 DEF CompleteInv
<1> QED
  BY <1>8, <1>9, <1>10 DEF SearchInv

\* The invariant holds at all times, for every task as described: in particular the
\* queue entries are applicable and the tree leads back to the start.
THEOREM SearchInvHolds == EngineInput => (SearchSpec => []SearchInv)
<1> SUFFICES ASSUME EngineInput PROVE SearchSpec => []SearchInv
  OBVIOUS
<1>1. InitSearch => SearchInv
  BY InitSearchInv
<1>2. SearchInv /\ [NextSearch]_searchVars => SearchInv'
  <2> SUFFICES ASSUME SearchInv, [NextSearch]_searchVars PROVE SearchInv'
    OBVIOUS
  <2>1. CASE NextSearch
    BY <2>1, SearchStep, KnownStep, CloseStep, ExploreStep, EvaluateHeuristicStep, PruneStep, CheckGoalStep, ExpandStep,
       FetchStep, ExhaustedStep DEF NextSearch, Step
  <2>2. CASE UNCHANGED searchVars
    BY <2>2 DEF searchVars, SearchInv, ProblemInv, PhaseInv, CurrentInv, OpenInv, RelaxedInv, EstimateInv, StartInv,
                CompleteInv, TreeInv, Busy, Seen
  <2> QED
    BY <2>1, <2>2
<1> QED
  BY <1>1, <1>2, PTL DEF SearchSpec

-----------------------------------------------------------------------------
(* The plans that are answered.                                             *)

\* trace_path, one step up the tree.
Continued(c, q, s) == IF c[s].from = << >> THEN << >> ELSE Append(q[c[s].from[1]], c[s].from[2])

\* The recursion of trace_path ends: it goes up the tree.
LEMMA PathIs ==
  ASSUME Tree(closed, start, goal)
  PROVE  \E q : \A s \in DOMAIN closed : /\ q[s] \in Seq(DOMAIN Op) /\ q[s] = Continued(closed, q, s)
                                         /\ Path(s) = q[s]
<1> DEFINE C == DOMAIN closed
           X == Seq(DOMAIN Op)
           E(q) == [s \in C |-> Continued(closed, q, s)]
           r == CHOOSE q : q = E(q)
           F == [y \in C \X [C -> X] |-> Continued(closed, y[2], y[1])]
           rank == [s \in C |-> closed[s].g]
           a == << >>
<1>1. /\ \A s \in C : /\ closed[s].g \in Nat /\ Comes(C, start, goal, s, closed[s].from)
                      /\ closed[s].from # << >> => closed[closed[s].from[1]].g < closed[s].g
      /\ \E n \in Nat : \A s \in C : closed[s].g <= n
  BY DEF Tree
<1>2. PICK n \in Nat : \A s \in C : closed[s].g <= n
  BY <1>1
<1>3. ASSUME NEW s \in C, closed[s].from # << >>
      PROVE  closed[s].from[1] \in C /\ closed[s].from[2] \in DOMAIN Op /\ rank[closed[s].from[1]] < rank[s]
  <2>1. Edge(C, goal, s, closed[s].from)
    BY <1>1, <1>3 DEF Comes
  <2>2. closed[s].from[1] \in C /\ closed[s].from[2] \in DOMAIN Op
    BY <2>1 DEF Edge
  <2> QED
    BY <1>1, <1>3, <2>2
<1>4. rank \in [C -> 0..n] /\ a \in X
  BY <1>1, <1>2
<1>5. ASSUME NEW s \in C, NEW q, closed[s].from # << >> => q[closed[s].from[1]] \in X 
      PROVE  Continued(closed, q, s) \in X
  <2>1. CASE closed[s].from = << >>
    BY <2>1 DEF Continued
  <2>2. CASE closed[s].from # << >>
    <3>1. q[closed[s].from[1]] \in Seq(DOMAIN Op) /\ closed[s].from[2] \in DOMAIN Op
      BY <1>3, <1>5, <2>2
    <3>2. Continued(closed, q, s) = Append(q[closed[s].from[1]], closed[s].from[2])
      BY <2>2 DEF Continued
    <3> QED
      BY <3>1, <3>2, AppendProperties
  <2> QED
    BY <2>1, <2>2
<1>6. \A s \in C, q \in [C -> X] : Continued(closed, q, s) \in X
  BY <1>3, <1>5
<1>7. F \in [C \X [C -> X] -> X]
  <2> HIDE DEF X
  <2> QED
    BY <1>6
<1>8. \A s \in C, q \in [C -> X] : F[<<s, q>>] = Continued(closed, q, s)
  OBVIOUS
<1>9. ASSUME NEW s \in C, NEW p \in [C -> X], NEW q \in [C -> X], \A d \in C : rank[d] < rank[s] => p[d] = q[d]
      PROVE  F[<<s, p>>] = F[<<s, q>>]
  <2>1. F[<<s, p>>] = Continued(closed, p, s) /\ F[<<s, q>>] = Continued(closed, q, s)
    BY <1>8
  <2> QED
    BY <1>3, <1>9, <2>1 DEF Continued
<1>10. \A s \in C : Path(s) = r[s]
  BY DEF Path, Continued
<1> HIDE DEF X, F, E, r, rank, a
<1>11. PICK q : Solves(C, X, F, q)
  <2>1. Descends(C, X, n, rank, F)
    BY <1>4, <1>7, <1>9 DEF Descends
  <2>2. n \in Nat /\ a \in X
    BY <1>4
  <2> QED
    BY <2>1, <2>2, RankedRecursion
<1>12. q = E(q)
  <2>1. q \in [C -> X] /\ \A s \in C : q[s] = Continued(closed, q, s)
    BY <1>8, <1>11 DEF Solves
  <2> QED
    BY <2>1 DEF E
<1>13. r = E(r)
  BY <1>12 DEF r
<1>14. \A s \in C : r[s] = Continued(closed, r, s)
  BY <1>13 DEF E
<1>15. \A s \in C : r[s] \in X
  <2> DEFINE B == {s \in C : r[s] \notin X}
  <2> SUFFICES ASSUME B # {} PROVE FALSE
    OBVIOUS
  <2>1. {rank[s] : s \in B} \in SUBSET Nat /\ {rank[s] : s \in B} # {}
    BY <1>4
  <2>2. PICK m \in {rank[s] : s \in B} : \A d \in {rank[s] : s \in B} : m <= d
    BY <2>1, LeastOf
  <2>3. PICK s \in B : \A d \in B : rank[s] <= rank[d]
    BY <2>2
  <2>4. closed[s].from # << >> => closed[s].from[1] \in C /\ closed[s].from[1] \notin B
    <3>1. closed[s].from # << >> => closed[s].from[1] \in C /\ rank[closed[s].from[1]] < rank[s]
      BY <1>3
    <3>2. \A d \in C : rank[d] \in Int
      BY <1>4
    <3> QED
      BY <2>3, <3>1, <3>2
  <2>5. closed[s].from # << >> => r[closed[s].from[1]] \in X
    BY <2>4
  <2> QED
    BY <1>5, <1>14, <2>5
<1> QED
  BY <1>10, <1>14, <1>15 DEF X

\* A path from the start ends where it is said to.
LEMMA PathRuns ==
  ASSUME Tree(closed, start, goal), NEW s \in DOMAIN closed
  PROVE  \E T : Run(Path(s), start, T) /\ T[Len(Path(s))] = s
<1> DEFINE C == DOMAIN closed
           Works(t) == \E T : Run(Path(t), start, T) /\ T[Len(Path(t))] = t
           B == {t \in C : ~Works(t)}
<1> SUFFICES ASSUME B # {} PROVE FALSE
  OBVIOUS
<1>1. /\ \A t \in C : /\ closed[t].g \in Nat /\ Comes(C, start, goal, t, closed[t].from)
                      /\ closed[t].from # << >> => closed[closed[t].from[1]].g < closed[t].g
  BY DEF Tree
<1>2. PICK t \in B : \A d \in B : closed[t].g <= closed[d].g
  <2> DEFINE G == {closed[d].g : d \in B}
  <2>1. G \in SUBSET Nat /\ G # {}
    BY <1>1
  <2>2. PICK m \in G : \A d \in G : m <= d
    BY <2>1, LeastOf
  <2> QED
    BY <2>2
<1>3. t \in C /\ ~Works(t)
  OBVIOUS
<1>4. \A d \in C : closed[d].g < closed[t].g => Works(d)
  BY <1>1, <1>2
<1> HIDE DEF B, Works
<1>5. PICK q : \A d \in C : q[d] \in Seq(DOMAIN Op) /\ q[d] = Continued(closed, q, d) /\ Path(d) = q[d]
  BY PathIs
<1>6. CASE closed[t].from = << >>
  <2>0. \A d, a : <<d, a>> # << >>
    OBVIOUS
  <2>1. t = start
    <3>1. Comes(C, start, goal, t, << >>)
      BY <1>1, <1>3, <1>6
    <3> QED
      BY <2>0, <3>1 DEF Comes, Edge
  <2>2. Path(t) = << >>
    BY <1>3, <1>5, <1>6 DEF Continued
  <2> DEFINE T == [k \in {0} |-> start]
  <2>3. Run(<< >>, start, T) /\ T[Len(<< >>)] = t
    BY <2>1 DEF Run
  <2> HIDE DEF T
  <2> QED
    BY <1>3, <2>2, <2>3 DEF Works
<1>7. CASE closed[t].from # << >>
  <2>1. Edge(C, goal, t, closed[t].from) /\ closed[closed[t].from[1]].g < closed[t].g
    BY <1>1, <1>3, <1>7 DEF Comes
  <2>2. PICK d \in C : \E a \in DOMAIN Op : closed[t].from = <<d, a>> /\ FullyApplicable(Op[a], d) /\ t = Apply(Op[a], d)
    BY <2>1 DEF Edge
  <2>3. PICK a \in DOMAIN Op : closed[t].from = <<d, a>> /\ FullyApplicable(Op[a], d) /\ t = Apply(Op[a], d)
    BY <2>2
  <2>4. Works(d)
    BY <1>4, <2>1, <2>3
  <2>5. PICK T : Run(Path(d), start, T) /\ T[Len(Path(d))] = d
    BY <2>4 DEF Works
  <2> DEFINE p == Path(d)
             U == [k \in 0..(Len(p) + 1) |-> IF k <= Len(p) THEN T[k] ELSE t]
  <2>6. p \in Seq(DOMAIN Op) /\ Path(t) = Append(p, a)
    <3>1. d \in C /\ <<d, a>>[1] = d /\ <<d, a>>[2] = a
      OBVIOUS
    <3>2. Path(t) = Append(q[d], a)
      BY <1>3, <1>5, <1>7, <2>3, <3>1 DEF Continued
    <3> QED
      BY <1>5, <3>1, <3>2
  <2>6a. Run(p, start, T) /\ T[Len(p)] = d
    BY <2>5
  <2> HIDE DEF p
  <2> DEFINE o == Append(p, a)
  <2>7. o \in Seq(DOMAIN Op) /\ Len(o) = Len(p) + 1 /\ Len(p) \in Nat /\ o[Len(p) + 1] = a /\ \A k \in 1..Len(p) : o[k] = p[k]
    BY <2>6
  <2> HIDE DEF o
  <2>8. U[0] = start /\ U[Len(p) + 1] = t /\ \A k \in 0..Len(p) : U[k] = T[k]
    BY <2>6a, <2>7 DEF Run
  <2> HIDE DEF U
  <2>9. ASSUME NEW k \in 1..Len(o) PROVE FullyApplicable(Op[o[k]], U[k - 1]) /\ U[k] = Apply(Op[o[k]], U[k - 1])
    <3>1. CASE k = Len(p) + 1
      BY <2>3, <2>6a, <2>7, <2>8, <3>1
    <3>2. CASE k \in 1..Len(p)
      <4>1. o[k] = p[k] /\ U[k] = T[k] /\ U[k - 1] = T[k - 1]
        BY <2>7, <2>8, <3>2
      <4> QED
        BY <2>6a, <3>2, <4>1 DEF Run
    <3> QED
      BY <2>7, <3>1, <3>2
  <2>10. Run(o, start, U)
    BY <2>7, <2>8, <2>9 DEF Run
  <2> QED
    BY <1>3, <2>6, <2>7, <2>8, <2>10 DEF Works, o
<1> QED
  BY <1>6, <1>7

\* An execution leads where the specification of the promise says.
LEMMA RunLeads ==
  ASSUME NEW p, NEW T, Run(p, start, T)
  PROVE  Promise!Leads(p, T[Len(p)])
<1> DEFINE n == Len(p)
           E(w) == [k \in 0..n |-> IF k = 0 THEN {start} ELSE UNION {Through(p[k], t) : t \in w[k - 1]}]
           at == CHOOSE w : w = E(w)
           w == [k \in 0..n |-> {T[k]}]
<1>1. p \in Seq(DOMAIN Op) /\ n \in Nat /\ T[0] = start
  BY DEF Run
<1>2. ASSUME NEW k \in 1..n PROVE \A S : S = {T[k - 1]} => UNION {Through(p[k], t) : t \in S} = {T[k]}
  <2>1. Through(p[k], T[k - 1]) = {T[k]}
    BY DEF Run, Through
  <2> QED
    BY <2>1
<1>3. w = E(w)
  <2>1. \A k \in 0..n : k # 0 => k - 1 \in 0..n /\ k \in 1..n /\ w[k - 1] = {T[k - 1]}
    BY <1>1
  <2>2. \A k \in 0..n : k # 0 => UNION {Through(p[k], t) : t \in w[k - 1]} = {T[k]}
    BY <1>2, <2>1
  <2> QED
    BY <1>1, <2>2
<1>4. Promise!Leads(p, T[n]) <=> at[n] = {T[n]}
  BY DEF Promise!Leads
<1> HIDE DEF w, n
<1>5. at = E(at)
  BY <1>3
<1> HIDE DEF at
<1>6. \A k \in 0..n : at[k] = IF k = 0 THEN {start} ELSE UNION {Through(p[k], t) : t \in at[k - 1]}
  BY <1>5
<1> HIDE DEF E
<1> DEFINE B == {k \in 0..n : at[k] # {T[k]}}
<1>7. B = {}
  <2> SUFFICES ASSUME B # {} PROVE FALSE
    OBVIOUS
  <2>1. B \in SUBSET Nat
    BY <1>1
  <2>2. PICK m \in B : \A k \in B : m <= k
    BY <2>1, LeastOf
  <2>3. m # 0
    BY <1>1, <1>6
  <2>4. m \in 1..n /\ m - 1 \in 0..n /\ m - 1 \notin B
    BY <1>1, <2>2, <2>3
  <2>5. at[m - 1] = {T[m - 1]}
    BY <2>4
  <2>6. at[m] = {T[m]}
    <3>1. UNION {Through(p[m], t) : t \in at[m - 1]} = {T[m]}
      BY <1>2, <2>4, <2>5
    <3>2. at[m] = UNION {Through(p[m], t) : t \in at[m - 1]}
      BY <1>6, <2>3, <2>4
    <3> QED
      BY <3>1, <3>2
  <2> QED
    BY <2>6
<1>8. at[n] = {T[n]}
  BY <1>1, <1>7
<1> QED
  BY <1>4, <1>8 DEF n

-----------------------------------------------------------------------------
(* What can be reached.                                                     *)

\* There are finitely many functions between finite sets.
LEMMA FiniteFunctions ==
  ASSUME NEW S, IsFiniteSet(S), NEW T, IsFiniteSet(T)
  PROVE  IsFiniteSet([S -> T])
<1> DEFINE F == [f \in [S -> T] |-> {<<v, f[v]>> : v \in S}]
           P == SUBSET (S \X T)
<1>1. F \in [[S -> T] -> P]
  OBVIOUS
<1>2. ASSUME NEW f \in [S -> T], NEW h \in [S -> T], F[f] = F[h] PROVE f = h
  <2>1. ASSUME NEW v \in S PROVE f[v] = h[v]
    <3>1. <<v, f[v]>> \in F[f]
      OBVIOUS
    <3>2. <<v, f[v]>> \in {<<w, h[w]>> : w \in S}
      BY <1>2, <3>1
    <3> QED
      BY <3>2
  <2> QED
    BY <2>1
<1> HIDE DEF F
<1>3. F \in Injection([S -> T], P)
  BY <1>1, <1>2 DEF Injection, IsInjective
<1>4. IsFiniteSet(P)
  BY FS_Product, FS_SUBSET
<1> QED
  BY <1>3, <1>4, FS_Injection

\* What the recursion of Reachable defines.
Grown(S, G, r) ==
  \A n \in 0..Cardinality(S), R \in SUBSET S :
    r[n][R] = IF n = 0 \/ G[R] = R THEN R ELSE r[n - 1][G[R]]

\* ... for a G that only adds.
Growing(S, G, r) ==
  /\ IsFiniteSet(S) /\ G \in [SUBSET S -> SUBSET S] /\ \A R \in SUBSET S : R \subseteq G[R]
  /\ Grown(S, G, r)

\* A set that grows as often as there are elements is closed in the end.
LEMMA GrownCloses ==
  ASSUME NEW S, NEW G, NEW r, Growing(S, G, r), NEW R \in SUBSET S
  PROVE  /\ r[Cardinality(S)][R] \in SUBSET S /\ R \subseteq r[Cardinality(S)][R]
         /\ G[r[Cardinality(S)][R]] = r[Cardinality(S)][R]
<1> DEFINE N == Cardinality(S)
           Closes(n, P) == r[n][P] \in SUBSET S /\ P \subseteq r[n][P] /\ G[r[n][P]] = r[n][P]
           B == {n \in 0..N : \E P \in SUBSET S : Cardinality(S \ P) <= n /\ ~Closes(n, P)}
<1>0. IsFiniteSet(S) /\ G \in [SUBSET S -> SUBSET S] /\ (\A P \in SUBSET S : P \subseteq G[P]) /\ Grown(S, G, r)
  BY DEF Growing
<1>1. N \in Nat /\ \A P \in SUBSET S : IsFiniteSet(S \ P) /\ Cardinality(S \ P) \in Nat /\ Cardinality(S \ P) <= N
  <2>1. N \in Nat
    BY <1>0, FS_CardinalityType
  <2>2. ASSUME NEW P \in SUBSET S PROVE IsFiniteSet(S \ P) /\ Cardinality(S \ P) \in Nat /\ Cardinality(S \ P) <= N
    <3>1. S \ P \in SUBSET S
      OBVIOUS
    <3> QED
      BY <1>0, <3>1, FS_Subset, FS_CardinalityType
  <2> QED
    BY <2>1, <2>2
<1> HIDE DEF N
<1>2. \A n \in 0..N, P \in SUBSET S : r[n][P] = IF n = 0 \/ G[P] = P THEN P ELSE r[n - 1][G[P]]
  BY <1>0 DEF Grown, N
<1>3. B = {}
  <2> SUFFICES ASSUME B # {} PROVE FALSE
    OBVIOUS
  <2>1. B \in SUBSET Nat
    BY <1>1
  <2>2. PICK m \in B : \A n \in B : m <= n
    BY <2>1, LeastOf
  <2>3. m \in 0..N /\ \E P \in SUBSET S : Cardinality(S \ P) <= m /\ ~Closes(m, P)
    BY <2>2
  <2>4. PICK P \in SUBSET S : Cardinality(S \ P) <= m /\ ~Closes(m, P)
    BY <2>3
  <2>5. m # 0 => m - 1 \in 0..N /\ m - 1 \notin B
    <3> HIDE DEF B, Closes
    <3>1. N \in Nat
      BY <1>1
    <3>2. m # 0 => m - 1 \in 0..N
      BY <2>3, <3>1
    <3>3. m \in Nat /\ (m - 1 \in B => m <= m - 1)
      BY <2>1, <2>2
    <3> QED
      BY <3>2, <3>3
  <2>6. m # 0 => \A O \in SUBSET S : Cardinality(S \ O) <= m - 1 => Closes(m - 1, O)
    BY <2>5
  <2> HIDE DEF B
  <2>7. CASE G[P] = P
    <3>1. r[m][P] = P
      BY <1>2, <2>3, <2>7
    <3> QED
      BY <2>4, <2>7, <3>1
  <2>8. CASE G[P] # P
    <3>1. G[P] \in SUBSET S /\ P \subseteq G[P] /\ \E z \in S : z \in G[P] /\ z \notin P
      BY <1>0, <2>8
    <3>2. PICK z \in S : z \in G[P] /\ z \notin P
      BY <3>1
    <3>3. Cardinality(S \ G[P]) <= Cardinality(S \ P) - 1
      <4>1. IsFiniteSet((S \ P) \ {z}) /\ Cardinality((S \ P) \ {z}) = Cardinality(S \ P) - 1
        BY <1>1, <3>2, FS_RemoveElement
      <4>2. S \ G[P] \in SUBSET ((S \ P) \ {z})
        BY <3>1, <3>2
      <4> QED
        BY <4>1, <4>2, FS_Subset
    <3>4. Cardinality(S \ G[P]) \in Nat /\ Cardinality(S \ P) \in Nat
      BY <1>1, <3>1
    <3>5. m # 0 /\ Cardinality(S \ G[P]) <= m - 1
      BY <2>3, <2>4, <3>3, <3>4
    <3>6. Closes(m - 1, G[P])
      BY <2>6, <3>1, <3>5
    <3>7. r[m][P] = r[m - 1][G[P]]
      BY <1>2, <2>3, <2>8, <3>5
    <3> QED
      BY <2>4, <3>1, <3>6, <3>7
  <2> QED
    BY <2>7, <2>8
<1> HIDE DEF B
<1>4. Closes(N, R)
  <2>1. N \in 0..N
    BY <1>1
  <2>2. Cardinality(S \ R) <= N
    BY <1>1
  <2> HIDE DEF Closes
  <2>3. \A n \in 0..N : Cardinality(S \ R) <= n /\ ~Closes(n, R) => n \in B
    BY DEF B
  <2>4. N \notin B
    BY <1>3
  <2> QED
    BY <2>1, <2>2, <2>3, <2>4
<1> QED
  BY <1>4 DEF N

\* ... and stays within every set that is closed.
LEMMA GrownStays ==
  ASSUME NEW S, NEW G, NEW r, Growing(S, G, r), NEW R \in SUBSET S,
         NEW C, R \subseteq C, \A P \in SUBSET S : P \subseteq C => G[P] \subseteq C
  PROVE  r[Cardinality(S)][R] \subseteq C
<1> DEFINE N == Cardinality(S)
           B == {n \in 0..N : \E P \in SUBSET S : P \subseteq C /\ ~(r[n][P] \subseteq C)}
<1>0. IsFiniteSet(S) /\ G \in [SUBSET S -> SUBSET S] /\ Grown(S, G, r)
  BY DEF Growing
<1>1. N \in Nat
  BY <1>0, FS_CardinalityType
<1> HIDE DEF N
<1>2. \A n \in 0..N, P \in SUBSET S : r[n][P] = IF n = 0 \/ G[P] = P THEN P ELSE r[n - 1][G[P]]
  BY <1>0 DEF Grown, N
<1>3. B = {}
  <2> SUFFICES ASSUME B # {} PROVE FALSE
    OBVIOUS
  <2>1. B \in SUBSET Nat
    BY <1>1
  <2>2. PICK m \in B : \A n \in B : m <= n
    BY <2>1, LeastOf
  <2>3. m \in 0..N /\ \E P \in SUBSET S : P \subseteq C /\ ~(r[m][P] \subseteq C)
    BY <2>2
  <2>4. PICK P \in SUBSET S : P \subseteq C /\ ~(r[m][P] \subseteq C)
    BY <2>3
  <2>5. m # 0 => m - 1 \in 0..N /\ m - 1 \notin B
    BY <1>1, <2>2, <2>3
  <2>6. m # 0 => \A O \in SUBSET S : O \subseteq C => r[m - 1][O] \subseteq C
    BY <2>5
  <2>7. G[P] \in SUBSET S /\ G[P] \subseteq C
    BY <1>0, <2>4
  <2> HIDE DEF B
  <2> QED
    BY <1>2, <2>3, <2>4, <2>6, <2>7
<1> QED
  BY <1>1, <1>3 DEF N

\* There are finitely many states.
LEMMA StatesAre ==
  ASSUME EngineTask
  PROVE  IsFiniteSet([Vars -> 0..10]) /\ Valued \subseteq [Vars -> 0..10]
<1>1. 0 \in Int /\ 10 \in Int
  OBVIOUS
<1>2. IsFiniteSet(0..10) /\ IsFiniteSet(Vars)
  BY <1>1, FS_Interval DEF EngineTask
<1> QED
  BY <1>2, FiniteFunctions DEF Valued

\* An operator leads from a state to a state, whatever its values.
LEMMA ThroughStates ==
  ASSUME EngineTask, NEW z \in [Vars -> 0..10], NEW a \in DOMAIN Op
  PROVE  Through(a, z) \subseteq [Vars -> 0..10]
<1> DEFINE y == Effects(Op[a], z)
<1>1. ASSUME NEW v \in Vars PROVE y[v] \in 0..10
  <2>1. CASE Firing(Op[a], v, z) = {}
    BY <2>1, EffectsAre
  <2>2. CASE Firing(Op[a], v, z) # {}
    <3>1. PICK i \in Firing(Op[a], v, z) : y[v] = Op[a].effects[i].post
      BY <2>2, EffectsAre
    <3>2. i \in DOMAIN Op[a].effects /\ Op[a].effects[i].var = v
      BY DEF Firing
    <3>3. <<v, Op[a].effects[i].post>> \in Facts
      BY <3>2, OperatorShape
    <3> QED
      BY <3>1, <3>3 DEF Facts
  <2> QED
    BY <2>1, <2>2
<1> HIDE DEF y
<1>2. ASSUME NEW v \in Vars PROVE Closure(y)[v] \in 0..10
  BY <1>1, ClosureBase, ClosureReads
<1>3. Closure(y) = [v \in Vars |-> Closure(y)[v]]
  BY DEF Closure
<1>4. Closure(y) \in [Vars -> 0..10]
  BY <1>2, <1>3
<1> QED
  BY <1>4 DEF Through, Apply, y

\* Reachable is the least set with the start that is closed under Widened.
LEMMA ReachableIs ==
  ASSUME EngineTask, start \in Valued
  PROVE  /\ start \in Promise!Reachable
         /\ Promise!Widened(Promise!Reachable) = Promise!Reachable
         /\ \A C : start \in C /\ (\A P : P \subseteq C => Promise!Widened(P) \subseteq C) => Promise!Reachable \subseteq C
<1> DEFINE S == [Vars -> 0..10]
           W(R) == Promise!Widened(R)
           G == [R \in SUBSET S |-> W(R)]
           N == Cardinality(S)
           E(g) == [n \in 0..N |-> [R \in SUBSET S |-> IF n = 0 \/ W(R) = R THEN R ELSE g[n - 1][W(R)]]]
           r == CHOOSE g : g = E(g)
           X == [SUBSET S -> SUBSET S]
           a == [R \in SUBSET S |-> R]
           F == [y \in (1..N) \X X |-> [R \in SUBSET S |-> IF W(R) = R THEN R ELSE y[2][W(R)]]]
<1>1. Promise!Reachable = r[N][{start}]
  BY DEF Promise!Reachable, Promise!Cardinality, Cardinality
<1>2. IsFiniteSet(S) /\ N \in Nat /\ start \in S
  BY StatesAre, FS_CardinalityType
<1>3. \A R \in SUBSET S : W(R) \in SUBSET S /\ R \subseteq W(R)
  BY ThroughStates DEF Promise!Widened
<1> HIDE DEF W, S
<1>4. G \in [SUBSET S -> SUBSET S] /\ \A R \in SUBSET S : G[R] = W(R)
  BY <1>3
<1> HIDE DEF N
<1>5. a \in X /\ F \in [(1..N) \X X -> X]
  BY <1>3
<1>6. \A k \in 1..N, g \in X : F[<<k, g>>] = [R \in SUBSET S |-> IF W(R) = R THEN R ELSE g[W(R)]]
  OBVIOUS
<1> HIDE DEF X, F
<1>7. PICK s : Iteration(N, X, a, F, s)
  BY <1>2, <1>5, IterationExists
<1>8. s = E(s)
  <2>1. s \in [0..N -> X] /\ s[0] = a /\ \A k \in 1..N : s[k] = F[<<k, s[k - 1]>>]
    BY <1>7 DEF Iteration
  <2>2. ASSUME NEW k \in 0..N
        PROVE  s[k] = [R \in SUBSET S |-> IF k = 0 \/ W(R) = R THEN R ELSE s[k - 1][W(R)]]
    <3>1. CASE k = 0
      <4>1. \A R \in SUBSET S : (IF k = 0 \/ W(R) = R THEN R ELSE s[k - 1][W(R)]) = R
        BY <3>1
      <4>2. s[k] = [R \in SUBSET S |-> R]
        BY <2>1, <3>1
      <4> QED
        BY <4>1, <4>2
    <3>2. CASE k # 0
      <4>1. k \in 1..N /\ s[k - 1] \in X
        BY <1>2, <2>1, <3>2
      <4> QED
        <5>1. s[k] = F[<<k, s[k - 1]>>]
          BY <2>1, <4>1
        <5>2. F[<<k, s[k - 1]>>] = [R \in SUBSET S |-> IF W(R) = R THEN R ELSE s[k - 1][W(R)]]
          BY <1>6, <4>1
        <5> QED
          BY <3>2, <5>1, <5>2
    <3> QED
      BY <3>1, <3>2
  <2> QED
    BY <2>1, <2>2
<1>9. r = E(r)
  BY <1>8
<1> HIDE DEF r
<1>10. \A n \in 0..N, R \in SUBSET S : r[n][R] = IF n = 0 \/ W(R) = R THEN R ELSE r[n - 1][W(R)]
  <2>1. \A n \in 0..N : r[n] = [R \in SUBSET S |-> IF n = 0 \/ W(R) = R THEN R ELSE r[n - 1][W(R)]]
    BY <1>9
  <2> QED
    BY <2>1
<1> HIDE DEF E, a, G
<1>11. Growing(S, G, r)
  <2>1. Grown(S, G, r)
    BY <1>4, <1>10 DEF Grown, N
  <2> QED
    BY <1>2, <1>3, <1>4, <2>1 DEF Growing
<1>12. {start} \in SUBSET S
  BY <1>2
<1> DEFINE Q == r[N][{start}]
<1>13. Q \in SUBSET S /\ start \in Q /\ W(Q) = Q
  <2>1. Q \in SUBSET S /\ {start} \subseteq Q /\ G[Q] = Q
    <3>2. /\ r[Cardinality(S)][{start}] \in SUBSET S /\ {start} \subseteq r[Cardinality(S)][{start}]
          /\ G[r[Cardinality(S)][{start}]] = r[Cardinality(S)][{start}]
      <4>1. \A R \in SUBSET S : /\ r[Cardinality(S)][R] \in SUBSET S /\ R \subseteq r[Cardinality(S)][R]
                               /\ G[r[Cardinality(S)][R]] = r[Cardinality(S)][R]
        BY <1>11, GrownCloses
      <4> QED
        BY <1>12, <4>1
    <3> QED
      BY <3>2 DEF N
  <2> QED
    BY <1>4, <2>1
<1>14. ASSUME NEW C, start \in C, \A P : P \subseteq C => W(P) \subseteq C PROVE Q \subseteq C
  <2>1. \A P \in SUBSET S : P \subseteq C => G[P] \subseteq C
    BY <1>4, <1>14
  <2> QED
    BY <1>11, <1>12, <1>14, <2>1, GrownStays DEF N
<1> QED
  BY <1>1, <1>13, <1>14 DEF W

-----------------------------------------------------------------------------
(* The search keeps its promise.                                            *)

\* What the promise calls ended and answer.
Ended == {s \in DOMAIN closed : Holds(s, goal) /\ ~(phase \in {"explore", "evaluated"} /\ s = current.state)}
Answered == IF solved THEN << solution >> ELSE << >>

\* Where an operator leads.
LEMMA ThroughIs ==
  ASSUME NEW a, NEW s
  PROVE  /\ FullyApplicable(Op[a], s) => Through(a, s) = {Apply(Op[a], s)}
         /\ ~FullyApplicable(Op[a], s) => Through(a, s) = {}
BY DEF Through

\* What is closed can be reached.
LEMMA ClosedReachable ==
  ASSUME EngineInput, SearchInv
  PROVE  DOMAIN closed \subseteq Promise!Reachable
<1> DEFINE B == {s \in DOMAIN closed : s \notin Promise!Reachable}
<1> SUFFICES ASSUME B # {} PROVE FALSE
  OBVIOUS
<1>1. \A s \in DOMAIN closed : /\ closed[s].g \in Nat /\ Comes(DOMAIN closed, start, goal, s, closed[s].from)
                               /\ closed[s].from # << >> => closed[closed[s].from[1]].g < closed[s].g
  BY DEF SearchInv, TreeInv, Tree
<1>2. PICK s \in B : \A d \in B : closed[s].g <= closed[d].g
  <2> DEFINE G == {closed[d].g : d \in B}
  <2>1. G \in SUBSET Nat /\ G # {}
    BY <1>1
  <2>2. PICK m \in G : \A d \in G : m <= d
    BY <2>1, LeastOf
  <2> QED
    BY <2>2
<1>3. start \in Promise!Reachable /\ Promise!Widened(Promise!Reachable) = Promise!Reachable
  BY ReachableIs DEF EngineInput, SearchInv, ProblemInv, Regular
<1>4. s # start
  BY <1>3
<1>5. Edge(DOMAIN closed, goal, s, closed[s].from)
  BY <1>1, <1>4 DEF Comes
<1>6. PICK d \in DOMAIN closed : \E a \in DOMAIN Op : closed[s].from = <<d, a>> /\ ~Holds(d, goal) /\ FullyApplicable(Op[a], d) /\ s = Apply(Op[a], d)
  BY <1>5 DEF Edge
<1>7. PICK a \in DOMAIN Op : closed[s].from = <<d, a>> /\ ~Holds(d, goal) /\ FullyApplicable(Op[a], d) /\ s = Apply(Op[a], d)
  BY <1>6
<1>8. d \in Promise!Reachable
  <2>1. <<d, a>> # << >> /\ <<d, a>>[1] = d
    OBVIOUS
  <2>2. closed[d].g < closed[s].g
    BY <1>1, <1>7, <2>1
  <2>3. closed[d].g \in Nat /\ closed[s].g \in Nat
    BY <1>1
  <2> QED
    BY <1>2, <2>2, <2>3
<1>9. s \in Through(a, d)
  BY <1>7, ThroughIs
<1>10. s \in Promise!Widened(Promise!Reachable)
  BY <1>7, <1>8, <1>9 DEF Promise!Widened
<1> QED
  BY <1>3, <1>10

\* What a hopeless state leads to is hopeless.
LEMMA HopelessOn ==
  ASSUME NEW s, NEW a \in DOMAIN Op, FullyApplicable(Op[a], s), Hopeless(s, goal)
  PROVE  Hopeless(Apply(Op[a], s), goal)
<1> DEFINE t == Apply(Op[a], s)
<1> SUFFICES ASSUME NEW p, NEW T, Run(p, t, T), Holds(T[Len(p)], goal) PROVE FALSE
  BY DEF Hopeless
<1>1. /\ p \in Seq(DOMAIN Op) /\ T[0] = t /\ Len(p) \in Nat
      /\ \A k \in 1..Len(p) : FullyApplicable(Op[p[k]], T[k - 1]) /\ T[k] = Apply(Op[p[k]], T[k - 1])
  BY DEF Run
<1> HIDE DEF t
<1> DEFINE o == << a >> \o p
           U == [k \in 0..(Len(p) + 1) |-> IF k = 0 THEN s ELSE T[k - 1]]
<1>2. o \in Seq(DOMAIN Op) /\ Len(o) = Len(p) + 1 /\ o[1] = a /\ \A k \in 2..(Len(p) + 1) : o[k] = p[k - 1]
  BY <1>1
<1> HIDE DEF o
<1>3. U[0] = s /\ \A k \in 1..(Len(p) + 1) : U[k] = T[k - 1]
  BY <1>1
<1> HIDE DEF U
<1>4. ASSUME NEW k \in 1..Len(o) PROVE FullyApplicable(Op[o[k]], U[k - 1]) /\ U[k] = Apply(Op[o[k]], U[k - 1])
  <2>1. CASE k = 1
    <3>1. U[k - 1] = s /\ U[k] = t
      BY <1>1, <1>3, <2>1
    <3> QED
      BY <1>2, <2>1, <3>1 DEF t
  <2>2. CASE k \in 2..(Len(p) + 1)
    <3>1. k - 1 \in 1..Len(p) /\ k - 1 \in 1..(Len(p) + 1) /\ k \in 1..(Len(p) + 1)
      BY <1>1, <2>2
    <3>2. o[k] = p[k - 1] /\ U[k] = T[k - 1] /\ U[k - 1] = T[(k - 1) - 1]
      BY <1>2, <1>3, <2>2, <3>1
    <3> QED
      BY <1>1, <3>1, <3>2
  <2> QED
    BY <1>1, <1>2, <2>1, <2>2
<1>5. Run(o, s, U)
  BY <1>2, <1>3, <1>4 DEF Run
<1>6. U[Len(o)] = T[Len(p)]
  <2>1. Len(p) + 1 \in 1..(Len(p) + 1) /\ (Len(p) + 1) - 1 = Len(p)
    BY <1>1
  <2> QED
    BY <1>2, <1>3, <2>1
<1> QED
  BY <1>5, <1>6 DEF Hopeless

\* A hopeless state is no goal state.
LEMMA HopelessMisses ==
  ASSUME NEW s, Hopeless(s, goal)
  PROVE  ~Holds(s, goal)
<1> DEFINE T == [k \in {0} |-> s]
<1>1. Run(<< >>, s, T) /\ T[Len(<< >>)] = s
  BY DEF Run
<1> HIDE DEF T
<1> QED
  BY <1>1 DEF Hopeless

\* When the lists are empty, what can be reached is closed or hopeless.
LEMMA ReachableClosed ==
  ASSUME EngineInput, SearchInv, phase = "fetch", \A l \in DOMAIN open : open[l] = {}
  PROVE  \A s \in Promise!Reachable : Holds(s, goal) => s \in DOMAIN closed
<1> DEFINE C == DOMAIN closed \cup {s \in [Vars -> 0..10] : Hopeless(s, goal)}
<1>1. Seen = DOMAIN closed
  <2>1. \A l \in Lists : open[l] = {}
    BY DEF SearchInv, OpenInv
  <2>2. ASSUME NEW z \in Waiting(open) PROVE FALSE
    <3>1. PICK l \in Lists : z \in {Apply(Op[e[4]], e[3]) : e \in open[l]}
      BY DEF Waiting
    <3>2. PICK e \in open[l] : z = Apply(Op[e[4]], e[3])
      BY <3>1
    <3> QED
      BY <2>1
  <2> QED
    BY <2>2 DEF Seen
<1>2. \A s \in DOMAIN closed : Finished(s, goal, DOMAIN closed) /\ s \in [Vars -> 0..10]
  BY <1>1 DEF SearchInv, CompleteInv, Busy, TreeInv, Tree, Regular, Valued
<1>3. start \in DOMAIN closed
  BY DEF SearchInv, StartInv
<1>4. ASSUME NEW P, P \subseteq C PROVE Promise!Widened(P) \subseteq C
  <2> SUFFICES ASSUME NEW a \in DOMAIN Op, NEW s \in P, ~Holds(s, goal), NEW t \in Through(a, s) PROVE t \in C
    BY <1>4 DEF Promise!Widened
  <2>1. FullyApplicable(Op[a], s) /\ t = Apply(Op[a], s)
    BY ThroughIs
  <2>2. s \in [Vars -> 0..10]
    BY <1>2, <1>4
  <2>3. t \in [Vars -> 0..10]
    BY <2>2, ThroughStates DEF EngineInput
  <2>4. CASE Hopeless(s, goal)
    BY <2>1, <2>3, <2>4, HopelessOn
  <2>5. CASE ~Hopeless(s, goal)
    <3>1. s \in DOMAIN closed
      BY <1>4, <2>5
    <3>2. t \in DOMAIN closed
      BY <1>2, <2>1, <2>5, <3>1 DEF Finished
    <3> QED
      BY <3>2
  <2> QED
    BY <2>4, <2>5
<1>5. Promise!Reachable \subseteq C
  <2> HIDE DEF C
  <2>1. start \in C
    BY <1>3 DEF C
  <2> QED
    BY <1>4, <2>1, ReachableIs DEF EngineInput, SearchInv, ProblemInv, Regular
<1> QED
  BY <1>5, HopelessMisses

\* Every step of the search is a step of the promise or none of its business.
LEMMA StepKeepsPromise ==
  ASSUME EngineInput, SearchInv, [NextSearch]_searchVars
  PROVE  [Promise!Ask \/ Promise!Answer]_Promise!vars
<1>1. ASSUME start' = start, goal' = goal, Running' = Running, Answered' = Answered, Ended' = Ended
      PROVE  [Promise!Ask \/ Promise!Answer]_Promise!vars
  BY <1>1 DEF Promise!vars, Answered, Ended
<1>2. PhaseInv
  BY DEF SearchInv
<1>3. CASE UNCHANGED searchVars
  BY <1>1, <1>3 DEF searchVars, Running, Answered, Ended
<1>4. CASE Search
  <2>1. Ended' = Ended /\ ~Running /\ Running' /\ Answered' = << >> /\ UNCHANGED <<start, goal>>
    BY <1>4 DEF Search, Ended, Running, Answered
  <2>2. Promise!Ask
    BY <2>1 DEF Promise!Ask, Ended, Answered
  <2> QED
    BY <2>2
<1>5. CASE Known
  BY <1>1, <1>5 DEF Known, Running, Answered, Ended
<1>6. CASE Close
  <2>1. DOMAIN closed' = DOMAIN closed \cup {current.state} /\ current.state \notin DOMAIN closed
    BY <1>6 DEF Close
  <2>2. phase = "step" /\ phase' = "explore" /\ UNCHANGED <<start, goal, current, solved, solution>>
    BY <1>6 DEF Close
  <2>3. Ended' = Ended
    BY <2>1, <2>2 DEF Ended
  <2> QED
    BY <1>1, <2>2, <2>3 DEF Running, Answered
<1>7. CASE Explore
  BY <1>1, <1>7 DEF Explore, Running, Answered, Ended
<1>8. CASE EvaluateHeuristic
  BY <1>1, <1>8 DEF EvaluateHeuristic, Running, Answered, Ended
<1>9. CASE Prune \/ Expand
  <2>1. phase = "evaluated" /\ phase' = "fetch" /\ UNCHANGED <<start, goal, current, closed, solved, solution>>
    BY <1>9 DEF Prune, Expand
  <2>2. estimate.dead \/ estimate.h # 0
    BY <1>9 DEF Prune, Expand
  <2>3. ~Holds(current.state, goal)
    BY <2>1, <2>2 DEF SearchInv, EstimateInv, Sound
  <2>4. Ended' = Ended
    BY <2>1, <2>3 DEF Ended
  <2> QED
    BY <1>1, <2>1, <2>4 DEF Running, Answered
<1>10. CASE CheckGoal
  <2>1. /\ phase = "evaluated" /\ phase' = "done" /\ solved' /\ solution' = Path(current.state)
        /\ UNCHANGED <<start, goal, current, closed>> /\ ~estimate.dead /\ estimate.h = 0
    BY <1>10 DEF CheckGoal
  <2> DEFINE s == current.state
  <2>2. Holds(s, goal) /\ s \in DOMAIN closed
    BY <2>1 DEF SearchInv, EstimateInv, Sound, CurrentInv, Busy
  <2>3. s \in Promise!Reachable
    BY <2>2, ClosedReachable
  <2>4. s \notin Ended /\ Ended' = Ended \cup {s}
    BY <2>1, <2>2 DEF Ended
  <2>5. PICK T : Run(Path(s), start, T) /\ T[Len(Path(s))] = s
    BY <2>2, PathRuns DEF SearchInv, TreeInv
  <2>6. Promise!Leads(Path(s), s)
    BY <2>5, RunLeads
  <2>7. Answered' = << Path(s) >> /\ Running /\ ~Running'
    BY <2>1 DEF Answered, Running
  <2> DEFINE left == {t \in Promise!Reachable : Holds(t, goal)} \ Ended
  <2>8. s \in left
    BY <2>2, <2>3, <2>4
  <2>9. Len(Answered') = 1 /\ Answered'[1] = Path(s)
    BY <2>7
  <2>10. Promise!Answer
    BY <2>1, <2>4, <2>6, <2>7, <2>8, <2>9 DEF Promise!Answer, Ended, Answered
  <2> QED
    BY <2>10
<1>11. CASE Fetch
  BY <1>1, <1>11 DEF Fetch, Running, Answered, Ended
<1>12. CASE Exhausted
  <2>1. phase = "fetch" /\ phase' = "done" /\ UNCHANGED <<start, goal, current, closed, solved>>
    BY <1>12 DEF Exhausted
  <2>2. \A t \in Promise!Reachable : Holds(t, goal) => t \in DOMAIN closed
    BY <1>12, ReachableClosed DEF Exhausted
  <2>3. Ended' = Ended /\ Ended = {t \in DOMAIN closed : Holds(t, goal)}
    BY <2>1 DEF Ended
  <2>4. {t \in Promise!Reachable : Holds(t, goal)} \ Ended = {}
    BY <2>2, <2>3
  <2>5. Answered' = << >> /\ Running /\ ~Running'
    BY <1>2, <2>1 DEF Answered, Running, PhaseInv
  <2>6. Promise!Answer
    BY <2>1, <2>3, <2>4, <2>5 DEF Promise!Answer, Ended, Answered
  <2> QED
    BY <2>6
<1> QED
  BY <1>3, <1>4, <1>5, <1>6, <1>7, <1>8, <1>9, <1>10, <1>11, <1>12 DEF NextSearch, Step

\* The safety half of KeepsPromise, for every task as described in SearchPromise: a plan
\* that is answered works and leads to a goal state that no earlier one led to or through,
\* and "no solution" is answered only when there is none left (best_first_search.cc:66-156,
\* planner.cc:991, 1009).  The dead ends of the relaxed exploration, the estimate 0 that
\* stands for the goal and the preferred operators that are applied without another look
\* are justified by EstimateSays and DeadEndIsHopeless.
THEOREM SearchKeepsPromise == EngineInput => (SearchSpec => Promise!Safety)
<1> SUFFICES ASSUME EngineInput PROVE SearchSpec => Promise!Safety
  OBVIOUS
<1>1. InitSearch => Promise!Init
  <2> SUFFICES ASSUME InitSearch PROVE Promise!Init
    OBVIOUS
  <2>1. phase = "idle" /\ ~solved /\ DOMAIN closed = {}
    BY DEF InitSearch
  <2> QED
    BY <2>1 DEF Promise!Init, Running
<1>2. SearchInv /\ [NextSearch]_searchVars => [Promise!Ask \/ Promise!Answer]_Promise!vars
  BY StepKeepsPromise
<1>3. SearchSpec => []SearchInv
  BY SearchInvHolds
<1> QED
  BY <1>1, <1>2, <1>3, PTL DEF SearchSpec, Promise!Safety

\* A derived fact that is not a default is true only if it is deduced.
LEMMA ReadIsDeduced ==
  ASSUME NEW z, NEW f \in Facts, IsDerived(f), f[2] # Default[f[1]], Closure(z)[f[1]] = f[2]
  PROVE  f \in DeducedUpTo(z)
<1>1. f[1] \in Derived /\ f = <<f[1], f[2]>>
  BY DEF IsDerived, Facts
<1>2. IsRead(z, DeducedUpTo(z), f)
  BY <1>1, ClosureReads
<1> QED
  BY <1>2 DEF IsRead

\* What is deduced is true.
LEMMA DeducedIsRead ==
  ASSUME EngineTask, OneSided, NEW z, NEW f \in DeducedUpTo(z)
  PROVE  Closure(z)[f[1]] = f[2]
<1> DEFINE D == DeducedUpTo(z)
           v == f[1]
           x == Closure(z)[v]
<1>1. D \subseteq Heads /\ Heads \subseteq Facts
  BY DeducedHeads, HeadsAre
<1>2. \A h \in Heads : h[1] \in Derived /\ h[2] # Default[h[1]]
  BY TaskShape DEF Heads, OneSided, IsDerived
<1>3. v \in Derived /\ v \in Vars /\ Dom[v] = 2 /\ f[2] \in 0..1 /\ f[2] # Default[v]
  <2>1. f \in Facts /\ v \in Derived /\ f[2] # Default[v]
    BY <1>1, <1>2
  <2>2. Dom[v] = 2
    BY <2>1 DEF EngineTask
  <2> QED
    BY <2>1, <2>2 DEF Facts
<1>4. x \in 0..10 /\ IsRead(z, D, <<v, x>>)
  BY <1>3, ClosureReads
<1> HIDE DEF x, D
<1>5. f \in D
  BY DEF D
<1>6. <<v, x>> \in D
  BY <1>3, <1>4, <1>5 DEF IsRead, IsDerived
<1>7. <<v, x>> \in Facts /\ x # Default[v]
  BY <1>1, <1>2, <1>6
<1>8. x \in 0..1
  BY <1>3, <1>7 DEF Facts
<1>9. Default[v] \in 0..1
  <2>1. <<v, Default[v]>> \in Facts
    BY <1>3, TaskShape
  <2> QED
    BY <1>3, <2>1 DEF Facts
<1> QED
  BY <1>3, <1>7, <1>8, <1>9 DEF x

\* Where rules derive one value of a variable only, and read only such values, every
\* rule holds in a state whose axioms are evaluated.
LEMMA OneSidedHolds ==
  ASSUME EngineTask, OneSided, NEW z
  PROVE  AxiomsHold(Closure(z))
<1> DEFINE w == Closure(z)
<1> SUFFICES ASSUME NEW r \in Rules, Holds(w, r.cond) PROVE w[r.head[1]] = r.head[2]
  BY DEF AxiomsHold
<1>1. r.cond \subseteq Facts
  BY TaskShape
<1>2. ASSUME NEW c \in r.cond
      PROVE  IF IsDerived(c) THEN c \in DeducedUpTo(z) /\ Layer[c[1]] <= Layer[r.head[1]] ELSE z[c[1]] = c[2]
  <2>1. w[c[1]] = c[2] /\ c \in Facts
    BY <1>1 DEF Holds
  <2>2. CASE IsDerived(c)
    <3>1. c[2] # Default[c[1]] /\ Layer[c[1]] <= Layer[r.head[1]]
      BY <2>2 DEF OneSided
    <3> QED
      BY <2>1, <2>2, <3>1, ReadIsDeduced
  <2>3. CASE ~IsDerived(c)
    <3>1. c[1] \in Vars /\ c[1] \notin Derived
      BY <2>1, <2>3 DEF Facts, IsDerived
    <3> QED
      BY <2>1, <2>3, <3>1, ClosureBase
  <2> QED
    BY <2>2, <2>3
<1>3. r.head \in DeducedUpTo(z)
  BY <1>2, DeducedClosed
<1> QED
  BY <1>3, DeducedIsRead

\* There every derived fact that is asked for has a derivation that is grounded.
LEMMA OneSidedSupports ==
  ASSUME EngineTask, OneSided, NEW g, AsksDerived(g)
  PROVE  Supported(g)
<1> SUFFICES ASSUME NEW z \in Valued, NEW f \in AskedFor(g) \cap DerivedFacts, Closure(z)[f[1]] = f[2],
                    NEW D \in SUBSET DerivedFacts, Reasons(Closure(z), D)
             PROVE  f \in D
  BY DEF Supported, Grounded
<1> DEFINE w == Closure(z)
           Q == {h \in D : w[h[1]] = h[2]}
<1>1. AxiomsHold(w)
  BY OneSidedHolds
<1>2. ASSUME NEW l, NEW E \in SUBSET Q PROVE Deduced(z, E, l) \subseteq Q
  <2> SUFFICES ASSUME NEW r \in Rules, \A c \in r.cond : IsRead(z, E, c) PROVE r.head \in Q
    BY <1>2 DEF Deduced
  <2>1. r.cond \subseteq Facts
    BY TaskShape
  <2>2. ASSUME NEW c \in r.cond PROVE w[c[1]] = c[2] /\ (IsDerived(c) => c \in D)
    <3>1. IsRead(z, E, c) /\ c \in Facts
      BY <2>1
    <3>2. CASE IsDerived(c)
      <4>1. c[2] # Default[c[1]]
        BY <3>2 DEF OneSided
      <4>2. c \in E
        BY <3>1, <3>2, <4>1 DEF IsRead
      <4> QED
        BY <4>2
    <3>3. CASE ~IsDerived(c)
      <4>1. c[1] \in Vars /\ c[1] \notin Derived
        BY <3>1, <3>3 DEF Facts, IsDerived
      <4>2. z[c[1]] = c[2]
        BY <3>1, <3>3 DEF IsRead
      <4> QED
        BY <3>3, <4>1, <4>2, ClosureBase
    <3> QED
      BY <3>2, <3>3
  <2> HIDE DEF w
  <2>3. Holds(w, r.cond) /\ {c \in r.cond : IsDerived(c)} \subseteq D
    BY <2>2 DEF Holds
  <2>4. w[r.head[1]] = r.head[2]
    BY <1>1, <2>3 DEF AxiomsHold
  <2>5. r.head \in D
    BY <2>3 DEF Reasons, w
  <2> QED
    BY <2>4, <2>5
<1>3. \A l \in 0..Cardinality(Derived) : Keeps(z, l, Q)
  BY <1>2 DEF Keeps
<1>4. DeducedUpTo(z) \subseteq Q
  <2> HIDE DEF Q
  <2> QED
    BY <1>3, DeducedWithin
<1>5. f \in Facts /\ IsDerived(f) /\ f[2] # Default[f[1]]
  BY DEF DerivedFacts, AsksDerived
<1>6. f \in DeducedUpTo(z)
  BY <1>5, ReadIsDeduced
<1> QED
  BY <1>4, <1>6

\* So for tasks whose rules are one-sided the search keeps its promise; all that is assumed
\* of them can be read off the task.
THEOREM OneSidedKeepsPromise == EngineTask /\ OneSided /\ OneSidedTasks => (SearchSpec => Promise!Safety)
<1> SUFFICES ASSUME EngineTask, OneSided, OneSidedTasks PROVE EngineInput
  BY SearchKeepsPromise
<1>1. \A z \in Valued : AxiomsHold(Closure(z))
  BY OneSidedHolds
<1>2. ASSUME NEW t \in Tasks PROVE t[1] \in Valued /\ AxiomsHold(t[1]) /\ t[2] \in SUBSET Facts /\ Supported(t[2])
  <2>1. t[1] \in Valued /\ AxiomsHold(t[1])
    BY <1>1, ClosureValued DEF OneSidedTasks
  <2> QED
    BY <2>1, OneSidedSupports DEF OneSidedTasks
<1> QED
  BY <1>1, <1>2 DEF EngineInput, EngineProblems
==============================================================================
