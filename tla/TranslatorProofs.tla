--------------------------- MODULE TranslatorProofs ---------------------------
(***************************************************************************)
(* Three parts of the translator, for every set of problems.               *)
(*                                                                         *)
(* Why a diagonal of the combinations is enough: an atom depends on the    *)
(* ONEOF of its tag and on no other, so a condition that fails in a        *)
(* combination fails in every one that agrees with it on that ONEOF, and   *)
(* the diagonal agrees with each alternative.                              *)
(*                                                                         *)
(* Why an operator does what its action does: variable by variable, an add *)
(* that is written and fires wins, else a delete that is written and       *)
(* fires, else the variable keeps its value; in each of the cases the      *)
(* atoms of its group come out alike, and what the code leaves out changes *)
(* nothing.                                                                *)
(*                                                                         *)
(* Why the evaluator finds what the axioms mean: simplified or turned      *)
(* round, the rules for a literal can apply exactly when the axioms make   *)
(* it hold (Faithful).  Without a cycle the layers put a rule behind what  *)
(* it reads, and strictly behind a default (LayersFit); a default is then  *)
(* read only when its layer is over, so that no value that has been read   *)
(* changes, the counters count, and at the end no rule is left that could  *)
(* change anything (Evaluating).  So what holds follows from itself;       *)
(* without a cycle only one set does, and without negation every one       *)
(* contains what has been deduced.                                         *)
(***************************************************************************)
EXTENDS OneofCombination, StripsToSas, Axioms, FiniteSetTheorems, NaturalsInduction, WellFoundedInduction, TLAPS

-----------------------------------------------------------------------------
(* The diagonal.                                                            *)

Sound(t) == Combinable(t) /\ Settled(t) /\ Positive(t)

\* The combinations agree on the ONEOF that p depends on.
Agree(t, c, d, p) ==
  (p \in DOMAIN Tags(t) /\ Tags(t)[p] \in DOMAIN t.oneofs) => c[Tags(t)[p]] = d[Tags(t)[p]]

Inv ==
  /\ task \in Tasks /\ failed \subseteq Combinations(task)
  /\ Sound(task) =>
       /\ \A c, d \in Combinations(task), p \in Atoms :
            Agree(task, c, d, p) => (p \in now[c] <=> p \in now[d])
       /\ \A c \in failed : \E p \in Atoms : \A d \in Combinations(task) :
            Agree(task, c, d, p) => d \in failed

-----------------------------------------------------------------------------
(* What a settled tagging means.                                            *)

\* An atom that is an alternative has the tag of its ONEOF.
LEMMA SeedsHaveTags ==
  ASSUME NEW t \in Tasks, Sound(t), NEW g \in DOMAIN t.oneofs, NEW k \in DOMAIN t.oneofs[g],
         NEW p \in Atoms, <<p, TRUE>> \in t.oneofs[g][k]
  PROVE  p \in DOMAIN Tags(t) /\ Tags(t)[p] = g
<1> DEFINE r == [clash |-> {}, tag |-> Tags(t)]
<1>1. IsLiteral(t.oneofs[g][k])
  BY DEF Sound, Combinable
<1>2. Seed(r, <<t.oneofs[g][k], g>>) = r
  BY DEF Sound, Settled
<1>3. t.oneofs[g][k] = {<<p, TRUE>>}
  BY <1>1 DEF IsLiteral
<1>4. {l[1] : l \in {x \in t.oneofs[g][k] : x[2]}} = {p}
  <2> DEFINE yes == <<p, TRUE>>
  <2>1. yes[1] = p /\ yes[2] /\ t.oneofs[g][k] = {yes}
    BY <1>3
  <2> HIDE DEF yes
  <2>2. {x \in {yes} : x[2]} = {yes}
    BY <2>1, Zenon
  <2>3. {l[1] : l \in {yes}} = {yes[1]}
    BY Zenon
  <2> QED
    BY <2>1, <2>2, <2>3, Zenon
<1>5. Tagged(r, p, g) = r
  BY <1>2, <1>4 DEF Seed
<1> QED
  BY <1>5 DEF Tagged, With

\* An effect's fact has the tags of the atoms in its condition.
LEMMA EffectsHaveTags ==
  ASSUME NEW t \in Tasks, Sound(t), NEW i \in DOMAIN t.actions, NEW e \in EffectsOf(t.actions[i]),
         NEW j \in DOMAIN e.cond, e.cond[j][1] \in DOMAIN Tags(t)
  PROVE  e.fact \in DOMAIN Tags(t) /\ Tags(t)[e.fact] = Tags(t)[e.cond[j][1]]
<1> DEFINE r == [clash |-> {}, tag |-> Tags(t)]
<1>1. Follow(r, <<e.cond[j], e.fact>>) = r
  BY DEF Sound, Settled
<1>2. e.cond[j][2]
  BY DEF Sound, Positive
<1>3. Tagged(r, e.fact, Tags(t)[e.cond[j][1]]) = r
  BY <1>1, <1>2 DEF Follow
<1> QED
  BY <1>3 DEF Tagged, With

\* The shape of an action and of its effects.
LEMMA ActionShape ==
  ASSUME NEW t \in Tasks, NEW i \in DOMAIN t.actions
  PROVE  /\ \A j \in DOMAIN t.actions[i].pre : t.actions[i].pre[j] \in Literals
         /\ \A e \in EffectsOf(t.actions[i]) :
              e.fact \in Atoms /\ \A j \in DOMAIN e.cond : e.cond[j] \in Literals
<1>1. t.actions[i] \in Actions
  BY TasksAreProblems
<1>2. \A e \in EffectsOf(t.actions[i]) : e \in Effects
  BY <1>1 DEF Actions, EffectsOf
<1> QED
  BY <1>1, <1>2 DEF Actions, Effects

-----------------------------------------------------------------------------
\* An atom begins alike in combinations that agree on it.
LEMMA BeginAlike ==
  ASSUME NEW t \in Tasks, Sound(t), NEW c \in Combinations(t), NEW d \in Combinations(t),
         NEW p \in Atoms, Agree(t, c, d, p), p \in Begin(t, c)
  PROVE  p \in Begin(t, d)
<1>1. CASE p \in t.certain
  BY <1>1 DEF Begin
<1>2. CASE <<p, TRUE>> \in Chosen(t, c)
  <2>1. PICK g \in DOMAIN t.oneofs : <<p, TRUE>> \in t.oneofs[g][c[g]]
    BY <1>2 DEF Chosen
  <2>2. c[g] \in DOMAIN t.oneofs[g]
    BY DEF Combinations
  <2>3. p \in DOMAIN Tags(t) /\ Tags(t)[p] = g
    BY <2>1, <2>2, SeedsHaveTags
  <2>4. c[g] = d[g]
    BY <2>3 DEF Agree
  <2> QED
    BY <2>1, <2>4 DEF Begin, Chosen
<1> QED
  BY <1>1, <1>2 DEF Begin

\* An effect on p fires alike in combinations that agree on p.
LEMMA FiresAlike ==
  ASSUME NEW t \in Tasks, Sound(t), NEW c \in Combinations(t), NEW d \in Combinations(t),
         NEW s, NEW u, \A q \in Atoms : Agree(t, c, d, q) => (q \in s <=> q \in u),
         NEW i \in DOMAIN t.actions, NEW e \in EffectsOf(t.actions[i]), Agree(t, c, d, e.fact)
  PROVE  Fires(s, e) <=> Fires(u, e)
<1>1. \A j \in DOMAIN e.cond : Satisfies(s, e.cond[j]) <=> Satisfies(u, e.cond[j])
  <2> TAKE j \in DOMAIN e.cond
  <2>1. e.cond[j][1] \in Atoms
    BY ActionShape DEF Literals
  <2>2. Agree(t, c, d, e.cond[j][1])
    BY EffectsHaveTags DEF Agree
  <2> QED
    BY <2>1, <2>2 DEF Satisfies
<1> QED
  BY <1>1 DEF Fires, HoldsIn

\* An atom is alike after an action in combinations that agree on it.
LEMMA AppliedAlike ==
  ASSUME NEW t \in Tasks, Sound(t), NEW c \in Combinations(t), NEW d \in Combinations(t),
         NEW s, NEW u, \A q \in Atoms : Agree(t, c, d, q) => (q \in s <=> q \in u),
         NEW i \in DOMAIN t.actions, NEW p \in Atoms, Agree(t, c, d, p)
  PROVE  p \in Applied(t.actions[i], s) <=> p \in Applied(t.actions[i], u)
<1> DEFINE act == t.actions[i]
<1>1. p \in Fired(s, act.add) <=> p \in Fired(u, act.add)
  <2>1. \A k \in DOMAIN act.add : act.add[k] \in EffectsOf(act)
    BY DEF EffectsOf
  <2>2. ASSUME NEW k \in DOMAIN act.add, act.add[k].fact = p
        PROVE  Fires(s, act.add[k]) <=> Fires(u, act.add[k])
    <3> DEFINE e == act.add[k]
    <3>1. e \in EffectsOf(act) /\ Agree(t, c, d, e.fact)
      BY <2>1, <2>2
    <3> HIDE DEF e
    <3>2. Fires(s, e) <=> Fires(u, e)
      BY <3>1, FiresAlike
    <3> QED
      BY <3>2 DEF e
  <2> QED
    BY <2>2 DEF Fired
<1>2. p \in Fired(s, act.del) <=> p \in Fired(u, act.del)
  <2>1. \A k \in DOMAIN act.del : act.del[k] \in EffectsOf(act)
    BY DEF EffectsOf
  <2>2. ASSUME NEW k \in DOMAIN act.del, act.del[k].fact = p
        PROVE  Fires(s, act.del[k]) <=> Fires(u, act.del[k])
    <3> DEFINE e == act.del[k]
    <3>1. e \in EffectsOf(act) /\ Agree(t, c, d, e.fact)
      BY <2>1, <2>2
    <3> HIDE DEF e
    <3>2. Fires(s, e) <=> Fires(u, e)
      BY <3>1, FiresAlike
    <3> QED
      BY <3>2 DEF e
  <2> QED
    BY <2>2 DEF Fired
<1> QED
  BY <1>1, <1>2 DEF Applied

-----------------------------------------------------------------------------
LEMMA InitInv == Init => Inv
<1> SUFFICES ASSUME Init PROVE Inv
  OBVIOUS
<1>1. task \in Tasks /\ failed = {}
  BY DEF Init
<1>2. \A c \in Combinations(task) : now[c] = Begin(task, c)
  BY DEF Init
<1>3. ASSUME Sound(task), NEW c \in Combinations(task), NEW d \in Combinations(task), NEW p \in Atoms,
             Agree(task, c, d, p)
      PROVE  p \in now[c] <=> p \in now[d]
  <2>1. Agree(task, d, c, p)
    BY <1>3 DEF Agree
  <2> QED
    BY <1>1, <1>2, <1>3, <2>1, BeginAlike
<1> QED
  BY <1>1, <1>3 DEF Inv

LEMMA DoInv ==
  ASSUME Inv, NEW i \in DOMAIN task.actions, Do(i)
  PROVE  Inv'
<1> DEFINE act == task.actions[i]
<1>1. task' = task /\ task \in Tasks
  BY DEF Inv, Do
<1>2. \A c \in Combinations(task) : now'[c] = Applied(act, now[c])
  BY DEF Do
<1>3. failed' = failed \cup {c \in Combinations(task) : \E j \in DOMAIN act.pre : ~Satisfies(now[c], act.pre[j])}
  BY DEF Do, HoldsIn
<1>4. ASSUME Sound(task), NEW c \in Combinations(task), NEW d \in Combinations(task), NEW p \in Atoms,
             Agree(task, c, d, p)
      PROVE  p \in now'[c] <=> p \in now'[d]
  <2>1. \A q \in Atoms : Agree(task, c, d, q) => (q \in now[c] <=> q \in now[d])
    BY <1>4 DEF Inv
  <2>2. p \in Applied(act, now[c]) <=> p \in Applied(act, now[d])
    BY <1>1, <1>4, <2>1, AppliedAlike
  <2> QED
    BY <1>2, <2>2
<1>5. ASSUME Sound(task), NEW c \in failed'
      PROVE  \E p \in Atoms : \A d \in Combinations(task) : Agree(task, c, d, p) => d \in failed'
  <2>1. CASE c \in failed
    BY <1>3, <1>5, <2>1 DEF Inv
  <2>2. CASE c \notin failed
    <3>1. c \in Combinations(task)
      BY <1>3, <2>2
    <3>2. PICK j \in DOMAIN act.pre : ~Satisfies(now[c], act.pre[j])
      BY <1>3, <2>2
    <3>3. act.pre[j][1] \in Atoms
      BY <1>1, ActionShape DEF Literals
    <3>4. \A d \in Combinations(task) : Agree(task, c, d, act.pre[j][1]) => ~Satisfies(now[d], act.pre[j])
      BY <1>5, <3>1, <3>2, <3>3 DEF Inv, Satisfies
    <3> QED
      BY <1>3, <3>3, <3>4
  <2> QED
    BY <2>1, <2>2
<1>6. failed' \subseteq Combinations(task)
  BY <1>3 DEF Inv
<1> QED
  BY <1>1, <1>4, <1>5, <1>6 DEF Inv

LEMMA FinishInv ==
  ASSUME Inv, Finish
  PROVE  Inv'
<1>1. task' = task /\ now' = now /\ task \in Tasks
  BY DEF Inv, Finish
<1>2. failed' = failed \cup {c \in Combinations(task) :
                               \E part \in task.goal : \A l \in part : ~Satisfies(now[c], l)}
  BY DEF Finish
<1>3. ASSUME Sound(task), NEW c \in failed'
      PROVE  \E p \in Atoms : \A d \in Combinations(task) : Agree(task, c, d, p) => d \in failed'
  <2>1. CASE c \in failed
    BY <1>2, <1>3, <2>1 DEF Inv
  <2>2. CASE c \notin failed
    <3>1. c \in Combinations(task)
      BY <1>2, <2>2
    <3>2. PICK part \in task.goal : \A l \in part : ~Satisfies(now[c], l)
      BY <1>2, <2>2
    <3>3. PICK l \in part : part = {l}
      BY <1>3 DEF Sound, Combinable, IsLiteral
    <3>4. l[1] \in Atoms
      BY <1>1, TasksAreProblems DEF Literals
    <3>5. \A d \in Combinations(task) : Agree(task, c, d, l[1]) => ~Satisfies(now[d], l)
      BY <1>3, <3>1, <3>2, <3>4 DEF Inv, Satisfies
    <3> QED
      BY <1>2, <3>3, <3>4, <3>5
  <2> QED
    BY <2>1, <2>2
<1>4. failed' \subseteq Combinations(task)
  BY <1>2 DEF Inv
<1> QED
  BY <1>1, <1>3, <1>4 DEF Inv

-----------------------------------------------------------------------------
\* The diagonal has an entry that agrees with any combination on any atom.
LEMMA DiagonalAgrees ==
  ASSUME NEW t \in Tasks, NEW c \in Combinations(t), NEW p \in Atoms
  PROVE  \E d \in Listed(t) : d \in Combinations(t) /\ Agree(t, c, d, p)
<1>1. \A g \in DOMAIN t.oneofs : c[g] \in DOMAIN t.oneofs[g] /\ c[g] \in Indices(t)
  BY DEF Combinations, Indices
<1>2. \A g \in DOMAIN t.oneofs : 1 \in DOMAIN t.oneofs[g]
  BY TasksAreProblems
<1>3. \A n \in Indices(t) : Diagonal(t, n) \in Combinations(t) /\ Diagonal(t, n) \in Listed(t)
  BY <1>2 DEF Diagonal, Combinations, Listed, Indices
<1>4. CASE p \in DOMAIN Tags(t) /\ Tags(t)[p] \in DOMAIN t.oneofs
  <2> DEFINE g == Tags(t)[p]
  <2>1. Diagonal(t, c[g])[g] = c[g]
    BY <1>1, <1>4 DEF Diagonal
  <2> QED
    BY <1>1, <1>3, <1>4, <2>1 DEF Agree
<1>5. CASE ~(p \in DOMAIN Tags(t) /\ Tags(t)[p] \in DOMAIN t.oneofs)
  <2>1. 1 \in DOMAIN t.oneofs
    BY TasksAreProblems
  <2> QED
    BY <1>1, <1>3, <1>5, <2>1 DEF Agree
<1> QED
  BY <1>4, <1>5

LEMMA InvSuffices == Inv => DiagonalSuffices
<1> SUFFICES ASSUME Inv, failed # {}, Sound(task) PROVE failed \cap Listed(task) # {}
  BY DEF DiagonalSuffices, Sound
<1>1. PICK c \in failed : TRUE
  OBVIOUS
<1>2. PICK p \in Atoms : \A d \in Combinations(task) : Agree(task, c, d, p) => d \in failed
  BY DEF Inv
<1>3. PICK d \in Listed(task) : d \in Combinations(task) /\ Agree(task, c, d, p)
  BY DiagonalAgrees DEF Inv
<1> QED
  BY <1>2, <1>3

\* A plan that fails in some combination of the alternatives fails in one of those the
\* ORS file lists, when detect_combinable agreed, its one pass missed no tag and no
\* negative literal carries an influence.
THEOREM DiagonalCorrect == Spec => []DiagonalSuffices
<1>1. Init => Inv
  BY InitInv
<1>2. Inv /\ [Next]_vars => Inv'
  <2> SUFFICES ASSUME Inv, [Next]_vars PROVE Inv'
    OBVIOUS
  <2>1. ASSUME NEW i \in DOMAIN task.actions, Do(i) PROVE Inv'
    BY <2>1, DoInv
  <2>2. CASE Finish
    BY <2>2, FinishInv
  <2>3. CASE UNCHANGED vars
    BY <2>3 DEF Inv, vars
  <2> QED
    BY <2>1, <2>2, <2>3 DEF Next
<1>3. Inv => DiagonalSuffices
  BY InvSuffices
<1> QED
  BY <1>1, <1>2, <1>3, PTL DEF Spec

-----------------------------------------------------------------------------
(* The values of a variable and the atoms of its group.                     *)

Proper(s) == s \subseteq Atoms /\ Exclusive(s)

LEMMA GroupTypes ==
  /\ Groups \in Seq(Seq(Atoms))
  /\ \A v \in DOMAIN Groups :
       /\ Groups[v] \in Seq(Atoms) /\ Len(Groups[v]) \in Nat \ {0}
       /\ DOMAIN Groups[v] = 1..Len(Groups[v])
       /\ \A i \in DOMAIN Groups[v] : Groups[v][i] \in Atoms
<1>1. Groups \in Seq(Seq(Atoms) \ {<< >>})
  BY GroupsArePartition
<1> SUFFICES ASSUME NEW v \in DOMAIN Groups
             PROVE  /\ Groups[v] \in Seq(Atoms) /\ Len(Groups[v]) \in Nat \ {0}
                    /\ DOMAIN Groups[v] = 1..Len(Groups[v])
                    /\ \A i \in DOMAIN Groups[v] : Groups[v][i] \in Atoms
  BY <1>1
<1>2. Groups[v] \in Seq(Atoms) \ {<< >>}
  BY <1>1
<1> QED
  BY <1>2

LEMMA OnePlace ==
  ASSUME NEW v \in DOMAIN Groups, NEW w \in DOMAIN Groups,
         NEW i \in DOMAIN Groups[v], NEW j \in DOMAIN Groups[w], Groups[v][i] = Groups[w][j]
  PROVE  v = w /\ i = j
BY GroupsArePartition, GroupTypes

LEMMA OneOfGroup ==
  ASSUME NEW s, Proper(s), NEW v \in DOMAIN Groups,
         NEW i \in DOMAIN Groups[v], NEW j \in DOMAIN Groups[v], Groups[v][i] \in s, Groups[v][j] \in s
  PROVE  i = j
<1>1. PICK M \in MutexGroups : \A k \in DOMAIN Groups[v] : Groups[v][k] \in M
  BY GroupsArePartition
<1>2. Groups[v][i] = Groups[v][j]
  BY <1>1 DEF Proper, Exclusive
<1> QED
  BY <1>2, OnePlace

LEMMA PairIs ==
  ASSUME NEW a \in Atoms
  PROVE  /\ Pair(a) = <<Pair(a)[1], Pair(a)[2]>> /\ Pair(a)[1] \in DOMAIN Groups
         /\ Pair(a)[2] \in 0..(Len(Groups[Pair(a)[1]]) - 1)
         /\ Pair(a)[2] + 1 \in DOMAIN Groups[Pair(a)[1]]
         /\ Groups[Pair(a)[1]][Pair(a)[2] + 1] = a
<1>1. PICK v \in DOMAIN Groups : \E i \in DOMAIN Groups[v] : Groups[v][i] = a
  BY GroupsArePartition
<1>2. PICK i \in DOMAIN Groups[v] : Groups[v][i] = a
  BY <1>1
<1>3. i - 1 \in 0..(Len(Groups[v]) - 1) /\ (i - 1) + 1 = i
  BY GroupTypes
<1>4. <<v, i - 1>> \in Places
  BY <1>3 DEF Places
<1>5. Groups[<<v, i - 1>>[1]][<<v, i - 1>>[2] + 1] = a
  BY <1>2, <1>3
<1>6. Pair(a) \in Places /\ Groups[Pair(a)[1]][Pair(a)[2] + 1] = a
  BY <1>4, <1>5 DEF Pair
<1>7. PICK w \in DOMAIN Groups : Pair(a) \in {w} \X (0..(Len(Groups[w]) - 1))
  BY <1>6 DEF Places
<1>8. Pair(a)[1] = w /\ Pair(a)[2] \in 0..(Len(Groups[w]) - 1) /\ Pair(a) = <<Pair(a)[1], Pair(a)[2]>>
  BY <1>7
<1>9. Pair(a)[2] + 1 \in 1..Len(Groups[w])
  BY <1>8, GroupTypes
<1> QED
  BY <1>6, <1>8, <1>9, GroupTypes

\* What the value of a variable says of the atoms.
LEMMA EncodedIs ==
  ASSUME NEW s, Proper(s), NEW v \in DOMAIN Groups
  PROVE  /\ \A i \in DOMAIN Groups[v] : Groups[v][i] \in s <=> Encoded(s)[v] = i - 1
         /\ (\A i \in DOMAIN Groups[v] : Groups[v][i] \notin s) <=> Encoded(s)[v] = NoneOfThose(v)
<1> DEFINE holding(i) == i \in DOMAIN Groups[v] /\ Groups[v][i] \in s
           c == CHOOSE i \in DOMAIN Groups[v] : Groups[v][i] \in s
<1>0. DOMAIN Groups[v] = 1..Len(Groups[v]) /\ Len(Groups[v]) \in Nat \ {0}
  BY GroupTypes
<1>1. CASE \E i \in DOMAIN Groups[v] : Groups[v][i] \in s
  <2>1. c \in DOMAIN Groups[v] /\ Groups[v][c] \in s
    BY <1>1
  <2>2. Encoded(s)[v] = c - 1
    BY <1>1 DEF Encoded
  <2> HIDE DEF c
  <2>3. \A i \in DOMAIN Groups[v] : Groups[v][i] \in s <=> i = c
    BY <2>1, OneOfGroup
  <2>4. c \in Int /\ c - 1 # Len(Groups[v]) /\ \A i \in DOMAIN Groups[v] : i \in Int
    BY <1>0, <2>1
  <2> QED
    BY <2>1, <2>2, <2>3, <2>4 DEF NoneOfThose
<1>2. CASE ~\E i \in DOMAIN Groups[v] : Groups[v][i] \in s
  <2>1. Encoded(s)[v] = Len(Groups[v])
    BY <1>2 DEF Encoded, NoneOfThose
  <2> QED
    BY <1>0, <1>2, <2>1 DEF NoneOfThose
<1> QED
  BY <1>1, <1>2

LEMMA EncodedPair ==
  ASSUME NEW s, Proper(s), NEW a \in Atoms
  PROVE  a \in s <=> Encoded(s)[Pair(a)[1]] = Pair(a)[2]
<1> DEFINE v == Pair(a)[1]
           i == Pair(a)[2] + 1
<1>1. v \in DOMAIN Groups /\ i \in DOMAIN Groups[v] /\ Groups[v][i] = a /\ i - 1 = Pair(a)[2]
  BY PairIs
<1> HIDE DEF v, i
<1>2. Groups[v][i] \in s <=> Encoded(s)[v] = i - 1
  BY <1>1, EncodedIs
<1> QED
  BY <1>1, <1>2 DEF v

\* A group all of whose atoms are the one that is alone.
LEMMA AloneIsBinary ==
  ASSUME NEW a \in Atoms, Alone(a)
  PROVE  Binary(Pair(a)[1]) /\ Pair(a)[2] = 0
<1> DEFINE v == Pair(a)[1]
<1>1. PICK M \in MutexGroups : \A k \in DOMAIN Groups[v] : Groups[v][k] \in M
  BY PairIs, GroupsArePartition
<1>2. M = {a}
  BY <1>1, PairIs DEF Alone
<1>3. \A k \in DOMAIN Groups[v] : k = Pair(a)[2] + 1
  BY <1>1, <1>2, PairIs, OnePlace
<1>4. DOMAIN Groups[v] = 1..Len(Groups[v]) /\ Len(Groups[v]) \in Nat \ {0} /\ Pair(a)[2] \in Int
  BY PairIs, GroupTypes
<1>5. 1 \in DOMAIN Groups[v] /\ Len(Groups[v]) \in DOMAIN Groups[v]
  BY <1>4
<1>6. 1 = Pair(a)[2] + 1 /\ Len(Groups[v]) = Pair(a)[2] + 1
  BY <1>3, <1>5
<1>7. Pair(a)[2] = 0 /\ Len(Groups[v]) = 1
  <2> HIDE DEF v
  <2> QED
    BY <1>4, <1>6
<1> QED
  BY <1>7 DEF Binary

LEMMA LiteralHolds ==
  ASSUME NEW s, Proper(s), NEW l \in Literals, l[2] \/ Alone(l[1])
  PROVE  Satisfies(s, l) <=> Encoded(s)[Fact(l)[1]] = Fact(l)[2]
<1>1. l[1] \in Atoms /\ l[2] \in BOOLEAN
  BY DEF Literals
<1>2. CASE l[2]
  BY <1>1, <1>2, EncodedPair DEF Satisfies, Fact
<1>3. CASE ~l[2]
  <2> DEFINE v == Pair(l[1])[1]
  <2>1. v \in DOMAIN Groups /\ Len(Groups[v]) = 1 /\ Pair(l[1])[2] = 0
    BY <1>1, <1>3, AloneIsBinary, PairIs DEF Binary
  <2>a. Pair(l[1])[2] + 1 = 1
    BY <2>1
  <2>b. Groups[v][Pair(l[1])[2] + 1] = l[1] /\ DOMAIN Groups[v] = 1..Len(Groups[v])
    BY <1>1, PairIs, GroupTypes
  <2>2. Groups[v][1] = l[1] /\ DOMAIN Groups[v] = {1}
    BY <2>1, <2>a, <2>b
  <2>3. Fact(l) = <<v, NoneOfThose(v)>>
    BY <1>3 DEF Fact
  <2>4. l[1] \notin s <=> Encoded(s)[v] = NoneOfThose(v)
    BY <2>1, <2>2, EncodedIs
  <2> QED
    BY <1>1, <1>3, <2>3, <2>4 DEF Satisfies
<1> QED
  BY <1>1, <1>2, <1>3

\* A condition holds of the values exactly where its literals hold of the atoms.
LEMMA ConditionHolds ==
  ASSUME NEW s, Proper(s), NEW lits \in Seq(Literals), PositiveInGroups(lits)
  PROVE  HoldsIn(s, lits) <=> Holds(Encoded(s), Condition(lits))
<1>1. \A i \in DOMAIN lits : Satisfies(s, lits[i]) <=> Encoded(s)[Fact(lits[i])[1]] = Fact(lits[i])[2]
  <2> TAKE i \in DOMAIN lits
  <2>1. lits[i] \in Literals /\ (lits[i][2] \/ Alone(lits[i][1]))
    BY DEF PositiveInGroups, Members
  <2> QED
    BY <2>1, LiteralHolds
<1> QED
  BY <1>1 DEF HoldsIn, Holds, Condition

-----------------------------------------------------------------------------
(* One regular action and its operator.                                     *)

LEMMA ActionTypes ==
  ASSUME NEW act \in Actions
  PROVE  /\ act.pre \in Seq(Literals)
         /\ \A i \in DOMAIN act.add : act.add[i].cond \in Seq(Literals) /\ act.add[i].fact \in Atoms
         /\ \A j \in DOMAIN act.del : act.del[j].cond \in Seq(Literals) /\ act.del[j].fact \in Atoms
<1>1. act.pre \in Seq(Literals) /\ act.add \in Seq(Effects) /\ act.del \in Seq(Effects)
  BY DEF Actions
<1>2. /\ \A i \in DOMAIN act.add : act.add[i] \in Effects
      /\ \A j \in DOMAIN act.del : act.del[j] \in Effects
  BY <1>1
<1> QED
  BY <1>1, <1>2 DEF Effects

\* What holds in a state is not found impossible.
LEMMA HoldingIsPossible ==
  ASSUME NEW s, Proper(s), NEW lits \in Seq(Literals), PositiveInGroups(lits), HoldsIn(s, lits)
  PROVE  Possible(lits)
<1>1. Consistent(Condition(lits))
  <2> SUFFICES ASSUME NEW i \in DOMAIN lits, NEW j \in DOMAIN lits, Fact(lits[i])[1] = Fact(lits[j])[1]
               PROVE  Fact(lits[i]) = Fact(lits[j])
    BY DEF Consistent, Condition
  <2>1. Holds(Encoded(s), Condition(lits))
    BY ConditionHolds
  <2>2. Fact(lits[i])[2] = Fact(lits[j])[2]
    BY <2>1 DEF Holds, Condition
  <2>3. lits[i] \in Literals /\ lits[j] \in Literals
    OBVIOUS
  <2>4. lits[i][1] \in Atoms /\ lits[j][1] \in Atoms
    BY <2>3 DEF Literals
  <2>5. /\ Fact(lits[i]) = <<Fact(lits[i])[1], Fact(lits[i])[2]>>
        /\ Fact(lits[j]) = <<Fact(lits[j])[1], Fact(lits[j])[2]>>
    BY <2>4, PairIs DEF Fact
  <2> QED
    BY <2>2, <2>5
<1>2. Consistent(InMutexes(lits))
  <2> DEFINE m(i, M) == <<M, IF lits[i][2] THEN {lits[i][1]} ELSE {}>>
  <2>1. ASSUME NEW i \in DOMAIN lits, NEW j \in DOMAIN lits, NEW M \in MutexGroups,
               lits[i][1] \in M, lits[j][1] \in M
        PROVE  m(i, M) = m(j, M)
    <3>1. lits[i] \in Literals /\ lits[j] \in Literals
      OBVIOUS
    <3>2. lits[i][2] \in BOOLEAN /\ lits[j][2] \in BOOLEAN
      BY <3>1 DEF Literals
    <3>3. (lits[i][1] \in s) = lits[i][2] /\ (lits[j][1] \in s) = lits[j][2]
      BY DEF HoldsIn, Satisfies
    <3>4. CASE lits[i][2] /\ lits[j][2]
      <4>1. lits[i][1] = lits[j][1]
        BY <2>1, <3>3, <3>4 DEF Proper, Exclusive
      <4> QED
        BY <3>4, <4>1
    <3>5. CASE ~lits[i][2] \/ ~lits[j][2]
      <4>1. Alone(lits[i][1]) \/ Alone(lits[j][1])
        BY <3>5 DEF PositiveInGroups, Members
      <4>2. lits[i][1] = lits[j][1]
        BY <2>1, <4>1 DEF Alone
      <4> QED
        BY <3>2, <3>3, <4>2
    <3> QED
      BY <3>4, <3>5
  <2> SUFFICES ASSUME NEW f \in InMutexes(lits), NEW g \in InMutexes(lits), f[1] = g[1]
               PROVE  f = g
    BY DEF Consistent
  <2>2. ASSUME NEW h \in InMutexes(lits)
        PROVE  \E i \in DOMAIN lits : \E M \in MutexGroups : lits[i][1] \in M /\ h = m(i, M)
    BY DEF InMutexes
  <2>3. PICK i \in DOMAIN lits : \E M \in MutexGroups : lits[i][1] \in M /\ f = m(i, M)
    BY <2>2
  <2>4. PICK j \in DOMAIN lits : \E M \in MutexGroups : lits[j][1] \in M /\ g = m(j, M)
    BY <2>2
  <2>5. PICK M \in MutexGroups : lits[i][1] \in M /\ f = m(i, M)
    BY <2>3
  <2>6. PICK N \in MutexGroups : lits[j][1] \in N /\ g = m(j, N)
    BY <2>4
  <2>7. M = N
    BY <2>5, <2>6
  <2> QED
    BY <2>1, <2>5, <2>6, <2>7
<1> QED
  BY <1>1, <1>2 DEF Possible

\* The effects as the code writes them, by the effect of the action they stand for.
AddAt(act, i) ==
  Effect(Condition(act.add[i].cond), Pair(act.add[i].fact)[1],
         Old(Condition(act.pre), Pair(act.add[i].fact)[1], Pair(act.add[i].fact)[2]), Pair(act.add[i].fact)[2])
IsKept(act, i) ==
  i \in DOMAIN act.add /\ Possible(act.add[i].cond) /\ Pair(act.add[i].fact) \notin Condition(act.pre)

DelPre(act, j) ==
  IF Pair(act.del[j].fact)[1] \in Added(act) THEN -1
  ELSE Old(Condition(act.pre), Pair(act.del[j].fact)[1], NoneOfThose(Pair(act.del[j].fact)[1]))
DelAt(act, j) ==
  Effect(Condition(act.del[j].cond), Pair(act.del[j].fact)[1], DelPre(act, j),
         NoneOfThose(Pair(act.del[j].fact)[1]))
IsWritten(act, j) ==
  /\ j \in DOMAIN act.del /\ Possible(act.del[j].cond)
  /\ IF Pair(act.del[j].fact)[1] \in Added(act) THEN Binary(Pair(act.del[j].fact)[1])
     ELSE \/ Pair(act.del[j].fact) \in Condition(act.pre) \cup Condition(act.del[j].cond)
          \/ Pair(act.del[j].fact)[1] \notin Variables(Condition(act.pre))

LEMMA AddsAre == \A act, e : e \in Adds(act) <=> \E i : IsKept(act, i) /\ e = AddAt(act, i)
BY DEF Adds, IsKept, AddAt

LEMMA DelsAre == \A act, e : e \in Dels(act) <=> \E j : IsWritten(act, j) /\ e = DelAt(act, j)
<1> TAKE act, e
<1> DEFINE possible == {j \in DOMAIN act.del : Possible(act.del[j].cond)}
           pre == Condition(act.pre)
           cond(j) == Condition(act.del[j].cond)
           p(j) == Pair(act.del[j].fact)
           none(j) == NoneOfThose(p(j)[1])
           alone == {j \in possible : /\ p(j)[1] \notin Added(act)
                                      /\ p(j) \in pre \cup cond(j) \/ p(j)[1] \notin Variables(pre)}
           beside == {j \in possible : p(j)[1] \in Added(act) /\ Binary(p(j)[1])}
           A == {Effect(cond(j), p(j)[1], Old(pre, p(j)[1], none(j)), none(j)) : j \in alone}
           B == {Effect(cond(j), p(j)[1], -1, none(j)) : j \in beside}
<1>1. Dels(act) = A \cup B
  BY DEF Dels
<1>2. \A j : IsWritten(act, j) <=> j \in alone \/ j \in beside
  BY DEF IsWritten
<1>3. \A j \in alone : DelAt(act, j) = Effect(cond(j), p(j)[1], Old(pre, p(j)[1], none(j)), none(j))
  BY DEF DelAt, DelPre
<1>4. \A j \in beside : DelAt(act, j) = Effect(cond(j), p(j)[1], -1, none(j))
  BY DEF DelAt, DelPre
<1>5. e \in A <=> \E j \in alone : e = DelAt(act, j)
  BY <1>3
<1>6. e \in B <=> \E j \in beside : e = DelAt(act, j)
  BY <1>4
<1> HIDE DEF A, B, alone, beside
<1> QED
  BY <1>1, <1>2, <1>5, <1>6

FiringAt(act, z, v) == {e \in Operator(act).effects : e.var = v /\ Holds(z, e.cond)}

AllAre(F, pre, post) == F # {} /\ \A e \in F : e.pre = pre /\ e.post = post

\* What the operator does to a variable all of whose firing effects agree.
LEMMA ResultIs ==
  ASSUME NEW act, NEW z, NEW v \in DOMAIN Groups
  PROVE  /\ FiringAt(act, z, v) = {} => Result(Operator(act), z)[v] = z[v]
         /\ \A pre \in Int, post \in Int :
              AllAre(FiringAt(act, z, v), pre, post) => Result(Operator(act), z)[v] = post
<1> DEFINE F == FiringAt(act, z, v)
<1>1. Result(Operator(act), z)[v] = IF F = {} THEN z[v] ELSE (CHOOSE e \in F : \A f \in F : ~Before(e, f)).post
  BY DEF Result, FiringAt
<1>2. ASSUME NEW pre \in Int, NEW post \in Int, F # {}, \A e \in F : e.pre = pre /\ e.post = post
      PROVE  Result(Operator(act), z)[v] = post
  <2> HIDE DEF F
  <2>1. \A e \in F : \A f \in F : ~Before(e, f)
    BY <1>2 DEF Before
  <2>2. (CHOOSE e \in F : \A f \in F : ~Before(e, f)) \in F
    BY <1>2, <2>1
  <2> QED
    BY <1>1, <1>2, <2>2
<1> HIDE DEF F
<1> QED
  BY <1>1, <1>2 DEF F, AllAre

-----------------------------------------------------------------------------
(* A regular action, taken in a state whose groups are exclusive.           *)
Taken(act, s) == act \in Actions /\ Regular(act) /\ Proper(s) /\ HoldsIn(s, act.pre)

VarOf(eff) == Pair(eff.fact)[1]

LEMMA RegularConditions ==
  ASSUME NEW act \in Actions, Regular(act)
  PROVE  /\ PositiveInGroups(act.pre)
         /\ \A i \in DOMAIN act.add : PositiveInGroups(act.add[i].cond)
         /\ \A j \in DOMAIN act.del : PositiveInGroups(act.del[j].cond)
BY DEF Regular

LEMMA RegularDelete ==
  ASSUME NEW act \in Actions, Regular(act), NEW j \in DOMAIN act.del
  PROVE  /\ \A i \in DOMAIN act.add : act.add[i].fact = act.del[j].fact => Opposed(act.add[i].cond, act.del[j].cond)
         /\ \/ Binary(VarOf(act.del[j]))
            \/ \E i \in DOMAIN act.add :
                 /\ VarOf(act.add[i]) = VarOf(act.del[j]) /\ act.add[i].fact # act.del[j].fact
                 /\ Members(act.add[i].cond) \subseteq Members(act.pre) \cup Members(act.del[j].cond)
            \/ /\ \A i \in DOMAIN act.add : VarOf(act.add[i]) # VarOf(act.del[j])
               /\ <<act.del[j].fact, TRUE>> \in Members(act.pre) \cup Members(act.del[j].cond)
<1> DEFINE d == act.del[j]
           with == {i \in DOMAIN act.add : Pair(act.add[i].fact)[1] = Pair(d.fact)[1]}
<1>1. /\ \A i \in with : act.add[i].fact = d.fact => Opposed(act.add[i].cond, d.cond)
      /\ \/ Binary(Pair(d.fact)[1])
         \/ \E i \in with : act.add[i].fact # d.fact
                            /\ Members(act.add[i].cond) \subseteq Members(act.pre) \cup Members(d.cond)
         \/ with = {} /\ <<d.fact, TRUE>> \in Members(act.pre) \cup Members(d.cond)
  BY DEF Regular
<1> QED
  BY <1>1 DEF VarOf

LEMMA MembersHold ==
  \A s, lits : HoldsIn(s, lits) <=> \A l \in Members(lits) : Satisfies(s, l)
BY DEF HoldsIn, Members

LEMMA Firings ==
  ASSUME NEW act, NEW s, Taken(act, s)
  PROVE  /\ Holds(Encoded(s), Condition(act.pre))
         /\ \A i \in DOMAIN act.add :
              /\ Fires(s, act.add[i]) <=> Holds(Encoded(s), Condition(act.add[i].cond))
              /\ Fires(s, act.add[i]) => Possible(act.add[i].cond)
         /\ \A j \in DOMAIN act.del :
              /\ Fires(s, act.del[j]) <=> Holds(Encoded(s), Condition(act.del[j].cond))
              /\ Fires(s, act.del[j]) => Possible(act.del[j].cond)
<1>1. act.pre \in Seq(Literals) /\ PositiveInGroups(act.pre)
  BY ActionTypes, RegularConditions DEF Taken
<1>2. ASSUME NEW i \in DOMAIN act.add
      PROVE  act.add[i].cond \in Seq(Literals) /\ PositiveInGroups(act.add[i].cond)
  BY <1>2, ActionTypes, RegularConditions DEF Taken
<1>3. ASSUME NEW j \in DOMAIN act.del
      PROVE  act.del[j].cond \in Seq(Literals) /\ PositiveInGroups(act.del[j].cond)
  BY <1>3, ActionTypes, RegularConditions DEF Taken
<1> QED
  BY <1>1, <1>2, <1>3, ConditionHolds, HoldingIsPossible DEF Taken, Fires

\* An add that is left out though it fires adds nothing.
LEMMA UnkeptHolds ==
  ASSUME NEW act, NEW s, Taken(act, s), NEW i \in DOMAIN act.add, Fires(s, act.add[i]), ~IsKept(act, i)
  PROVE  Pair(act.add[i].fact) \in Condition(act.pre) /\ act.add[i].fact \in s
<1>1. Pair(act.add[i].fact) \in Condition(act.pre)
  BY Firings DEF IsKept
<1>2. Encoded(s)[Pair(act.add[i].fact)[1]] = Pair(act.add[i].fact)[2]
  BY <1>1, Firings DEF Holds
<1>3. act.add[i].fact \in Atoms /\ Proper(s)
  BY ActionTypes DEF Taken
<1> QED
  BY <1>1, <1>2, <1>3, EncodedPair

LEMMA NotBoth ==
  ASSUME NEW act, NEW s, Taken(act, s), NEW i \in DOMAIN act.add, NEW j \in DOMAIN act.del,
         Fires(s, act.add[i]), Fires(s, act.del[j])
  PROVE  act.add[i].fact # act.del[j].fact
<1> SUFFICES ASSUME act.add[i].fact = act.del[j].fact PROVE FALSE
  OBVIOUS
<1>1. Opposed(act.add[i].cond, act.del[j].cond)
  BY RegularDelete DEF Taken
<1>2. PICK l \in Members(act.add[i].cond) : <<l[1], ~l[2]>> \in Members(act.del[j].cond)
  BY <1>1 DEF Opposed
<1>3. Satisfies(s, l) /\ Satisfies(s, <<l[1], ~l[2]>>)
  BY <1>2, MembersHold DEF Fires
<1>4. act.add[i].cond \in Seq(Literals)
  BY ActionTypes DEF Taken
<1>5. l[2] \in BOOLEAN
  BY <1>2, <1>4 DEF Members, Literals
<1> QED
  BY <1>3, <1>5 DEF Satisfies

LEMMA AppliedHolds ==
  \A act, s, a : a \in Applied(act, s) <=>
    \/ a \in s /\ ~\E j \in DOMAIN act.del : Fires(s, act.del[j]) /\ act.del[j].fact = a
    \/ \E i \in DOMAIN act.add : Fires(s, act.add[i]) /\ act.add[i].fact = a
BY DEF Applied, Fired

\* Of one variable one atom holds, and atoms of one place are the same.
LEMMA OneAtom ==
  ASSUME NEW s, Proper(s), NEW a \in Atoms, NEW b \in Atoms, a \in s, b \in s, Pair(a)[1] = Pair(b)[1]
  PROVE  a = b
BY EncodedPair, PairIs

LEMMA BinaryAtom ==
  ASSUME NEW a \in Atoms, NEW b \in Atoms, Pair(a)[1] = Pair(b)[1], Binary(Pair(a)[1])
  PROVE  a = b
<1>1. Pair(a)[2] \in 0..(1 - 1) /\ Pair(b)[2] \in 0..(1 - 1)
  BY PairIs DEF Binary
<1>2. Pair(a)[2] = Pair(b)[2]
  BY <1>1
<1> QED
  BY <1>2, PairIs

LEMMA PairOf ==
  ASSUME NEW v \in DOMAIN Groups, NEW k \in DOMAIN Groups[v]
  PROVE  Groups[v][k] \in Atoms /\ Pair(Groups[v][k])[1] = v
<1>1. Groups[v][k] \in Atoms
  BY GroupTypes
<1> QED
  BY <1>1, PairIs, OnePlace

LEMMA AddedAre ==
  \A act, v : v \in Added(act) <=> \E i : IsKept(act, i) /\ VarOf(act.add[i]) = v
<1> TAKE act, v
<1>1. \A i : AddAt(act, i).var = VarOf(act.add[i])
  BY DEF AddAt, Effect, VarOf
<1>2. v \in Added(act) <=> \E e \in Adds(act) : e.var = v
  BY DEF Added
<1> QED
  BY <1>1, <1>2, AddsAre

LEMMA FiringIs ==
  ASSUME NEW act, NEW s, Taken(act, s), NEW v, NEW e
  PROVE  e \in FiringAt(act, Encoded(s), v) <=>
           \/ \E i : IsKept(act, i) /\ VarOf(act.add[i]) = v /\ Fires(s, act.add[i]) /\ e = AddAt(act, i)
           \/ \E j : IsWritten(act, j) /\ VarOf(act.del[j]) = v /\ Fires(s, act.del[j]) /\ e = DelAt(act, j)
<1>1. e \in FiringAt(act, Encoded(s), v) <=>
        (e \in Adds(act) \/ e \in Dels(act)) /\ e.var = v /\ Holds(Encoded(s), e.cond)
  BY DEF FiringAt, Operator
<1>2. \A i : AddAt(act, i).var = VarOf(act.add[i]) /\ AddAt(act, i).cond = Condition(act.add[i].cond)
  BY DEF AddAt, Effect, VarOf
<1>3. \A j : DelAt(act, j).var = VarOf(act.del[j]) /\ DelAt(act, j).cond = Condition(act.del[j].cond)
  BY DEF DelAt, Effect, VarOf
<1>4. \A i : IsKept(act, i) => (Fires(s, act.add[i]) <=> Holds(Encoded(s), Condition(act.add[i].cond)))
  BY Firings DEF IsKept
<1>5. \A j : IsWritten(act, j) => (Fires(s, act.del[j]) <=> Holds(Encoded(s), Condition(act.del[j].cond)))
  BY Firings DEF IsWritten
<1> QED
  BY <1>1, <1>2, <1>3, <1>4, <1>5, AddsAre, DelsAre

LEMMA FactInt ==
  ASSUME NEW lits \in Seq(Literals), NEW f \in Condition(lits)
  PROVE  f = <<f[1], f[2]>> /\ f[2] \in Int
<1>1. PICK i \in DOMAIN lits : f = Fact(lits[i])
  BY DEF Condition
<1>2. lits[i] \in Literals
  OBVIOUS
<1>3. lits[i][1] \in Atoms
  BY <1>2 DEF Literals
<1>4. Pair(lits[i][1])[2] \in Int /\ NoneOfThose(Pair(lits[i][1])[1]) \in Int
  BY <1>3, PairIs, GroupTypes DEF NoneOfThose
<1> QED
  BY <1>1, <1>3, <1>4, PairIs DEF Fact

LEMMA OldType ==
  ASSUME NEW lits \in Seq(Literals), NEW v, NEW post \in Int
  PROVE  Old(Condition(lits), v, post) \in Int
<1>1. CASE v \in Variables(Condition(lits))
  <2>1. \E f \in Condition(lits) : f[1] = v
    BY <1>1 DEF Variables
  <2>2. (CHOOSE f \in Condition(lits) : f[1] = v) \in Condition(lits)
    BY <2>1
  <2> QED
    BY <1>1, <2>2, FactInt DEF Old
<1>2. CASE v \notin Variables(Condition(lits))
  BY <1>2 DEF Old
<1> QED
  BY <1>1, <1>2

-----------------------------------------------------------------------------
\* An add is written and fires: the variable takes its atom.
LEMMA AddWins ==
  ASSUME NEW act, NEW s, Taken(act, s), Proper(Applied(act, s)), NEW v \in DOMAIN Groups,
         NEW i, IsKept(act, i), VarOf(act.add[i]) = v, Fires(s, act.add[i])
  PROVE  Result(Operator(act), Encoded(s))[v] = Encoded(Applied(act, s))[v]
<1> DEFINE z == Encoded(s)
           a == act.add[i].fact
           pre == Old(Condition(act.pre), v, Pair(a)[2])
           post == Pair(a)[2]
<1>0. i \in DOMAIN act.add /\ act \in Actions
  BY DEF IsKept, Taken
<1>1. a \in Atoms /\ v = Pair(a)[1] /\ act.pre \in Seq(Literals)
  BY <1>0, ActionTypes DEF VarOf
<1>2. post \in Int
  BY <1>1, PairIs
<1>3. pre \in Int
  BY <1>1, <1>2, OldType
<1>4. AddAt(act, i) \in FiringAt(act, z, v)
  BY FiringIs
<1>5. ASSUME NEW k, IsKept(act, k), VarOf(act.add[k]) = v
      PROVE  AddAt(act, k).pre = pre /\ AddAt(act, k).post = post
  <2>1. AddAt(act, k) \in Adds(act) /\ AddAt(act, i) \in Adds(act)
    BY <1>5, AddsAre
  <2>2. AddAt(act, k).var = v /\ AddAt(act, i).var = v
    BY <1>1, <1>5 DEF AddAt, Effect, VarOf
  <2>3. ~Refused(act)
    BY DEF Taken, Regular
  <2>4. AddAt(act, k).post = AddAt(act, i).post
    BY <2>1, <2>2, <2>3 DEF Refused
  <2>5. AddAt(act, i).post = post /\ AddAt(act, k).post = Pair(act.add[k].fact)[2]
    BY DEF AddAt, Effect
  <2>6. AddAt(act, k).pre = Old(Condition(act.pre), v, Pair(act.add[k].fact)[2])
    BY <1>5 DEF AddAt, Effect, VarOf
  <2> QED
    BY <2>4, <2>5, <2>6
<1>6. ASSUME NEW j, IsWritten(act, j), VarOf(act.del[j]) = v, Fires(s, act.del[j])
      PROVE  FALSE
  <2>1. v \in Added(act)
    BY AddedAre
  <2>2. Binary(v) /\ j \in DOMAIN act.del
    BY <1>6, <2>1 DEF IsWritten, VarOf
  <2>3. act.del[j].fact \in Atoms
    BY <1>0, <2>2, ActionTypes
  <2>4. act.del[j].fact = a
    BY <1>1, <1>6, <2>2, <2>3, BinaryAtom DEF VarOf
  <2> QED
    BY <1>0, <1>6, <2>2, <2>4, NotBoth
<1>7. \A e \in FiringAt(act, z, v) : e.pre = pre /\ e.post = post
  BY <1>5, <1>6, FiringIs
<1>8. Result(Operator(act), z)[v] = post
  <2>1. AllAre(FiringAt(act, z, v), pre, post)
    BY <1>4, <1>7 DEF AllAre
  <2> HIDE DEF pre, post, z
  <2> QED
    BY <1>2, <1>3, <2>1, ResultIs
<1>9. a \in Applied(act, s)
  BY <1>0, AppliedHolds
<1>10. Encoded(Applied(act, s))[v] = post
  BY <1>1, <1>9, EncodedPair
<1> QED
  BY <1>8, <1>10

\* An atom left in a group when none is added to it anew was there before.
LEMMA WasThere ==
  ASSUME NEW act, NEW s, Taken(act, s), NEW a \in Atoms, a \in Applied(act, s),
         \A i : ~(IsKept(act, i) /\ VarOf(act.add[i]) = Pair(a)[1] /\ Fires(s, act.add[i]))
  PROVE  a \in s /\ \A j \in DOMAIN act.del : Fires(s, act.del[j]) => act.del[j].fact # a
<1>1. CASE \E i \in DOMAIN act.add : Fires(s, act.add[i]) /\ act.add[i].fact = a
  <2>1. PICK i \in DOMAIN act.add : Fires(s, act.add[i]) /\ act.add[i].fact = a
    BY <1>1
  <2>2. ~IsKept(act, i)
    BY <2>1 DEF VarOf
  <2>3. a \in s
    BY <2>1, <2>2, UnkeptHolds
  <2> QED
    BY <2>1, <2>3, NotBoth
<1>2. CASE ~\E i \in DOMAIN act.add : Fires(s, act.add[i]) /\ act.add[i].fact = a
  BY <1>2, AppliedHolds
<1> QED
  BY <1>1, <1>2

\* An add beside a delete of its group whose conditions hold with the delete's.
LEMMA AddBeside ==
  ASSUME NEW act, NEW s, Taken(act, s), NEW j \in DOMAIN act.del, Fires(s, act.del[j]),
         NEW i \in DOMAIN act.add, VarOf(act.add[i]) = VarOf(act.del[j]),
         Members(act.add[i].cond) \subseteq Members(act.pre) \cup Members(act.del[j].cond),
         \A k : ~(IsKept(act, k) /\ VarOf(act.add[k]) = VarOf(act.del[j]) /\ Fires(s, act.add[k]))
  PROVE  act.add[i].fact \in s /\ Pair(act.add[i].fact) \in Condition(act.pre)
<1>1. Fires(s, act.add[i])
  BY MembersHold DEF Fires, Taken
<1> QED
  BY <1>1, UnkeptHolds

\* No add is written and fires, but a delete: the variable is none of its atoms.
LEMMA DeleteWins ==
  ASSUME NEW act, NEW s, Taken(act, s), Proper(Applied(act, s)), NEW v \in DOMAIN Groups,
         \A k : ~(IsKept(act, k) /\ VarOf(act.add[k]) = v /\ Fires(s, act.add[k])),
         NEW j, IsWritten(act, j), VarOf(act.del[j]) = v, Fires(s, act.del[j])
  PROVE  Result(Operator(act), Encoded(s))[v] = Encoded(Applied(act, s))[v]
<1> DEFINE z == Encoded(s)
           t == Applied(act, s)
           d == act.del[j].fact
           pre == DelPre(act, j)
           post == NoneOfThose(v)
<1>0. j \in DOMAIN act.del /\ act \in Actions /\ Proper(s) /\ Regular(act)
  BY DEF IsWritten, Taken
<1>1. d \in Atoms /\ v = Pair(d)[1] /\ act.pre \in Seq(Literals)
  BY <1>0, ActionTypes DEF VarOf
<1>2. post \in Int
  BY GroupTypes DEF NoneOfThose
<1>3. pre \in Int
  BY <1>1, <1>2, OldType DEF DelPre
<1>4. DelAt(act, j) \in FiringAt(act, z, v)
  BY FiringIs
<1>5. ASSUME NEW k, VarOf(act.del[k]) = v
      PROVE  DelAt(act, k).pre = pre /\ DelAt(act, k).post = post
  BY <1>1, <1>5 DEF DelAt, DelPre, Effect, VarOf
<1>6. \A e \in FiringAt(act, z, v) : e.pre = pre /\ e.post = post
  BY <1>5, FiringIs
<1>7. Result(Operator(act), z)[v] = post
  <2>1. AllAre(FiringAt(act, z, v), pre, post)
    BY <1>4, <1>6 DEF AllAre
  <2> HIDE DEF pre, post, z
  <2> QED
    BY <1>2, <1>3, <2>1, ResultIs
<1>8. ASSUME NEW k \in DOMAIN Groups[v], Groups[v][k] \in t
      PROVE  FALSE
  <2> DEFINE a == Groups[v][k]
  <2>1. a \in Atoms /\ Pair(a)[1] = v
    BY PairOf
  <2> HIDE DEF a
  <2>2. a \in s /\ a # d
    BY <1>0, <1>8, <2>1, WasThere DEF a
  <2>3. d \notin s
    BY <1>0, <1>1, <2>1, <2>2, OneAtom
  <2>4. ~Binary(v)
    BY <1>1, <2>1, <2>2, BinaryAtom
  <2>5. v \notin Added(act) /\ (Pair(d) \in Condition(act.pre) \cup Condition(act.del[j].cond)
                                  \/ v \notin Variables(Condition(act.pre)))
    BY <1>1, <2>4 DEF IsWritten
  <2>6. <<d, TRUE>> \notin Members(act.pre) \cup Members(act.del[j].cond)
    BY <2>3, MembersHold DEF Taken, Fires, Satisfies
  <2>7. PICK i \in DOMAIN act.add :
          /\ VarOf(act.add[i]) = v /\ act.add[i].fact # d
          /\ Members(act.add[i].cond) \subseteq Members(act.pre) \cup Members(act.del[j].cond)
    BY <1>0, <2>4, <2>6, RegularDelete
  <2>8. Pair(act.add[i].fact) \in Condition(act.pre)
    BY <1>0, <2>7, AddBeside
  <2>9. v \in Variables(Condition(act.pre))
    BY <2>7, <2>8 DEF Variables, VarOf
  <2>10. Encoded(s)[Pair(d)[1]] = Pair(d)[2]
    BY <1>0, <2>5, <2>9, Firings DEF Holds
  <2> QED
    BY <1>0, <1>1, <2>3, <2>10, EncodedPair
<1>9. Encoded(t)[v] = post
  BY <1>8, EncodedIs
<1> QED
  BY <1>7, <1>9

\* Nothing fires: the variable keeps its atom.
LEMMA NothingFires ==
  ASSUME NEW act, NEW s, Taken(act, s), Proper(Applied(act, s)), NEW v \in DOMAIN Groups,
         \A k : ~(IsKept(act, k) /\ VarOf(act.add[k]) = v /\ Fires(s, act.add[k])),
         \A k : ~(IsWritten(act, k) /\ VarOf(act.del[k]) = v /\ Fires(s, act.del[k]))
  PROVE  Result(Operator(act), Encoded(s))[v] = Encoded(Applied(act, s))[v]
<1> DEFINE z == Encoded(s)
           t == Applied(act, s)
<1>0. act \in Actions /\ Proper(s) /\ Regular(act)
  BY DEF Taken
<1>1. Result(Operator(act), z)[v] = z[v]
  <2>1. FiringAt(act, z, v) = {}
    BY FiringIs
  <2> QED
    BY <2>1, ResultIs
<1>2. ASSUME NEW k \in DOMAIN Groups[v], Groups[v][k] \in t
      PROVE  Groups[v][k] \in s
  BY <1>2, PairOf, WasThere
<1>3. ASSUME NEW k \in DOMAIN Groups[v], Groups[v][k] \in s, Groups[v][k] \notin t
      PROVE  FALSE
  <2> DEFINE a == Groups[v][k]
             pre == Condition(act.pre)
  <2>1. a \in Atoms /\ Pair(a)[1] = v
    BY PairOf
  <2> HIDE DEF a
  <2>2. a \in s /\ a \notin t
    BY <1>3 DEF a
  <2>3. PICK j \in DOMAIN act.del : Fires(s, act.del[j]) /\ act.del[j].fact = a
    BY <2>2, AppliedHolds
  <2>4. VarOf(act.del[j]) = v /\ Possible(act.del[j].cond) /\ ~IsWritten(act, j)
    BY <2>1, <2>3, Firings DEF VarOf
  <2>5. CASE v \in Added(act)
    <3>1. ~Binary(v)
      BY <2>3, <2>4, <2>5 DEF IsWritten, VarOf
    <3>2. \E i \in DOMAIN act.add : VarOf(act.add[i]) = v
      BY <2>5, AddedAre DEF IsKept
    <3>3. PICK i \in DOMAIN act.add :
            /\ VarOf(act.add[i]) = v /\ act.add[i].fact # a
            /\ Members(act.add[i].cond) \subseteq Members(act.pre) \cup Members(act.del[j].cond)
      BY <1>0, <2>3, <2>4, <3>1, <3>2, RegularDelete
    <3>4. act.add[i].fact \in s
      BY <2>3, <2>4, <3>3, AddBeside
    <3>5. act.add[i].fact \in Atoms
      BY <1>0, ActionTypes
    <3> QED
      BY <1>0, <2>1, <2>2, <3>3, <3>4, <3>5, OneAtom DEF VarOf
  <2>6. CASE v \notin Added(act)
    <3>1. Pair(a) \notin pre /\ v \in Variables(pre)
      BY <2>3, <2>4, <2>6 DEF IsWritten, VarOf
    <3>2. PICK f \in pre : f[1] = v
      BY <3>1 DEF Variables
    <3>3. f = <<f[1], f[2]>>
      BY <1>0, <3>2, ActionTypes, FactInt
    <3>4. Encoded(s)[v] = f[2]
      BY <3>2, Firings DEF Holds
    <3>5. Encoded(s)[v] = Pair(a)[2]
      BY <1>0, <2>1, <2>2, EncodedPair
    <3>6. Pair(a) = <<Pair(a)[1], Pair(a)[2]>>
      BY <2>1, PairIs
    <3>7. Pair(a) = f
      BY <2>1, <3>2, <3>3, <3>4, <3>5, <3>6
    <3> QED
      BY <3>1, <3>2, <3>7
  <2> QED
    BY <2>5, <2>6
<1>4. \A k \in DOMAIN Groups[v] : Groups[v][k] \in s <=> Groups[v][k] \in t
  BY <1>2, <1>3
<1>5. z[v] = Encoded(t)[v]
  <2>1. CASE \E k \in DOMAIN Groups[v] : Groups[v][k] \in s
    <3>1. PICK k \in DOMAIN Groups[v] : Groups[v][k] \in s
      BY <2>1
    <3>2. Groups[v][k] \in t
      BY <1>4, <3>1
    <3>3. Encoded(s)[v] = k - 1
      BY <1>0, <3>1, EncodedIs
    <3>4. Encoded(t)[v] = k - 1
      BY <3>2, EncodedIs
    <3> QED
      BY <3>3, <3>4
  <2>2. CASE ~\E k \in DOMAIN Groups[v] : Groups[v][k] \in s
    <3>1. Encoded(s)[v] = NoneOfThose(v)
      BY <1>0, <2>2, EncodedIs
    <3>2. Encoded(t)[v] = NoneOfThose(v)
      BY <1>4, <2>2, EncodedIs
    <3> QED
      BY <3>1, <3>2
  <2> QED
    BY <2>1, <2>2
<1> QED
  BY <1>1, <1>5

-----------------------------------------------------------------------------
LEMMA StepEncodes ==
  ASSUME NEW act, NEW s, Taken(act, s), Proper(Applied(act, s))
  PROVE  Result(Operator(act), Encoded(s)) = Encoded(Applied(act, s))
<1>1. \A v \in DOMAIN Groups : Result(Operator(act), Encoded(s))[v] = Encoded(Applied(act, s))[v]
  <2> TAKE v \in DOMAIN Groups
  <2>1. CASE \E i : IsKept(act, i) /\ VarOf(act.add[i]) = v /\ Fires(s, act.add[i])
    BY <2>1, AddWins
  <2>2. CASE /\ \A i : ~(IsKept(act, i) /\ VarOf(act.add[i]) = v /\ Fires(s, act.add[i]))
             /\ \E j : IsWritten(act, j) /\ VarOf(act.del[j]) = v /\ Fires(s, act.del[j])
    BY <2>2, DeleteWins
  <2>3. CASE /\ \A i : ~(IsKept(act, i) /\ VarOf(act.add[i]) = v /\ Fires(s, act.add[i]))
             /\ \A j : ~(IsWritten(act, j) /\ VarOf(act.del[j]) = v /\ Fires(s, act.del[j]))
    BY <2>3, NothingFires
  <2> QED
    BY <2>1, <2>2, <2>3
<1>2. /\ Result(Operator(act), Encoded(s)) = [v \in DOMAIN Groups |-> Result(Operator(act), Encoded(s))[v]]
      /\ Encoded(Applied(act, s)) = [v \in DOMAIN Groups |-> Encoded(Applied(act, s))[v]]
  BY DEF Result, Encoded
<1> QED
  BY <1>1, <1>2

LEMMA StepAtoms ==
  ASSUME NEW act \in Actions, NEW s \in SUBSET Atoms
  PROVE  Applied(act, s) \subseteq Atoms
BY ActionTypes DEF Applied, Fired

\* As long as the history is regular the groups are exclusive and the values encode the atoms.
Mirrored == facts \subseteq Atoms /\ (regular => Proper(facts) /\ values = Encoded(facts))

LEMMA InitMirrored == InitSas => Mirrored
BY TaskIsGrounded DEF InitSas, Mirrored, Proper

LEMMA NextMirrored == Mirrored /\ [NextSas]_sasVars => Mirrored'
<1> SUFFICES ASSUME Mirrored, [NextSas]_sasVars PROVE Mirrored'
  OBVIOUS
<1>1. CASE NextSas
  <2>1. PICK act \in DOMAIN Operators \ RefusedActs : Take(act)
    BY <1>1 DEF NextSas
  <2>2. act \in Acts /\ act \in Actions /\ Operators[act] = Operator(act)
    BY TaskIsGrounded DEF Operators
  <2>3. facts' \subseteq Atoms
    BY <2>1, <2>2, StepAtoms DEF Take, Mirrored
  <2>4. ASSUME regular' PROVE Proper(facts)' /\ values' = Encoded(facts')
    <3>1. regular /\ Regular(act) /\ Exclusive(facts')
      BY <2>1, <2>4 DEF Take, RegularActs
    <3>2. Taken(act, facts)
      BY <2>1, <2>2, <3>1 DEF Taken, Take, Mirrored
    <3>3. Proper(Applied(act, facts)) /\ facts' = Applied(act, facts)
      BY <2>1, <2>3, <3>1 DEF Take, Proper
    <3>4. values' = Result(Operator(act), Encoded(facts))
      BY <2>1, <2>2, <3>1 DEF Take, Mirrored
    <3> QED
      BY <3>2, <3>3, <3>4, StepEncodes DEF Proper, Exclusive
  <2> QED
    BY <2>3, <2>4 DEF Mirrored
<1>2. CASE UNCHANGED sasVars
  BY <1>2 DEF sasVars, Mirrored, Proper, Exclusive, Encoded
<1> QED
  BY <1>1, <1>2

\* As long as the actions are regular and the groups exclusive, the operators lead to the
\* state that encodes where the actions lead, for any task, groups and order of actions
\* (translate_strips_operator).
THEOREM ValuesCorrect == SasSpec => []ValuesAreFacts
<1>1. Mirrored => ValuesAreFacts
  BY DEF Mirrored, ValuesAreFacts
<1> QED
  BY <1>1, InitMirrored, NextMirrored, PTL DEF SasSpec

\* What build_implied_facts says holds.
LEMMA ImpliedHolds ==
  ASSUME NEW act, NEW s, Taken(act, s), NEW v, NEW post \in Int
  PROVE  Old(Condition(act.pre), v, post) \in {-1, Encoded(s)[v]}
<1> DEFINE pre == Condition(act.pre)
           z == Encoded(s)
<1>0. Holds(z, pre)
  BY Firings
<1>1. CASE v \in Variables(pre)
  <2>1. \E f \in pre : f[1] = v
    BY <1>1 DEF Variables
  <2>2. (CHOOSE f \in pre : f[1] = v) \in pre /\ (CHOOSE f \in pre : f[1] = v)[1] = v
    BY <2>1
  <2> QED
    BY <1>0, <1>1, <2>2 DEF Old, Holds
<1>2. CASE v \notin Variables(pre) /\ Binary(v) /\ <<v, 1 - post>> \in Implied(pre)
  <2>1. 1 - post = 1 /\ v \in DOMAIN Groups
    BY <1>2 DEF Implied
  <2>2. PICK M \in MutexGroups : Groups[v][1] \in M /\ \E p \in M \ {Groups[v][1]} : Pair(p) \in pre
    BY <1>2 DEF Implied
  <2>3. PICK p \in M \ {Groups[v][1]} : Pair(p) \in pre
    BY <2>2
  <2>4. p \in Atoms
    BY <2>3, GroupsArePartition
  <2>5. p \in s
    BY <1>0, <2>3, <2>4, EncodedPair DEF Holds, Taken
  <2>6. Groups[v][1] \notin s
    BY <2>2, <2>3, <2>5 DEF Taken, Proper, Exclusive
  <2>7. DOMAIN Groups[v] = 1..Len(Groups[v]) /\ Len(Groups[v]) = 1
    BY <1>2, <2>1, GroupTypes DEF Binary
  <2>8. \A i \in DOMAIN Groups[v] : i = 1
    BY <2>7
  <2>9. \A i \in DOMAIN Groups[v] : Groups[v][i] \notin s
    BY <2>6, <2>8
  <2>10. z[v] = NoneOfThose(v)
    BY <2>1, <2>9, EncodedIs DEF Taken
  <2>11. z[v] = 1 - post
    BY <2>1, <2>7, <2>10 DEF NoneOfThose
  <2>12. Old(pre, v, post) = 1 - post
    BY <1>2 DEF Old
  <2> QED
    BY <2>11, <2>12
<1>3. CASE v \notin Variables(pre) /\ ~(Binary(v) /\ <<v, 1 - post>> \in Implied(pre))
  BY <1>3 DEF Old
<1> QED
  BY <1>1, <1>2, <1>3

\* Where a regular action is applicable in PDDL it has an operator that is applicable with
\* the old values that were added to it, and conversely: translate_strips_operator neither
\* loses an action nor lets one through.
THEOREM ActionsCorrect == SasSpec => []NoActionLost
<1>1. Mirrored => NoActionLost
  <2> SUFFICES ASSUME Mirrored, regular, NEW act \in RegularActs
               PROVE  HoldsIn(facts, act.pre) <=> act \in DOMAIN Operators /\ Applicable(Operators[act], values)
    BY DEF NoActionLost
  <2>0. act \in Acts /\ act \in Actions /\ Regular(act) /\ Proper(facts) /\ values = Encoded(facts)
    BY TaskIsGrounded DEF RegularActs, Mirrored
  <2>1. act.pre \in Seq(Literals) /\ PositiveInGroups(act.pre)
    BY <2>0, ActionTypes, RegularConditions
  <2>2. HoldsIn(facts, act.pre) <=> Holds(values, Condition(act.pre))
    BY <2>0, <2>1, ConditionHolds
  <2>3. ASSUME act \in DOMAIN Operators, Applicable(Operators[act], values)
        PROVE  HoldsIn(facts, act.pre)
    <3>1. Holds(values, Condition(act.pre))
      BY <2>3 DEF Operators, Applicable, Operator
    <3> QED
      BY <2>2, <3>1
  <2>4. ASSUME HoldsIn(facts, act.pre)
        PROVE  act \in DOMAIN Operators /\ Applicable(Operators[act], values)
    <3>1. Taken(act, facts)
      BY <2>0, <2>4 DEF Taken
    <3>2. act \in DOMAIN Operators /\ Operators[act] = Operator(act)
      BY <2>0, <2>1, <2>4, HoldingIsPossible DEF Operators
    <3>3. ASSUME NEW e \in Adds(act) PROVE e.pre \in {-1, values[e.var]}
      <4>1. PICK i : IsKept(act, i) /\ e = AddAt(act, i)
        BY AddsAre
      <4>2. act.add[i].fact \in Atoms
        BY <2>0, <4>1, ActionTypes DEF IsKept
      <4>3. Pair(act.add[i].fact)[2] \in Int
        BY <4>2, PairIs
      <4> QED
        BY <2>0, <3>1, <4>1, <4>3, ImpliedHolds DEF AddAt, Effect
    <3>4. ASSUME NEW e \in Dels(act) PROVE e.pre \in {-1, values[e.var]}
      <4>1. PICK j : IsWritten(act, j) /\ e = DelAt(act, j)
        BY DelsAre
      <4>2. act.del[j].fact \in Atoms
        BY <2>0, <4>1, ActionTypes DEF IsWritten
      <4>3. NoneOfThose(Pair(act.del[j].fact)[1]) \in Int
        BY <4>2, PairIs, GroupTypes DEF NoneOfThose
      <4>4. CASE Pair(act.del[j].fact)[1] \in Added(act)
        BY <4>1, <4>4 DEF DelAt, DelPre, Effect
      <4>5. CASE Pair(act.del[j].fact)[1] \notin Added(act)
        BY <2>0, <3>1, <4>1, <4>3, <4>5, ImpliedHolds DEF DelAt, DelPre, Effect
      <4> QED
        BY <4>4, <4>5
    <3>5. Holds(values, Operator(act).prevail) /\ Operator(act).effects = Adds(act) \cup Dels(act)
      BY <2>2, <2>4 DEF Operator
    <3> QED
      BY <3>2, <3>3, <3>4, <3>5 DEF Applicable
  <2> QED
    BY <2>3, <2>4
<1> QED
  BY <1>1, InitMirrored, NextMirrored, PTL DEF SasSpec

-----------------------------------------------------------------------------
(* Sets and sequences.                                                      *)

\* A set of numbers has a least one.
LEMMA LeastOf ==
  ASSUME NEW T \in SUBSET Nat, T # {}
  PROVE  \E x \in T : \A y \in T : x <= y
<1> DEFINE less == OpToRel(<, Nat)
<1>1. IsWellFoundedOn(less, Nat)
  BY NatLessThanWellFounded
<1>2. PICK x \in T : \A y \in T : <<y, x>> \notin less
  BY <1>1, WFMin
<1>3. \A y \in T : ~(y < x)
  BY <1>2 DEF OpToRel
<1> QED
  BY <1>3

\* SetToSeq lists every member once.
LEMMA SetToSeqLists ==
  ASSUME NEW S, IsFiniteSet(S)
  PROVE  /\ SetToSeq(S) \in Seq(S)
         /\ \A x \in S : \E i \in DOMAIN SetToSeq(S) : SetToSeq(S)[i] = x
         /\ \A i, j \in DOMAIN SetToSeq(S) : SetToSeq(S)[i] = SetToSeq(S)[j] => i = j
<1> DEFINE n == Cardinality(S)
           s == SetToSeq(S)
<1>1. n \in Nat /\ ExistsBijection(1..n, S)
  BY FS_CardinalityType
<1>2. PICK g \in Bijection(1..n, S) : TRUE
  BY <1>1 DEF ExistsBijection
<1>3. g \in [1..n -> S] /\ IsInjective(g)
  BY <1>2 DEF Bijection, Injection
<1>4. s \in [1..n -> S] /\ IsInjective(s)
  BY <1>3 DEF SetToSeq
<1> HIDE DEF s
<1>5. s \in Injection(1..n, S)
  BY <1>4 DEF Injection
<1>6. IsFiniteSet(1..n) /\ Cardinality(1..n) = n
  BY <1>1, FS_Interval
<1>7. s \in Surjection(1..n, S)
  BY <1>5, <1>6, FS_Injection
<1>8. \A x \in S : \E i \in 1..n : s[i] = x
  BY <1>7 DEF Surjection
<1> HIDE DEF n
<1>9. DOMAIN s = 1..n /\ s \in Seq(S)
  BY <1>1, <1>4
<1> QED
  BY <1>4, <1>8, <1>9 DEF IsInjective, s

-----------------------------------------------------------------------------
(* Simplification.                                                          *)

\* Whether i is looked at, and what it then dominates.
Examined(axs, g, i) == \A k \in DOMAIN axs : k < i => i \notin g[k]
Body(axs, g, i) ==
  LET seen == {j \in DOMAIN axs : j < i /\ \A k \in DOMAIN axs : k < j => j \notin g[k]}
  IN  IF \E j \in seen : i \in g[j] THEN {}
      ELSE {k \in DOMAIN axs :
              /\ axs[i].cond \subseteq axs[k].cond
              /\ \A j \in seen : First(axs[j].cond) \in axs[i].cond => k \in g[j]}
Dominated(axs) == CHOOSE g : g = [i \in DOMAIN axs |-> Body(axs, g, i)]

\* The same definition, with what every axiom dominates as a function of its own.
LEMMA SimplifiedIs ==
  ASSUME NEW axs
  PROVE  Simplified(axs) =
           LET empty == {i \in DOMAIN axs : axs[i].cond = {}}
           IN  IF empty # {} THEN {axs[CHOOSE i \in empty : \A j \in empty : i <= j]}
               ELSE {axs[i] : i \in {j \in DOMAIN axs : \A k \in DOMAIN axs \ {j} : j \notin Dominated(axs)[k]}}
  BY DEF Simplified, Dominated, Body

\* What axiom i dominates is settled by the axioms before it.
LEMMA BodyLocal ==
  ASSUME NEW N \in Nat, NEW axs, DOMAIN axs \subseteq 1..N, NEW g, NEW h, NEW i \in DOMAIN axs,
         \A j \in DOMAIN axs : j < i => g[j] = h[j]
  PROVE  Body(axs, g, i) = Body(axs, h, i)
<1>1. \A j, k \in DOMAIN axs : j < i /\ k < j => k < i
  OBVIOUS
<1>2. {j \in DOMAIN axs : j < i /\ \A k \in DOMAIN axs : k < j => j \notin g[k]}
        = {j \in DOMAIN axs : j < i /\ \A k \in DOMAIN axs : k < j => j \notin h[k]}
  BY <1>1
<1> DEFINE seen == {j \in DOMAIN axs : j < i /\ \A k \in DOMAIN axs : k < j => j \notin h[k]}
<1>3. \A j \in seen : g[j] = h[j]
  OBVIOUS
<1> HIDE DEF seen
<1>4. (\E j \in seen : i \in g[j]) <=> (\E j \in seen : i \in h[j])
  BY <1>3
<1>5. \A k : (\A j \in seen : First(axs[j].cond) \in axs[i].cond => k \in g[j])
               <=> (\A j \in seen : First(axs[j].cond) \in axs[i].cond => k \in h[j])
  BY <1>3
<1>6. Body(axs, g, i) = IF \E j \in seen : i \in g[j] THEN {}
                        ELSE {k \in DOMAIN axs :
                                /\ axs[i].cond \subseteq axs[k].cond
                                /\ \A j \in seen : First(axs[j].cond) \in axs[i].cond => k \in g[j]}
  BY <1>2 DEF Body, seen
<1>7. Body(axs, h, i) = IF \E j \in seen : i \in h[j] THEN {}
                        ELSE {k \in DOMAIN axs :
                                /\ axs[i].cond \subseteq axs[k].cond
                                /\ \A j \in seen : First(axs[j].cond) \in axs[i].cond => k \in h[j]}
  BY DEF Body, seen
<1> QED
  BY <1>4, <1>5, <1>6, <1>7

\* So the recursive function of Simplified exists: a least index without it leads nowhere.
LEMMA DominatedIs ==
  ASSUME NEW N \in Nat, NEW axs, DOMAIN axs \subseteq 1..N
  PROVE  Dominated(axs) = [i \in DOMAIN axs |-> Body(axs, Dominated(axs), i)]
<1> DEFINE D == DOMAIN axs
           Part(m) == \E g \in [D -> SUBSET D] : \A i \in D : i <= m => g[i] = Body(axs, g, i)
           T == {m \in 0..N : ~Part(m)}
<1>1. T = {}
  <2> SUFFICES ASSUME T # {} PROVE FALSE
    OBVIOUS
  <2>1. T \in SUBSET Nat
    OBVIOUS
  <2> HIDE DEF T
  <2>2. PICK m \in T : \A k \in T : m <= k
    BY <2>1, LeastOf
  <2>3. m \in 0..N /\ ~Part(m)
    BY <2>2 DEF T
  <2> HIDE DEF Part
  <2>4. m # 0
    <3>1. [i \in D |-> {}] \in [D -> SUBSET D] /\ \A i \in D : ~(i <= 0)
      OBVIOUS
    <3>2. Part(0)
      BY <3>1 DEF Part
    <3> QED
      BY <2>3, <3>2
  <2>5. m - 1 \in 0..N /\ ~(m <= m - 1) /\ m - 1 \notin T
    BY <2>2, <2>3, <2>4
  <2>6. PICK g \in [D -> SUBSET D] : \A i \in D : i <= m - 1 => g[i] = Body(axs, g, i)
    BY <2>5 DEF T, Part
  <2> DEFINE h == [i \in D |-> IF i = m THEN Body(axs, g, m) ELSE g[i]]
  <2>7. Body(axs, g, m) \subseteq D
    BY DEF Body
  <2>8. h \in [D -> SUBSET D]
    BY <2>7
  <2>9. ASSUME NEW i \in D, i <= m PROVE h[i] = Body(axs, h, i)
    <3>1. \A j \in D : j < i => g[j] = h[j]
      BY <2>3, <2>9
    <3>2. Body(axs, g, i) = Body(axs, h, i)
      <4> HIDE DEF h
      <4> QED
        BY <3>1, BodyLocal
    <3>3. h[i] = Body(axs, g, i)
      <4>1. i = m \/ i <= m - 1
        BY <2>3, <2>9
      <4> QED
        BY <2>6, <4>1
    <3> QED
      BY <3>2, <3>3
  <2> HIDE DEF h
  <2>10. Part(m)
    BY <2>8, <2>9 DEF Part
  <2> QED
    BY <2>3, <2>10
<1>2. PICK g \in [D -> SUBSET D] : \A i \in D : i <= N => g[i] = Body(axs, g, i)
  <2>1. N \in 0..N /\ N \notin T
    BY <1>1
  <2> HIDE DEF Part
  <2>2. Part(N)
    BY <2>1
  <2> QED
    BY <2>2 DEF Part
<1>3. g = [i \in D |-> Body(axs, g, i)]
  BY <1>2
<1> HIDE DEF D
<1> QED
  BY <1>3 DEF Dominated, D

\* What simplification returns are axioms it got, and for each of those one with no
\* more conditions.
LEMMA SimplifiedDominates ==
  ASSUME NEW N \in Nat, NEW axs, DOMAIN axs \subseteq 1..N, \A i \in DOMAIN axs : IsFiniteSet(axs[i].cond)
  PROVE  /\ Simplified(axs) \subseteq {axs[i] : i \in DOMAIN axs}
         /\ \A i \in DOMAIN axs : \E x \in Simplified(axs) : x.cond \subseteq axs[i].cond
<1> DEFINE D == DOMAIN axs
           empty == {i \in D : axs[i].cond = {}}
           dom == Dominated(axs)
<1>1. CASE empty # {}
  <2>1. empty \in SUBSET Nat
    OBVIOUS
  <2>2. \E i \in empty : \A j \in empty : i <= j
    <3> HIDE DEF empty
    <3> QED
      BY <1>1, <2>1, LeastOf
  <2> DEFINE e == CHOOSE i \in empty : \A j \in empty : i <= j
  <2>3. e \in empty
    BY <2>2
  <2>4. Simplified(axs) = {axs[e]}
    BY <1>1, SimplifiedIs
  <2> HIDE DEF e
  <2> QED
    BY <2>3, <2>4
<1>2. CASE empty = {}
  <2> DEFINE kept == {j \in D : \A k \in D \ {j} : j \notin dom[k]}
  <2>1. Simplified(axs) = {axs[i] : i \in kept}
    BY <1>2, SimplifiedIs
  <2>2. \A i \in D : dom[i] = Body(axs, dom, i)
    BY DominatedIs
  <2> HIDE DEF dom
  <2> DEFINE seen(i) == {j \in D : j < i /\ Examined(axs, dom, j)}
  <2>3. \A i \in D : dom[i] = IF \E j \in seen(i) : i \in dom[j] THEN {}
                              ELSE {k \in D : /\ axs[i].cond \subseteq axs[k].cond
                                              /\ \A j \in seen(i) : First(axs[j].cond) \in axs[i].cond => k \in dom[j]}
    BY <2>2 DEF Body, Examined
  <2>8. ASSUME NEW i \in D, NEW k \in D, k \in dom[i]
        PROVE  /\ axs[i].cond \subseteq axs[k].cond
               /\ ~\E j \in seen(i) : i \in dom[j]
               /\ \A j \in seen(i) : First(axs[j].cond) \in axs[i].cond => k \in dom[j]
    <3>1. ~\E j \in seen(i) : i \in dom[j]
      BY <2>3, <2>8
    <3>2. dom[i] = {x \in D : /\ axs[i].cond \subseteq axs[x].cond
                             /\ \A j \in seen(i) : First(axs[j].cond) \in axs[i].cond => x \in dom[j]}
      BY <2>3, <3>1
    <3> QED
      BY <2>8, <3>1, <3>2
  <2>9. ASSUME NEW i \in D, NEW k \in D, ~\E j \in seen(i) : i \in dom[j],
               axs[i].cond \subseteq axs[k].cond, k \notin dom[i]
        PROVE  \E j \in seen(i) : First(axs[j].cond) \in axs[i].cond
    <3>1. dom[i] = {x \in D : /\ axs[i].cond \subseteq axs[x].cond
                             /\ \A j \in seen(i) : First(axs[j].cond) \in axs[i].cond => x \in dom[j]}
      BY <2>3, <2>9
    <3> QED
      BY <2>9, <3>1
  <2>4. \A k \in D : dom[k] # {} => Examined(axs, dom, k)
    <3> DEFINE T == {k \in D : dom[k] # {} /\ ~Examined(axs, dom, k)}
    <3> SUFFICES ASSUME T # {} PROVE FALSE
      OBVIOUS
    <3>1. T \in SUBSET Nat
      OBVIOUS
    <3> HIDE DEF T
    <3>2. PICK k \in T : \A j \in T : k <= j
      BY <3>1, LeastOf
    <3>3. k \in D /\ dom[k] # {} /\ ~Examined(axs, dom, k)
      BY <3>2 DEF T
    <3>4. PICK j \in D : j < k /\ k \in dom[j]
      BY <3>3 DEF Examined
    <3>5. ~(k <= j)
      BY <3>3, <3>4
    <3>6. Examined(axs, dom, j)
      BY <3>2, <3>4, <3>5 DEF T
    <3> QED
      BY <2>3, <3>3, <3>4, <3>6
  <2>5. \A i \in D : axs[i].cond # {} /\ First(axs[i].cond) \in axs[i].cond
    BY <1>2 DEF First
  <2>6. ASSUME NEW i \in D PROVE \E m \in kept : axs[m].cond \subseteq axs[i].cond
    <3> DEFINE below == {j \in D : axs[j].cond \subseteq axs[i].cond}
               sizes == {Cardinality(axs[j].cond) : j \in below}
    <3>1. sizes \in SUBSET Nat /\ sizes # {}
      <4>1. \A j \in D : Cardinality(axs[j].cond) \in Nat
        BY FS_CardinalityType
      <4> QED
        BY <4>1
    <3> HIDE DEF sizes
    <3>2. PICK n \in sizes : \A k \in sizes : n <= k
      BY <3>1, LeastOf
    <3>3. PICK b \in below : Cardinality(axs[b].cond) = n
      BY <3>2 DEF sizes
    <3> DEFINE c == axs[b].cond
               same == {j \in D : axs[j].cond = c}
    <3>4. ASSUME NEW j \in D, axs[j].cond \subseteq c PROVE axs[j].cond = c
      <4>1. j \in below
        BY <3>3, <3>4
      <4>2. Cardinality(axs[j].cond) \in sizes /\ Cardinality(axs[j].cond) \in Nat /\ n \in Nat
        BY <4>1, <3>1, <3>2 DEF sizes
      <4>3. Cardinality(axs[j].cond) <= n /\ (Cardinality(axs[j].cond) = n => axs[j].cond = c)
        BY <3>3, <3>4, FS_Subset
      <4> QED
        BY <3>2, <4>2, <4>3
    <3>5. same \in SUBSET Nat /\ same # {}
      BY <3>3
    <3> HIDE DEF same
    <3>6. PICK m \in same : \A j \in same : m <= j
      BY <3>5, LeastOf
    <3>7. m \in D /\ axs[m].cond = c
      BY <3>6 DEF same
    <3>8. ASSUME NEW k \in D, m \in dom[k] PROVE axs[k].cond = c /\ ~(k < m)
      <4>1. axs[k].cond \subseteq c
        BY <2>8, <3>7, <3>8
      <4>2. axs[k].cond = c
        BY <3>4, <4>1
      <4>3. k \in same
        BY <4>2 DEF same
      <4>4. m <= k
        BY <3>6, <4>3
      <4> QED
        BY <3>7, <4>2, <4>4
    <3>9. Examined(axs, dom, m)
      BY <3>8 DEF Examined
    <3>10. ASSUME NEW k \in D \ {m}, m \in dom[k] PROVE FALSE
      <4>1. axs[k].cond = c /\ m < k
        BY <3>7, <3>8, <3>10
      <4>2. Examined(axs, dom, k)
        BY <2>4, <3>10
      <4>3. k \notin dom[m]
        BY <3>7, <4>1, <4>2 DEF Examined
      <4>4. ~\E j \in seen(m) : m \in dom[j]
        BY <3>9 DEF Examined
      <4>5. PICK j \in seen(m) : First(axs[j].cond) \in c
        BY <2>9, <3>7, <4>1, <4>3, <4>4
      <4>6. j \in seen(k)
        BY <3>7, <4>1, <4>5
      <4>7. m \in dom[j]
        BY <2>8, <3>7, <3>10, <4>1, <4>5, <4>6
      <4> QED
        BY <4>4, <4>5, <4>7
    <3>11. m \in kept
      BY <3>7, <3>10
    <3> QED
      BY <3>3, <3>7, <3>11
  <2> HIDE DEF kept
  <2>7. kept \subseteq D
    BY DEF kept
  <2> QED
    BY <2>1, <2>6, <2>7
<1> QED
  BY <1>1, <1>2

\* Every set of literals is finite, and every set of conditions.
LEMMA LiteralsFinite ==
  /\ \A S \in SUBSET AxiomLiterals : IsFiniteSet(S)
  /\ \A C \in SUBSET SUBSET AxiomLiterals : IsFiniteSet(C)
<1>1. IsFiniteSet(Base \cup Derived)
  BY Grounded, FS_Union
<1>2. IsFiniteSet({TRUE, FALSE})
  <2>1. IsFiniteSet({}) /\ {TRUE, FALSE} = ({} \cup {TRUE}) \cup {FALSE}
    BY FS_EmptySet
  <2>2. IsFiniteSet({} \cup {TRUE})
    BY <2>1, FS_AddElement
  <2>3. IsFiniteSet(({} \cup {TRUE}) \cup {FALSE})
    BY <2>2, FS_AddElement
  <2> QED
    BY <2>1, <2>3
<1>3. BOOLEAN = {TRUE, FALSE}
  OBVIOUS
<1>4. IsFiniteSet(AxiomLiterals)
  BY <1>1, <1>2, <1>3, FS_Product DEF AxiomLiterals
<1>5. IsFiniteSet(SUBSET AxiomLiterals)
  BY <1>4, FS_SUBSET
<1> QED
  BY <1>4, <1>5, FS_Subset

\* Not changes the sign and nothing else.
LEMMA NotIs ==
  \A c \in AxiomLiterals : Not(c) \in AxiomLiterals /\ Not(c)[1] = c[1] /\ Not(c)[2] = ~c[2] /\ Not(Not(c)) = c
<1> TAKE c \in AxiomLiterals
<1>1. PICK a \in Base \cup Derived, b \in BOOLEAN : c = <<a, b>>
  BY DEF AxiomLiterals
<1>2. <<a, TRUE>> \in AxiomLiterals /\ <<a, FALSE>> \in AxiomLiterals
  BY DEF AxiomLiterals
<1>3. /\ <<a, TRUE>>[1] = a /\ <<a, TRUE>>[2] = TRUE
      /\ <<a, FALSE>>[1] = a /\ <<a, FALSE>>[2] = FALSE
  OBVIOUS
<1>4. Not(<<a, TRUE>>) = <<a, FALSE>> /\ Not(<<a, FALSE>>) = <<a, TRUE>>
  BY <1>3 DEF Not
<1>5. CASE b = TRUE
  <2>1. c = <<a, TRUE>> /\ c[1] = a /\ c[2] = TRUE
    BY <1>1, <1>3, <1>5
  <2>2. Not(c) = <<a, FALSE>>
    BY <2>1, <1>4
  <2>3. Not(c)[1] = a /\ Not(c)[2] = FALSE
    BY <2>2, <1>3
  <2>4. Not(Not(c)) = c
    BY <2>1, <2>2, <1>4
  <2> QED
    BY <2>1, <2>2, <2>3, <2>4, <1>2
<1>6. CASE b = FALSE
  <2>1. c = <<a, FALSE>> /\ c[1] = a /\ c[2] = FALSE
    BY <1>1, <1>3, <1>6
  <2>2. Not(c) = <<a, TRUE>>
    BY <2>1, <1>4
  <2>3. Not(c)[1] = a /\ Not(c)[2] = TRUE
    BY <2>2, <1>3
  <2>4. Not(Not(c)) = c
    BY <2>1, <2>2, <1>4
  <2> QED
    BY <2>1, <2>2, <2>3, <2>4, <1>2
<1> QED
  BY <1>5, <1>6

\* What Grounded says of a program.
LEMMA ProgramIs ==
  ASSUME NEW prog \in Programs
  PROVE  /\ Len(prog) \in Nat /\ DOMAIN prog = 1..Len(prog)
         /\ \A i \in DOMAIN prog : /\ prog[i] \in Axiom
                                   /\ prog[i].cond \subseteq AxiomLiterals
                                   /\ prog[i].effect[1] \in Defined(prog)
                                   /\ prog[i].effect = <<prog[i].effect[1], TRUE>>
                                   /\ \A c \in prog[i].cond : c[1] \in Base \cup Defined(prog)
         /\ Defined(prog) \subseteq Derived
<1>1. prog \in Seq(Axiom) /\ \A i \in DOMAIN prog : \A l \in prog[i].cond : l[1] \in Base \cup Defined(prog)
  BY Grounded
<1>2. Len(prog) \in Nat /\ DOMAIN prog = 1..Len(prog)
  BY <1>1
<1>3. \A i \in DOMAIN prog : prog[i] \in Axiom
  BY <1>1, <1>2
<1>4. \A x \in Axiom : x.cond \subseteq AxiomLiterals /\ x.effect[1] \in Derived /\ x.effect = <<x.effect[1], TRUE>>
  <2> TAKE x \in Axiom
  <2>1. x.cond \subseteq AxiomLiterals /\ x.effect \in Derived \X {TRUE}
    BY DEF Axiom
  <2>2. ASSUME NEW e \in Derived \X {TRUE} PROVE e[1] \in Derived /\ e = <<e[1], TRUE>>
    <3>1. e[2] = TRUE
      OBVIOUS
    <3>2. e = <<e[1], e[2]>>
      OBVIOUS
    <3>3. e[1] \in Derived
      OBVIOUS
    <3>4. e = <<e[1], TRUE>>
      BY <3>1, <3>2
    <3> QED
      BY <3>3, <3>4
  <2> QED
    BY <2>1, <2>2
<1> QED
  BY <1>1, <1>2, <1>3, <1>4 DEF Defined

\* Of the axioms of an atom simplify keeps some, and one below each of them.
LEMMA SimpleRules ==
  ASSUME NEW prog \in Programs, NEW a
  PROVE  /\ \A x \in Simplified(AxiomsOf(prog, a)) :
              \E i \in DOMAIN prog : prog[i].effect[1] = a /\ x = prog[i]
         /\ \A i \in DOMAIN prog : prog[i].effect[1] = a =>
              \E x \in Simplified(AxiomsOf(prog, a)) : x.cond \subseteq prog[i].cond
<1> DEFINE axs == AxiomsOf(prog, a)
<1>1. DOMAIN axs = {j \in DOMAIN prog : prog[j].effect[1] = a} /\ \A i \in DOMAIN axs : axs[i] = prog[i]
  BY DEF AxiomsOf
<1> HIDE DEF axs
<1>2. \A i \in DOMAIN axs : IsFiniteSet(axs[i].cond)
  BY <1>1, ProgramIs, LiteralsFinite
<1>3. DOMAIN axs \subseteq 1..Len(prog) /\ Len(prog) \in Nat
  BY <1>1, ProgramIs
<1>4. /\ Simplified(axs) \subseteq {axs[i] : i \in DOMAIN axs}
      /\ \A i \in DOMAIN axs : \E x \in Simplified(axs) : x.cond \subseteq axs[i].cond
  BY <1>2, <1>3, SimplifiedDominates
<1> QED
  BY <1>1, <1>4 DEF axs

-----------------------------------------------------------------------------
(* The axioms turned round.                                                 *)

\* One condition of every axiom, and what it is to have all of them fail.
Picks(axs) == {p \in [axs -> UNION {x.cond : x \in axs}] : \A x \in axs : p[x] \in x.cond}
Failed(axs, p) == {Not(p[x]) : x \in axs}

\* negate writes the choices of one failing condition per axiom, or something smaller.
LEMMA TurnedIs ==
  ASSUME NEW axs, NEW l, \A x \in axs : x.cond \subseteq AxiomLiterals
  PROVE  /\ \A r \in Turned(axs, l) : r.effect = l /\ \E p \in Picks(axs) : r.cond = Failed(axs, p)
         /\ \A p \in Picks(axs) : \E r \in Turned(axs, l) : r.cond \subseteq Failed(axs, p)
<1> DEFINE C == {Failed(axs, p) : p \in Picks(axs)}
           s == SetToSeq(C)
           d == [i \in DOMAIN s |-> [cond |-> s[i], effect |-> l]]
<1>1. C \subseteq SUBSET AxiomLiterals
  BY NotIs DEF Picks, Failed
<1>2. Turned(axs, l) = Simplified(d)
  BY DEF Turned, Picks, Failed
<1>3. IsFiniteSet(C)
  BY <1>1, LiteralsFinite
<1> HIDE DEF C, s
<1>4. s \in Seq(C) /\ \A x \in C : \E i \in DOMAIN s : s[i] = x
  BY <1>3, SetToSeqLists DEF s
<1>5. Len(s) \in Nat /\ DOMAIN s = 1..Len(s) /\ \A i \in DOMAIN s : s[i] \in C
  BY <1>4
<1>6. DOMAIN d = DOMAIN s /\ \A i \in DOMAIN s : d[i].cond = s[i] /\ d[i].effect = l
  OBVIOUS
<1> HIDE DEF d
<1>7. \A i \in DOMAIN d : IsFiniteSet(d[i].cond)
  BY <1>1, <1>5, <1>6, LiteralsFinite
<1>8. /\ Simplified(d) \subseteq {d[i] : i \in DOMAIN d}
      /\ \A i \in DOMAIN d : \E x \in Simplified(d) : x.cond \subseteq d[i].cond
  BY <1>5, <1>6, <1>7, SimplifiedDominates
<1>9. ASSUME NEW r \in Turned(axs, l) PROVE r.effect = l /\ \E p \in Picks(axs) : r.cond = Failed(axs, p)
  <2>1. PICK i \in DOMAIN s : r = d[i]
    BY <1>2, <1>6, <1>8
  <2>2. r.effect = l /\ r.cond \in C
    BY <2>1, <1>5, <1>6
  <2> QED
    BY <2>2 DEF C
<1>10. ASSUME NEW p \in Picks(axs) PROVE \E r \in Turned(axs, l) : r.cond \subseteq Failed(axs, p)
  <2>1. Failed(axs, p) \in C
    BY DEF C
  <2>2. PICK i \in DOMAIN s : s[i] = Failed(axs, p)
    BY <2>1, <1>4
  <2>3. i \in DOMAIN d /\ d[i].cond = Failed(axs, p)
    BY <2>2, <1>6
  <2> QED
    BY <2>3, <1>2, <1>8
<1> QED
  BY <1>9, <1>10

-----------------------------------------------------------------------------
(* The rules for a literal.                                                 *)

\* The axioms make l hold when the literals in V do.
Makes(prog, l, V) ==
  IF l[2] THEN \E i \in DOMAIN prog : prog[i].effect[1] = l[1] /\ prog[i].cond \subseteq V
  ELSE \A i \in DOMAIN prog : prog[i].effect[1] = l[1] => \E c \in prog[i].cond : Not(c) \in V

\* A rule is about the literal it was written for and reads what that literal needs.
LEMMA RulesForShape ==
  ASSUME NEW prog \in Programs, NEW l \in Defined(prog) \X BOOLEAN, NEW r \in RulesFor(prog, l)
  PROVE  /\ r.effect = l /\ r.cond \subseteq AxiomLiterals
         /\ \A c \in r.cond : \E i \in DOMAIN prog : prog[i].effect[1] = l[1] /\ c \in Needs(prog[i], l)
<1> DEFINE simple == Simplified(AxiomsOf(prog, l[1]))
<1>1. \A x \in simple : \E i \in DOMAIN prog : prog[i].effect[1] = l[1] /\ x = prog[i]
  BY SimpleRules
<1>2. l = <<l[1], l[2]>> /\ l[2] \in BOOLEAN
  OBVIOUS
<1>3. \A x \in simple : x.cond \subseteq AxiomLiterals
  BY <1>1, ProgramIs
<1> HIDE DEF simple
<1>4. CASE l[2]
  <2>1. r \in simple
    BY <1>4 DEF RulesFor, simple
  <2>2. PICK i \in DOMAIN prog : prog[i].effect[1] = l[1] /\ r = prog[i]
    BY <2>1, <1>1
  <2>3. prog[i].cond \subseteq AxiomLiterals /\ prog[i].effect = <<prog[i].effect[1], TRUE>>
    BY ProgramIs
  <2>4. Needs(prog[i], l) = prog[i].cond
    BY <1>4 DEF Needs
  <2>5. r.effect = l
    BY <2>2, <2>3, <1>2, <1>4
  <2> QED
    BY <2>2, <2>3, <2>4, <2>5
<1>5. CASE ~l[2]
  <2>1. r \in Turned(simple, l)
    BY <1>5 DEF RulesFor, simple
  <2> HIDE DEF simple
  <2>2. r.effect = l /\ \E p \in Picks(simple) : r.cond = Failed(simple, p)
    <3>1. \A q \in Turned(simple, l) : q.effect = l
      BY <1>3, TurnedIs
    <3>2. \A q \in Turned(simple, l) : \E p \in Picks(simple) : q.cond = Failed(simple, p)
      BY <1>3, TurnedIs
    <3> QED
      BY <2>1, <3>1, <3>2
  <2>3. PICK p \in Picks(simple) : r.cond = Failed(simple, p)
    BY <2>2
  <2>4. \A x \in simple : p[x] \in x.cond
    BY DEF Picks
  <2>5. ASSUME NEW c \in r.cond
        PROVE  c \in AxiomLiterals /\ \E i \in DOMAIN prog : prog[i].effect[1] = l[1] /\ c \in Needs(prog[i], l)
    <3>1. PICK x \in simple : c = Not(p[x])
      BY <2>3 DEF Failed
    <3>2. PICK i \in DOMAIN prog : prog[i].effect[1] = l[1] /\ x = prog[i]
      BY <1>1
    <3>3. p[x] \in prog[i].cond /\ p[x] \in AxiomLiterals
      BY <2>4, <3>2, <1>3
    <3>4. c \in Needs(prog[i], l)
      BY <3>1, <3>3, <1>5 DEF Needs
    <3> QED
      BY <3>1, <3>2, <3>3, <3>4, NotIs
  <2> QED
    BY <2>2, <2>5
<1> QED
  BY <1>2, <1>4, <1>5

\* Simplified or turned round, the rules say what the axioms say.
LEMMA RulesMean ==
  ASSUME NEW prog \in Programs, NEW l \in Defined(prog) \X BOOLEAN, ~Impossible(prog, l), NEW V
  PROVE  (\E r \in RulesFor(prog, l) : r.cond \subseteq V) <=> Makes(prog, l, V)
<1> DEFINE simple == Simplified(AxiomsOf(prog, l[1]))
<1>1. \A x \in simple : \E i \in DOMAIN prog : prog[i].effect[1] = l[1] /\ x = prog[i]
  BY SimpleRules
<1>2. \A i \in DOMAIN prog : prog[i].effect[1] = l[1] => \E x \in simple : x.cond \subseteq prog[i].cond
  BY SimpleRules
<1>3. \A x \in simple : x.cond \subseteq AxiomLiterals
  BY <1>1, ProgramIs
<1>4. ~l[2] => \A x \in simple : x.cond # {}
  BY DEF Impossible
<1> HIDE DEF simple
<1>5. CASE l[2]
  <2>1. RulesFor(prog, l) = simple
    BY <1>5 DEF RulesFor, simple
  <2> QED
    BY <2>1, <1>1, <1>2, <1>5 DEF Makes
<1>6. CASE ~l[2]
  <2>1. RulesFor(prog, l) = Turned(simple, l)
    BY <1>6 DEF RulesFor, simple
  <2>2. ASSUME NEW r \in RulesFor(prog, l), r.cond \subseteq V,
               NEW i \in DOMAIN prog, prog[i].effect[1] = l[1]
        PROVE  \E c \in prog[i].cond : Not(c) \in V
    <3>1. PICK p \in Picks(simple) : r.cond = Failed(simple, p)
      <4>1. \A q \in Turned(simple, l) : \E p \in Picks(simple) : q.cond = Failed(simple, p)
        BY <1>3, TurnedIs
      <4> QED
        BY <2>1, <2>2, <4>1
    <3>2. PICK x \in simple : x.cond \subseteq prog[i].cond
      BY <1>2, <2>2
    <3>3. p[x] \in x.cond
      BY <3>1 DEF Picks
    <3>4. Not(p[x]) \in V
      BY <3>1, <2>2 DEF Failed
    <3> QED
      BY <3>2, <3>3, <3>4
  <2>3. ASSUME \A i \in DOMAIN prog : prog[i].effect[1] = l[1] => \E c \in prog[i].cond : Not(c) \in V
        PROVE  \E r \in RulesFor(prog, l) : r.cond \subseteq V
    <3> DEFINE p == [x \in simple |-> CHOOSE c \in x.cond : Not(c) \in V]
    <3>1. \A x \in simple : \E c \in x.cond : Not(c) \in V
      BY <1>1, <2>3
    <3>2. \A x \in simple : p[x] \in x.cond /\ Not(p[x]) \in V
      BY <3>1
    <3>3. p \in [simple -> UNION {x.cond : x \in simple}]
      <4>1. \A x \in simple : (CHOOSE c \in x.cond : Not(c) \in V) \in UNION {y.cond : y \in simple}
        BY <3>1
      <4> QED
        BY <4>1
    <3> HIDE DEF p
    <3>4. p \in Picks(simple) /\ Failed(simple, p) \subseteq V
      BY <3>2, <3>3 DEF Picks, Failed
    <3>5. PICK r \in Turned(simple, l) : r.cond \subseteq Failed(simple, p)
      BY <3>4, <1>3, TurnedIs
    <3> QED
      BY <3>4, <3>5, <2>1
  <2> QED
    BY <2>2, <2>3, <1>6 DEF Makes
<1> QED
  BY <1>5, <1>6

\* A literal is its atom and its sign.
LEMMA LiteralIs ==
  ASSUME NEW c \in AxiomLiterals
  PROVE  /\ c[1] \in Base \cup Derived
         /\ (c[2] = TRUE /\ c = <<c[1], TRUE>>) \/ (c[2] = FALSE /\ c = <<c[1], FALSE>>)
         /\ c = <<c[1], c[2]>> /\ c[2] \in BOOLEAN
<1>1. c[1] \in Base \cup Derived
  BY DEF AxiomLiterals
<1>2. c = <<c[1], c[2]>>
  BY DEF AxiomLiterals
<1>3. c[2] \in BOOLEAN
  BY DEF AxiomLiterals
<1>4. c[2] = TRUE \/ c[2] = FALSE
  BY <1>3
<1>5. CASE c[2] = TRUE
  <2>1. c = <<c[1], TRUE>>
    BY <1>2, <1>5
  <2> QED
    BY <1>1, <1>2, <1>3, <1>5, <2>1
<1>6. CASE c[2] = FALSE
  <2>1. c = <<c[1], FALSE>>
    BY <1>2, <1>6
  <2> QED
    BY <1>1, <1>2, <1>3, <1>6, <2>1
<1> QED
  BY <1>4, <1>5, <1>6

\* What a needed literal reads is needed, with the sign it is needed with.
LEMMA NecessaryIs ==
  ASSUME NEW prog \in Programs, NEW lits \in Readers
  PROVE  /\ Necessary(prog, lits) \subseteq Defined(prog) \X BOOLEAN
         /\ Necessary(prog, lits) \subseteq AxiomLiterals
         /\ \A l \in Necessary(prog, lits), i \in DOMAIN prog : prog[i].effect[1] = l[1] =>
              \A c \in Needs(prog[i], l) : c[1] \in Base \/ c \in Necessary(prog, lits)
<1> DEFINE N == Necessary(prog, lits)
           U == Defined(prog) \X BOOLEAN
<1>1. N = {l \in U : \A L \in SUBSET U : NeedsMet(prog, lits, L) => l \in L}
  BY DEF Necessary
<1>2. U \subseteq AxiomLiterals
  BY ProgramIs DEF AxiomLiterals
<1>3. ASSUME NEW l \in N, NEW i \in DOMAIN prog, prog[i].effect[1] = l[1],
             NEW c \in Needs(prog[i], l), c[1] \notin Base
      PROVE  c \in N
  <2>1. c \in AxiomLiterals /\ c[1] \in Defined(prog)
    <3>1. \A k \in prog[i].cond : k \in AxiomLiterals /\ k[1] \in Base \cup Defined(prog)
      BY ProgramIs
    <3>2. c \in prog[i].cond \/ \E k \in prog[i].cond : c = Not(k)
      BY <1>3 DEF Needs
    <3>3. CASE c \in prog[i].cond
      BY <3>1, <3>3, <1>3
    <3>4. CASE \E k \in prog[i].cond : c = Not(k)
      <4>1. PICK k \in prog[i].cond : c = Not(k)
        BY <3>4
      <4> QED
        BY <3>1, <4>1, <1>3, NotIs
    <3> QED
      BY <3>2, <3>3, <3>4
  <2>2. c \in U
    <3>1. c = <<c[1], c[2]>> /\ c[2] \in BOOLEAN
      BY <2>1, LiteralIs
    <3>2. <<c[1], c[2]>> \in U
      BY <2>1, <3>1
    <3> QED
      BY <3>1, <3>2
  <2>3. ASSUME NEW L \in SUBSET U, NeedsMet(prog, lits, L) PROVE c \in L
    <3>1. l \in L
      BY <1>1, <2>3
    <3>2. {k \in Needs(prog[i], l) : k[1] \in Defined(prog)} \subseteq L
      BY <2>3, <3>1, <1>3 DEF NeedsMet
    <3> QED
      BY <2>1, <3>2
  <2> QED
    BY <1>1, <2>2, <2>3
<1>4. N \subseteq U
  BY <1>1
<1> HIDE DEF N
<1>5. N \subseteq AxiomLiterals
  BY <1>2, <1>4
<1> QED
  BY <1>3, <1>4, <1>5 DEF N

-----------------------------------------------------------------------------
(* What the translator has written.                                         *)

\* Rules are about needed literals and read needed literals; those for a literal can
\* apply exactly when the axioms make it hold; the default of an atom is the value that
\* nobody needs to see deduced.
Faithful(prog, needed, axs, init) ==
  /\ \A r \in axs : r.effect \in needed /\ r.cond \subseteq AxiomLiterals
  /\ \A r \in axs : \A c \in r.cond :
       /\ c[1] \in Base \/ c \in needed
       /\ \E i \in DOMAIN prog : prog[i].effect[1] = r.effect[1] /\ \E k \in prog[i].cond : k[1] = c[1]
  /\ \A l \in needed, V \in SUBSET AxiomLiterals :
       (\E r \in axs : r.effect = l /\ r.cond \subseteq V) <=> Makes(prog, l, V)
  /\ \A l \in needed : l[1] \in init <=> <<l[1], TRUE>> \notin needed
  /\ init \subseteq {l[1] : l \in needed}

\* What axiom_rules.py writes, unless it stops in negate, is faithful.
LEMMA TranslationIsFaithful ==
  ASSUME NEW prog \in Programs, NEW lits \in Readers, NEW needed, needed = Necessary(prog, lits),
         ~\E l \in needed : Impossible(prog, l), NEW axs, axs = UNION {RulesFor(prog, l) : l \in needed}
  PROVE  /\ Faithful(prog, needed, axs, AxiomInit(needed))
         /\ {x.effect[1] : x \in Deducing(axs, AxiomInit(needed))} = {l[1] : l \in needed}
<1> DEFINE init == AxiomInit(needed)
<1>1. needed \subseteq Defined(prog) \X BOOLEAN /\ needed \subseteq AxiomLiterals
  BY NecessaryIs
<1>2. ASSUME NEW r \in axs
      PROVE  /\ r.effect \in needed /\ r \in RulesFor(prog, r.effect) /\ r.cond \subseteq AxiomLiterals
             /\ \A c \in r.cond : \E i \in DOMAIN prog : prog[i].effect[1] = r.effect[1] /\ c \in Needs(prog[i], r.effect)
  <2>1. PICK l \in needed : r \in RulesFor(prog, l)
    OBVIOUS
  <2>2. l \in Defined(prog) \X BOOLEAN
    BY <1>1
  <2>3. /\ r.effect = l /\ r.cond \subseteq AxiomLiterals
        /\ \A c \in r.cond : \E i \in DOMAIN prog : prog[i].effect[1] = l[1] /\ c \in Needs(prog[i], l)
    BY <2>1, <2>2, RulesForShape
  <2> QED
    BY <2>1, <2>3
<1>3. ASSUME NEW r \in axs, NEW c \in r.cond
      PROVE  /\ c[1] \in Base \/ c \in needed
             /\ \E i \in DOMAIN prog : prog[i].effect[1] = r.effect[1] /\ \E k \in prog[i].cond : k[1] = c[1]
  <2>1. PICK i \in DOMAIN prog : prog[i].effect[1] = r.effect[1] /\ c \in Needs(prog[i], r.effect)
    BY <1>2
  <2>2. r.effect \in needed
    BY <1>2
  <2>3. c[1] \in Base \/ c \in needed
    BY <2>1, <2>2, NecessaryIs
  <2>4. \E k \in prog[i].cond : k[1] = c[1]
    <3>1. c \in prog[i].cond \/ \E k \in prog[i].cond : c = Not(k)
      BY <2>1 DEF Needs
    <3>2. ASSUME NEW k \in prog[i].cond, c = Not(k) PROVE k[1] = c[1]
      BY <3>2, NotIs, ProgramIs
    <3> QED
      BY <3>1, <3>2
  <2> QED
    BY <2>1, <2>3, <2>4
<1>4. ASSUME NEW l \in needed, NEW V
      PROVE  (\E r \in axs : r.effect = l /\ r.cond \subseteq V) <=> Makes(prog, l, V)
  <2>1. l \in Defined(prog) \X BOOLEAN /\ ~Impossible(prog, l)
    BY <1>1
  <2>2. (\E r \in RulesFor(prog, l) : r.cond \subseteq V) <=> Makes(prog, l, V)
    BY <2>1, RulesMean
  <2>3. \A r : r \in RulesFor(prog, l) => r \in axs /\ r.effect = l
    BY <2>1, RulesForShape
  <2>4. \A r \in axs : r.effect = l => r \in RulesFor(prog, l)
    BY <1>2
  <2> QED
    BY <2>2, <2>3, <2>4
<1>5. ASSUME NEW l \in needed PROVE l[1] \in init <=> <<l[1], TRUE>> \notin needed
  <2>1. l \in AxiomLiterals
    BY <1>1
  <2>2. (l[2] = TRUE /\ l = <<l[1], TRUE>>) \/ (l[2] = FALSE /\ l = <<l[1], FALSE>>)
    BY <2>1, LiteralIs
  <2>3. ASSUME l[1] \in init PROVE <<l[1], TRUE>> \notin needed
    <3>1. PICK k \in needed : k[1] = l[1] /\ ~k[2] /\ Not(k) \notin needed
      BY <2>3 DEF AxiomInit
    <3>2. k \in AxiomLiterals
      BY <1>1
    <3>3. k = <<k[1], FALSE>>
      BY <3>1, <3>2, LiteralIs
    <3>4. Not(k) \in AxiomLiterals /\ Not(k)[1] = k[1] /\ Not(k)[2] = ~k[2]
      BY <3>2, NotIs
    <3>5. Not(k) = <<k[1], TRUE>>
      BY <3>1, <3>4, LiteralIs
    <3> QED
      BY <3>1, <3>5
  <2>4. ASSUME <<l[1], TRUE>> \notin needed PROVE l[1] \in init
    <3>1. l[2] = FALSE
      BY <2>2, <2>4
    <3>2. Not(l) \in AxiomLiterals /\ Not(l)[1] = l[1] /\ Not(l)[2] = ~l[2]
      BY <2>1, NotIs
    <3>3. Not(l) = <<l[1], TRUE>>
      BY <3>1, <3>2, LiteralIs
    <3> QED
      BY <2>4, <3>1, <3>3 DEF AxiomInit
  <2> QED
    BY <2>3, <2>4
<1>6. init \subseteq {l[1] : l \in needed}
  BY DEF AxiomInit
<1> HIDE DEF init
<1>7. ASSUME NEW l \in needed PROVE \E x \in Deducing(axs, init) : x.effect[1] = l[1]
  <2> DEFINE k == IF <<l[1], TRUE>> \in needed THEN <<l[1], TRUE>> ELSE l
  <2>1. l \in AxiomLiterals /\ l \in Defined(prog) \X BOOLEAN
    BY <1>1
  <2>2. (l[2] = TRUE /\ l = <<l[1], TRUE>>) \/ (l[2] = FALSE /\ l = <<l[1], FALSE>>)
    BY <2>1, LiteralIs
  <2>3. k \in needed /\ k[1] = l[1] /\ (k[2] = TRUE <=> k[1] \notin init) /\ k[2] \in BOOLEAN
    BY <2>2, <1>5
  <2> HIDE DEF k
  <2>4. Makes(prog, k, AxiomLiterals)
    <3>1. CASE k[2] = TRUE
      <4>1. PICK i \in DOMAIN prog : l[1] = prog[i].effect[1]
        BY <2>1 DEF Defined
      <4> QED
        BY <3>1, <4>1, <2>3, ProgramIs DEF Makes
    <3>2. CASE k[2] = FALSE
      <4>1. ASSUME NEW i \in DOMAIN prog, prog[i].effect[1] = k[1]
            PROVE  \E c \in prog[i].cond : Not(c) \in AxiomLiterals
        <5>1. PICK x \in Simplified(AxiomsOf(prog, k[1])) : x.cond \subseteq prog[i].cond
          BY <4>1, SimpleRules
        <5>2. x.cond # {}
          BY <2>3, <3>2, <5>1 DEF Impossible
        <5>3. PICK c \in prog[i].cond : TRUE
          BY <5>1, <5>2
        <5> QED
          BY <5>3, ProgramIs, NotIs
      <4> QED
        BY <3>2, <4>1 DEF Makes
    <3> QED
      BY <2>3, <3>1, <3>2
  <2>5. PICK r \in axs : r.effect = k
    BY <2>3, <2>4, <1>4
  <2>6. r.effect[2] # (r.effect[1] \in init)
    <3>1. CASE k[2] = TRUE
      BY <3>1, <2>3, <2>5
    <3>2. CASE k[2] = FALSE
      BY <3>2, <2>3, <2>5
    <3> QED
      BY <2>3, <3>1, <3>2
  <2> QED
    BY <2>3, <2>5, <2>6 DEF Deducing
<1>8. \A x \in Deducing(axs, init) : x \in axs
  BY DEF Deducing
<1>9. {x.effect[1] : x \in Deducing(axs, init)} = {l[1] : l \in needed}
  <2>1. \A x \in Deducing(axs, init) : x.effect \in needed
    BY <1>2, <1>8
  <2> QED
    BY <2>1, <1>7
<1>10. Faithful(prog, needed, axs, init)
  <2>1. \A r \in axs : r.effect \in needed /\ r.cond \subseteq AxiomLiterals
    BY <1>2
  <2>2. \A r \in axs : \A c \in r.cond :
          /\ c[1] \in Base \/ c \in needed
          /\ \E i \in DOMAIN prog : prog[i].effect[1] = r.effect[1] /\ \E k \in prog[i].cond : k[1] = c[1]
    BY <1>3
  <2>3. \A l \in needed, V \in SUBSET AxiomLiterals :
          (\E r \in axs : r.effect = l /\ r.cond \subseteq V) <=> Makes(prog, l, V)
    BY <1>4
  <2>4. \A l \in needed : l[1] \in init <=> <<l[1], TRUE>> \notin needed
    BY <1>5
  <2> QED
    BY <2>1, <2>2, <2>3, <2>4, <1>6 DEF Faithful
<1> QED
  BY <1>9, <1>10 DEF init

-----------------------------------------------------------------------------
(* The layers.                                                              *)

Needed == Necessary(program, readers)
Source == program \in Programs /\ readers \in Readers

\* What the translation fixes.
Static == Faithful(program, Needed, rules, default) /\ DOMAIN layers = NeededAtoms

\* A rank that the axioms of the program raise.
Ranks(rank) ==
  /\ rank \in [Defined(program) -> 0..Cardinality(Derived)]
  /\ \A i \in DOMAIN program : \A l \in program[i].cond :
       l[1] \in Defined(program) => rank[l[1]] < rank[program[i].effect[1]]

Dependency == (Base \cup Derived) \X {0, 1}
FrameRecord == [atom : NeededAtoms, marker : Int, left : SUBSET Dependency, level : Nat]

\* What is marked is being looked at.
LevelType ==
  /\ \A a \in NeededAtoms : layers[a] \in Int /\ (layers[a] >= 0 \/ layers[a] = UnknownLayer \/ layers[a] <= FirstMarker)
  /\ frames \in Seq(FrameRecord)
  /\ \A i \in DOMAIN frames : frames[i].marker <= FirstMarker
  /\ \A i \in DOMAIN frames : i + 1 \in DOMAIN frames => frames[i + 1].marker - frames[i].marker \in {0, 1}
  /\ \A a \in NeededAtoms : layers[a] <= FirstMarker => \E i \in DOMAIN frames : frames[i].atom = a

\* A dependency that a call has looked at counts in its level, but for the one the
\* call on top of it is about.
CallsFit ==
  \A i \in DOMAIN frames : \A d \in DependsOn(rules, default, frames[i].atom) \ frames[i].left : d[1] \in NeededAtoms =>
    \/ layers[d[1]] >= 0 /\ layers[d[1]] + d[2] <= frames[i].level
    \/ i > 1 /\ frames[i - 1].atom = d[1] /\ frames[i].marker - frames[i - 1].marker = d[2]

\* What has its level has one above all that it depends on.
FinishedFit ==
  \A a \in NeededAtoms : layers[a] >= 0 =>
    \A d \in DependsOn(rules, default, a) : d[1] \in NeededAtoms =>
      layers[d[1]] >= 0 /\ layers[d[1]] + d[2] <= layers[a]

\* The calls on the stack are about atoms of ever lower rank, the top one the lowest.
LevelFit(rank) ==
  /\ \A i \in DOMAIN frames : /\ layers[frames[i].atom] = frames[i].marker
                               /\ frames[i].left \subseteq DependsOn(rules, default, frames[i].atom)
  /\ \A i, j \in DOMAIN frames : i < j => rank[frames[i].atom] < rank[frames[j].atom]
  /\ FinishedFit /\ CallsFit

\* A program without a cycle has a rank for its atoms.
LEMMA AcyclicIs == Acyclic <=> \E rank : Ranks(rank)
BY DEF Acyclic, Ranks

\* Needed literals are about derived atoms that have axioms.
LEMMA NeededIs ==
  ASSUME Source
  PROVE  /\ Needed \subseteq AxiomLiterals /\ Needed \subseteq Defined(program) \X BOOLEAN
         /\ NeededAtoms = {l[1] : l \in Needed} /\ NeededAtoms \subseteq Defined(program)
         /\ NeededAtoms \subseteq Derived /\ NeededAtoms \cap Base = {}
<1>1. Needed \subseteq AxiomLiterals /\ Needed \subseteq Defined(program) \X BOOLEAN
  BY NecessaryIs DEF Source, Needed
<1>2. NeededAtoms = {l[1] : l \in Needed}
  BY DEF NeededAtoms, Needed
<1>3. NeededAtoms \subseteq Defined(program)
  BY <1>1, <1>2
<1>4. Defined(program) \subseteq Derived
  BY ProgramIs DEF Source
<1> QED
  BY <1>1, <1>2, <1>3, <1>4, Grounded

\* DependsOn lists what the deducing rules read, all of lower rank.
LEMMA DependenciesAre ==
  ASSUME Source, Static, NEW a
  PROVE  /\ DependsOn(rules, default, a) \in SUBSET Dependency
         /\ \A r \in rules, c \in AxiomLiterals :
              r.effect[1] = a /\ r.effect[2] # (a \in default) /\ c \in r.cond =>
                <<c[1], IF c[2] = (c[1] \in default) THEN 1 ELSE 0>> \in DependsOn(rules, default, a)
         /\ \A rank : Ranks(rank) => \A d \in DependsOn(rules, default, a) :
              d[1] \in NeededAtoms => /\ a \in NeededAtoms /\ rank[d[1]] \in Nat /\ rank[a] \in Nat
                                      /\ rank[d[1]] < rank[a]
<1> DEFINE bonus(c) == IF c[2] = (c[1] \in default) THEN 1 ELSE 0
           conds == UNION {x.cond : x \in {y \in Deducing(rules, default) : y.effect[1] = a}}
<1>1. DependsOn(rules, default, a) = {<<c[1], bonus(c)>> : c \in conds}
  BY DEF DependsOn
<1>2. \A c : bonus(c) \in {0, 1}
  OBVIOUS
<1> HIDE DEF bonus
<1>3. \A c \in conds : \E r \in rules : r.effect[1] = a /\ c \in r.cond
  BY DEF Deducing
<1>4. ASSUME NEW c \in conds
      PROVE  /\ c \in AxiomLiterals /\ a \in NeededAtoms
             /\ \E i \in DOMAIN program : program[i].effect[1] = a /\ \E k \in program[i].cond : k[1] = c[1]
  <2>1. PICK r \in rules : r.effect[1] = a /\ c \in r.cond
    BY <1>3
  <2>2. r.effect \in Needed /\ r.cond \subseteq AxiomLiterals
    BY <2>1 DEF Static, Faithful
  <2>3. \E i \in DOMAIN program : program[i].effect[1] = a /\ \E k \in program[i].cond : k[1] = c[1]
    BY <2>1 DEF Static, Faithful
  <2> QED
    BY <2>1, <2>2, <2>3, NeededIs
<1>5. ASSUME NEW c \in conds PROVE <<c[1], bonus(c)>> \in Dependency
  <2>1. c[1] \in Base \cup Derived
    BY <1>4, LiteralIs
  <2> QED
    BY <2>1, <1>2 DEF Dependency
<1>6. ASSUME NEW rank, Ranks(rank), NEW d \in DependsOn(rules, default, a), d[1] \in NeededAtoms
      PROVE  a \in NeededAtoms /\ rank[d[1]] \in Nat /\ rank[a] \in Nat /\ rank[d[1]] < rank[a]
  <2>1. PICK c \in conds : d = <<c[1], bonus(c)>>
    BY <1>1
  <2>2. d[1] = c[1]
    BY <2>1
  <2>3. PICK i \in DOMAIN program : program[i].effect[1] = a /\ \E k \in program[i].cond : k[1] = c[1]
    BY <1>4
  <2>4. rank[c[1]] < rank[a]
    BY <1>6, <2>2, <2>3, NeededIs DEF Ranks
  <2>5. Cardinality(Derived) \in Nat
    BY Grounded, FS_CardinalityType
  <2>6. rank[c[1]] \in 0..Cardinality(Derived) /\ rank[a] \in 0..Cardinality(Derived)
    BY <1>4, <1>6, <2>2, NeededIs DEF Ranks
  <2> QED
    BY <1>4, <2>2, <2>4, <2>5, <2>6
<1>7. ASSUME NEW r \in rules, NEW c \in AxiomLiterals, r.effect[1] = a, r.effect[2] # (a \in default), c \in r.cond
      PROVE  <<c[1], bonus(c)>> \in DependsOn(rules, default, a)
  <2>1. r \in Deducing(rules, default)
    BY <1>7 DEF Deducing
  <2>2. c \in conds
    BY <2>1, <1>7
  <2> QED
    BY <2>2, <1>1
<1> HIDE DEF conds
<1>8. DependsOn(rules, default, a) \in SUBSET Dependency
  BY <1>1, <1>5
<1>9. \A r \in rules, c \in AxiomLiterals :
        r.effect[1] = a /\ r.effect[2] # (a \in default) /\ c \in r.cond =>
          <<c[1], IF c[2] = (c[1] \in default) THEN 1 ELSE 0>> \in DependsOn(rules, default, a)
  BY <1>7 DEF bonus
<1> QED
  BY <1>6, <1>8, <1>9

-----------------------------------------------------------------------------
(* The calls.                                                               *)

\* Replacing the top of a stack.
LEMMA HeadReplaced ==
  ASSUME NEW S, NEW s \in Seq(S), s # << >>, NEW x \in S
  PROVE  /\ << x >> \o Tail(s) \in Seq(S) /\ DOMAIN (<< x >> \o Tail(s)) = DOMAIN s
         /\ (<< x >> \o Tail(s))[1] = x /\ \A i \in DOMAIN s : i # 1 => (<< x >> \o Tail(s))[i] = s[i]
         /\ Head(s) = s[1] /\ 1 \in DOMAIN s /\ DOMAIN s = 1..Len(s) /\ Len(s) \in Nat
OBVIOUS

\* Replacing the top of a stack and putting one more on it.
LEMMA CallAdded ==
  ASSUME NEW S, NEW s \in Seq(S), s # << >>, NEW x \in S, NEW y \in S
  PROVE  /\ << x, y >> \o Tail(s) \in Seq(S) /\ DOMAIN (<< x, y >> \o Tail(s)) = 1..(Len(s) + 1)
         /\ (<< x, y >> \o Tail(s))[1] = x /\ (<< x, y >> \o Tail(s))[2] = y
         /\ \A i \in DOMAIN s : i # 1 => (<< x, y >> \o Tail(s))[i + 1] = s[i]
OBVIOUS

\* Taking the top off a stack and replacing the one below.
LEMMA CallReturned ==
  ASSUME NEW S, NEW s \in Seq(S), s # << >>, Tail(s) # << >>, NEW x \in S
  PROVE  /\ << x >> \o Tail(Tail(s)) \in Seq(S) /\ DOMAIN (<< x >> \o Tail(Tail(s))) = 1..(Len(s) - 1)
         /\ (<< x >> \o Tail(Tail(s)))[1] = x
         /\ \A i \in 2..(Len(s) - 1) : (<< x >> \o Tail(Tail(s)))[i] = s[i + 1]
         /\ Head(Tail(s)) = s[2] /\ 2 \in DOMAIN s
OBVIOUS

\* find_level leaves alone what the translation fixed.
LEMMA FixedBefore ==
  ASSUME Source, Static, UNCHANGED <<program, readers, rules, default>>, DOMAIN layers' = DOMAIN layers
  PROVE  /\ Source' /\ Static' /\ NeededAtoms' = NeededAtoms
         /\ (\A a : DependsOn(rules, default, a)' = DependsOn(rules, default, a))
         /\ FrameRecord' = FrameRecord
<1>1. NeededAtoms' = NeededAtoms /\ Needed' = Needed
  BY DEF NeededAtoms, Needed
<1>2. Source' /\ Static'
  BY <1>1 DEF Source, Static
<1>3. \A a : DependsOn(rules, default, a)' = DependsOn(rules, default, a)
  OBVIOUS
<1> QED
  BY <1>1, <1>2, <1>3 DEF FrameRecord

\* The first call for an atom.
LEMMA FindLevelKeeps ==
  ASSUME Source, Static, LevelType, FindLevel
  PROVE  /\ Source' /\ Static' /\ LevelType'
         /\ \A rank : Ranks(rank) /\ LevelFit(rank) => LevelFit(rank)'
<1>1. PICK a \in DOMAIN layers : Enter(a, FirstMarker) /\ frames' = << Frame(a, FirstMarker) >>
  BY DEF FindLevel
<1> DEFINE h == Frame(a, FirstMarker)
<1>2. /\ frames = << >> /\ UNCHANGED <<program, readers, rules, default>>
      /\ layers[a] = UnknownLayer /\ layers' = [layers EXCEPT ![a] = FirstMarker] /\ a \in NeededAtoms
      /\ DOMAIN layers = NeededAtoms
  BY <1>1 DEF FindLevel, Enter, Static
<1>3. h.atom = a /\ h.marker = FirstMarker /\ h.left = DependsOn(rules, default, a) /\ h.level = 0
  BY DEF Frame
<1>4. h \in FrameRecord
  BY <1>2, DependenciesAre DEF Frame, FrameRecord, FirstMarker
<1> HIDE DEF h
<1>5. frames' = << h >>
  BY <1>1 DEF h
<1>6. DOMAIN layers' = DOMAIN layers
  BY <1>2
<1>7. /\ Source' /\ Static' /\ NeededAtoms' = NeededAtoms /\ FrameRecord' = FrameRecord
      /\ \A b : DependsOn(rules, default, b)' = DependsOn(rules, default, b)
  BY <1>2, <1>6, FixedBefore
<1>8. \A b \in NeededAtoms : layers'[b] = IF b = a THEN FirstMarker ELSE layers[b]
  BY <1>2
<1>9. DOMAIN frames' = {1} /\ frames'[1] = h
  BY <1>5
<1>10. DOMAIN frames = {}
  BY <1>2
<1>11. LevelType'
  <2>1. frames' \in Seq(FrameRecord)
    BY <1>4, <1>5
  <2>2. \A b \in NeededAtoms : layers'[b] \in Int /\ (layers'[b] >= 0 \/ layers'[b] = UnknownLayer \/ layers'[b] <= FirstMarker)
    BY <1>8 DEF LevelType, FirstMarker
  <2>3. \A b \in NeededAtoms : layers'[b] <= FirstMarker => \E i \in DOMAIN frames' : frames'[i].atom = b
    BY <1>3, <1>8, <1>9, <1>10 DEF LevelType
  <2>4. \A i \in DOMAIN frames' : frames'[i].marker <= FirstMarker /\ i + 1 \notin DOMAIN frames'
    BY <1>3, <1>9 DEF FirstMarker
  <2> QED
    BY <1>7, <2>1, <2>2, <2>3, <2>4 DEF LevelType
<1>12. ASSUME NEW rank, Ranks(rank), LevelFit(rank) PROVE LevelFit(rank)'
  <2>1. \A i \in DOMAIN frames' : /\ layers'[frames'[i].atom] = frames'[i].marker
                                  /\ frames'[i].left = DependsOn(rules, default, frames'[i].atom)
    BY <1>2, <1>3, <1>8, <1>9
  <2>2. \A i, j \in DOMAIN frames' : ~(i < j)
    BY <1>9
  <2>3. ASSUME NEW b \in NeededAtoms, layers'[b] >= 0, NEW d \in DependsOn(rules, default, b), d[1] \in NeededAtoms
        PROVE  layers'[d[1]] >= 0 /\ layers'[d[1]] + d[2] <= layers'[b]
    <3>1. layers'[b] = layers[b]
      BY <1>8, <2>3 DEF FirstMarker
    <3>2. layers[d[1]] >= 0 /\ layers[d[1]] + d[2] <= layers[b]
      BY <1>12, <2>3, <3>1 DEF LevelFit, FinishedFit
    <3>3. d[1] # a
      BY <1>2, <3>2 DEF UnknownLayer
    <3> QED
      BY <1>8, <2>3, <3>1, <3>2, <3>3
  <2>4. FinishedFit'
    BY <1>7, <2>3 DEF FinishedFit
  <2>5. CallsFit'
    BY <1>7, <2>1 DEF CallsFit
  <2> QED
    BY <1>7, <2>1, <2>2, <2>4, <2>5 DEF LevelFit
<1> QED
  BY <1>7, <1>11, <1>12

\* What looking at a dependency does to a call.
LEMMA KnownIs ==
  ASSUME NEW f \in FrameRecord, NEW d \in f.left, NEW n \in Nat
  PROVE  LET g == Known(f, d, n)
         IN  /\ g.atom = f.atom /\ g.marker = f.marker /\ g.left = f.left \ {d}
             /\ g.level = Larger(f.level, n + d[2]) /\ g \in FrameRecord
             /\ g.level >= f.level /\ g.level >= n + d[2] /\ g.level \in Nat
<1> DEFINE g == Known(f, d, n)
<1>1. f.left \in SUBSET Dependency /\ f.atom \in NeededAtoms /\ f.marker \in Int /\ f.level \in Nat
  BY DEF FrameRecord
<1>2. d[2] \in {0, 1}
  BY <1>1 DEF Dependency
<1>3. /\ Larger(f.level, n + d[2]) \in Nat /\ Larger(f.level, n + d[2]) >= f.level
      /\ Larger(f.level, n + d[2]) >= n + d[2]
  BY <1>1, <1>2 DEF Larger
<1>4. g = [[f EXCEPT !.left = f.left \ {d}] EXCEPT !.level = Larger(f.level, n + d[2])]
  BY DEF Known, FrameRecord
<1>5. [f EXCEPT !.left = f.left \ {d}] \in FrameRecord
  BY <1>1 DEF FrameRecord
<1>6. g \in FrameRecord
  BY <1>3, <1>4, <1>5 DEF FrameRecord
<1>7. g.atom = f.atom /\ g.marker = f.marker /\ g.left = f.left \ {d} /\ g.level = Larger(f.level, n + d[2])
  BY <1>4 DEF FrameRecord
<1> QED
  BY <1>3, <1>6, <1>7

\* A dependency that has its level.
LEMMA LookUpKeeps ==
  ASSUME Source, Static, LevelType, LookUp
  PROVE  /\ Source' /\ Static' /\ LevelType'
         /\ \A rank : Ranks(rank) /\ LevelFit(rank) => LevelFit(rank)'
<1> DEFINE f == Head(frames)
<1>1. /\ frames # << >> /\ UNCHANGED <<program, readers, rules, default, layers>> /\ DOMAIN layers = NeededAtoms
      /\ frames \in Seq(FrameRecord)
  BY DEF LookUp, Static, LevelType
<1>2. f = frames[1] /\ 1 \in DOMAIN frames /\ f \in FrameRecord /\ DOMAIN frames = 1..Len(frames) /\ Len(frames) \in Nat
  BY <1>1
<1>3. f.left \in SUBSET Dependency /\ f.atom \in NeededAtoms /\ f.marker \in Int /\ f.level \in Nat
  BY <1>2 DEF FrameRecord
<1>4. PICK d \in f.left, n \in Nat :
        /\ frames' = << Known(f, d, n) >> \o Tail(frames)
        /\ \/ d[1] \notin NeededAtoms
           \/ layers[d[1]] = f.marker - d[2]
           \/ layers[d[1]] >= 0 /\ n = layers[d[1]]
  <2>1. PICK d \in f.left :
           \/ d[1] \notin DOMAIN layers /\ frames' = << Known(f, d, 0) >> \o Tail(frames)
           \/ d[1] \in DOMAIN layers /\ layers[d[1]] = f.marker - d[2] /\ frames' = << Known(f, d, 0) >> \o Tail(frames)
           \/ d[1] \in DOMAIN layers /\ layers[d[1]] >= 0 /\ frames' = << Known(f, d, layers[d[1]]) >> \o Tail(frames)
    BY DEF LookUp
  <2>2. \A a \in NeededAtoms : layers[a] >= 0 => layers[a] \in Nat
    BY DEF LevelType
  <2> QED
    BY <1>1, <2>1, <2>2
<1> DEFINE g == Known(f, d, n)
<1>5. d[2] \in {0, 1} /\ d \in Dependency
  BY <1>3, <1>4 DEF Dependency
<1>6. /\ g.atom = f.atom /\ g.marker = f.marker /\ g.left = f.left \ {d}
      /\ g.level = Larger(f.level, n + d[2]) /\ g \in FrameRecord
  BY <1>2, <1>4, KnownIs
<1>7. g.level >= f.level /\ g.level >= n + d[2] /\ g.level \in Nat
  BY <1>2, <1>4, KnownIs
<1> HIDE DEF g, f
<1>8. frames' = << g >> \o Tail(frames)
  BY <1>4 DEF g
<1>9. /\ frames' \in Seq(FrameRecord) /\ DOMAIN frames' = DOMAIN frames /\ frames'[1] = g
      /\ \A i \in DOMAIN frames : i # 1 => frames'[i] = frames[i]
  BY <1>1, <1>6, <1>8, HeadReplaced
<1>10. /\ Source' /\ Static' /\ NeededAtoms' = NeededAtoms /\ FrameRecord' = FrameRecord
       /\ \A b : DependsOn(rules, default, b)' = DependsOn(rules, default, b)
  BY <1>1, FixedBefore
<1>11. \A i \in DOMAIN frames : frames'[i].atom = frames[i].atom /\ frames'[i].marker = frames[i].marker
  BY <1>2, <1>6, <1>9
<1>12. LevelType'
  <2>1. \A i \in DOMAIN frames' : frames'[i].marker <= FirstMarker
    BY <1>9, <1>11 DEF LevelType
  <2>2. \A i \in DOMAIN frames' : i + 1 \in DOMAIN frames' => frames'[i + 1].marker - frames'[i].marker \in {0, 1}
    BY <1>9, <1>11 DEF LevelType
  <2>3. \A a \in NeededAtoms : layers'[a] <= FirstMarker => \E i \in DOMAIN frames' : frames'[i].atom = a
    BY <1>1, <1>9, <1>11 DEF LevelType
  <2>4. \A a \in NeededAtoms : layers'[a] \in Int /\ (layers'[a] >= 0 \/ layers'[a] = UnknownLayer \/ layers'[a] <= FirstMarker)
    BY <1>1 DEF LevelType
  <2> QED
    BY <1>9, <1>10, <2>1, <2>2, <2>3, <2>4 DEF LevelType
<1>13. ASSUME NEW rank, Ranks(rank), LevelFit(rank) PROVE LevelFit(rank)'
  <2>1. d \in DependsOn(rules, default, f.atom)
    BY <1>2, <1>13 DEF LevelFit
  <2>2. d[1] \in NeededAtoms => layers[d[1]] >= 0 /\ n = layers[d[1]]
    <3> SUFFICES ASSUME d[1] \in NeededAtoms, layers[d[1]] = f.marker - d[2] PROVE FALSE
      BY <1>4
    <3>1. layers[d[1]] <= FirstMarker
      BY <1>2, <1>3, <1>5 DEF LevelType, FirstMarker
    <3>2. PICK j \in DOMAIN frames : frames[j].atom = d[1]
      BY <3>1 DEF LevelType
    <3>3. rank[d[1]] \in Nat /\ rank[f.atom] \in Nat /\ rank[d[1]] < rank[f.atom]
      BY <1>13, <2>1, DependenciesAre
    <3>4. j = 1 \/ 1 < j
      BY <1>2
    <3>5. ~(rank[f.atom] < rank[d[1]]) /\ f.atom # d[1]
      BY <3>3
    <3>6. CASE 1 < j
      <4>1. rank[frames[1].atom] < rank[frames[j].atom]
        BY <1>2, <1>13, <3>2, <3>6 DEF LevelFit
      <4> QED
        BY <4>1, <3>2, <3>5, <1>2
    <3> QED
      BY <3>2, <3>4, <3>5, <3>6, <1>2
  <2>3. \A i \in DOMAIN frames' : /\ layers'[frames'[i].atom] = frames'[i].marker
                                  /\ frames'[i].left \subseteq DependsOn(rules, default, frames'[i].atom)
    <3> TAKE i \in DOMAIN frames'
    <3>1. frames'[i].left \subseteq frames[i].left
      BY <1>2, <1>6, <1>9
    <3> QED
      BY <1>1, <1>9, <1>11, <1>13, <3>1 DEF LevelFit
  <2>4. \A i, j \in DOMAIN frames' : i < j => rank[frames'[i].atom] < rank[frames'[j].atom]
    BY <1>9, <1>11, <1>13 DEF LevelFit
  <2>5. FinishedFit'
    BY <1>1, <1>10, <1>13 DEF LevelFit, FinishedFit
  <2>6. ASSUME NEW i \in DOMAIN frames', NEW e \in DependsOn(rules, default, frames'[i].atom) \ frames'[i].left,
               e[1] \in NeededAtoms
        PROVE  \/ layers'[e[1]] >= 0 /\ layers'[e[1]] + e[2] <= frames'[i].level
               \/ i > 1 /\ frames'[i - 1].atom = e[1] /\ frames'[i].marker - frames'[i - 1].marker = e[2]
    <3>1. CASE i = 1
      <4>1. e \in DependsOn(rules, default, f.atom) \ (f.left \ {d})
        BY <2>6, <3>1, <1>6, <1>9
      <4>2. CASE e = d
        BY <4>2, <2>2, <2>6, <3>1, <1>1, <1>7, <1>9
      <4>3. CASE e # d
        <5>1. e \in DependsOn(rules, default, frames[1].atom) \ frames[1].left
          BY <4>1, <4>3, <1>2
        <5>2. layers[e[1]] >= 0 /\ layers[e[1]] + e[2] <= frames[1].level
          BY <5>1, <1>2, <1>13, <2>6 DEF LevelFit, CallsFit
        <5>3. e[2] \in {0, 1}
          BY <5>1, DependenciesAre DEF Dependency
        <5>4. layers[e[1]] \in Int
          BY <2>6 DEF LevelType
        <5> QED
          BY <5>2, <5>3, <5>4, <3>1, <1>1, <1>2, <1>3, <1>7, <1>9
      <4> QED
        BY <4>2, <4>3
    <3>2. CASE i # 1
      <4>1. frames'[i] = frames[i] /\ i \in DOMAIN frames
        BY <1>9, <3>2
      <4>2. \/ layers[e[1]] >= 0 /\ layers[e[1]] + e[2] <= frames[i].level
            \/ i > 1 /\ frames[i - 1].atom = e[1] /\ frames[i].marker - frames[i - 1].marker = e[2]
        BY <4>1, <2>6, <1>13 DEF LevelFit, CallsFit
      <4>3. i > 1 => i - 1 \in DOMAIN frames
        BY <4>1, <1>2
      <4> QED
        BY <4>1, <4>2, <4>3, <1>1, <1>11
    <3> QED
      BY <3>1, <3>2
  <2>7. CallsFit'
    BY <1>10, <2>6 DEF CallsFit
  <2> QED
    BY <1>10, <2>3, <2>4, <2>5, <2>7 DEF LevelFit
<1> QED
  BY <1>10, <1>12, <1>13

\* A stack of one.
LEMMA OnlyCall ==
  ASSUME NEW S, NEW s \in Seq(S), s # << >>, Tail(s) = << >>
  PROVE  Len(s) = 1
<1>1. Len(Tail(s)) = Len(s) - 1 /\ Len(s) \in Nat
  OBVIOUS
<1>2. Len(Tail(s)) = 0
  BY Len(<< >>) = 0
<1> QED
  BY <1>1, <1>2

\* The types of the calls.
LEMMA FramesAre ==
  ASSUME frames \in Seq(FrameRecord)
  PROVE  \A i \in DOMAIN frames : /\ frames[i] \in FrameRecord /\ frames[i].atom \in NeededAtoms
                                   /\ frames[i].marker \in Int /\ frames[i].level \in Nat
<1> TAKE i \in DOMAIN frames
<1>1. frames[i] \in FrameRecord
  OBVIOUS
<1> QED
  BY <1>1 DEF FrameRecord

\* A dependency that has to be looked at first.
LEMMA CallKeeps ==
  ASSUME Source, Static, LevelType, Call
  PROVE  /\ Source' /\ Static' /\ LevelType'
         /\ \A rank : Ranks(rank) /\ LevelFit(rank) => LevelFit(rank)'
<1> DEFINE f == Head(frames)
<1>1. /\ frames # << >> /\ UNCHANGED <<program, readers, rules, default>> /\ DOMAIN layers = NeededAtoms
      /\ frames \in Seq(FrameRecord)
  BY DEF Call, Static, LevelType
<1>2. f = frames[1] /\ 1 \in DOMAIN frames /\ f \in FrameRecord /\ DOMAIN frames = 1..Len(frames) /\ Len(frames) \in Nat
  BY <1>1
<1>3. /\ f.left \in SUBSET Dependency /\ f.atom \in NeededAtoms /\ f.marker \in Int /\ f.level \in Nat
      /\ f.marker <= FirstMarker
  BY <1>2 DEF FrameRecord, LevelType
<1>4. PICK d \in f.left :
        /\ d[1] \in NeededAtoms /\ Enter(d[1], f.marker - d[2])
        /\ frames' = << Frame(d[1], f.marker - d[2]), [f EXCEPT !.left = f.left \ {d}] >> \o Tail(frames)
  BY <1>1 DEF Call
<1> DEFINE a == d[1]
           m == f.marker - d[2]
           h == Frame(a, m)
           g == [f EXCEPT !.left = f.left \ {d}]
<1>5. d[2] \in {0, 1} /\ d \in Dependency
  BY <1>3, <1>4 DEF Dependency
<1>6. m \in Int /\ m <= FirstMarker /\ f.marker - m = d[2]
  BY <1>3, <1>5 DEF FirstMarker
<1>7. h.atom = a /\ h.marker = m /\ h.left = DependsOn(rules, default, a) /\ h.level = 0
  BY DEF Frame
<1>8. h \in FrameRecord
  BY <1>4, <1>6, DependenciesAre DEF Frame, FrameRecord
<1>9. g.atom = f.atom /\ g.marker = f.marker /\ g.left = f.left \ {d} /\ g.level = f.level /\ g \in FrameRecord
  <2> HIDE DEF f
  <2> QED
    BY <1>2, <1>3 DEF FrameRecord
<1>10. layers[a] = UnknownLayer /\ layers' = [layers EXCEPT ![a] = m] /\ a \in NeededAtoms
  BY <1>4 DEF Enter
<1>11. frames' = << h, g >> \o Tail(frames)
  BY <1>4
<1> HIDE DEF h, g, f, m, a
<1>12. /\ frames' \in Seq(FrameRecord) /\ DOMAIN frames' = 1..(Len(frames) + 1)
       /\ frames'[1] = h /\ frames'[2] = g /\ \A i \in DOMAIN frames : i # 1 => frames'[i + 1] = frames[i]
  BY <1>1, <1>8, <1>9, <1>11, CallAdded
<1>13. \A i \in DOMAIN frames : frames'[i + 1].atom = frames[i].atom /\ frames'[i + 1].marker = frames[i].marker
  BY <1>2, <1>9, <1>12
<1>14. \A i \in DOMAIN frames' : i = 1 \/ (i - 1 \in DOMAIN frames /\ i = (i - 1) + 1 /\ i > 1)
  BY <1>2, <1>12
<1>15. \A b \in NeededAtoms : layers'[b] = IF b = a THEN m ELSE layers[b]
  BY <1>1, <1>10
<1>16. /\ Source' /\ Static' /\ NeededAtoms' = NeededAtoms /\ FrameRecord' = FrameRecord
       /\ \A b : DependsOn(rules, default, b)' = DependsOn(rules, default, b)
  <2>1. DOMAIN layers' = DOMAIN layers
    BY <1>10
  <2> QED
    BY <1>1, <2>1, FixedBefore
<1>17. \A i \in DOMAIN frames : frames[i].atom \in NeededAtoms
  BY <1>1, FramesAre
<1>18. LevelType'
  <2>1. \A i \in DOMAIN frames' : frames'[i].marker <= FirstMarker
    <3> TAKE i \in DOMAIN frames'
    <3>1. CASE i = 1
      BY <3>1, <1>6, <1>7, <1>12
    <3>2. CASE i - 1 \in DOMAIN frames /\ i = (i - 1) + 1
      <4>1. frames'[i].marker = frames[i - 1].marker
        BY <3>2, <1>13
      <4> QED
        BY <4>1, <3>2 DEF LevelType
    <3> QED
      BY <3>1, <3>2, <1>14
  <2>2. \A i \in DOMAIN frames' : i + 1 \in DOMAIN frames' => frames'[i + 1].marker - frames'[i].marker \in {0, 1}
    <3> SUFFICES ASSUME NEW i \in DOMAIN frames', i + 1 \in DOMAIN frames'
                 PROVE  frames'[i + 1].marker - frames'[i].marker \in {0, 1}
      OBVIOUS
    <3>1. CASE i = 1
      BY <3>1, <1>5, <1>6, <1>7, <1>9, <1>12
    <3>2. CASE i - 1 \in DOMAIN frames /\ i = (i - 1) + 1
      <4>1. i \in DOMAIN frames
        BY <1>2, <1>12, <3>2
      <4>2. frames'[i].marker = frames[i - 1].marker /\ frames'[i + 1].marker = frames[i].marker
        BY <3>2, <4>1, <1>13
      <4>3. \A k \in DOMAIN frames : k + 1 \in DOMAIN frames => frames[k + 1].marker - frames[k].marker \in {0, 1}
        BY DEF LevelType
      <4>4. frames[(i - 1) + 1].marker - frames[i - 1].marker \in {0, 1}
        BY <3>2, <4>1, <4>3
      <4> QED
        BY <3>2, <4>2, <4>4
    <3> QED
      BY <3>1, <3>2, <1>14
  <2>3. \A b \in NeededAtoms : layers'[b] <= FirstMarker => \E i \in DOMAIN frames' : frames'[i].atom = b
    <3> SUFFICES ASSUME NEW b \in NeededAtoms, layers'[b] <= FirstMarker PROVE \E i \in DOMAIN frames' : frames'[i].atom = b
      OBVIOUS
    <3>1. CASE b = a
      <4>1. 1 \in DOMAIN frames'
        BY <1>2, <1>12
      <4> QED
        BY <3>1, <4>1, <1>7, <1>12
    <3>2. CASE b # a
      <4>1. layers[b] <= FirstMarker
        BY <3>2, <1>15
      <4>2. PICK i \in DOMAIN frames : frames[i].atom = b
        BY <4>1 DEF LevelType
      <4>3. i + 1 \in DOMAIN frames'
        BY <1>2, <1>12
      <4> QED
        BY <4>2, <4>3, <1>13
    <3> QED
      BY <3>1, <3>2
  <2>4. \A b \in NeededAtoms : layers'[b] \in Int /\ (layers'[b] >= 0 \/ layers'[b] = UnknownLayer \/ layers'[b] <= FirstMarker)
    BY <1>6, <1>15 DEF LevelType
  <2> QED
    BY <1>12, <1>16, <2>1, <2>2, <2>3, <2>4 DEF LevelType
<1>19. ASSUME NEW rank, Ranks(rank), LevelFit(rank) PROVE LevelFit(rank)'
  <2>1. d \in DependsOn(rules, default, f.atom) /\ f.left \subseteq DependsOn(rules, default, f.atom)
    BY <1>2, <1>19 DEF LevelFit
  <2>2. rank[a] \in Nat /\ rank[f.atom] \in Nat /\ rank[a] < rank[f.atom]
    BY <1>10, <1>19, <2>1, DependenciesAre DEF a
  <2>3. \A i \in DOMAIN frames : frames[i].atom # a
    <3> TAKE i \in DOMAIN frames
    <3>1. layers[frames[i].atom] = frames[i].marker /\ frames[i].marker <= FirstMarker
      BY <1>19 DEF LevelFit, LevelType
    <3> QED
      BY <3>1, <1>10 DEF UnknownLayer, FirstMarker
  <2>4. ASSUME NEW i \in DOMAIN frames'
        PROVE  /\ layers'[frames'[i].atom] = frames'[i].marker
               /\ frames'[i].left \subseteq DependsOn(rules, default, frames'[i].atom)
    <3>1. CASE i = 1
      BY <3>1, <1>7, <1>10, <1>12, <1>15
    <3>2. CASE i - 1 \in DOMAIN frames /\ i = (i - 1) + 1
      <4>1. frames'[i].atom = frames[i - 1].atom /\ frames'[i].marker = frames[i - 1].marker
        BY <3>2, <1>13
      <4>2. layers'[frames[i - 1].atom] = layers[frames[i - 1].atom]
        BY <3>2, <2>3, <1>15, <1>17
      <4>3. frames'[i].left \subseteq frames[i - 1].left
        BY <3>2, <1>2, <1>9, <1>12
      <4> QED
        BY <4>1, <4>2, <4>3, <3>2, <1>19 DEF LevelFit
    <3> QED
      BY <3>1, <3>2, <1>14
  <2>5. ASSUME NEW i \in DOMAIN frames', NEW j \in DOMAIN frames', i < j
        PROVE  rank[frames'[i].atom] < rank[frames'[j].atom]
    <3>1. j - 1 \in DOMAIN frames /\ j = (j - 1) + 1
      BY <2>5, <1>12, <1>14
    <3>2. frames'[j].atom = frames[j - 1].atom
      BY <3>1, <1>13
    <3>3. CASE i = 1
      <4>1. frames'[i].atom = a
        BY <3>3, <1>7, <1>12
      <4>2. CASE j - 1 = 1
        BY <3>2, <4>1, <4>2, <2>2, <1>2
      <4>3. CASE j - 1 # 1
        <5>1. 1 < j - 1
          BY <4>3, <3>1, <1>2
        <5>2. rank[f.atom] < rank[frames[j - 1].atom]
          BY <5>1, <3>1, <1>2, <1>19 DEF LevelFit
        <5>3. rank[frames[j - 1].atom] \in Nat
          <6>1. frames[j - 1].atom \in Defined(program)
            BY <3>1, <1>17, NeededIs
          <6>2. Cardinality(Derived) \in Nat
            BY Grounded, FS_CardinalityType
          <6> QED
            BY <6>1, <6>2, <1>19 DEF Ranks
        <5> QED
          BY <5>2, <5>3, <4>1, <3>2, <2>2
      <4> QED
        BY <4>2, <4>3
    <3>4. CASE i - 1 \in DOMAIN frames /\ i = (i - 1) + 1
      <4>1. frames'[i].atom = frames[i - 1].atom /\ i - 1 < j - 1
        BY <3>4, <2>5, <1>13, <1>12
      <4> QED
        BY <4>1, <3>1, <3>2, <3>4, <1>19 DEF LevelFit
    <3> QED
      BY <3>3, <3>4, <1>14
  <2>6. ASSUME NEW b \in NeededAtoms, layers[b] >= 0
        PROVE  layers'[b] = layers[b]
    BY <2>6, <1>10, <1>15 DEF UnknownLayer
  <2>7. ASSUME NEW b \in NeededAtoms, layers'[b] >= 0, NEW e \in DependsOn(rules, default, b), e[1] \in NeededAtoms
        PROVE  layers'[e[1]] >= 0 /\ layers'[e[1]] + e[2] <= layers'[b]
    <3>1. layers'[b] = layers[b]
      BY <1>6, <1>15, <2>7 DEF FirstMarker
    <3>2. layers[e[1]] >= 0 /\ layers[e[1]] + e[2] <= layers[b]
      BY <1>19, <2>7, <3>1 DEF LevelFit, FinishedFit
    <3> QED
      BY <2>6, <2>7, <3>1, <3>2
  <2>8. FinishedFit'
    BY <1>16, <2>7 DEF FinishedFit
  <2>9. ASSUME NEW i \in DOMAIN frames', NEW e \in DependsOn(rules, default, frames'[i].atom) \ frames'[i].left,
               e[1] \in NeededAtoms
        PROVE  \/ layers'[e[1]] >= 0 /\ layers'[e[1]] + e[2] <= frames'[i].level
               \/ i > 1 /\ frames'[i - 1].atom = e[1] /\ frames'[i].marker - frames'[i - 1].marker = e[2]
    <3>1. i # 1
      BY <2>9, <1>7, <1>12
    <3>2. i - 1 \in DOMAIN frames /\ i = (i - 1) + 1 /\ i > 1
      BY <3>1, <1>14
    <3>3. CASE i = 2
      <4>1. e \in DependsOn(rules, default, f.atom) \ (f.left \ {d})
        BY <3>3, <2>9, <1>9, <1>12
      <4>2. CASE e = d
        <5>1. frames'[1].atom = e[1] /\ frames'[2].marker - frames'[1].marker = e[2]
          BY <4>2, <1>6, <1>7, <1>9, <1>12 DEF a
        <5> QED
          BY <3>3, <5>1
      <4>3. CASE e # d
        <5>1. e \in DependsOn(rules, default, frames[1].atom) \ frames[1].left
          BY <4>1, <4>3, <1>2
        <5>2. layers[e[1]] >= 0 /\ layers[e[1]] + e[2] <= frames[1].level
          BY <5>1, <1>2, <1>19, <2>9 DEF LevelFit, CallsFit
        <5> QED
          BY <5>2, <3>3, <2>6, <2>9, <1>2, <1>9, <1>12
      <4> QED
        BY <4>2, <4>3
    <3>4. CASE i # 2
      <4>1. frames'[i] = frames[i - 1]
        BY <1>12, <3>2, <3>4
      <4>2. \/ layers[e[1]] >= 0 /\ layers[e[1]] + e[2] <= frames[i - 1].level
            \/ i - 1 > 1 /\ frames[(i - 1) - 1].atom = e[1] /\ frames[i - 1].marker - frames[(i - 1) - 1].marker = e[2]
        BY <4>1, <2>9, <3>2, <1>19 DEF LevelFit, CallsFit
      <4>3. CASE layers[e[1]] >= 0 /\ layers[e[1]] + e[2] <= frames[i - 1].level
        BY <4>1, <4>3, <2>6, <2>9
      <4>4. CASE i - 1 > 1 /\ frames[(i - 1) - 1].atom = e[1] /\ frames[i - 1].marker - frames[(i - 1) - 1].marker = e[2]
        <5>1. (i - 1) - 1 \in DOMAIN frames /\ ((i - 1) - 1) + 1 = i - 1
          BY <4>4, <3>2, <1>2
        <5>2. frames'[i - 1].atom = frames[(i - 1) - 1].atom /\ frames'[i - 1].marker = frames[(i - 1) - 1].marker
          BY <5>1, <1>13
        <5> QED
          BY <5>2, <4>1, <4>4, <3>2
      <4> QED
        BY <4>2, <4>3, <4>4
    <3> QED
      BY <3>3, <3>4
  <2>10. CallsFit'
    BY <1>16, <2>9 DEF CallsFit
  <2> QED
    BY <1>16, <2>4, <2>5, <2>8, <2>10 DEF LevelFit
<1> QED
  BY <1>16, <1>18, <1>19

\* A call that is over: its atom has a level that fits, and the caller counts it.
LEMMA ReturnKeeps ==
  ASSUME Source, Static, LevelType, Return
  PROVE  /\ Source' /\ Static' /\ LevelType'
         /\ \A rank : Ranks(rank) /\ LevelFit(rank) => LevelFit(rank)'
<1> DEFINE f == Head(frames)
           caller == Head(Tail(frames))
           g == [caller EXCEPT !.level = Larger(caller.level, f.level + (caller.marker - f.marker))]
<1>1. /\ frames # << >> /\ UNCHANGED <<program, readers, rules, default>> /\ DOMAIN layers = NeededAtoms
      /\ frames \in Seq(FrameRecord)
      /\ f.left = {} /\ layers' = [layers EXCEPT ![f.atom] = f.level]
      /\ frames' = IF Tail(frames) = << >> THEN << >> ELSE << g >> \o Tail(Tail(frames))
  BY DEF Return, Static, LevelType
<1>2. f = frames[1] /\ 1 \in DOMAIN frames /\ f \in FrameRecord /\ DOMAIN frames = 1..Len(frames) /\ Len(frames) \in Nat
  BY <1>1
<1>3. f.atom \in NeededAtoms /\ f.marker \in Int /\ f.level \in Nat
  BY <1>2 DEF FrameRecord
<1> HIDE DEF f
<1>4. ASSUME Tail(frames) # << >>
      PROVE  /\ g.atom = frames[2].atom /\ g.marker = frames[2].marker /\ g.left = frames[2].left /\ g \in FrameRecord
             /\ g.level \in Nat /\ g.level >= frames[2].level
             /\ g.level >= f.level + (frames[2].marker - f.marker) /\ 2 \in DOMAIN frames
  <2>1. caller = frames[2] /\ 2 \in DOMAIN frames
    BY <1>1, <1>4
  <2>2. caller \in FrameRecord
    BY <1>1, <2>1
  <2>3. frames[1 + 1].marker - frames[1].marker \in {0, 1}
    <3>1. 1 + 1 = 2
      OBVIOUS
    <3>2. \A k \in DOMAIN frames : k + 1 \in DOMAIN frames => frames[k + 1].marker - frames[k].marker \in {0, 1}
      BY DEF LevelType
    <3> QED
      BY <3>1, <3>2, <1>2, <2>1
  <2>4. caller.marker - f.marker \in {0, 1}
    BY <2>1, <2>3, <1>2
  <2> HIDE DEF caller
  <2> DEFINE n == Larger(caller.level, f.level + (caller.marker - f.marker))
  <2>5. n \in Nat /\ n >= caller.level /\ n >= f.level + (caller.marker - f.marker)
    BY <1>3, <2>2, <2>4 DEF Larger, FrameRecord
  <2>6. g = [caller EXCEPT !.level = n]
    OBVIOUS
  <2> HIDE DEF g, n
  <2>7. g.atom = caller.atom /\ g.marker = caller.marker /\ g.left = caller.left /\ g.level = n /\ g \in FrameRecord
    BY <2>2, <2>5, <2>6 DEF FrameRecord
  <2> QED
    BY <2>1, <2>5, <2>7
<1> HIDE DEF g
<1>5. /\ frames' \in Seq(FrameRecord) /\ DOMAIN frames' = 1..(Len(frames) - 1)
      /\ \A i \in DOMAIN frames' : /\ i + 1 \in DOMAIN frames /\ i >= 1
                                   /\ frames'[i].atom = frames[i + 1].atom /\ frames'[i].marker = frames[i + 1].marker
                                   /\ frames'[i].left = frames[i + 1].left
                                   /\ frames'[i].level \in Nat /\ frames'[i].level >= frames[i + 1].level
      /\ 1 \in DOMAIN frames' => frames'[1].level >= f.level + (frames'[1].marker - f.marker)
  <2>1. CASE Tail(frames) = << >>
    <3>1. frames' = << >>
      BY <1>1, <2>1
    <3>2. Len(frames) = 1
      BY <1>1, <2>1, OnlyCall
    <3>3. 1..(Len(frames) - 1) = {}
      BY <3>2
    <3>4. << >> \in Seq(FrameRecord) /\ DOMAIN << >> = {}
      OBVIOUS
    <3> QED
      BY <3>1, <3>3, <3>4
  <2>2. CASE Tail(frames) # << >>
    <3>1. frames' = << g >> \o Tail(Tail(frames))
      BY <1>1, <2>2
    <3>2. /\ frames' \in Seq(FrameRecord) /\ DOMAIN frames' = 1..(Len(frames) - 1)
          /\ frames'[1] = g
          /\ \A i \in 2..(Len(frames) - 1) : frames'[i] = frames[i + 1]
      BY <1>1, <1>4, <2>2, <3>1, CallReturned
    <3>3. ASSUME NEW i \in DOMAIN frames'
          PROVE  /\ i + 1 \in DOMAIN frames /\ i >= 1
                 /\ frames'[i].atom = frames[i + 1].atom /\ frames'[i].marker = frames[i + 1].marker
                 /\ frames'[i].left = frames[i + 1].left
                 /\ frames'[i].level \in Nat /\ frames'[i].level >= frames[i + 1].level
      <4>1. i + 1 \in DOMAIN frames /\ i >= 1
        BY <1>2, <3>2
      <4>2. CASE i = 1
        BY <4>1, <4>2, <3>2, <1>4, <2>2
      <4>3. CASE i # 1
        <5>1. frames'[i] = frames[i + 1]
          BY <3>2, <4>3
        <5>2. frames[i + 1].level \in Nat
          BY <1>1, <4>1, FramesAre
        <5> QED
          BY <4>1, <5>1, <5>2
      <4> QED
        BY <4>2, <4>3
    <3>4. 1 \in DOMAIN frames' => frames'[1].level >= f.level + (frames'[1].marker - f.marker)
      BY <3>2, <1>4, <2>2
    <3> QED
      BY <3>2, <3>3, <3>4
  <2> QED
    BY <2>1, <2>2
<1>6. /\ Source' /\ Static' /\ NeededAtoms' = NeededAtoms /\ FrameRecord' = FrameRecord
      /\ \A b : DependsOn(rules, default, b)' = DependsOn(rules, default, b)
  <2>1. DOMAIN layers' = DOMAIN layers
    BY <1>1
  <2> QED
    BY <1>1, <2>1, FixedBefore
<1>7. \A b \in NeededAtoms : layers'[b] = IF b = f.atom THEN f.level ELSE layers[b]
  BY <1>1
<1>8. \A i \in DOMAIN frames : frames[i].atom \in NeededAtoms
  BY <1>1, FramesAre
<1>9. \A i \in DOMAIN frames : i # 1 => i - 1 \in DOMAIN frames' /\ (i - 1) + 1 = i
  BY <1>2, <1>5
<1>10. LevelType'
  <2>1. \A i \in DOMAIN frames' : frames'[i].marker <= FirstMarker
    BY <1>5 DEF LevelType
  <2>2. \A i \in DOMAIN frames' : i + 1 \in DOMAIN frames' => frames'[i + 1].marker - frames'[i].marker \in {0, 1}
    BY <1>5 DEF LevelType
  <2>3. \A b \in NeededAtoms : layers'[b] <= FirstMarker => \E i \in DOMAIN frames' : frames'[i].atom = b
    <3> SUFFICES ASSUME NEW b \in NeededAtoms, layers'[b] <= FirstMarker PROVE \E i \in DOMAIN frames' : frames'[i].atom = b
      OBVIOUS
    <3>1. b # f.atom /\ layers[b] <= FirstMarker
      BY <1>3, <1>7 DEF FirstMarker
    <3>2. PICK i \in DOMAIN frames : frames[i].atom = b
      BY <3>1 DEF LevelType
    <3>3. i # 1
      BY <3>1, <3>2, <1>2
    <3> QED
      BY <3>2, <3>3, <1>5, <1>9
  <2>4. \A b \in NeededAtoms : layers'[b] \in Int /\ (layers'[b] >= 0 \/ layers'[b] = UnknownLayer \/ layers'[b] <= FirstMarker)
    BY <1>3, <1>7 DEF LevelType
  <2> QED
    BY <1>5, <1>6, <2>1, <2>2, <2>3, <2>4 DEF LevelType
<1>11. ASSUME NEW rank, Ranks(rank), LevelFit(rank) PROVE LevelFit(rank)'
  <2>1. layers[f.atom] = f.marker /\ f.marker <= FirstMarker
    BY <1>2, <1>11 DEF LevelFit, LevelType
  <2>2. \A i \in DOMAIN frames : rank[frames[i].atom] \in Nat
    <3>1. Cardinality(Derived) \in Nat
      BY Grounded, FS_CardinalityType
    <3> QED
      BY <3>1, <1>8, <1>11, NeededIs DEF Ranks
  <2>3. \A i \in DOMAIN frames : i # 1 => frames[i].atom # f.atom
    <3> SUFFICES ASSUME NEW i \in DOMAIN frames, i # 1 PROVE frames[i].atom # f.atom
      OBVIOUS
    <3>1. 1 < i
      BY <1>2
    <3>2. rank[frames[1].atom] < rank[frames[i].atom]
      BY <3>1, <1>2, <1>11 DEF LevelFit
    <3> QED
      BY <3>2, <2>2, <1>2
  <2>4. ASSUME NEW i \in DOMAIN frames'
        PROVE  /\ layers'[frames'[i].atom] = frames'[i].marker
               /\ frames'[i].left \subseteq DependsOn(rules, default, frames'[i].atom)
    <3>1. i + 1 \in DOMAIN frames /\ i + 1 # 1
      BY <1>5
    <3> QED
      BY <3>1, <2>3, <1>5, <1>7, <1>8, <1>11 DEF LevelFit
  <2>5. ASSUME NEW i \in DOMAIN frames', NEW j \in DOMAIN frames', i < j
        PROVE  rank[frames'[i].atom] < rank[frames'[j].atom]
    <3>1. i + 1 < j + 1
      BY <2>5, <1>5
    <3> QED
      BY <3>1, <1>5, <1>11 DEF LevelFit
  <2>6. ASSUME NEW b \in NeededAtoms, layers[b] >= 0
        PROVE  layers'[b] = layers[b] /\ b # f.atom
    <3>1. b # f.atom
      BY <2>1, <2>6, <1>3 DEF FirstMarker
    <3> QED
      BY <3>1, <1>7
  <2>7. ASSUME NEW b \in NeededAtoms, layers'[b] >= 0, NEW e \in DependsOn(rules, default, b), e[1] \in NeededAtoms
        PROVE  layers'[e[1]] >= 0 /\ layers'[e[1]] + e[2] <= layers'[b]
    <3>1. CASE b = f.atom
      <4>1. e \in DependsOn(rules, default, frames[1].atom) \ frames[1].left
        BY <3>1, <2>7, <1>1, <1>2
      <4>2. layers[e[1]] >= 0 /\ layers[e[1]] + e[2] <= frames[1].level
        BY <4>1, <1>2, <1>11, <2>7 DEF LevelFit, CallsFit
      <4> QED
        BY <4>2, <3>1, <2>6, <2>7, <1>2, <1>7
    <3>2. CASE b # f.atom
      <4>1. layers'[b] = layers[b]
        BY <3>2, <1>7
      <4>2. layers[e[1]] >= 0 /\ layers[e[1]] + e[2] <= layers[b]
        BY <1>11, <2>7, <4>1 DEF LevelFit, FinishedFit
      <4> QED
        BY <2>6, <2>7, <4>1, <4>2
    <3> QED
      BY <3>1, <3>2
  <2>8. FinishedFit'
    BY <1>6, <2>7 DEF FinishedFit
  <2>9. ASSUME NEW i \in DOMAIN frames', NEW e \in DependsOn(rules, default, frames'[i].atom) \ frames'[i].left,
               e[1] \in NeededAtoms
        PROVE  \/ layers'[e[1]] >= 0 /\ layers'[e[1]] + e[2] <= frames'[i].level
               \/ i > 1 /\ frames'[i - 1].atom = e[1] /\ frames'[i].marker - frames'[i - 1].marker = e[2]
    <3>1. /\ i + 1 \in DOMAIN frames /\ i >= 1 /\ i \in Nat
          /\ frames'[i].level \in Nat /\ frames'[i].level >= frames[i + 1].level
          /\ frames[i + 1].level \in Nat
      <4>1. /\ i + 1 \in DOMAIN frames /\ i >= 1
            /\ frames'[i].level \in Nat /\ frames'[i].level >= frames[i + 1].level
        BY <1>5
      <4>2. i \in Nat
        BY <1>2, <1>5
      <4>3. frames[i + 1].level \in Nat
        BY <4>1, <1>1, FramesAre
      <4> QED
        BY <4>1, <4>2, <4>3
    <3>2. \/ layers[e[1]] >= 0 /\ layers[e[1]] + e[2] <= frames[i + 1].level
          \/ i + 1 > 1 /\ frames[(i + 1) - 1].atom = e[1] /\ frames[i + 1].marker - frames[(i + 1) - 1].marker = e[2]
      BY <3>1, <2>9, <1>5, <1>11 DEF LevelFit, CallsFit
    <3>3. CASE layers[e[1]] >= 0 /\ layers[e[1]] + e[2] <= frames[i + 1].level
      <4>1. e[2] \in {0, 1}
        BY <2>9, DependenciesAre DEF Dependency
      <4>2. layers[e[1]] \in Int
        BY <2>9 DEF LevelType
      <4> QED
        BY <3>1, <3>3, <2>6, <2>9, <4>1, <4>2
    <3>4. CASE frames[(i + 1) - 1].atom = e[1] /\ frames[i + 1].marker - frames[(i + 1) - 1].marker = e[2]
      <4>1. frames[i].atom = e[1] /\ frames[i + 1].marker - frames[i].marker = e[2]
        BY <3>1, <3>4
      <4>2. CASE i = 1
        <5>1. e[1] = f.atom /\ frames'[1].marker - f.marker = e[2] /\ 1 \in DOMAIN frames'
          BY <4>1, <4>2, <1>2, <1>5
        <5>2. layers'[e[1]] = f.level
          BY <5>1, <1>3, <1>7
        <5>3. frames'[1].level >= f.level + e[2]
          BY <5>1, <1>5
        <5>4. e[2] \in {0, 1}
          BY <2>9, DependenciesAre DEF Dependency
        <5> QED
          BY <5>2, <5>3, <5>4, <4>2, <3>1, <1>3
      <4>3. CASE i # 1
        <5>1. i - 1 \in DOMAIN frames' /\ (i - 1) + 1 = i /\ i > 1
          BY <4>3, <3>1, <1>5
        <5>2. frames'[i - 1].atom = frames[i].atom /\ frames'[i - 1].marker = frames[i].marker
          BY <5>1, <1>5
        <5> QED
          BY <5>1, <5>2, <4>1, <1>5
      <4> QED
        BY <4>2, <4>3
    <3> QED
      BY <3>2, <3>3, <3>4
  <2>10. CallsFit'
    BY <1>6, <2>9 DEF CallsFit
  <2> QED
    BY <1>6, <2>4, <2>5, <2>8, <2>10 DEF LevelFit
<1> QED
  BY <1>6, <1>10, <1>11

-----------------------------------------------------------------------------
(* The evaluator.                                                           *)

\* The literals that hold, those with the default value, those that rules read.
Holding == {l \in AxiomLiterals : l[1] \in true <=> l[2] = TRUE}
Standing(l) == l[2] = TRUE <=> l[1] \in default
ReadLiterals == UNION {r.cond : r \in rules}

\* What has been in the queue.
Pushed(l) ==
  l \in Holding /\ (l[1] \in Base \/ ~Standing(l) \/ (layers[l[1]] < layer /\ ~Over(layers[l[1]] + 1)))

Queued == {queue[i] : i \in DOMAIN queue}
Waiting(r) == {l \in r.cond : ~Pushed(l) \/ l \in Queued}

\* A rule that changes a value waits for the layer of what it reads, and for the end
\* of that layer if it reads a default.
LayersFit ==
  \A r \in rules : ~Standing(r.effect) =>
    \A c \in r.cond : c[1] \in NeededAtoms =>
      layers[c[1]] + (IF Standing(c) THEN 1 ELSE 0) <= layers[r.effect[1]]

DefaultsUnread == \A l \in ReadLiterals : l[1] \in NeededAtoms => ~Standing(l)
Fitting == LayersFit \/ DefaultsUnread
PositiveOnly == \A l \in Needed : l[2] = TRUE

\* What has been deduced is about the needed atoms, and the base atoms stay as they are.
EvalType ==
  /\ true \cap Base = world /\ true \subseteq Base \cup NeededAtoms
  /\ layer \in Nat /\ queue \in Seq(AxiomLiterals)
  /\ unsatisfied \in [rules -> Int] /\ ready \subseteq rules
  /\ layer > 0 /\ Over(layer) => queue = << >> /\ ready = {}

\* Each counter is the number of the conditions that have not been taken from the queue.
Counted == \A r \in rules : unsatisfied[r] = Cardinality(Waiting(r))

\* What is in the queue has come, and is there once.
QueueIs ==
  \A i \in DOMAIN queue, l \in ReadLiterals : queue[i] = l =>
    Pushed(l) /\ \A j \in DOMAIN queue : queue[j] = l => j = i

\* A rule has fired once its conditions have come.
Done ==
  /\ \A r \in ready : unsatisfied[r] = 0
  /\ \A r \in rules \ ready : unsatisfied[r] = 0 => r.effect \in Holding

\* A value that is not the default has a rule whose conditions have all come.
Supported ==
  \A a \in NeededAtoms : ~(a \in true <=> a \in default) =>
    \E r \in rules : r.effect[1] = a /\ ~Standing(r.effect) /\ \A c \in r.cond : Pushed(c)

\* The layers before this one are finished.
Closed ==
  LayersFit =>
    \A r \in rules : ~Standing(r.effect) /\ layers[r.effect[1]] < layer /\ r.cond \subseteq Holding => r.effect \in Holding

\* Nothing is deduced that is not in every set the axioms allow.
Inside ==
  PositiveOnly => \A D \in SUBSET NeededAtoms : Following(D) = D => true \cap NeededAtoms \subseteq D

Evaluating == EvalType /\ Counted /\ QueueIs /\ Done /\ Supported /\ Closed /\ Inside

LayersKnown == \A a \in NeededAtoms : layers[a] \in Nat

\* What the rules are about and what they read.
LEMMA RulesAre ==
  ASSUME Source, Static, NEW r \in rules
  PROVE  /\ r.effect \in Needed /\ r.effect \in AxiomLiterals /\ r.effect[1] \in NeededAtoms /\ r.effect[1] \notin Base
         /\ r.cond \subseteq AxiomLiterals /\ IsFiniteSet(r.cond)
         /\ \A c \in r.cond : c \in ReadLiterals /\ (c[1] \in Base \/ (c \in Needed /\ c[1] \in NeededAtoms))
<1>1. /\ r.effect \in Needed /\ r.cond \subseteq AxiomLiterals
      /\ \A c \in r.cond : c[1] \in Base \/ c \in Needed
  BY DEF Static, Faithful
<1>2. r.effect \in AxiomLiterals /\ r.effect[1] \in NeededAtoms /\ r.effect[1] \notin Base
  BY <1>1, NeededIs
<1>3. IsFiniteSet(r.cond)
  BY <1>1, LiteralsFinite
<1>4. \A c \in r.cond : c \in ReadLiterals
  BY DEF ReadLiterals
<1>5. \A c \in Needed : c[1] \in NeededAtoms
  BY NeededIs
<1> QED
  BY <1>1, <1>2, <1>3, <1>4, <1>5

\* What rules read is a base literal or needed.
LEMMA ReadAre ==
  ASSUME Source, Static, NEW l \in ReadLiterals
  PROVE  l \in AxiomLiterals /\ (l[1] \in Base \/ (l \in Needed /\ l[1] \in NeededAtoms))
BY RulesAre DEF ReadLiterals

\* The rules for a literal say what the axioms say.
LEMMA MeaningOf ==
  ASSUME Source, Static, NEW l \in Needed
  PROVE  (\E r \in rules : r.effect = l /\ r.cond \subseteq Holding) <=> Makes(program, l, Holding)
<1>1. Holding \in SUBSET AxiomLiterals
  BY DEF Holding
<1> QED
  BY <1>1 DEF Static, Faithful

\* A rule and the opposite one never both have their conditions.
LEMMA NeverBoth ==
  ASSUME Source, Static, NEW r \in rules, NEW s \in rules, r.effect[1] = s.effect[1],
         r.cond \subseteq Holding, s.cond \subseteq Holding
  PROVE  r.effect = s.effect
<1>1. ASSUME NEW p \in rules, NEW q \in rules, p.effect[1] = q.effect[1], p.effect[2] = TRUE, q.effect[2] = FALSE,
             p.cond \subseteq Holding, q.cond \subseteq Holding
      PROVE  FALSE
  <2>1. p.effect \in Needed /\ q.effect \in Needed
    BY RulesAre
  <2>2. Makes(program, p.effect, Holding) /\ Makes(program, q.effect, Holding)
    BY <1>1, <2>1, MeaningOf
  <2>3. PICK i \in DOMAIN program : program[i].effect[1] = p.effect[1] /\ program[i].cond \subseteq Holding
    BY <1>1, <2>2 DEF Makes
  <2>4. PICK c \in program[i].cond : Not(c) \in Holding
    BY <1>1, <2>2, <2>3 DEF Makes
  <2>5. c \in Holding /\ c \in AxiomLiterals
    BY <2>3, <2>4 DEF Holding
  <2>6. Not(c)[1] = c[1] /\ Not(c)[2] = ~c[2]
    BY <2>5, NotIs
  <2>7. c[2] = TRUE \/ c[2] = FALSE
    BY <2>5, LiteralIs
  <2> QED
    BY <2>4, <2>5, <2>6, <2>7 DEF Holding
<1>2. r.effect \in AxiomLiterals /\ s.effect \in AxiomLiterals
  BY RulesAre
<1>3. (r.effect[2] = TRUE /\ r.effect = <<r.effect[1], TRUE>>) \/ (r.effect[2] = FALSE /\ r.effect = <<r.effect[1], FALSE>>)
  BY <1>2, LiteralIs
<1>4. (s.effect[2] = TRUE /\ s.effect = <<s.effect[1], TRUE>>) \/ (s.effect[2] = FALSE /\ s.effect = <<s.effect[1], FALSE>>)
  BY <1>2, LiteralIs
<1> QED
  BY <1>1, <1>3, <1>4

\* A counter at zero means that all conditions have come, and hold.
LEMMA WaitingIs ==
  ASSUME Source, Static, Counted, NEW r \in rules
  PROVE  /\ IsFiniteSet(Waiting(r)) /\ Cardinality(Waiting(r)) \in Nat
         /\ unsatisfied[r] = 0 => (\A c \in r.cond : Pushed(c) /\ c \notin Queued) /\ r.cond \subseteq Holding
<1>1. Waiting(r) \in SUBSET r.cond
  BY DEF Waiting
<1>2. IsFiniteSet(Waiting(r)) /\ Cardinality(Waiting(r)) \in Nat
  BY <1>1, RulesAre, FS_Subset, FS_CardinalityType
<1>3. ASSUME unsatisfied[r] = 0 PROVE Waiting(r) = {}
  BY <1>2, <1>3, FS_EmptySet DEF Counted
<1>4. ASSUME Waiting(r) = {} PROVE \A c \in r.cond : Pushed(c) /\ c \notin Queued
  BY <1>4 DEF Waiting
<1>5. \A c : Pushed(c) => c \in Holding
  BY DEF Pushed
<1> QED
  BY <1>2, <1>3, <1>4, <1>5

\* Evaluation leaves alone what the translation fixed.
LEMMA FixedAfter ==
  ASSUME UNCHANGED <<program, readers, rules, default, layers>>
  PROVE  /\ (Source' <=> Source) /\ (Static' <=> Static) /\ NeededAtoms' = NeededAtoms /\ Needed' = Needed
         /\ (LayersKnown' <=> LayersKnown) /\ (LayersFit' <=> LayersFit) /\ (DefaultsUnread' <=> DefaultsUnread)
         /\ (PositiveOnly' <=> PositiveOnly) /\ ReadLiterals' = ReadLiterals
         /\ (\A l : Standing(l)' <=> Standing(l)) /\ (\A n : Over(n)' <=> Over(n))
<1>1. NeededAtoms' = NeededAtoms /\ Needed' = Needed
  BY DEF NeededAtoms, Needed
<1>2. \A l : Standing(l)' <=> Standing(l)
  BY DEF Standing
<1>3. (Source' <=> Source) /\ (Static' <=> Static) /\ (LayersKnown' <=> LayersKnown) /\ (PositiveOnly' <=> PositiveOnly)
  BY <1>1 DEF Source, Static, LayersKnown, PositiveOnly
<1>4. ReadLiterals' = ReadLiterals
  BY DEF ReadLiterals
<1>5. (LayersFit' <=> LayersFit) /\ (DefaultsUnread' <=> DefaultsUnread)
  BY <1>1, <1>2, <1>4 DEF LayersFit, DefaultsUnread, Standing
<1>6. \A n : Over(n)' <=> Over(n)
  BY DEF Over
<1> QED
  BY <1>1, <1>2, <1>3, <1>4, <1>5, <1>6

\* Membership compared with a Boolean.
LEMMA SameSign ==
  ASSUME NEW A, NEW a, NEW b, b \in BOOLEAN
  PROVE  (a \in A) = b <=> (a \in A <=> b = TRUE)
OBVIOUS

\* A sequence and one more.
LEMMA AppendedIs ==
  ASSUME NEW S, NEW s \in Seq(S), NEW x \in S
  PROVE  /\ Append(s, x) \in Seq(S) /\ Len(s) \in Nat
         /\ DOMAIN s = 1..Len(s) /\ DOMAIN Append(s, x) = 1..(Len(s) + 1)
         /\ (\A i \in DOMAIN s : Append(s, x)[i] = s[i]) /\ Append(s, x)[Len(s) + 1] = x
OBVIOUS

\* What the axioms make hold of the needed atoms follows from every set that is closed.
LEMMA InsideStays ==
  ASSUME Source, Static, PositiveOnly, EvalType, NEW r \in rules, r.cond \subseteq Holding,
         NEW D \in SUBSET NeededAtoms, Following(D) = D, true \cap NeededAtoms \subseteq D
  PROVE  r.effect[1] \in D
<1>1. r.effect \in Needed /\ r.effect[2] = TRUE /\ r.effect[1] \in NeededAtoms
  BY RulesAre DEF PositiveOnly
<1>2. Makes(program, r.effect, Holding)
  BY <1>1, MeaningOf
<1>3. PICK i \in DOMAIN program : program[i].effect[1] = r.effect[1] /\ program[i].cond \subseteq Holding
  BY <1>1, <1>2 DEF Makes
<1>4. Needs(program[i], r.effect) = program[i].cond
  BY <1>1 DEF Needs
<1>5. \A c \in program[i].cond : c[1] \in Base \/ c \in Needed
  BY <1>1, <1>3, <1>4, NecessaryIs DEF Source, Needed
<1>6. ASSUME NEW c \in program[i].cond PROVE (c[1] \in world \cup D) = c[2]
  <2>1. c \in AxiomLiterals /\ (c[1] \in true <=> c[2] = TRUE)
    BY <1>3 DEF Holding
  <2>2. c[2] = TRUE \/ c[2] = FALSE
    BY <2>1, LiteralIs
  <2>3. CASE c[1] \in Base
    <3>1. c[1] \notin D
      BY <2>3, NeededIs
    <3>2. c[1] \in world <=> c[1] \in true
      BY <2>3 DEF EvalType
    <3>3. c[1] \in world \cup D <=> c[2] = TRUE
      BY <2>1, <3>1, <3>2
    <3> QED
      BY <2>2, <3>3, SameSign
  <2>4. CASE c[1] \notin Base
    <3>1. c \in Needed /\ c[1] \in NeededAtoms
      BY <2>4, <1>5, NeededIs
    <3>2. c[2] = TRUE
      BY <3>1 DEF PositiveOnly
    <3>3. c[1] \in D
      BY <2>1, <3>1, <3>2
    <3>4. c[1] \in world \cup D <=> c[2] = TRUE
      BY <3>2, <3>3
    <3> QED
      BY <2>2, <3>4, SameSign
  <2> QED
    BY <2>3, <2>4
<1>7. r.effect[1] \in Following(D)
  BY <1>1, <1>3, <1>6 DEF Following
<1> QED
  BY <1>7

\* A rule fires.  Its value is not the default, or Supported has a rule for the other one;
\* it was not looked at before, or its layer was closed.
LEMMA FireKeeps ==
  ASSUME Source, Static, LayersKnown, Fitting, Evaluating, Fire
  PROVE  Evaluating'
<1>1. PICK r \in ready :
        /\ ready' = ready \ {r}
        /\ IF (r.effect[1] \in true) = r.effect[2] THEN UNCHANGED <<true, queue>>
           ELSE /\ true' = (IF r.effect[2] THEN true \cup {r.effect[1]} ELSE true \ {r.effect[1]})
                /\ queue' = Append(queue, r.effect)
  BY DEF Fire
<1>2. UNCHANGED <<program, readers, rules, default, layers>> /\ UNCHANGED <<world, unsatisfied, layer>>
  BY DEF Fire
<1>3. /\ NeededAtoms' = NeededAtoms /\ Needed' = Needed /\ (LayersFit' <=> LayersFit) /\ (PositiveOnly' <=> PositiveOnly)
      /\ ReadLiterals' = ReadLiterals /\ (\A l : Standing(l)' <=> Standing(l)) /\ (\A n : Over(n)' <=> Over(n))
  BY <1>2, FixedAfter
<1>4. r \in rules /\ unsatisfied[r] = 0
  BY DEF Evaluating, EvalType, Done
<1>5. (\A c \in r.cond : Pushed(c)) /\ r.cond \subseteq Holding
  BY <1>4, WaitingIs DEF Evaluating
<1> DEFINE e == r.effect
           a == e[1]
<1>6. /\ e \in Needed /\ e \in AxiomLiterals /\ a \in NeededAtoms /\ a \notin Base
      /\ ((e[2] = TRUE /\ e = <<a, TRUE>>) \/ (e[2] = FALSE /\ e = <<a, FALSE>>))
  BY <1>4, RulesAre, LiteralIs
<1>7. \A D : Following(D)' = Following(D)
  BY <1>2, <1>3 DEF Following
<1>8. CASE (a \in true) = e[2]
  <2>1. UNCHANGED <<true, queue>>
    BY <1>1, <1>8
  <2>2. e \in Holding
    BY <1>6, <1>8 DEF Holding
  <2>3. Holding' = Holding /\ Queued' = Queued
    BY <2>1 DEF Holding, Queued
  <2>4. \A l : Pushed(l)' <=> Pushed(l)
    BY <1>2, <1>3, <2>3 DEF Pushed
  <2>5. \A s : Waiting(s)' = Waiting(s)
    BY <2>3, <2>4 DEF Waiting
  <2>6. EvalType'
    BY <1>1, <1>2, <1>3, <2>1 DEF Evaluating, EvalType
  <2>7. Counted'
    BY <1>2, <2>5 DEF Evaluating, Counted
  <2>8. QueueIs'
    BY <1>3, <2>1, <2>4 DEF Evaluating, QueueIs
  <2>9. Done'
    BY <1>1, <1>2, <2>2, <2>3 DEF Evaluating, Done
  <2>10. Supported'
    BY <1>2, <1>3, <2>1, <2>4 DEF Evaluating, Supported
  <2>11. Closed'
    BY <1>2, <1>3, <2>3 DEF Evaluating, Closed
  <2>12. Inside'
    BY <1>3, <1>7, <2>1 DEF Evaluating, Inside
  <2> QED
    BY <2>6, <2>7, <2>8, <2>9, <2>10, <2>11, <2>12 DEF Evaluating
<1>9. CASE ~((a \in true) = e[2])
  <2>1. /\ true' = (IF e[2] THEN true \cup {a} ELSE true \ {a})
        /\ queue' = Append(queue, e)
    BY <1>1, <1>9
  <2>3. a \in true <=> e[2] = FALSE
    <3>1. ~(a \in true <=> e[2] = TRUE)
      BY <1>6, <1>9, SameSign
    <3> QED
      BY <1>6, <3>1
  <2>2. e \notin Holding
    BY <1>6, <2>3 DEF Holding
  <2>4. a \in true' <=> e[2] = TRUE
    BY <1>6, <2>1
  <2>5. \A b : b # a => (b \in true' <=> b \in true)
    BY <1>6, <2>1
  <2>6. true' \subseteq true \cup {a}
    BY <1>6, <2>1
  <2>7. ~Standing(e)
    <3> SUFFICES ASSUME Standing(e) PROVE FALSE
      OBVIOUS
    <3>1. ~(a \in true <=> a \in default)
      BY <2>3, <1>6 DEF Standing
    <3>2. PICK s \in rules : s.effect[1] = a /\ ~Standing(s.effect) /\ \A c \in s.cond : Pushed(c)
      BY <3>1, <1>6 DEF Evaluating, Supported
    <3>3. s.cond \subseteq Holding
      BY <3>2 DEF Pushed
    <3>4. s.effect = r.effect
      BY <3>2, <3>3, <1>4, <1>5, NeverBoth
    <3> QED
      BY <3>2, <3>4
  <2>8. (a \in true <=> a \in default) /\ ~(a \in true' <=> a \in default)
    BY <2>3, <2>4, <2>7, <1>6 DEF Standing
  <2>9. LayersFit => ~(layers[a] < layer)
    BY <2>2, <2>7, <1>4, <1>5 DEF Evaluating, Closed
  <2>10. \A l \in AxiomLiterals : l[1] # a => (l \in Holding' <=> l \in Holding)
    BY <2>5 DEF Holding
  <2>11. \A l \in AxiomLiterals : l[1] = a => ((l \in Holding' <=> l = e) /\ (l \in Holding <=> l # e))
    <3> SUFFICES ASSUME NEW l \in AxiomLiterals, l[1] = a PROVE (l \in Holding' <=> l = e) /\ (l \in Holding <=> l # e)
      OBVIOUS
    <3>1. (l[2] = TRUE /\ l = <<a, TRUE>>) \/ (l[2] = FALSE /\ l = <<a, FALSE>>)
      BY LiteralIs
    <3>2. l = e <=> (l[2] = TRUE <=> e[2] = TRUE)
      BY <3>1, <1>6
    <3>3. l \in Holding' <=> (a \in true' <=> l[2] = TRUE)
      BY DEF Holding
    <3>4. l \in Holding <=> (a \in true <=> l[2] = TRUE)
      BY DEF Holding
    <3> QED
      BY <3>1, <3>2, <3>3, <3>4, <2>3, <2>4, <1>6
  <2>12. \A l \in AxiomLiterals : l[1] = a /\ l # e => Standing(l)
    <3> SUFFICES ASSUME NEW l \in AxiomLiterals, l[1] = a, l # e PROVE Standing(l)
      OBVIOUS
    <3>1. (l[2] = TRUE /\ l = <<a, TRUE>>) \/ (l[2] = FALSE /\ l = <<a, FALSE>>)
      BY LiteralIs
    <3> QED
      BY <3>1, <1>6, <2>7 DEF Standing
  <2>13. ~Pushed(e) /\ Pushed(e)'
    BY <2>2, <2>7, <2>11, <1>3, <1>6 DEF Pushed
  <2>14. ASSUME NEW l \in ReadLiterals, l # e PROVE Pushed(l)' <=> Pushed(l)
    <3>1. l \in AxiomLiterals
      BY ReadAre
    <3>2. CASE l[1] # a
      BY <3>1, <3>2, <2>10, <1>2, <1>3 DEF Pushed
    <3>3. CASE l[1] = a
      <4>1. l \notin Holding' /\ Standing(l)
        BY <3>1, <3>3, <2>11, <2>12, <2>14
      <4>2. ~Pushed(l)'
        BY <4>1 DEF Pushed
      <4>3. ~DefaultsUnread
        BY <4>1, <3>3, <1>6 DEF DefaultsUnread
      <4>4. ~(layers[a] < layer)
        BY <4>3, <2>9 DEF Fitting
      <4>5. ~Pushed(l)
        BY <4>1, <4>4, <3>3, <1>6 DEF Pushed
      <4> QED
        BY <4>2, <4>5
    <3> QED
      BY <3>2, <3>3
  <2>15. /\ queue \in Seq(AxiomLiterals) /\ queue' \in Seq(AxiomLiterals)
         /\ Len(queue) \in Nat /\ DOMAIN queue = 1..Len(queue) /\ DOMAIN queue' = 1..(Len(queue) + 1)
         /\ (\A i \in DOMAIN queue : queue'[i] = queue[i]) /\ queue'[Len(queue) + 1] = e
    <3>1. queue \in Seq(AxiomLiterals)
      BY DEF Evaluating, EvalType
    <3>2. queue' = Append(queue, e) /\ e \in AxiomLiterals
      BY <2>1, <1>6
    <3> HIDE DEF e
    <3> QED
      BY <3>1, <3>2, AppendedIs
  <2>16. \A i \in DOMAIN queue' : i \in DOMAIN queue \/ i = Len(queue) + 1
    BY <2>15
  <2>17. Queued' = Queued \cup {e}
    <3>1. \A l : l \in Queued' => l \in Queued \/ l = e
      BY <2>15, <2>16 DEF Queued
    <3>2. \A l : l \in Queued => l \in Queued'
      BY <2>15 DEF Queued
    <3>3. e \in Queued'
      BY <2>15 DEF Queued
    <3> QED
      BY <3>1, <3>2, <3>3
  <2>18. ASSUME NEW s \in rules PROVE Waiting(s)' = Waiting(s)
    <3>1. \A c \in s.cond : c \in ReadLiterals
      BY DEF ReadLiterals
    <3>2. \A c \in s.cond : (~Pushed(c)' \/ c \in Queued') <=> (~Pushed(c) \/ c \in Queued)
      BY <3>1, <2>13, <2>14, <2>17
    <3> QED
      BY <3>2, <1>2 DEF Waiting
  <2>19. \A s \in rules : \A c \in s.cond : Pushed(c) => Pushed(c)'
    BY <2>13, <2>14 DEF ReadLiterals
  <2>20. EvalType'
    <3>1. true' \cap Base = world' /\ true' \subseteq Base \cup NeededAtoms
      BY <1>2, <1>6, <2>5, <2>6 DEF Evaluating, EvalType
    <3>2. layer' > 0 /\ Over(layer)' => FALSE
      <4>1. Over(layer)' <=> Over(layer)
        BY <1>2 DEF Over
      <4> QED
        BY <4>1, <1>2 DEF Evaluating, EvalType
    <3> QED
      BY <1>1, <1>2, <1>3, <2>15, <3>1, <3>2 DEF Evaluating, EvalType
  <2>21. Counted'
    BY <1>2, <2>18 DEF Evaluating, Counted
  <2>22. QueueIs'
    <3> SUFFICES ASSUME NEW i \in DOMAIN queue', NEW l \in ReadLiterals, queue'[i] = l
                 PROVE  Pushed(l)' /\ \A j \in DOMAIN queue' : queue'[j] = l => j = i
      BY <1>3 DEF QueueIs
    <3>1. \A k \in DOMAIN queue : queue[k] = l => Pushed(l) /\ l # e
      BY <2>13 DEF Evaluating, QueueIs
    <3>2. CASE i \in DOMAIN queue
      <4>1. queue[i] = l /\ Pushed(l) /\ l # e
        BY <3>1, <3>2, <2>15
      <4>2. Pushed(l)'
        BY <4>1, <2>14
      <4>3. ASSUME NEW j \in DOMAIN queue', queue'[j] = l PROVE j = i
        <5>1. j \in DOMAIN queue
          BY <4>1, <4>3, <2>15, <2>16
        <5> QED
          BY <5>1, <4>1, <4>3, <3>2, <2>15 DEF Evaluating, QueueIs
      <4> QED
        BY <4>2, <4>3
    <3>3. CASE i = Len(queue) + 1
      <4>1. l = e
        BY <3>3, <2>15
      <4>2. Pushed(l)'
        BY <4>1, <2>13
      <4>3. ASSUME NEW j \in DOMAIN queue', queue'[j] = l PROVE j = i
        <5>1. j \notin DOMAIN queue
          BY <3>1, <4>1, <4>3, <2>15
        <5> QED
          BY <5>1, <2>16, <3>3
      <4> QED
        BY <4>2, <4>3
    <3> QED
      BY <3>2, <3>3, <2>16
  <2>23. Done'
    <3>1. \A s \in ready' : unsatisfied'[s] = 0
      BY <1>1, <1>2 DEF Evaluating, Done
    <3>2. ASSUME NEW s \in rules, s \notin ready', unsatisfied[s] = 0 PROVE s.effect \in Holding'
      <4>1. CASE s = r
        BY <4>1, <2>11, <1>6
      <4>2. CASE s # r
        <5>1. s.effect \in Holding /\ s.cond \subseteq Holding
          BY <3>2, <4>2, <1>1, WaitingIs DEF Evaluating, Done
        <5>2. s.effect[1] # a
          BY <5>1, <2>2, <1>4, <1>5, NeverBoth
        <5>3. s.effect \in AxiomLiterals
          BY RulesAre
        <5> QED
          BY <5>1, <5>2, <5>3, <2>10
      <4> QED
        BY <4>1, <4>2
    <3> QED
      BY <3>1, <3>2, <1>2 DEF Done
  <2>24. Supported'
    <3> SUFFICES ASSUME NEW b \in NeededAtoms, ~(b \in true' <=> b \in default)
                 PROVE  \E s \in rules : s.effect[1] = b /\ ~Standing(s.effect) /\ \A c \in s.cond : Pushed(c)'
      BY <1>2, <1>3 DEF Supported
    <3>1. CASE b = a
      BY <3>1, <1>4, <1>5, <2>7, <2>19
    <3>2. CASE b # a
      <4>1. ~(b \in true <=> b \in default)
        BY <3>2, <2>5
      <4>2. PICK s \in rules : s.effect[1] = b /\ ~Standing(s.effect) /\ \A c \in s.cond : Pushed(c)
        BY <4>1 DEF Evaluating, Supported
      <4> QED
        BY <4>2, <2>19
    <3> QED
      BY <3>1, <3>2
  <2>25. Closed'
    <3> SUFFICES ASSUME LayersFit, NEW s \in rules, ~Standing(s.effect), layers[s.effect[1]] < layer, s.cond \subseteq Holding'
                 PROVE  s.effect \in Holding'
      BY <1>2, <1>3 DEF Closed
    <3>1. e \notin s.cond
      <4> SUFFICES ASSUME e \in s.cond PROVE FALSE
        OBVIOUS
      <4>1. layers[a] + 0 <= layers[s.effect[1]]
        BY <1>6, <2>7 DEF LayersFit
      <4>2. layers[a] \in Nat /\ layers[s.effect[1]] \in Nat /\ layer \in Nat
        BY <1>6, RulesAre DEF LayersKnown, Evaluating, EvalType
      <4> QED
        BY <4>1, <4>2, <2>9
    <3>2. s.cond \subseteq Holding
      <4> SUFFICES ASSUME NEW c \in s.cond PROVE c \in Holding
        OBVIOUS
      <4>1. c \in AxiomLiterals /\ c \in Holding' /\ c # e
        BY <3>1, RulesAre
      <4> QED
        BY <4>1, <2>10, <2>11
    <3>3. s.effect \in Holding /\ s.effect \in AxiomLiterals
      BY <3>2, RulesAre DEF Evaluating, Closed
    <3> QED
      BY <3>3, <2>10, <2>11, <2>12
  <2>26. Inside'
    <3> SUFFICES ASSUME PositiveOnly, NEW D \in SUBSET NeededAtoms, Following(D) = D
                 PROVE  true' \cap NeededAtoms \subseteq D
      BY <1>3, <1>7 DEF Inside
    <3>1. true \cap NeededAtoms \subseteq D
      BY DEF Evaluating, Inside
    <3>2. a \in D
      BY <3>1, <1>4, <1>5, InsideStays DEF Evaluating
    <3> QED
      BY <3>1, <3>2, <2>6
  <2> QED
    BY <2>20, <2>21, <2>22, <2>23, <2>24, <2>25, <2>26 DEF Evaluating
<1> QED
  BY <1>8, <1>9

\* A sequence without its head.
LEMMA TailIs ==
  ASSUME NEW S, NEW s \in Seq(S), s # << >>
  PROVE  /\ Tail(s) \in Seq(S) /\ Head(s) = s[1] /\ Head(s) \in S /\ 1 \in DOMAIN s
         /\ \A i \in DOMAIN Tail(s) : i + 1 \in DOMAIN s /\ i + 1 # 1 /\ Tail(s)[i] = s[i + 1]
         /\ \A i \in DOMAIN s : i # 1 => i - 1 \in DOMAIN Tail(s) /\ Tail(s)[i - 1] = s[i]
         /\ \A i, j \in DOMAIN Tail(s) : i + 1 = j + 1 => i = j
OBVIOUS

\* The head of the queue is counted.
LEMMA DeduceKeeps ==
  ASSUME Source, Static, LayersKnown, Fitting, Evaluating, Deduce
  PROVE  Evaluating'
<1> DEFINE h == Head(queue)
<1>1. /\ ready = {} /\ queue # << >> /\ ~Over(layer) /\ queue' = Tail(queue)
      /\ unsatisfied' = [r \in rules |-> unsatisfied[r] - (IF h \in r.cond THEN 1 ELSE 0)]
      /\ ready' = {r \in rules : h \in r.cond /\ unsatisfied[r] = 1}
  BY DEF Deduce
<1>2. UNCHANGED <<program, readers, rules, default, layers>> /\ UNCHANGED <<world, true, layer>>
  BY DEF Deduce
<1>3. /\ NeededAtoms' = NeededAtoms /\ Needed' = Needed /\ (LayersFit' <=> LayersFit) /\ (PositiveOnly' <=> PositiveOnly)
      /\ ReadLiterals' = ReadLiterals /\ (\A l : Standing(l)' <=> Standing(l)) /\ (\A n : Over(n)' <=> Over(n))
  BY <1>2, FixedAfter
<1>4. Holding' = Holding /\ \A D : Following(D)' = Following(D)
  BY <1>2, <1>3 DEF Holding, Following
<1>5. \A l : Pushed(l)' <=> Pushed(l)
  BY <1>2, <1>3, <1>4 DEF Pushed
<1>6. /\ queue \in Seq(AxiomLiterals) /\ queue' \in Seq(AxiomLiterals) /\ h = queue[1] /\ 1 \in DOMAIN queue
      /\ \A i \in DOMAIN queue' : i + 1 \in DOMAIN queue /\ i + 1 # 1 /\ queue'[i] = queue[i + 1]
      /\ \A i \in DOMAIN queue : i # 1 => i - 1 \in DOMAIN queue' /\ queue'[i - 1] = queue[i]
      /\ \A i, j \in DOMAIN queue' : i + 1 = j + 1 => i = j
  <2>1. queue \in Seq(AxiomLiterals)
    BY DEF Evaluating, EvalType
  <2> QED
    BY <2>1, <1>1, TailIs
<1> HIDE DEF h
<1>7. \A l \in ReadLiterals : l \in Queued' <=> l \in Queued /\ l # h
  <2> TAKE l \in ReadLiterals
  <2>1. ASSUME l \in Queued' PROVE l \in Queued /\ l # h
    <3>1. PICK i \in DOMAIN queue' : l = queue'[i]
      BY <2>1 DEF Queued
    <3>2. i + 1 \in DOMAIN queue /\ queue[i + 1] = l /\ i + 1 # 1
      BY <3>1, <1>6
    <3>3. queue[1] # l
      BY <3>2, <1>6 DEF Evaluating, QueueIs
    <3> QED
      BY <3>2, <3>3, <1>6 DEF Queued
  <2>2. ASSUME l \in Queued, l # h PROVE l \in Queued'
    <3>1. PICK i \in DOMAIN queue : l = queue[i]
      BY <2>2 DEF Queued
    <3>2. i # 1
      BY <3>1, <2>2, <1>6
    <3>3. i - 1 \in DOMAIN queue' /\ queue'[i - 1] = l
      BY <3>1, <3>2, <1>6
    <3> QED
      BY <3>3 DEF Queued
  <2> QED
    BY <2>1, <2>2
<1>8. h \in Queued /\ (h \in ReadLiterals => Pushed(h))
  BY <1>6 DEF Queued, Evaluating, QueueIs
<1>9. ASSUME NEW s \in rules PROVE Waiting(s)' = Waiting(s) \ {h}
  <2>1. ASSUME NEW c \in s.cond PROVE (~Pushed(c)' \/ c \in Queued') <=> ((~Pushed(c) \/ c \in Queued) /\ c # h)
    <3>1. c \in ReadLiterals
      BY DEF ReadLiterals
    <3> QED
      BY <3>1, <1>5, <1>7, <1>8
  <2> QED
    BY <2>1, <1>2 DEF Waiting
<1>10. ASSUME NEW s \in rules
       PROVE  unsatisfied[s] = Cardinality(Waiting(s)) /\ unsatisfied'[s] = Cardinality(Waiting(s)')
  <2>1. unsatisfied[s] = Cardinality(Waiting(s))
    BY DEF Evaluating, Counted
  <2>2. unsatisfied'[s] = unsatisfied[s] - (IF h \in s.cond THEN 1 ELSE 0)
    BY <1>1
  <2>3. IsFiniteSet(Waiting(s)) /\ Cardinality(Waiting(s)) \in Nat
    BY WaitingIs DEF Evaluating
  <2>4. Cardinality(Waiting(s) \ {h}) = IF h \in Waiting(s) THEN Cardinality(Waiting(s)) - 1 ELSE Cardinality(Waiting(s))
    BY <2>3, FS_RemoveElement
  <2>5. h \in Waiting(s) <=> h \in s.cond
    BY <1>8 DEF Waiting
  <2>6. CASE h \in s.cond
    <3>1. unsatisfied'[s] = Cardinality(Waiting(s)) - 1
      BY <2>1, <2>2, <2>6
    <3>2. Cardinality(Waiting(s) \ {h}) = Cardinality(Waiting(s)) - 1
      BY <2>4, <2>5, <2>6
    <3> QED
      BY <3>1, <3>2, <2>1, <1>9
  <2>7. CASE h \notin s.cond
    <3>1. unsatisfied'[s] = Cardinality(Waiting(s))
      BY <2>1, <2>2, <2>3, <2>7
    <3>2. Cardinality(Waiting(s) \ {h}) = Cardinality(Waiting(s))
      BY <2>4, <2>5, <2>7
    <3> QED
      BY <3>1, <3>2, <2>1, <1>9
  <2> QED
    BY <2>6, <2>7
<1>11. EvalType'
  <2>1. unsatisfied' \in [rules' -> Int]
    <3>1. \A s \in rules : unsatisfied[s] - (IF h \in s.cond THEN 1 ELSE 0) \in Int
      BY DEF Evaluating, EvalType
    <3> QED
      BY <3>1, <1>1, <1>2
  <2>2. ready' \subseteq rules'
    BY <1>1, <1>2
  <2>3. ~Over(layer)'
    BY <1>1, <1>2 DEF Over
  <2> QED
    BY <2>1, <2>2, <2>3, <1>2, <1>3, <1>6 DEF Evaluating, EvalType
<1>12. Counted'
  BY <1>2, <1>10 DEF Counted
<1>13. QueueIs'
  <2> SUFFICES ASSUME NEW i \in DOMAIN queue', NEW l \in ReadLiterals, queue'[i] = l
               PROVE  Pushed(l)' /\ \A j \in DOMAIN queue' : queue'[j] = l => j = i
    BY <1>3 DEF QueueIs
  <2>1. i + 1 \in DOMAIN queue /\ queue[i + 1] = l
    BY <1>6
  <2>2. Pushed(l) /\ \A j \in DOMAIN queue : queue[j] = l => j = i + 1
    BY <2>1 DEF Evaluating, QueueIs
  <2>3. ASSUME NEW j \in DOMAIN queue', queue'[j] = l PROVE j = i
    <3>1. j + 1 \in DOMAIN queue /\ queue[j + 1] = l
      BY <2>3, <1>6
    <3>2. j + 1 = i + 1
      BY <3>1, <2>2
    <3> QED
      BY <3>2, <1>6
  <2> QED
    BY <2>2, <2>3, <1>5
<1>14. Done'
  <2>1. \A s \in rules : unsatisfied'[s] = unsatisfied[s] - (IF h \in s.cond THEN 1 ELSE 0) /\ unsatisfied[s] \in Int
    BY <1>1 DEF Evaluating, EvalType
  <2>2. \A s \in ready' : unsatisfied'[s] = 0
    BY <2>1, <1>1
  <2>3. ASSUME NEW s \in rules, s \notin ready', unsatisfied'[s] = 0 PROVE s.effect \in Holding
    <3>1. h \notin s.cond
      BY <2>1, <2>3, <1>1
    <3>2. unsatisfied[s] = 0
      BY <2>1, <2>3, <3>1
    <3> QED
      BY <3>2, <1>1 DEF Evaluating, Done
  <2> QED
    BY <2>2, <2>3, <1>2, <1>4 DEF Done
<1>15. Supported'
  BY <1>2, <1>3, <1>5 DEF Evaluating, Supported
<1>16. Closed'
  BY <1>2, <1>3, <1>4 DEF Evaluating, Closed
<1>17. Inside'
  BY <1>2, <1>3, <1>4 DEF Evaluating, Inside
<1> QED
  BY <1>11, <1>12, <1>13, <1>14, <1>15, <1>16, <1>17 DEF Evaluating

\* What negation by failure adds holds and has its default value.
LEMMA FailingIs ==
  ASSUME Source, Static, NEW n
  PROVE  /\ Failing(n) \in SUBSET AxiomLiterals /\ IsFiniteSet(Failing(n))
         /\ \A l \in Failing(n) : l \in Holding /\ Standing(l) /\ l[1] \in NeededAtoms /\ layers[l[1]] = n
         /\ \A l \in Holding : Standing(l) /\ l[1] \in NeededAtoms /\ layers[l[1]] = n => l \in Failing(n)
<1>1. ASSUME NEW l \in Failing(n)
      PROVE  l \in AxiomLiterals /\ l \in Holding /\ Standing(l) /\ l[1] \in NeededAtoms /\ layers[l[1]] = n
  <2>1. PICK b \in DOMAIN layers : l = <<b, b \in default>> /\ layers[b] = n /\ (b \in true) = (b \in default)
    BY DEF Failing
  <2>2. b \in NeededAtoms /\ b \in Base \cup Derived
    BY <2>1, NeededIs DEF Static
  <2>3. l[1] = b /\ (l[2] = TRUE <=> b \in default)
    BY <2>1
  <2>4. l \in AxiomLiterals
    <3>1. b \in default \/ b \notin default
      OBVIOUS
    <3>2. CASE b \in default
      <4>1. l = <<b, TRUE>>
        BY <2>1, <3>2
      <4> QED
        BY <4>1, <2>2 DEF AxiomLiterals
    <3>3. CASE b \notin default
      <4>0. (b \in default) = FALSE
        BY <3>3
      <4>1. l = <<b, FALSE>>
        BY <2>1, <4>0
      <4> QED
        BY <4>1, <2>2 DEF AxiomLiterals
    <3> QED
      BY <3>1, <3>2, <3>3
  <2>5. b \in true <=> b \in default
    BY <2>1
  <2> QED
    BY <2>1, <2>2, <2>3, <2>4, <2>5 DEF Holding, Standing
<1>2. ASSUME NEW l \in Holding, Standing(l), l[1] \in NeededAtoms, layers[l[1]] = n PROVE l \in Failing(n)
  <2>1. l \in AxiomLiterals /\ (l[1] \in true <=> l[2] = TRUE)
    BY DEF Holding
  <2>2. l[1] \in default <=> l[2] = TRUE
    BY <1>2 DEF Standing
  <2>3. (l[2] = TRUE /\ l = <<l[1], TRUE>>) \/ (l[2] = FALSE /\ l = <<l[1], FALSE>>)
    BY <2>1, LiteralIs
  <2>4. l = <<l[1], l[1] \in default>>
    <3>1. CASE l[2] = TRUE
      <4>1. (l[1] \in default) = TRUE
        BY <2>2, <3>1
      <4> QED
        BY <2>3, <3>1, <4>1
    <3>2. CASE l[2] = FALSE
      <4>1. (l[1] \in default) = FALSE
        BY <2>2, <3>2
      <4> QED
        BY <2>3, <3>2, <4>1
    <3> QED
      BY <2>3, <3>1, <3>2
  <2>5. (l[1] \in true) = (l[1] \in default)
    BY <2>1, <2>2
  <2>6. l[1] \in DOMAIN layers
    BY <1>2 DEF Static
  <2> QED
    BY <2>4, <2>5, <2>6, <1>2 DEF Failing
<1>3. Failing(n) \in SUBSET AxiomLiterals
  BY <1>1
<1>4. IsFiniteSet(Failing(n))
  BY <1>3, LiteralsFinite
<1> QED
  BY <1>1, <1>2, <1>3, <1>4

\* The end of a layer.  Its rules whose conditions hold have fired: each condition was in
\* the queue, by layers that fit.
LEMMA FailLayerKeeps ==
  ASSUME Source, Static, LayersKnown, Fitting, Evaluating, FailLayer
  PROVE  Evaluating'
<1>1. /\ ready = {} /\ queue = << >> /\ ~Over(layer)
      /\ queue' = IF Over(layer + 1) THEN << >> ELSE SetToSeq(Failing(layer))
      /\ layer' = layer + 1
  BY DEF FailLayer
<1>2. UNCHANGED <<program, readers, rules, default, layers>> /\ UNCHANGED <<world, true, unsatisfied, ready>>
  BY DEF FailLayer
<1>3. /\ NeededAtoms' = NeededAtoms /\ Needed' = Needed /\ (LayersFit' <=> LayersFit) /\ (PositiveOnly' <=> PositiveOnly)
      /\ ReadLiterals' = ReadLiterals /\ (\A l : Standing(l)' <=> Standing(l)) /\ (\A n : Over(n)' <=> Over(n))
  BY <1>2, FixedAfter
<1>4. Holding' = Holding /\ \A D : Following(D)' = Following(D)
  BY <1>2, <1>3 DEF Holding, Following
<1>5. layer \in Nat /\ \A a \in NeededAtoms : layers[a] \in Nat
  BY DEF Evaluating, EvalType, LayersKnown
<1>6. /\ queue' \in Seq(AxiomLiterals)
      /\ \A i \in DOMAIN queue' : queue'[i] \in Failing(layer) /\ ~Over(layer + 1)
      /\ \A i, j \in DOMAIN queue' : queue'[i] = queue'[j] => i = j
      /\ ~Over(layer + 1) => \A l \in Failing(layer) : \E i \in DOMAIN queue' : queue'[i] = l
  <2>1. CASE Over(layer + 1)
    <3>1. queue' = << >>
      BY <1>1, <2>1
    <3>2. << >> \in Seq(AxiomLiterals) /\ DOMAIN << >> = {}
      OBVIOUS
    <3> QED
      BY <3>1, <3>2, <2>1
  <2>2. CASE ~Over(layer + 1)
    <3>1. queue' = SetToSeq(Failing(layer))
      BY <1>1, <2>2
    <3>2. Failing(layer) \in SUBSET AxiomLiterals /\ IsFiniteSet(Failing(layer))
      BY FailingIs
    <3>3. /\ queue' \in Seq(Failing(layer))
          /\ \A l \in Failing(layer) : \E i \in DOMAIN queue' : queue'[i] = l
          /\ \A i, j \in DOMAIN queue' : queue'[i] = queue'[j] => i = j
      BY <3>1, <3>2, SetToSeqLists
    <3>4. \A i \in DOMAIN queue' : queue'[i] \in Failing(layer)
      BY <3>3
    <3>5. queue' \in Seq(AxiomLiterals)
      BY <3>2, <3>3
    <3> QED
      BY <3>3, <3>4, <3>5, <2>2
  <2> QED
    BY <2>1, <2>2
<1>7. \A l : l \in Queued' => l \in Failing(layer) /\ ~Over(layer + 1)
  BY <1>6 DEF Queued
<1>8. \A l \in Failing(layer) : ~Over(layer + 1) => l \in Queued'
  BY <1>6 DEF Queued
<1>9. ASSUME NEW l \in ReadLiterals PROVE Pushed(l)' <=> (Pushed(l) \/ l \in Queued')
  <2>1. l \in AxiomLiterals /\ (l[1] \in Base \/ (l[1] \in NeededAtoms /\ l[1] \notin Base))
    BY ReadAre, NeededIs
  <2>2. Pushed(l)' <=> l \in Holding /\ (l[1] \in Base \/ ~Standing(l) \/ (layers[l[1]] < layer + 1 /\ ~Over(layers[l[1]] + 1)))
    BY <1>1, <1>2, <1>3, <1>4 DEF Pushed, Over
  <2>3. CASE l \notin Holding \/ l[1] \in Base \/ ~Standing(l)
    <3>1. l \notin Failing(layer)
      BY <2>3, FailingIs, NeededIs
    <3> QED
      BY <3>1, <2>2, <2>3, <1>7 DEF Pushed
  <2>4. CASE l \in Holding /\ l[1] \notin Base /\ Standing(l)
    <3>1. l[1] \in NeededAtoms /\ layers[l[1]] \in Nat
      BY <2>1, <2>4, <1>5
    <3>2. layers[l[1]] < layer + 1 <=> (layers[l[1]] < layer \/ layers[l[1]] = layer)
      BY <3>1, <1>5
    <3>3. l \in Failing(layer) <=> layers[l[1]] = layer
      BY <2>4, <3>1, FailingIs
    <3>4. layers[l[1]] = layer => (Over(layers[l[1]] + 1) <=> Over(layer + 1))
      OBVIOUS
    <3> QED
      BY <2>2, <2>4, <3>2, <3>3, <3>4, <1>7, <1>8 DEF Pushed
  <2> QED
    BY <2>3, <2>4
<1>10. ASSUME NEW l \in ReadLiterals, l \in Queued' PROVE ~Pushed(l)
  <2>1. l \in Failing(layer)
    BY <1>7, <1>10
  <2>2. Standing(l) /\ l[1] \notin Base /\ layers[l[1]] = layer
    BY <2>1, FailingIs, NeededIs
  <2> QED
    BY <2>2, <1>5 DEF Pushed
<1>11. Queued = {}
  BY <1>1 DEF Queued
<1>12. ASSUME NEW s \in rules PROVE Waiting(s)' = Waiting(s)
  <2>1. \A c \in s.cond : (~Pushed(c)' \/ c \in Queued') <=> (~Pushed(c) \/ c \in Queued)
    BY <1>9, <1>10, <1>11 DEF ReadLiterals
  <2> QED
    BY <2>1, <1>2 DEF Waiting
<1>13. \A s \in rules : \A c \in s.cond : Pushed(c) => Pushed(c)'
  BY <1>9 DEF ReadLiterals
<1>14. EvalType'
  <2>1. Over(layer)' => queue' = << >>
    <3>1. Over(layer)' <=> Over(layer + 1)
      BY <1>1, <1>2 DEF Over
    <3> QED
      BY <3>1, <1>1
  <2>2. true' \cap Base = world' /\ true' \subseteq Base \cup NeededAtoms'
    BY <1>2, <1>3 DEF Evaluating, EvalType
  <2>3. layer' \in Nat
    BY <1>1, <1>5
  <2>4. unsatisfied' \in [rules' -> Int] /\ ready' \subseteq rules' /\ ready' = {}
    BY <1>1, <1>2 DEF Evaluating, EvalType
  <2> QED
    BY <2>1, <2>2, <2>3, <2>4, <1>6 DEF EvalType
<1>15. Counted'
  BY <1>2, <1>12 DEF Evaluating, Counted
<1>16. QueueIs'
  <2> SUFFICES ASSUME NEW i \in DOMAIN queue', NEW l \in ReadLiterals, queue'[i] = l
               PROVE  Pushed(l)' /\ \A j \in DOMAIN queue' : queue'[j] = l => j = i
    BY <1>3 DEF QueueIs
  <2>1. l \in Queued'
    BY DEF Queued
  <2> QED
    BY <2>1, <1>6, <1>9
<1>17. Done'
  BY <1>2, <1>4 DEF Evaluating, Done
<1>18. Supported'
  <2> SUFFICES ASSUME NEW a \in NeededAtoms, ~(a \in true <=> a \in default)
               PROVE  \E s \in rules : s.effect[1] = a /\ ~Standing(s.effect) /\ \A c \in s.cond : Pushed(c)'
    BY <1>2, <1>3 DEF Supported
  <2>1. PICK s \in rules : s.effect[1] = a /\ ~Standing(s.effect) /\ \A c \in s.cond : Pushed(c)
    BY DEF Evaluating, Supported
  <2> QED
    BY <2>1, <1>13
<1>19. Closed'
  <2> SUFFICES ASSUME LayersFit, NEW s \in rules, ~Standing(s.effect), layers[s.effect[1]] < layer + 1, s.cond \subseteq Holding
               PROVE  s.effect \in Holding
    BY <1>1, <1>2, <1>3, <1>4 DEF Closed
  <2> DEFINE n == layers[s.effect[1]]
  <2>1. n \in Nat /\ s.effect[1] \in DOMAIN layers
    BY RulesAre, <1>5 DEF Static
  <2>2. CASE n < layer
    BY <2>2 DEF Evaluating, Closed
  <2>3. CASE n = layer
    <3>1. ASSUME NEW c \in s.cond PROVE Pushed(c)
      <4>1. c \in Holding /\ (c[1] \in Base \/ c[1] \in NeededAtoms)
        BY RulesAre
      <4>2. CASE c[1] \in Base \/ ~Standing(c)
        BY <4>1, <4>2 DEF Pushed
      <4>3. CASE c[1] \notin Base /\ Standing(c)
        <5>1. layers[c[1]] \in Nat /\ layers[c[1]] + 1 <= n
          BY <4>1, <4>3, <1>5 DEF LayersFit
        <5>2. layers[c[1]] < layer
          BY <5>1, <2>3, <1>5
        <5>3. ~Over(layers[c[1]] + 1)
          BY <5>1, <2>1 DEF Over
        <5> QED
          BY <4>1, <5>2, <5>3 DEF Pushed
      <4> QED
        BY <4>2, <4>3
    <3>2. Waiting(s) = {}
      BY <3>1, <1>11 DEF Waiting
    <3>3. unsatisfied[s] = 0
      BY <3>2, FS_EmptySet DEF Evaluating, Counted
    <3> QED
      BY <3>3, <1>1 DEF Evaluating, Done
  <2> QED
    BY <2>1, <2>2, <2>3, <1>5
<1>20. Inside'
  BY <1>2, <1>3, <1>4 DEF Evaluating, Inside
<1> QED
  BY <1>14, <1>15, <1>16, <1>17, <1>18, <1>19, <1>20 DEF Evaluating

\* A new state: whatever the last one left, the counters count and the queue is complete.
LEMMA EvaluateKeeps ==
  ASSUME Source, Static, LayersKnown, Evaluate
  PROVE  Evaluating'
<1>1. PICK w \in SUBSET Base : world' = w /\ true' = w \cup default /\ queue' = SetToSeq({<<a, a \in w>> : a \in Base})
  BY DEF Evaluate
<1>2. /\ unsatisfied' = [r \in rules |-> Cardinality(r.cond)]
      /\ ready' = {r \in rules : r.cond = {}} /\ layer' = 0
      /\ UNCHANGED <<program, readers, rules, default, layers>>
  BY DEF Evaluate
<1>3. /\ NeededAtoms' = NeededAtoms /\ Needed' = Needed /\ (LayersFit' <=> LayersFit) /\ (PositiveOnly' <=> PositiveOnly)
      /\ ReadLiterals' = ReadLiterals /\ (\A l : Standing(l)' <=> Standing(l)) /\ (\A n : Over(n)' <=> Over(n))
  BY <1>2, FixedAfter
<1>4. NeededAtoms \cap Base = {} /\ default \subseteq NeededAtoms
  BY NeededIs DEF Static, Faithful
<1> DEFINE start == {<<a, a \in w>> : a \in Base}
<1>5. ASSUME NEW l \in start PROVE l \in AxiomLiterals /\ l \in Holding' /\ l[1] \in Base
  <2>1. PICK a \in Base : l = <<a, a \in w>>
    OBVIOUS
  <2>2. a \in true' <=> a \in w
    BY <1>1, <1>4
  <2>3. CASE a \in w
    <3>1. (a \in w) = TRUE
      BY <2>3
    <3>2. l = <<a, TRUE>>
      BY <2>1, <3>1
    <3> QED
      BY <3>2, <2>2, <2>3 DEF AxiomLiterals, Holding
  <2>4. CASE a \notin w
    <3>1. (a \in w) = FALSE
      BY <2>4
    <3>2. l = <<a, FALSE>>
      BY <2>1, <3>1
    <3> QED
      BY <3>2, <2>2, <2>4 DEF AxiomLiterals, Holding
  <2> QED
    BY <2>3, <2>4
<1>6. ASSUME NEW l \in Holding', l[1] \in Base PROVE l \in start
  <2>1. l \in AxiomLiterals /\ (l[1] \in true' <=> l[2] = TRUE)
    BY DEF Holding
  <2>2. l[1] \in w <=> l[2] = TRUE
    BY <2>1, <1>1, <1>4, <1>6
  <2>3. l = <<l[1], l[2]>> /\ l[2] \in BOOLEAN
    BY <2>1, LiteralIs
  <2>4. (l[1] \in w) = l[2]
    BY <2>2, <2>3, SameSign
  <2>5. l = <<l[1], l[1] \in w>>
    BY <2>3, <2>4
  <2> QED
    BY <2>5, <1>6
<1>7. start \in SUBSET AxiomLiterals /\ IsFiniteSet(start)
  <2>1. start \in SUBSET AxiomLiterals
    BY <1>5
  <2> QED
    BY <2>1, LiteralsFinite
<1>8. queue' = SetToSeq(start)
  BY <1>1
<1> HIDE DEF start
<1>9. /\ queue' \in Seq(AxiomLiterals)
      /\ \A i \in DOMAIN queue' : queue'[i] \in start
      /\ \A l \in start : \E i \in DOMAIN queue' : queue'[i] = l
      /\ \A i, j \in DOMAIN queue' : queue'[i] = queue'[j] => i = j
  <2>1. /\ queue' \in Seq(start)
        /\ \A l \in start : \E i \in DOMAIN queue' : queue'[i] = l
        /\ \A i, j \in DOMAIN queue' : queue'[i] = queue'[j] => i = j
    BY <1>7, <1>8, SetToSeqLists
  <2>2. \A i \in DOMAIN queue' : queue'[i] \in start
    BY <2>1
  <2>3. queue' \in Seq(AxiomLiterals)
    BY <2>1, <1>7
  <2> QED
    BY <2>1, <2>2, <2>3
<1>10. \A l : l \in Queued' <=> l \in start
  BY <1>9 DEF Queued
<1>11. \A l \in Holding' : l[1] \in NeededAtoms => Standing(l)
  <2> SUFFICES ASSUME NEW l \in Holding', l[1] \in NeededAtoms PROVE Standing(l)
    OBVIOUS
  <2>1. l[1] \in true' <=> l[2] = TRUE
    BY DEF Holding
  <2>2. l[1] \in true' <=> l[1] \in default
    BY <1>1, <1>4
  <2> QED
    BY <2>1, <2>2 DEF Standing
<1>12. ASSUME NEW l \in ReadLiterals PROVE Pushed(l)' <=> l \in start
  <2>1. Pushed(l)' <=> l \in Holding' /\ (l[1] \in Base \/ ~Standing(l) \/ (layers[l[1]] < 0 /\ ~Over(layers[l[1]] + 1)))
    BY <1>2, <1>3 DEF Pushed, Over
  <2>2. CASE l[1] \in Base
    BY <2>1, <2>2, <1>5, <1>6
  <2>3. CASE l[1] \notin Base
    <3>1. l[1] \in NeededAtoms
      BY <2>3, ReadAre
    <3>2. layers[l[1]] \in Nat
      BY <3>1 DEF LayersKnown
    <3>3. ~(layers[l[1]] < 0)
      BY <3>2
    <3>4. l \notin start
      BY <2>3, <1>5
    <3> QED
      BY <2>1, <2>3, <3>1, <3>3, <3>4, <1>11
  <2> QED
    BY <2>2, <2>3
<1>13. ASSUME NEW r \in rules PROVE Waiting(r)' = r.cond
  <2>1. \A l \in r.cond : ~Pushed(l)' \/ l \in Queued'
    BY <1>10, <1>12 DEF ReadLiterals
  <2> QED
    BY <2>1, <1>2 DEF Waiting
<1>14. EvalType'
  <2>1. true' \cap Base = world' /\ true' \subseteq Base \cup NeededAtoms'
    BY <1>1, <1>3, <1>4
  <2>2. unsatisfied' \in [rules' -> Int]
    <3>1. \A r \in rules : Cardinality(r.cond) \in Int
      BY RulesAre, FS_CardinalityType
    <3> QED
      BY <3>1, <1>2
  <2>3. layer' = 0 /\ ready' \subseteq rules'
    BY <1>2
  <2> QED
    BY <2>1, <2>2, <2>3, <1>9 DEF EvalType
<1>15. Counted'
  BY <1>2, <1>13 DEF Counted
<1>16. QueueIs'
  <2> SUFFICES ASSUME NEW i \in DOMAIN queue', NEW l \in ReadLiterals, queue'[i] = l
               PROVE  Pushed(l)' /\ \A j \in DOMAIN queue' : queue'[j] = l => j = i
    BY <1>3 DEF QueueIs
  <2> QED
    BY <1>9, <1>12
<1>17. Done'
  <2>1. \A r \in rules : unsatisfied'[r] = 0 <=> r.cond = {}
    BY <1>2, RulesAre, FS_EmptySet
  <2>2. \A r \in rules : r \in ready' <=> unsatisfied'[r] = 0
    BY <2>1, <1>2
  <2> QED
    BY <2>2, <1>2 DEF Done
<1>18. Supported'
  <2>1. \A a \in NeededAtoms : a \in true' <=> a \in default
    BY <1>1, <1>4
  <2> QED
    BY <2>1, <1>2, <1>3 DEF Supported
<1>19. Closed'
  <2>1. ASSUME NEW r \in rules PROVE ~(layers[r.effect[1]] < 0)
    <3>1. layers[r.effect[1]] \in Nat
      BY RulesAre DEF LayersKnown
    <3> QED
      BY <3>1
  <2> QED
    BY <2>1, <1>2 DEF Closed
<1>20. Inside'
  <2> SUFFICES ASSUME PositiveOnly PROVE true' \cap NeededAtoms = {}
    BY <1>3 DEF Inside
  <2>1. ASSUME NEW a \in default PROVE FALSE
    <3>1. PICK l \in Needed : l[1] = a
      BY NeededIs DEF Static, Faithful
    <3>2. l \in AxiomLiterals /\ l[2] = TRUE
      BY NeededIs DEF PositiveOnly
    <3>3. l = <<a, TRUE>>
      BY <3>1, <3>2, LiteralIs
    <3>4. a \in default <=> <<a, TRUE>> \notin Needed
      BY <3>1 DEF Static, Faithful
    <3>5. <<a, TRUE>> \in Needed
      BY <3>1, <3>3
    <3> QED
      BY <3>4, <3>5
  <2> QED
    BY <2>1, <1>1, <1>4
<1> QED
  BY <1>14, <1>15, <1>16, <1>17, <1>18, <1>19, <1>20 DEF Evaluating

\* Where everything is needed positively no default is read.
LEMMA PositiveUnread ==
  ASSUME Source, Static, PositiveOnly
  PROVE  DefaultsUnread
<1> SUFFICES ASSUME NEW l \in ReadLiterals, l[1] \in NeededAtoms PROVE ~Standing(l)
  BY DEF DefaultsUnread
<1>1. l \in Needed /\ l \in AxiomLiterals
  BY ReadAre, NeededIs
<1>2. l[2] = TRUE /\ l = <<l[1], TRUE>>
  BY <1>1, LiteralIs DEF PositiveOnly
<1>3. l[1] \in default <=> <<l[1], TRUE>> \notin Needed
  BY <1>1 DEF Static, Faithful
<1>4. <<l[1], TRUE>> \in Needed
  BY <1>1, <1>2
<1> QED
  BY <1>2, <1>3, <1>4 DEF Standing

\* When all calls are over the layers fit.
LEMMA LayeredKeeps ==
  ASSUME Source, Static, LevelType, Layered
  PROVE  LayersKnown /\ ((\E rank : Ranks(rank) /\ LevelFit(rank)) => LayersFit)
<1>1. frames = << >> /\ \A a \in DOMAIN layers : layers[a] # UnknownLayer
  BY DEF Layered
<1>2. DOMAIN frames = {} /\ DOMAIN layers = NeededAtoms
  BY <1>1 DEF Static
<1>3. ASSUME NEW a \in NeededAtoms PROVE layers[a] \in Nat /\ layers[a] >= 0
  BY <1>1, <1>2 DEF LevelType
<1>4. ASSUME NEW rank, Ranks(rank), LevelFit(rank), NEW r \in rules, ~Standing(r.effect), NEW c \in r.cond, c[1] \in NeededAtoms
      PROVE  layers[c[1]] + (IF Standing(c) THEN 1 ELSE 0) <= layers[r.effect[1]]
  <2> DEFINE a == r.effect[1]
             bonus == IF c[2] = (c[1] \in default) THEN 1 ELSE 0
  <2>1. r.effect \in AxiomLiterals /\ c \in AxiomLiterals /\ a \in NeededAtoms
    BY RulesAre
  <2>2. r.effect[2] # (a \in default)
    <3>1. r.effect[2] \in BOOLEAN
      BY <2>1, LiteralIs
    <3>2. ~(a \in default <=> r.effect[2] = TRUE)
      BY <1>4 DEF Standing
    <3> QED
      BY <3>1, <3>2, SameSign
  <2>3. <<c[1], bonus>> \in DependsOn(rules, default, a)
    BY <2>1, <2>2, DependenciesAre
  <2>4. c[2] = (c[1] \in default) <=> Standing(c)
    <3>1. c[2] \in BOOLEAN
      BY <2>1, LiteralIs
    <3> QED
      BY <3>1, SameSign DEF Standing
  <2>5. bonus = IF Standing(c) THEN 1 ELSE 0
    BY <2>4
  <2> HIDE DEF bonus
  <2>6. \A d \in DependsOn(rules, default, a) : d[1] \in NeededAtoms => layers[d[1]] + d[2] <= layers[a]
    BY <1>3, <1>4, <2>1 DEF LevelFit, FinishedFit
  <2>7. <<c[1], bonus>>[1] = c[1] /\ <<c[1], bonus>>[2] = bonus
    OBVIOUS
  <2>8. layers[c[1]] + bonus <= layers[a]
    BY <2>3, <2>6, <2>7, <1>4
  <2> QED
    BY <2>5, <2>8
<1> QED
  BY <1>3, <1>4 DEF LayersKnown, LayersFit

\* The translation, before there are layers.
LEMMA TranslateKeeps ==
  ASSUME Source, Translate, frames = << >>
  PROVE  /\ Source' /\ (step' = "level" \/ step' = "refused")
         /\ step' = "level" => Static' /\ LevelType' /\ \A rank : Ranks(rank)' => LevelFit(rank)'
<1> DEFINE axs == UNION {RulesFor(program, l) : l \in Needed}
<1>1. UNCHANGED <<program, readers, frames>>
  BY DEF Translate
<1>2. Source' /\ Needed' = Needed /\ NeededAtoms' = NeededAtoms
  BY <1>1 DEF Source, Needed, NeededAtoms
<1>3. CASE \E l \in Needed : Impossible(program, l)
  <2>1. step' = "refused"
    BY <1>3 DEF Translate, Needed
  <2> QED
    BY <2>1, <1>2
<1>4. CASE ~\E l \in Needed : Impossible(program, l)
  <2>1. /\ rules' = axs /\ default' = AxiomInit(Needed)
        /\ layers' = [a \in {x.effect[1] : x \in Deducing(axs, AxiomInit(Needed))} |-> UnknownLayer]
        /\ step' = "level"
    BY <1>4 DEF Translate, Needed
  <2>2. /\ Faithful(program, Needed, axs, AxiomInit(Needed))
        /\ {x.effect[1] : x \in Deducing(axs, AxiomInit(Needed))} = {l[1] : l \in Needed}
    BY <1>4, TranslationIsFaithful DEF Source, Needed
  <2>3. NeededAtoms = {l[1] : l \in Needed}
    BY NeededIs
  <2> HIDE DEF axs
  <2>4. layers' = [a \in NeededAtoms |-> UnknownLayer]
    BY <2>1, <2>2, <2>3
  <2>5. Static'
    BY <1>1, <1>2, <2>1, <2>2, <2>4 DEF Static
  <2>6. frames' = << >> /\ DOMAIN frames' = {} /\ << >> \in Seq(FrameRecord)'
    BY <1>1
  <2>7. \A a \in NeededAtoms : layers'[a] = -2
    BY <2>4 DEF UnknownLayer
  <2>8. LevelType'
    BY <1>2, <2>6, <2>7 DEF LevelType, UnknownLayer, FirstMarker
  <2>9. FinishedFit' /\ CallsFit'
    BY <1>2, <2>6, <2>7 DEF FinishedFit, CallsFit
  <2>10. \A rank : LevelFit(rank)'
    BY <2>6, <2>9 DEF LevelFit
  <2> QED
    BY <1>2, <2>1, <2>5, <2>8, <2>10
<1> QED
  BY <1>3, <1>4

\* The literals of the program hold or not as the found set of atoms says.
LEMMA ConditionMeans ==
  ASSUME Source, EvalType, NEW c \in AxiomLiterals, c[1] \in Base \cup NeededAtoms
  PROVE  (c[1] \in world \cup (true \cap NeededAtoms)) = c[2] <=> c \in Holding
<1>1. c[2] \in BOOLEAN
  BY LiteralIs
<1>2. c[1] \in world \cup (true \cap NeededAtoms) <=> c[1] \in true
  BY DEF EvalType
<1>3. c \in Holding <=> (c[1] \in true <=> c[2] = TRUE)
  BY DEF Holding
<1> QED
  BY <1>1, <1>2, <1>3, SameSign

\* At the end every rule that could change a value has.
LEMMA AllDone ==
  ASSUME Source, Static, LayersKnown, Fitting, Evaluating, ready = {}, Over(layer), NeededAtoms # {}
  PROVE  \A r \in rules : ~Standing(r.effect) /\ r.cond \subseteq Holding => r.effect \in Holding
<1>1. layer \in Nat /\ \A a \in NeededAtoms : layers[a] \in Nat /\ layers[a] < layer
  BY DEF Evaluating, EvalType, LayersKnown, Over, Static
<1>2. PICK b \in NeededAtoms : TRUE
  OBVIOUS
<1>3. layer > 0
  BY <1>1, <1>2
<1>4. Queued = {}
  <2>1. layer > 0 /\ Over(layer) => queue = << >>
    BY DEF Evaluating, EvalType
  <2>2. queue = << >>
    BY <2>1, <1>3
  <2> QED
    BY <2>2 DEF Queued
<1> SUFFICES ASSUME NEW r \in rules, ~Standing(r.effect), r.cond \subseteq Holding PROVE r.effect \in Holding
  OBVIOUS
<1>5. CASE LayersFit
  <2>1. layers[r.effect[1]] < layer
    BY <1>1, RulesAre
  <2> QED
    BY <2>1, <1>5 DEF Evaluating, Closed
<1>6. CASE DefaultsUnread
  <2>1. ASSUME NEW c \in r.cond PROVE Pushed(c)
    <3>1. c \in Holding /\ c \in ReadLiterals /\ (c[1] \in Base \/ c[1] \in NeededAtoms)
      BY RulesAre
    <3>2. c[1] \in Base \/ ~Standing(c)
      BY <3>1, <1>6 DEF DefaultsUnread
    <3> QED
      BY <3>1, <3>2 DEF Pushed
  <2>2. Waiting(r) = {}
    BY <2>1, <1>4 DEF Waiting
  <2>3. unsatisfied[r] = 0
    BY <2>2, FS_EmptySet DEF Evaluating, Counted
  <2> QED
    BY <2>3 DEF Evaluating, Done
<1> QED
  BY <1>5, <1>6 DEF Fitting

\* What holds at the end of the needed atoms is what follows.
LEMMA FoundFollows ==
  ASSUME Source, Static, LayersKnown, Fitting, Evaluating, ready = {}, Over(layer)
  PROVE  Following(true \cap NeededAtoms) = true \cap NeededAtoms
<1> DEFINE found == true \cap NeededAtoms
<1>1. Following(found) \subseteq NeededAtoms
  BY DEF Following
<1> SUFFICES ASSUME NEW a \in NeededAtoms PROVE a \in Following(found) <=> a \in true
  BY <1>1
<1>2. EvalType
  BY DEF Evaluating
<1>3. PICK n \in Needed : n[1] = a /\ ~Standing(n)
  <2>1. PICK m \in Needed : m[1] = a
    BY NeededIs
  <2>2. (m[2] = TRUE /\ m = <<a, TRUE>>) \/ (m[2] = FALSE /\ m = <<a, FALSE>>)
    BY <2>1, NeededIs, LiteralIs
  <2>3. a \in default <=> <<a, TRUE>> \notin Needed
    BY <2>1 DEF Static, Faithful
  <2>4. CASE a \in default
    <3>1. m[2] = FALSE
      BY <2>2, <2>3, <2>4
    <3> QED
      BY <2>1, <2>4, <3>1 DEF Standing
  <2>5. CASE a \notin default
    <3>1. <<a, TRUE>> \in Needed /\ <<a, TRUE>>[1] = a /\ <<a, TRUE>>[2] = TRUE
      BY <2>3, <2>5
    <3>2. ~Standing(<<a, TRUE>>)
      BY <2>5, <3>1 DEF Standing
    <3> QED
      BY <3>1, <3>2
  <2> QED
    BY <2>4, <2>5
<1>4. n \in AxiomLiterals /\ ((n[2] = TRUE /\ n = <<a, TRUE>>) \/ (n[2] = FALSE /\ n = <<a, FALSE>>))
  BY <1>3, NeededIs, LiteralIs
<1>5. ASSUME NEW i \in DOMAIN program, program[i].effect[1] = a, NEW c \in program[i].cond
      PROVE  /\ c \in AxiomLiterals /\ c[1] \in Base \cup NeededAtoms
             /\ (c[1] \in world \cup found) = c[2] <=> c \in Holding
             /\ Not(c) \in Holding <=> c \notin Holding
  <2>1. c \in AxiomLiterals
    BY ProgramIs, <1>5 DEF Source
  <2>2. Not(c) \in AxiomLiterals /\ Not(c)[1] = c[1] /\ Not(c)[2] = ~c[2]
    BY <2>1, NotIs
  <2>3. c[1] \in Base \cup NeededAtoms
    <3>1. \A d \in Needs(program[i], n) : d[1] \in Base \/ d \in Needed
      BY <1>3, <1>5, NecessaryIs DEF Source, Needed
    <3>2. CASE n[2] = TRUE
      <4>1. c \in Needs(program[i], n)
        BY <3>2 DEF Needs
      <4> QED
        BY <3>1, <4>1, NeededIs
    <3>3. CASE n[2] = FALSE
      <4>1. Not(c) \in Needs(program[i], n)
        BY <3>3 DEF Needs
      <4>2. c[1] \in Base \/ Not(c) \in Needed
        BY <3>1, <4>1, <2>2
      <4> QED
        BY <4>2, <2>2, NeededIs
    <3> QED
      BY <3>2, <3>3, <1>4
  <2>4. c[2] = TRUE \/ c[2] = FALSE
    BY <2>1, LiteralIs
  <2>5. Not(c) \in Holding <=> c \notin Holding
    BY <2>1, <2>2, <2>4 DEF Holding
  <2>6. (c[1] \in world \cup found) = c[2] <=> c \in Holding
    BY <2>1, <2>3, <1>2, ConditionMeans
  <2> QED
    BY <2>1, <2>3, <2>5, <2>6
<1>6. a \in Following(found) <=> \E i \in DOMAIN program : program[i].effect[1] = a /\ program[i].cond \subseteq Holding
  <2>1. a \in Following(found) <=>
          \E i \in DOMAIN program : program[i].effect[1] = a /\ \A l \in program[i].cond : (l[1] \in world \cup found) = l[2]
    BY DEF Following
  <2>2. \A i \in DOMAIN program : program[i].effect[1] = a =>
          ((\A l \in program[i].cond : (l[1] \in world \cup found) = l[2]) <=> program[i].cond \subseteq Holding)
    BY <1>5
  <2> HIDE DEF found
  <2> QED
    BY <2>1, <2>2
<1>7. n \in Holding <=> Makes(program, n, Holding)
  <2>1. (\E r \in rules : r.effect = n /\ r.cond \subseteq Holding) <=> Makes(program, n, Holding)
    BY MeaningOf
  <2>2. ASSUME NEW r \in rules, r.effect = n, r.cond \subseteq Holding PROVE n \in Holding
    BY <2>2, <1>3, AllDone
  <2>3. ASSUME n \in Holding PROVE \E r \in rules : r.effect = n /\ r.cond \subseteq Holding
    <3>1. ~(a \in true <=> a \in default)
      BY <2>3, <1>3 DEF Holding, Standing
    <3>2. PICK s \in rules : s.effect[1] = a /\ ~Standing(s.effect) /\ \A c \in s.cond : Pushed(c)
      BY <3>1 DEF Evaluating, Supported
    <3>3. s.cond \subseteq Holding
      BY <3>2 DEF Pushed
    <3>4. s.effect \in AxiomLiterals
      BY RulesAre
    <3>5. (s.effect[2] = TRUE /\ s.effect = <<a, TRUE>>) \/ (s.effect[2] = FALSE /\ s.effect = <<a, FALSE>>)
      BY <3>2, <3>4, LiteralIs
    <3>6. s.effect[2] = TRUE <=> n[2] = TRUE
      BY <3>2, <1>3 DEF Standing
    <3>7. s.effect = n
      <4>1. CASE n[2] = TRUE
        BY <4>1, <3>5, <3>6, <1>4
      <4>2. CASE n[2] = FALSE
        BY <4>2, <3>5, <3>6, <1>4
      <4> QED
        BY <4>1, <4>2, <1>4
    <3> QED
      BY <3>3, <3>7
  <2> QED
    BY <2>1, <2>2, <2>3
<1>8. CASE n[2] = TRUE
  <2>1. n \in Holding <=> a \in true
    BY <1>3, <1>4, <1>8 DEF Holding
  <2>2. Makes(program, n, Holding) <=> \E i \in DOMAIN program : program[i].effect[1] = a /\ program[i].cond \subseteq Holding
    BY <1>3, <1>8 DEF Makes
  <2> QED
    BY <2>1, <2>2, <1>6, <1>7
<1>9. CASE n[2] = FALSE
  <2>1. n \in Holding <=> a \notin true
    BY <1>3, <1>4, <1>9 DEF Holding
  <2>2. Makes(program, n, Holding) <=>
          \A i \in DOMAIN program : program[i].effect[1] = a => \E c \in program[i].cond : Not(c) \in Holding
    BY <1>3, <1>9 DEF Makes
  <2>3. \A i \in DOMAIN program : program[i].effect[1] = a =>
          ((\E c \in program[i].cond : Not(c) \in Holding) <=> ~(program[i].cond \subseteq Holding))
    BY <1>5
  <2> QED
    BY <2>1, <2>2, <2>3, <1>6, <1>7
<1> QED
  BY <1>4, <1>8, <1>9

\* Without a cycle there is only one set of atoms from which these same atoms follow.
LEMMA OnlyOne ==
  ASSUME Source, NEW rank, Ranks(rank), NEW D \in SUBSET NeededAtoms, NEW E \in SUBSET NeededAtoms,
         Following(D) = D, Following(E) = E
  PROVE  D \subseteq E
<1> SUFFICES ASSUME ~(D \subseteq E) PROVE FALSE
  OBVIOUS
<1> DEFINE T == {rank[a] : a \in {b \in NeededAtoms : ~(b \in D <=> b \in E)}}
<1>1. \A a \in NeededAtoms : rank[a] \in Nat
  <2>1. Cardinality(Derived) \in Nat
    BY Grounded, FS_CardinalityType
  <2>2. \A a \in NeededAtoms : rank[a] \in 0..Cardinality(Derived)
    BY NeededIs DEF Ranks
  <2> QED
    BY <2>1, <2>2
<1>2. T \in SUBSET Nat /\ T # {}
  BY <1>1
<1>3. PICK m \in T : \A y \in T : m <= y
  BY <1>2, LeastOf
<1>4. PICK a \in NeededAtoms : ~(a \in D <=> a \in E) /\ rank[a] = m
  BY <1>3
<1>5. \A b \in NeededAtoms : rank[b] < rank[a] => (b \in D <=> b \in E)
  BY <1>1, <1>3, <1>4
<1>6. ASSUME NEW i \in DOMAIN program, program[i].effect[1] = a, NEW c \in program[i].cond
      PROVE  c[1] \in world \cup D <=> c[1] \in world \cup E
  <2>1. CASE c[1] \in Defined(program)
    <3>1. rank[c[1]] < rank[a]
      BY <1>6, <2>1 DEF Ranks
    <3> QED
      BY <3>1, <1>5
  <2>2. CASE c[1] \notin Defined(program)
    BY <2>2, NeededIs
  <2> QED
    BY <2>1, <2>2
<1>7. \A i \in DOMAIN program : program[i].effect[1] = a =>
        ((\A l \in program[i].cond : (l[1] \in world \cup D) = l[2]) <=> (\A l \in program[i].cond : (l[1] \in world \cup E) = l[2]))
  <2>1. \A i \in DOMAIN program : program[i].effect[1] = a =>
          \A c \in program[i].cond : (c[1] \in world \cup D) = (c[1] \in world \cup E)
    BY <1>6
  <2> QED
    BY <2>1
<1>8. a \in Following(D) <=> a \in Following(E)
  BY <1>7 DEF Following
<1> QED
  BY <1>4, <1>8

-----------------------------------------------------------------------------
(* The invariant.                                                           *)

\* A program without a cycle is refused only for an axiom that cannot be turned round.
RefusedRightly == step = "refused" /\ Acyclic => \E l \in Needed : Impossible(program, l)

\* Without a cycle the layers are those the evaluator needs.
LayeredRightly == step \in {"translated", "evaluate"} /\ Acyclic => LayersFit

AxInv ==
  /\ Source /\ RefusedRightly /\ LayeredRightly
  /\ step \in {"translate", "refused", "level", "translated", "evaluate"}
  /\ step = "translate" => frames = << >>
  /\ step \in {"level", "translated", "evaluate"} => Static
  /\ step = "level" => LevelType /\ \A rank : Ranks(rank) => LevelFit(rank)
  /\ step \in {"translated", "evaluate"} => LayersKnown
  /\ step = "evaluate" /\ Fitting => Evaluating

\* What the invariant says of an evaluated state.
LEMMA InvMeans ==
  ASSUME AxInv
  PROVE  AxiomsMean
<1> DEFINE found == true \cap NeededAtoms
<1> SUFFICES ASSUME Evaluated, Acyclic \/ \A l \in Necessary(program, readers) : l[2]
             PROVE  Following(found) = found /\ \A D \in SUBSET NeededAtoms : Following(D) = D => found \subseteq D
  BY DEF AxiomsMean
<1>1. Source /\ Static /\ LayersKnown /\ (Acyclic => LayersFit) /\ (Fitting => Evaluating)
  BY DEF AxInv, LayeredRightly, Evaluated
<1>2. Acyclic \/ PositiveOnly
  BY DEF PositiveOnly, Needed
<1>3. Evaluating /\ Fitting
  BY <1>1, <1>2, PositiveUnread DEF Fitting
<1>4. Following(found) = found
  BY <1>1, <1>3, FoundFollows DEF Evaluated
<1>5. ASSUME NEW D \in SUBSET NeededAtoms, Following(D) = D PROVE found \subseteq D
  <2>1. CASE Acyclic
    <3>1. PICK rank : Ranks(rank)
      BY <2>1, AcyclicIs
    <3>2. found \in SUBSET NeededAtoms
      OBVIOUS
    <3> HIDE DEF found
    <3> QED
      BY <3>1, <3>2, <1>1, <1>4, <1>5, OnlyOne
  <2>2. CASE PositiveOnly
    BY <2>2, <1>3, <1>5 DEF Evaluating, Inside
  <2> QED
    BY <2>1, <2>2, <1>2
<1> QED
  BY <1>4, <1>5

\* No axiom has been looked at.
LEMMA InitAxInv == InitAxioms => AxInv
BY DEF InitAxioms, AxInv, Source, RefusedRightly, LayeredRightly

\* While the layers are computed.
LEMMA LevelKeeps ==
  ASSUME AxInv, FindLevel \/ LookUp \/ Call \/ Return
  PROVE  AxInv'
<1>1. step = "level" /\ step' = "level"
  BY DEF FindLevel, LookUp, Call, Return
<1>2. Source /\ Static /\ LevelType /\ \A rank : Ranks(rank) => LevelFit(rank)
  BY <1>1 DEF AxInv
<1>3. UNCHANGED <<program, readers, rules, default>>
  BY DEF FindLevel, LookUp, Call, Return
<1>4. Source' /\ \A rank : Ranks(rank)' <=> Ranks(rank)
  BY <1>2, <1>3 DEF Source, Ranks
<1>5. Static' /\ LevelType' /\ \A rank : Ranks(rank) /\ LevelFit(rank) => LevelFit(rank)'
  BY <1>2, FindLevelKeeps, LookUpKeeps, CallKeeps, ReturnKeeps
<1> QED
  BY <1>1, <1>2, <1>4, <1>5 DEF AxInv, RefusedRightly, LayeredRightly

\* While a state is evaluated.
LEMMA EvaluationKeeps ==
  ASSUME AxInv, Evaluate \/ Fire \/ Deduce \/ FailLayer
  PROVE  AxInv'
<1>1. step \in {"translated", "evaluate"} /\ step' = "evaluate" /\ UNCHANGED <<program, readers, rules, default, layers>>
  BY DEF Evaluate, Evaluated, Fire, Deduce, FailLayer, AxInv
<1>2. Source /\ Static /\ LayersKnown /\ (Acyclic => LayersFit)
  BY <1>1 DEF AxInv, LayeredRightly
<1>3. Source' /\ Static' /\ LayersKnown' /\ (LayersFit' <=> LayersFit) /\ (Fitting' <=> Fitting)
  BY <1>1, <1>2, FixedAfter DEF Fitting
<1>4. Acyclic' <=> Acyclic
  BY <1>1 DEF Acyclic
<1>5. ASSUME Fitting PROVE Evaluating'
  <2>1. CASE Evaluate
    BY <2>1, <1>2, EvaluateKeeps
  <2>2. CASE Fire \/ Deduce \/ FailLayer
    <3>1. Evaluating
      BY <2>2, <1>5 DEF Fire, Deduce, FailLayer, AxInv
    <3> QED
      BY <2>2, <3>1, <1>2, <1>5, FireKeeps, DeduceKeeps, FailLayerKeeps
  <2> QED
    BY <2>1, <2>2
<1> QED
  BY <1>1, <1>2, <1>3, <1>4, <1>5 DEF AxInv, RefusedRightly, LayeredRightly

\* Without a cycle find_level never comes back to an atom that it is busy with.
LEMMA CycleIsThere ==
  ASSUME Source, Static, LevelType, Cycle, NEW rank, Ranks(rank), LevelFit(rank)
  PROVE  FALSE
<1> DEFINE f == frames[1]
<1>1. frames # << >> /\ frames \in Seq(FrameRecord)
  BY DEF Cycle, LevelType
<1>2. 1 \in DOMAIN frames /\ Head(frames) = f
  BY <1>1
<1>3. PICK d \in f.left : d[1] \in DOMAIN layers /\ layers[d[1]] <= FirstMarker
  BY <1>2 DEF Cycle
<1>4. d \in DependsOn(rules, default, f.atom) /\ d[1] \in NeededAtoms
  BY <1>2, <1>3 DEF LevelFit, Static
<1>5. rank[d[1]] \in Nat /\ rank[f.atom] \in Nat /\ rank[d[1]] < rank[f.atom]
  BY <1>4, DependenciesAre
<1>6. PICK i \in DOMAIN frames : frames[i].atom = d[1]
  BY <1>3, <1>4 DEF LevelType
<1>7. i # 1
  BY <1>5, <1>6
<1>8. 1 < i
  BY <1>1, <1>7
<1>9. rank[f.atom] < rank[d[1]]
  BY <1>2, <1>6, <1>8 DEF LevelFit
<1> QED
  BY <1>5, <1>9

\* Every step keeps the invariant.
LEMMA NextAxInv ==
  ASSUME AxInv, [NextAxioms]_axiomVars
  PROVE  AxInv'
<1>1. CASE Translate
  <2>1. step = "translate" /\ frames = << >> /\ Source
    BY <1>1 DEF Translate, AxInv
  <2>2. /\ Source' /\ (step' = "level" \/ step' = "refused")
        /\ step' = "level" => Static' /\ LevelType' /\ \A rank : Ranks(rank)' => LevelFit(rank)'
    BY <2>1, <1>1, TranslateKeeps
  <2>3. step' = "refused" => \E l \in Needed : Impossible(program, l)
    BY <1>1 DEF Translate, Needed
  <2>4. UNCHANGED <<program, readers>>
    BY <1>1 DEF Translate
  <2>5. Needed' = Needed
    BY <2>4 DEF Needed
  <2>6. RefusedRightly' /\ LayeredRightly'
    BY <2>2, <2>3, <2>4, <2>5 DEF RefusedRightly, LayeredRightly
  <2> QED
    BY <2>2, <2>6 DEF AxInv
<1>2. CASE FindLevel \/ LookUp \/ Call \/ Return
  BY <1>2, LevelKeeps
<1>3. CASE Cycle
  <2>1. step = "level" /\ step' = "refused" /\ UNCHANGED <<program, readers>>
    BY <1>3 DEF Cycle
  <2>2. Source /\ Static /\ LevelType /\ \A rank : Ranks(rank) => LevelFit(rank)
    BY <2>1 DEF AxInv
  <2>3. ~Acyclic
    BY <2>2, <1>3, AcyclicIs, CycleIsThere
  <2>4. (Acyclic' <=> Acyclic) /\ Source'
    BY <2>1, <2>2 DEF Acyclic, Source
  <2> QED
    BY <2>1, <2>3, <2>4 DEF AxInv, RefusedRightly, LayeredRightly
<1>4. CASE Layered
  <2>1. step = "level" /\ step' = "translated" /\ UNCHANGED <<program, readers, rules, default, layers>>
    BY <1>4 DEF Layered
  <2>2. Source /\ Static /\ LevelType /\ \A rank : Ranks(rank) => LevelFit(rank)
    BY <2>1 DEF AxInv
  <2>3. LayersKnown /\ ((\E rank : Ranks(rank) /\ LevelFit(rank)) => LayersFit)
    BY <2>2, <1>4, LayeredKeeps
  <2>4. Acyclic => LayersFit
    BY <2>2, <2>3, AcyclicIs
  <2>6. Acyclic' <=> Acyclic
    BY <2>1 DEF Acyclic
  <2>7. Source' /\ Static' /\ LayersKnown' /\ (LayersFit' <=> LayersFit)
    BY <2>1, <2>2, <2>3, FixedAfter
  <2> QED
    BY <2>1, <2>4, <2>6, <2>7 DEF AxInv, RefusedRightly, LayeredRightly
<1>5. CASE Evaluate \/ Fire \/ Deduce \/ FailLayer
  BY <1>5, EvaluationKeeps
<1>6. CASE UNCHANGED axiomVars
  <2>1. /\ UNCHANGED <<program, readers, rules, default, layers>> /\ UNCHANGED <<frames, world, true>>
        /\ UNCHANGED <<unsatisfied, ready, queue, layer, step>>
    BY <1>6 DEF axiomVars
  <2>2. /\ (Source' <=> Source) /\ (Static' <=> Static) /\ NeededAtoms' = NeededAtoms /\ Needed' = Needed
        /\ (LayersKnown' <=> LayersKnown) /\ (LayersFit' <=> LayersFit) /\ (DefaultsUnread' <=> DefaultsUnread)
        /\ (PositiveOnly' <=> PositiveOnly) /\ ReadLiterals' = ReadLiterals
        /\ (\A l : Standing(l)' <=> Standing(l)) /\ (\A n : Over(n)' <=> Over(n))
    BY <2>1, FixedAfter
  <2>3. (Acyclic' <=> Acyclic) /\ (Fitting' <=> Fitting) /\ \A rank : Ranks(rank)' <=> Ranks(rank)
    BY <2>1, <2>2 DEF Acyclic, Fitting, Ranks
  <2>4. (LevelType' <=> LevelType) /\ \A rank : LevelFit(rank)' <=> LevelFit(rank)
    <3>1. FrameRecord' = FrameRecord
      BY <2>2 DEF FrameRecord
    <3>2. LevelType' <=> LevelType
      BY <2>1, <2>2, <3>1 DEF LevelType
    <3>3. FinishedFit' <=> FinishedFit
      BY <2>1, <2>2 DEF FinishedFit
    <3>4. CallsFit' <=> CallsFit
      BY <2>1, <2>2 DEF CallsFit
    <3>5. \A rank : LevelFit(rank)' <=> LevelFit(rank)
      BY <2>1, <3>3, <3>4 DEF LevelFit
    <3> QED
      BY <3>2, <3>5
  <2>5. Evaluating' <=> Evaluating
    <3>1. Holding' = Holding /\ Queued' = Queued /\ \A D : Following(D)' = Following(D)
      BY <2>1, <2>2 DEF Holding, Queued, Following
    <3>2. \A l : Pushed(l)' <=> Pushed(l)
      BY <2>1, <2>2, <3>1 DEF Pushed
    <3>3. \A r : Waiting(r)' = Waiting(r)
      BY <3>1, <3>2 DEF Waiting
    <3>4. (EvalType' <=> EvalType) /\ (Counted' <=> Counted) /\ (QueueIs' <=> QueueIs)
      <4>1. EvalType' <=> EvalType
        BY <2>1, <2>2 DEF EvalType, Over
      <4>2. Counted' <=> Counted
        BY <2>1, <3>3 DEF Counted
      <4>3. QueueIs' <=> QueueIs
        BY <2>1, <2>2, <3>2 DEF QueueIs
      <4> QED
        BY <4>1, <4>2, <4>3
    <3>5. (Done' <=> Done) /\ (Supported' <=> Supported) /\ (Closed' <=> Closed) /\ (Inside' <=> Inside)
      <4>1. Done' <=> Done
        BY <2>1, <3>1 DEF Done
      <4>2. Supported' <=> Supported
        BY <2>1, <2>2, <3>2 DEF Supported
      <4>3. Closed' <=> Closed
        BY <2>1, <2>2, <3>1 DEF Closed
      <4>4. Inside' <=> Inside
        BY <2>1, <2>2, <3>1 DEF Inside
      <4> QED
        BY <4>1, <4>2, <4>3, <4>4
    <3> QED
      BY <3>4, <3>5 DEF Evaluating
  <2>6. (RefusedRightly' <=> RefusedRightly) /\ (LayeredRightly' <=> LayeredRightly)
    BY <2>1, <2>2, <2>3 DEF RefusedRightly, LayeredRightly
  <2> QED
    BY <2>1, <2>2, <2>3, <2>4, <2>5, <2>6 DEF AxInv
<1> QED
  BY <1>1, <1>2, <1>3, <1>4, <1>5, <1>6 DEF NextAxioms

\* The invariant holds in every state of the translation and of the evaluations after it.
THEOREM AxiomInvariant == AxiomSpec => []AxInv
<1>1. InitAxioms => AxInv
  BY InitAxInv
<1>2. AxInv /\ [NextAxioms]_axiomVars => AxInv'
  BY NextAxInv
<1> QED
  BY <1>1, <1>2, PTL DEF AxiomSpec

\* compute_axiom_layers refuses a task only when its axioms have a cycle: whatever the
\* order of the calls of find_level, an assertion in negate is the other way to stop.
THEOREM OnlyCyclesRefused == AxiomSpec => []RefusedRightly
<1>1. AxInv => RefusedRightly
  BY DEF AxInv
<1> QED
  BY <1>1, AxiomInvariant, PTL

\* What compute_axiom_layers promises the evaluator: a rule that changes a value waits
\* for the layer of what it reads, and for the end of that layer if it reads a default.
THEOREM LayersRespectDefaults == AxiomSpec => []LayeredRightly
<1>1. AxInv => LayeredRightly
  BY DEF AxInv
<1> QED
  BY <1>1, AxiomInvariant, PTL

\* What the evaluator finds is what the axioms mean: axiom_rules.py and axioms.cc together,
\* for every program, in every state, and however often a state is evaluated.
THEOREM AxiomsAlwaysMean == AxiomSpec => []AxiomsMean
<1>1. AxInv => AxiomsMean
  BY InvMeans
<1> QED
  BY <1>1, AxiomInvariant, PTL
===============================================================================
