------------------------------ MODULE CnfProofs ------------------------------
(***************************************************************************)
(* The two users of clauses, for all their inputs.  The builder: how facts *)
(* and gates are numbered and what the clauses of gates say, for any facts *)
(* and any number of rounds and gates.  The preprocessor: what each of its *)
(* simplifications keeps of any formula, and so what they keep together.   *)
(***************************************************************************)
EXTENDS CnfPreprocessor, CnfBuilder, FiniteSetTheorems, WellFoundedInduction, TLAPS

\* ids numbers its facts apart, below n.
Apart(num, n) ==
  /\ \A f \in DOMAIN num : num[f] \in 1..(n - 1)
  /\ \A f, g \in DOMAIN num : num[f] = num[g] => f = g

LEMMA OrderExists ==
  ASSUME NEW S, IsFiniteSet(S)
  PROVE  \E o \in [S -> 1..Cardinality(S)] : \A f, g \in S : o[f] = o[g] => f = g
<1> DEFINE n == Cardinality(S)
<1>1. n \in Nat
  BY FS_CardinalityType
<1>2. IsFiniteSet(1..n) /\ Cardinality(1..n) = n
  BY <1>1, FS_Interval
<1>3. ExistsBijection(S, 1..n)
  BY <1>2, FS_SameCardinalityBij
<1>4. PICK o \in Bijection(S, 1..n) : TRUE
  BY <1>3 DEF ExistsBijection
<1> QED
  BY <1>4 DEF Bijection, Injection, IsInjective

LEMMA NumberApart ==
  ASSUME NEW fs, IsFiniteSet(fs), next \in Nat \ {0}, Apart(ids, next)
  PROVE  /\ Cardinality(fs \ DOMAIN ids) \in Nat /\ DOMAIN Number(fs) = DOMAIN ids \cup fs
         /\ Apart(Number(fs), next + Cardinality(fs \ DOMAIN ids))
         /\ \A f \in DOMAIN ids : Number(fs)[f] = ids[f]
         /\ \A f \in fs \ DOMAIN ids : Number(fs)[f] >= next
<1> DEFINE new == fs \ DOMAIN ids
           k == Cardinality(new)
           order == CHOOSE o \in [new -> 1..k] : \A f, g \in new : o[f] = o[g] => f = g
<1>1. IsFiniteSet(new) /\ k \in Nat
  BY FS_Difference, FS_CardinalityType
<1>2. order \in [new -> 1..k] /\ \A f, g \in new : order[f] = order[g] => f = g
  BY <1>1, OrderExists
<1>3. Number(fs) = [f \in DOMAIN ids \cup fs |-> IF f \in new THEN next + order[f] - 1 ELSE ids[f]]
  BY DEF Number
<1> HIDE DEF order, k
<1>4. \A f \in new : Number(fs)[f] = next + order[f] - 1 /\ order[f] \in 1..k
  BY <1>2, <1>3
<1>5. \A f \in DOMAIN ids : Number(fs)[f] = ids[f] /\ ids[f] \in 1..(next - 1)
  BY <1>3 DEF Apart
<1>6. DOMAIN Number(fs) = DOMAIN ids \cup new
  BY <1>3
<1>7. \A f \in DOMAIN Number(fs) : Number(fs)[f] \in 1..(next + k - 1)
  BY <1>1, <1>4, <1>5, <1>6
<1>8. ASSUME NEW f \in DOMAIN Number(fs), NEW g \in DOMAIN Number(fs), Number(fs)[f] = Number(fs)[g]
      PROVE  f = g
  <2>1. CASE f \in new /\ g \in new
    <3>1. order[f] = order[g]
      BY <1>4, <1>8, <2>1
    <3> QED
      BY <1>2, <2>1, <3>1
  <2>2. CASE f \in DOMAIN ids /\ g \in DOMAIN ids
    BY <1>5, <1>8, <2>2 DEF Apart
  <2>3. CASE f \in new /\ g \in DOMAIN ids
    BY <1>4, <1>5, <1>8, <2>3
  <2>4. CASE f \in DOMAIN ids /\ g \in new
    BY <1>4, <1>5, <1>8, <2>4
  <2> QED
    BY <1>6, <1>8, <2>1, <2>2, <2>3, <2>4
<1>9. Apart(Number(fs), next + k)
  <2> DEFINE h == Number(fs)
  <2>1. (next + k) - 1 = next + k - 1
    BY <1>1
  <2> HIDE DEF h
  <2> QED
    BY <1>7, <1>8, <2>1 DEF Apart, h
<1>10. \A f \in new : Number(fs)[f] >= next
  BY <1>1, <1>4
<1> QED
  BY <1>1, <1>5, <1>6, <1>9, <1>10 DEF k

-----------------------------------------------------------------------------
(* What keeps IdsApart: ids are below the next one, gates of the round too, *)
(* and what was saved starts above what it numbered.                        *)

GatesBelow == \A g \in gates : g.out \in 1..(next - 1) /\ g.out \notin FactVars

Saved ==
  /\ DOMAIN ids = {} => round = 0 /\ next = 1 /\ gates = {}
  /\ round > 0 => base.next \in Nat \ {0} /\ Apart(base.ids, base.next) /\ DOMAIN base.ids # {}

IInv ==
  /\ round \in Nat /\ next \in Nat \ {0}
  /\ Apart(ids, next) /\ GatesBelow /\ Saved

LEMMA NothingNumbered == InitBuilder => DOMAIN ids = {}
<1>1. << >> \in Seq({}) /\ Len(<< >>) = 0
  OBVIOUS
<1>2. DOMAIN << >> = 1..0
  BY <1>1
<1>3. 1..0 = {}
  OBVIOUS
<1> QED
  BY <1>2, <1>3 DEF InitBuilder

LEMMA InitNumbered == InitBuilder => IInv
<1> SUFFICES ASSUME InitBuilder PROVE IInv
  OBVIOUS
<1>1. DOMAIN ids = {} /\ next = 1 /\ gates = {} /\ round = 0
  BY NothingNumbered DEF InitBuilder
<1> QED
  BY <1>1 DEF IInv, Apart, GatesBelow, Saved

LEMMA IInvImplies == IInv => IdsApart
BY DEF IInv, IdsApart, Apart, GatesBelow

\* A gate that is asked for gets an id above all facts, or one it had.
LEMMA MakeBelow ==
  ASSUME NEW kind, NEW ins, NEW n \in Nat \ {0}, Make(kind, ins, n),
         n >= next, next \in Nat \ {0}, GatesBelow, Apart(ids', n),
         \A f \in DOMAIN ids' : (f \in DOMAIN ids /\ ids'[f] = ids[f]) \/ ids'[f] >= next
  PROVE  next' \in Nat \ {0} /\ next' >= n /\ GatesBelow' /\ Apart(ids', next')
<1>1. next' \in {n, n + 1} /\ gates' \subseteq gates \cup {Gate(kind, ins, n)}
      /\ (next' = n => gates' = gates)
  BY DEF Make
<1>2. Apart(ids', next')
  BY <1>1 DEF Apart
<1>3. ASSUME NEW g \in gates
      PROVE  g.out \in 1..(next' - 1) /\ g.out \notin FactVars'
  BY <1>1 DEF GatesBelow, FactVars
<1>4. n \notin FactVars'
  BY DEF Apart, FactVars
<1>5. GatesBelow'
  <2>1. ASSUME NEW g \in gates', g \notin gates
        PROVE  g.out \in 1..(next' - 1) /\ g.out \notin FactVars'
    BY <1>1, <1>4, <2>1 DEF Gate
  <2> QED
    BY <1>3, <2>1 DEF GatesBelow
<1> QED
  BY <1>1, <1>2, <1>5

LEMMA TermNumbered ==
  ASSUME IInv, NEW fs, IsFiniteSet(fs), Term(fs)
  PROVE  IInv'
<1>1. round > 0 /\ round' = round /\ base' = base
  BY DEF Term, IInv
<1>2. CASE UNCHANGED <<ids, next, gates>>
  BY <1>1, <1>2 DEF IInv, Apart, GatesBelow, Saved, FactVars
<1>3. CASE UNCHANGED <<ids, gates>> /\ next' \in {next, next + 1}
  <2>1. next' \in Nat \ {0} /\ Apart(ids', next')
    BY <1>3 DEF IInv, Apart
  <2>2. GatesBelow'
    BY <1>3 DEF IInv, GatesBelow, FactVars
  <2> QED
    BY <1>1, <1>3, <2>1, <2>2 DEF IInv, Saved
<1>4. CASE ids' = Number(fs) /\ \E ins : Make(PlainAnd, ins, next + Cardinality(fs \ DOMAIN ids))
  <2> DEFINE n == next + Cardinality(fs \ DOMAIN ids)
  <2>1. /\ Cardinality(fs \ DOMAIN ids) \in Nat /\ DOMAIN ids' = DOMAIN ids \cup fs
        /\ Apart(ids', n)
        /\ \A f \in DOMAIN ids : ids'[f] = ids[f]
        /\ \A f \in fs \ DOMAIN ids : ids'[f] >= next
    BY <1>4, NumberApart DEF IInv
  <2>2. n \in Nat \ {0} /\ n >= next
    BY <2>1 DEF IInv
  <2>3. PICK ins : Make(PlainAnd, ins, n)
    BY <1>4
  <2> HIDE DEF n
  <2>4. next' \in Nat \ {0} /\ GatesBelow' /\ Apart(ids', next')
    BY <2>1, <2>2, <2>3, MakeBelow DEF IInv
  <2>5. DOMAIN ids' # {}
    <3>1. round # 0
      BY <1>1 DEF IInv
    <3>2. DOMAIN ids # {}
      BY <3>1 DEF IInv, Saved
    <3>3. DOMAIN ids' = DOMAIN ids \cup fs
      BY <2>1
    <3> QED
      BY <3>2, <3>3
  <2> QED
    BY <1>1, <2>4, <2>5 DEF IInv, Saved
<1> QED
  BY <1>2, <1>3, <1>4 DEF Term

LEMMA BeginRoundNumbered ==
  ASSUME IInv, BeginRound
  PROVE  IInv'
<1>1. round' = round + 1 /\ gates' = {} /\ ids' = base'.ids /\ next' = base'.next
  BY DEF BeginRound, NoGates, SavedNext
<1>2. base'.next \in Nat \ {0} /\ Apart(base'.ids, base'.next) /\ DOMAIN base'.ids # {}
  <2>1. CASE round = 0
    BY <2>1 DEF BeginRound, IInv
  <2>2. CASE round # 0
    BY <2>2 DEF BeginRound, IInv, Saved
  <2> QED
    BY <2>1, <2>2
<1> QED
  BY <1>1, <1>2 DEF IInv, GatesBelow, Saved

LEMMA NextNumbered ==
  ASSUME IInv, [NextBuilder]_builderVars, IsFiniteSet(Static), IsFiniteSet(Later)
  PROVE  IInv'
<1>1. CASE BuildStatic
  <2>1. next = 1 /\ gates = {} /\ DOMAIN ids = {} /\ round = 0
    BY <1>1 DEF BuildStatic, IInv, Saved
  <2>2. Static \ DOMAIN ids = Static
    BY <2>1
  <2>3. /\ Cardinality(Static) \in Nat /\ DOMAIN ids' = Static
        /\ Apart(ids', next') /\ next' = Cardinality(Static) + 1
    BY <1>1, <2>1, <2>2, NumberApart DEF BuildStatic, IInv
  <2>4. gates' = {} /\ round' = 0 /\ next' \in Nat \ {0}
    BY <1>1, <2>1, <2>3 DEF BuildStatic
  <2>5. DOMAIN ids' = {} => next' = 1
    BY <2>3, FS_EmptySet
  <2> QED
    BY <2>3, <2>4, <2>5 DEF IInv, GatesBelow, Saved
<1>2. CASE BeginRound
  BY <1>2, BeginRoundNumbered
<1>3. ASSUME NEW fs \in SmallSets(Static \cup Later), Term(fs)
      PROVE  IInv'
  <2>1. IsFiniteSet(fs)
    BY FS_Union, FS_Subset DEF SmallSets
  <2> QED
    BY <1>3, <2>1, TermNumbered
<1>4. ASSUME NEW kind, NEW ins, AskGate(kind, ins)
      PROVE  IInv'
  <2>1. Make(kind, ins, next) /\ ids' = ids /\ round' = round /\ base' = base /\ DOMAIN ids # {}
    BY <1>4 DEF AskGate
  <2>2. next' \in Nat \ {0} /\ GatesBelow' /\ Apart(ids', next')
    BY <2>1, MakeBelow DEF IInv
  <2> QED
    BY <2>1, <2>2 DEF IInv, Saved
<1>5. ASSUME NEW f, NEW l, DefineFact(f, l)
      PROVE  IInv'
  <2>1. {f} \ DOMAIN ids = {f} /\ IsFiniteSet({f}) /\ Cardinality({f}) = 1
    BY <1>5, FS_Singleton DEF DefineFact
  <2>2. /\ Apart(ids', next') /\ DOMAIN ids' = DOMAIN ids \cup {f} /\ next' = next + 1
        /\ \A g \in DOMAIN ids : ids'[g] = ids[g]
        /\ ids'[f] >= next
    BY <1>5, <2>1, NumberApart DEF DefineFact, IInv
  <2>3. gates' = gates /\ round' = round /\ base' = base /\ round > 0
    BY <1>5 DEF DefineFact
  <2>4. next' \in Nat \ {0}
    BY <2>2 DEF IInv
  <2>5. GatesBelow'
    BY <2>2, <2>3 DEF IInv, GatesBelow, FactVars
  <2> QED
    BY <2>2, <2>3, <2>4, <2>5 DEF IInv, Saved
<1>6. CASE UNCHANGED builderVars
  BY <1>6 DEF builderVars, IInv, Apart, GatesBelow, Saved, FactVars
<1> QED
  BY <1>1, <1>2, <1>3, <1>4, <1>5, <1>6 DEF NextBuilder

\* With finitely many facts, in every round and however many gates are asked for, no
\* two facts and no fact and gate of the round share a SAT variable, although every round
\* gives out again the ids above its static base (sat_var_manager.cc, cnf_builder.cc:525).
THEOREM IdsStayApart ==
  ASSUME IsFiniteSet(Static), IsFiniteSet(Later)
  PROVE  BuilderSpec => []IdsApart
<1>1. IInv /\ [NextBuilder]_builderVars => IInv'
  BY NextNumbered
<1> QED
  BY InitNumbered, IInvImplies, <1>1, PTL DEF BuilderSpec

-----------------------------------------------------------------------------
(* What the clauses of a gate say, for any number of inputs.                *)

Below(n) == {l \in Int : l # 0 /\ -n < l /\ l < n}
Sat(m, F) == \A c \in F : ClauseTrue(m, c)
Right(m, g) == LitTrue(m, g.out) <=> Value(m, g)

LEMMA LitTrueBoolean == ASSUME NEW m, NEW l PROVE LitTrue(m, l) \in BOOLEAN
<1>1. ASSUME l > 0 PROVE LitTrue(m, l) \in BOOLEAN
  BY <1>1 DEF LitTrue
<1>2. ASSUME ~(l > 0) PROVE LitTrue(m, l) \in BOOLEAN
  BY <1>2 DEF LitTrue
<1> QED
  BY <1>1, <1>2

LEMMA NegatedFalse ==
  ASSUME NEW m, NEW l \in Int, l # 0
  PROVE  LitTrue(m, -l) <=> ~LitTrue(m, l)
<1>1. CASE l > 0
  BY <1>1 DEF LitTrue
<1>2. CASE l < 0
  BY <1>2 DEF LitTrue
<1> QED
  BY <1>1, <1>2

\* The long clause over the inputs is no tautology when the gate is not constant, nor
\* is a short one; so all of them are added.
LEMMA AllKept ==
  ASSUME NEW n \in Nat \ {0}, NEW ins \in SUBSET Below(n), ~IsConstant(ins)
  PROVE  /\ AndClauses(n, ins) = {{-n, l} : l \in ins} \cup {{n} \cup Negated(ins)}
         /\ OrClauses(n, ins) = {{n, -l} : l \in ins} \cup {{-n} \cup ins}
<1>1. ins \cap Negated(ins) = {}
  BY DEF IsConstant
<1>2. \A l \in ins : l \in Int /\ l # 0 /\ l # n /\ l # -n
  BY DEF Below
<1>3. \A l \in ins : {-n, l} \cap Negated({-n, l}) = {} /\ {n, -l} \cap Negated({n, -l}) = {}
  <2> SUFFICES ASSUME NEW l \in ins
               PROVE  {-n, l} \cap Negated({-n, l}) = {} /\ {n, -l} \cap Negated({n, -l}) = {}
    OBVIOUS
  <2>1. Negated({-n, l}) = {-(-n), -l} /\ Negated({n, -l}) = {-n, -(-l)}
    BY DEF Negated
  <2>2. l \in Int /\ l # 0 /\ l # n /\ l # -n
    BY <1>2
  <2> QED
    BY <2>1, <2>2
<1>4. ({n} \cup Negated(ins)) \cap Negated({n} \cup Negated(ins)) = {}
  <2>1. \A x \in Negated(ins) : -x \in ins /\ x # n /\ x # -n /\ x \in Int
    BY <1>2 DEF Negated
  <2>2. \A x \in Negated({n} \cup Negated(ins)) : x = -n \/ x \in ins
    BY <2>1 DEF Negated
  <2>3. n # -n
    OBVIOUS
  <2> QED
    BY <1>1, <1>2, <2>1, <2>2, <2>3
<1>5. ({-n} \cup ins) \cap Negated({-n} \cup ins) = {}
  <2>1. \A x \in Negated({-n} \cup ins) : x = n \/ x \in Negated(ins)
    BY DEF Negated
  <2>2. \A x \in Negated(ins) : x # n /\ x # -n
    BY <1>2 DEF Negated
  <2> QED
    BY <1>1, <1>2, <2>1, <2>2
<1>6. \A l \in ins : {-n, l} # {} /\ {n, -l} # {}
  OBVIOUS
<1> QED
  BY <1>3, <1>4, <1>5, <1>6 DEF AndClauses, OrClauses, Kept

LEMMA GateClausesMean ==
  ASSUME NEW m, NEW n \in Nat \ {0}, NEW ins \in SUBSET Below(n), ~IsConstant(ins), NEW kind \in Kinds
  PROVE  Sat(m, Clauses(kind, n, ins)) <=> Right(m, Gate(kind, ins, n))
<1> DEFINE T(l) == LitTrue(m, l)
<1>1. \A l \in ins \cup {n} : l \in Int /\ l # 0
  BY DEF Below
<1>2. \A l \in ins \cup {n} : T(-l) <=> ~T(l)
  BY <1>1, NegatedFalse
<1>3. CASE IsAnd(kind)
  <2>1. Clauses(kind, n, ins) = {{-n, l} : l \in ins} \cup {{n} \cup Negated(ins)}
    BY <1>3, AllKept DEF Clauses
  <2>2. Right(m, Gate(kind, ins, n)) <=> (T(n) <=> \A l \in ins : T(l))
    BY <1>3 DEF Right, Gate, Value
  <2>3. Sat(m, Clauses(kind, n, ins))
          <=> (\A l \in ins : ClauseTrue(m, {-n, l})) /\ ClauseTrue(m, {n} \cup Negated(ins))
    BY <2>1 DEF Sat
  <2>4. \A l \in ins : ClauseTrue(m, {-n, l}) <=> T(-n) \/ T(l)
    BY DEF ClauseTrue
  <2>5. ClauseTrue(m, {n} \cup Negated(ins)) <=> T(n) \/ \E l \in ins : T(-l)
    BY DEF ClauseTrue, Negated
  <2> HIDE DEF T
  <2> QED
    BY <1>2, <2>2, <2>3, <2>4, <2>5
<1>4. CASE ~IsAnd(kind)
  <2>1. Clauses(kind, n, ins) = {{n, -l} : l \in ins} \cup {{-n} \cup ins}
    BY <1>4, AllKept DEF Clauses
  <2>2. Right(m, Gate(kind, ins, n)) <=> (T(n) <=> \E l \in ins : T(l))
    BY <1>4 DEF Right, Gate, Value
  <2>3. Sat(m, Clauses(kind, n, ins))
          <=> (\A l \in ins : ClauseTrue(m, {n, -l})) /\ ClauseTrue(m, {-n} \cup ins)
    BY <2>1 DEF Sat
  <2>4. \A l \in ins : ClauseTrue(m, {n, -l}) <=> T(n) \/ T(-l)
    BY DEF ClauseTrue
  <2>5. ClauseTrue(m, {-n} \cup ins) <=> T(-n) \/ \E l \in ins : T(l)
    BY DEF ClauseTrue
  <2> HIDE DEF T
  <2> QED
    BY <1>2, <2>2, <2>3, <2>4, <2>5
<1> QED
  BY <1>3, <1>4

LEMMA ConstantMeans ==
  ASSUME NEW m, NEW n \in Nat \ {0}, NEW ins \in SUBSET Below(n), IsConstant(ins), NEW kind \in Kinds
  PROVE  Sat(m, Constant(kind, ins, n)) <=> Right(m, Gate(kind, ins, n))
<1>1. LitTrue(m, -n) <=> ~LitTrue(m, n)
  BY NegatedFalse
<1>2. \A l : Sat(m, {{l}}) <=> LitTrue(m, l)
  BY DEF Sat, ClauseTrue
<1>3. Negated({n}) = {-n} /\ Negated({-n}) = {n}
  BY DEF Negated
<1>4. Right(m, Gate(kind, ins, n)) <=> (LitTrue(m, n) <=> Value(m, Gate(kind, ins, n)))
  BY DEF Right, Gate
<1>5. CASE ins = {}
  <2>1. Value(m, Gate(kind, ins, n)) <=> IsAnd(kind)
    BY <1>5 DEF Value, Gate
  <2>2. Constant(kind, ins, n) = IF IsAnd(kind) THEN {{n}} ELSE {{-n}}
    BY <1>5 DEF Constant, Neutral
  <2> QED
    BY <1>1, <1>2, <1>4, <2>1, <2>2
<1>6. CASE ins # {}
  <2>1. PICK k \in ins : k \in Negated(ins)
    BY <1>6 DEF IsConstant
  <2>2. -k \in ins /\ k \in Int /\ k # 0
    BY <2>1 DEF Negated, Below
  <2>3. LitTrue(m, -k) <=> ~LitTrue(m, k)
    BY <2>2, NegatedFalse
  <2>4. Value(m, Gate(kind, ins, n)) <=> ~IsAnd(kind)
    BY <2>1, <2>2, <2>3 DEF Value, Gate
  <2>5. Constant(kind, ins, n) = IF IsAnd(kind) THEN {{-n}} ELSE {{n}}
    BY <1>3, <1>6 DEF Constant, Neutral
  <2> QED
    BY <1>1, <1>2, <1>4, <2>4, <2>5
<1> QED
  BY <1>5, <1>6

-----------------------------------------------------------------------------
(* The clauses of a round say what the other clauses and the gates say.     *)

Determined(F, L, A) == \A m : Sat(m, F) <=> Sat(m, L) /\ \A g \in A : Right(m, g)
OutputsBelow(A, n) == \A g \in A : g.out \in Below(n)

LEMMA BelowFinite == ASSUME NEW n \in Nat, NEW ins \in SUBSET Below(n) PROVE IsFiniteSet(ins)
<1>1. \A a, b \in Int : IsFiniteSet(a..b)
  BY FS_Interval
<1>2. ins \subseteq (-n)..n /\ -n \in Int /\ n \in Int
  BY DEF Below
<1>3. IsFiniteSet((-n)..n)
  BY <1>1, <1>2
<1> QED
  BY <1>2, <1>3, FS_Subset

LEMMA GateAdded ==
  ASSUME NEW F, NEW L, NEW A, NEW new, NEW g, Determined(F, L, A),
         \A m : Sat(m, F) => (Sat(m, new) <=> Right(m, g))
  PROVE  Determined(F \cup new, L, A \cup {g})
<1>1. \A m : Sat(m, F \cup new) <=> Sat(m, F) /\ Sat(m, new)
  BY DEF Sat
<1> QED
  BY <1>1 DEF Determined

\* Whatever is handed out for a gate, it and the clauses added for it fit together.
LEMMA MakeDetermined ==
  ASSUME NEW kind \in Kinds, NEW n \in Nat \ {0}, NEW ins \in SUBSET Below(n), Make(kind, ins, n),
         next \in Nat \ {0}, n >= next, NEW L, Determined(built, L, asked),
         gates \subseteq asked, OutputsBelow(asked, next)
  PROVE  /\ Determined(built', L, asked') /\ gates' \subseteq asked'
         /\ OutputsBelow(asked', next')
         /\ asked' = asked \cup {Gate(kind, ins, Output(kind, ins, n))}
<1> DEFINE out == Output(kind, ins, n)
           h == Gate(kind, ins, out)
<1>1. asked' = asked \cup {h}
  BY DEF Make
<1>2. \A i, j \in Nat : i <= j => Below(i) \subseteq Below(j)
  BY DEF Below
<1>3. OutputsBelow(asked, n) /\ OutputsBelow(asked, n + 1)
  BY <1>2 DEF OutputsBelow
<1>4. n \in Below(n + 1) /\ n \notin Below(n)
  BY DEF Below
<1>5. h.out = out /\ h.ins = ins /\ h.kind = kind
  BY DEF Gate
<1>6. CASE IsConstant(ins)
  <2>1. out = n
    BY <1>6 DEF Output, IsConstant
  <2>2. next' = n + 1 /\ built' = built \cup Constant(kind, ins, n) /\ gates' = gates
    BY <1>6, <2>1 DEF Make
  <2>3. \A m : Sat(m, Constant(kind, ins, n)) <=> Right(m, h)
    BY <1>6, <2>1, ConstantMeans
  <2>4. Determined(built', L, asked')
    BY <1>1, <2>2, <2>3, GateAdded
  <2>5. OutputsBelow(asked', next')
    BY <1>1, <1>3, <1>4, <1>5, <2>1, <2>2 DEF OutputsBelow
  <2> QED
    BY <1>1, <2>2, <2>4, <2>5
<1>7. CASE ~IsConstant(ins) /\ Cardinality(ins) = 1
  <2>1. PICK l : ins = {l}
    BY <1>7, BelowFinite, FS_Singleton
  <2>2. out = l
    <3>1. out = CHOOSE k \in ins : TRUE
      BY <1>7 DEF Output, IsConstant
    <3> QED
      BY <2>1, <3>1
  <2>3. out # n
    BY <1>4, <2>1, <2>2
  <2>4. next' = n /\ built' = built /\ gates' = gates
    BY <2>3 DEF Make
  <2>5. \A m : Right(m, h)
    BY <1>5, <2>1, <2>2 DEF Right, Value
  <2>6. Determined(built', L, asked')
    BY <1>1, <2>4, <2>5 DEF Determined
  <2>7. OutputsBelow(asked', next')
    BY <1>1, <1>3, <1>5, <2>1, <2>2, <2>4 DEF OutputsBelow
  <2> QED
    BY <1>1, <2>4, <2>6, <2>7
<1>8. CASE ~IsConstant(ins) /\ Cardinality(ins) # 1 /\ Cached(kind, ins) # {}
  <2> DEFINE c == CHOOSE g \in Cached(kind, ins) : TRUE
  <2>1. c \in asked /\ c.kind = kind /\ c.ins = ins
    BY <1>8 DEF Cached
  <2>2. out = c.out
    BY <1>8 DEF Output, IsConstant
  <2> HIDE DEF c
  <2>3. out # n
    BY <1>3, <1>4, <2>1, <2>2 DEF OutputsBelow
  <2>4. next' = n /\ built' = built /\ gates' = gates
    BY <2>3 DEF Make
  <2>5. \A m : Right(m, h) <=> Right(m, c)
    BY <1>5, <2>1, <2>2 DEF Right, Value
  <2>6. Determined(built', L, asked')
    BY <1>1, <2>1, <2>4, <2>5 DEF Determined
  <2>7. OutputsBelow(asked', next')
    BY <1>1, <1>3, <1>5, <2>1, <2>2, <2>4 DEF OutputsBelow
  <2> QED
    BY <1>1, <2>4, <2>6, <2>7
<1>9. CASE ~IsConstant(ins) /\ Cardinality(ins) # 1 /\ Cached(kind, ins) = {}
  <2>1. out = n
    BY <1>9 DEF Output, IsConstant
  <2>2. next' = n + 1 /\ built' = built \cup Clauses(kind, n, ins) /\ gates' = gates \cup {h}
    BY <1>9, <2>1 DEF Make
  <2>3. \A m : Sat(m, Clauses(kind, n, ins)) <=> Right(m, h)
    BY <1>9, <2>1, GateClausesMean
  <2>4. Determined(built', L, asked')
    BY <1>1, <2>2, <2>3, GateAdded
  <2>5. OutputsBelow(asked', next')
    BY <1>1, <1>3, <1>4, <1>5, <2>1, <2>2 DEF OutputsBelow
  <2> QED
    BY <1>1, <2>2, <2>4, <2>5
<1> QED
  BY <1>1, <1>6, <1>7, <1>8, <1>9

-----------------------------------------------------------------------------
(* The invariant.  A term is a gate that was asked for, and so is the true  *)
(* variable; the gates in the cache are of this round.                      *)

TermsAsked ==
  /\ \A t \in terms : t.facts \subseteq DOMAIN ids /\ Gate(PlainAnd, {ids[f] : f \in t.facts}, t.out) \in asked
  /\ trueVar # 0 => Gate(PlainAnd, {}, trueVar) \in asked

\* What a round starts from.
BaseDetermined ==
  /\ round > 0 => /\ Determined(base.built, ExactlyOne({base.ids[f] : f \in Static}), base.asked)
                  /\ OutputsBelow(base.asked, base.next)
  /\ round = 0 => /\ terms = {} /\ trueVar = 0
                  /\ DOMAIN ids # {} => Static \subseteq DOMAIN ids /\ laid = ExactlyOne({ids[f] : f \in Static})
                  /\ DOMAIN ids = {} => asked = {}

MeaningInv ==
  /\ Determined(built, laid, asked) /\ gates \subseteq asked /\ OutputsBelow(asked, next)
  /\ TermsAsked /\ BaseDetermined

LEMMA InitMeans == InitBuilder => MeaningInv
<1> SUFFICES ASSUME InitBuilder PROVE MeaningInv
  OBVIOUS
<1>1. asked = {} /\ gates = {} /\ terms = {} /\ trueVar = 0 /\ built = {} /\ laid = {} /\ round = 0
  BY DEF InitBuilder
<1>2. DOMAIN ids = {}
  BY NothingNumbered
<1>3. Determined(built, laid, asked)
  BY <1>1 DEF Determined
<1>4. gates \subseteq asked /\ OutputsBelow(asked, next) /\ TermsAsked
  BY <1>1 DEF OutputsBelow, TermsAsked
<1>5. BaseDetermined
  <2>1. round = 0
    BY <1>1
  <2>2. ~(round > 0)
    BY <2>1
  <2> QED
    BY <1>1, <1>2, <2>2 DEF BaseDetermined
<1> QED
  BY <1>3, <1>4, <1>5 DEF MeaningInv

\* The inputs a caller may pass are below the next id.
LEMMA InputsBelow ==
  ASSUME IInv, OutputsBelow(asked, next), NEW ins \in SUBSET Inputs
  PROVE  ins \in SUBSET Below(next)
<1>1. \A x \in FactVars : x \in 1..(next - 1)
  BY DEF IInv, Apart, FactVars
<1>2. \A x \in Negated(FactVars) : x \in Below(next)
  BY <1>1 DEF Negated, Below, IInv
<1>3. \A x \in FactVars : x \in Below(next)
  BY <1>1 DEF Below, IInv
<1>4. \A x \in Handed : x \in Below(next)
  BY DEF Handed, OutputsBelow
<1> QED
  BY <1>2, <1>3, <1>4 DEF Inputs

LEMMA AskGateMeans ==
  ASSUME IInv, MeaningInv, NEW kind \in Kinds, NEW ins \in SUBSET Inputs, AskGate(kind, ins)
  PROVE  MeaningInv'
<1>1. Make(kind, ins, next) /\ UNCHANGED <<round, ids, terms, trueVar, base, laid>> /\ DOMAIN ids # {}
  BY DEF AskGate
<1>2. ins \in SUBSET Below(next)
  BY InputsBelow DEF MeaningInv
<1>3. next \in Nat \ {0} /\ next >= next
  BY DEF IInv
<1>4. Determined(built', laid, asked') /\ gates' \subseteq asked' /\ OutputsBelow(asked', next')
      /\ asked \subseteq asked'
  BY <1>1, <1>2, <1>3, MakeDetermined DEF MeaningInv
<1>5. TermsAsked'
  BY <1>1, <1>4 DEF MeaningInv, TermsAsked
<1>6. BaseDetermined'
  BY <1>1 DEF MeaningInv, BaseDetermined
<1> QED
  BY <1>1, <1>4, <1>5, <1>6 DEF MeaningInv

LEMMA DefineFactMeans ==
  ASSUME IInv, MeaningInv, NEW f, NEW l, DefineFact(f, l)
  PROVE  MeaningInv'
<1>1. /\ round > 0 /\ f \notin DOMAIN ids /\ ids' = Number({f}) /\ next' = next + 1
      /\ UNCHANGED <<round, gates, terms, trueVar, base, asked>>
  BY DEF DefineFact
<1>2. PICK D : built' = built \cup D /\ laid' = laid \cup D
  BY DEF DefineFact
<1>3. Determined(built', laid', asked')
  BY <1>1, <1>2 DEF MeaningInv, Determined, Sat
<1>4. IsFiniteSet({f})
  BY FS_Singleton
<1>5. DOMAIN ids' = DOMAIN ids \cup {f} /\ \A g \in DOMAIN ids : ids'[g] = ids[g]
  BY <1>1, <1>4, NumberApart DEF IInv
<1>6. \A t \in terms : {ids'[g] : g \in t.facts} = {ids[g] : g \in t.facts}
  BY <1>5 DEF MeaningInv, TermsAsked
<1>7. TermsAsked'
  BY <1>1, <1>5, <1>6 DEF MeaningInv, TermsAsked
<1>8. OutputsBelow(asked', next')
  BY <1>1 DEF IInv, MeaningInv, OutputsBelow, Below
<1>9. BaseDetermined'
  BY <1>1 DEF IInv, MeaningInv, BaseDetermined
<1> QED
  BY <1>1, <1>3, <1>7, <1>8, <1>9 DEF MeaningInv

LEMMA BeginRoundMeans ==
  ASSUME IInv, MeaningInv, BeginRound
  PROVE  MeaningInv'
<1>1. /\ round' = round + 1 /\ gates' = {} /\ terms' = {} /\ trueVar' = 0 /\ built' = base'.built
      /\ asked' = base'.asked /\ next' = base'.next /\ ids' = base'.ids
      /\ laid' = ExactlyOne({base'.ids[f] : f \in Static})
  BY DEF BeginRound, NoGates, NoTerms, SavedNext
<1>2. Determined(base'.built, ExactlyOne({base'.ids[f] : f \in Static}), base'.asked)
      /\ OutputsBelow(base'.asked, base'.next)
  <2>1. CASE round = 0
    <3>1. base' = [ids |-> ids, next |-> next, built |-> built, asked |-> asked] /\ DOMAIN ids # {}
      BY <2>1 DEF BeginRound
    <3>2. laid = ExactlyOne({ids[f] : f \in Static})
      BY <2>1, <3>1 DEF MeaningInv, BaseDetermined
    <3> QED
      BY <3>1, <3>2 DEF MeaningInv
  <2>2. CASE round # 0
    <3>1. base' = base /\ round > 0
      BY <2>2 DEF BeginRound, IInv
    <3> QED
      BY <3>1 DEF MeaningInv, BaseDetermined
  <2> QED
    BY <2>1, <2>2
<1>3. round' > 0 /\ round' # 0
  BY <1>1 DEF IInv
<1>4. BaseDetermined'
  BY <1>2, <1>3 DEF BaseDetermined
<1>5. TermsAsked'
  BY <1>1 DEF TermsAsked
<1> QED
  BY <1>1, <1>2, <1>4, <1>5 DEF MeaningInv

LEMMA BuildStaticMeans ==
  ASSUME IInv, MeaningInv, BuildStatic, IsFiniteSet(Static)
  PROVE  MeaningInv'
<1>1. /\ round = 0 /\ DOMAIN ids = {} /\ ids' = Number(Static) /\ laid' = built'
      /\ built' = ExactlyOne({ids'[f] : f \in Static})
      /\ UNCHANGED <<round, gates, terms, trueVar, base, asked>>
  BY DEF BuildStatic
<1>2. asked = {} /\ gates = {} /\ terms = {} /\ trueVar = 0
  BY <1>1 DEF MeaningInv, BaseDetermined
<1>3. DOMAIN ids' = Static
  BY <1>1, NumberApart DEF IInv
<1>4. Determined(built', laid', asked')
  BY <1>1, <1>2 DEF Determined
<1> QED
  BY <1>1, <1>2, <1>3, <1>4 DEF MeaningInv, OutputsBelow, TermsAsked, BaseDetermined

LEMMA KnownTermMeans ==
  ASSUME IInv, MeaningInv, NEW t \in terms, UNCHANGED <<round, ids, next, built, gates, terms, trueVar, base, laid>>,
         asked' = asked \cup {Gate(PlainAnd, {ids[f] : f \in t.facts}, t.out)}
  PROVE  MeaningInv'
<1>1. asked' = asked
  BY DEF MeaningInv, TermsAsked
<1> QED
  BY <1>1 DEF MeaningInv, TermsAsked, BaseDetermined

\* The empty term: the true variable of the round, new or not.
LEMMA TrueTermMeans ==
  ASSUME IInv, MeaningInv, NEW out, round > 0,
         \/ trueVar # 0 /\ out = trueVar /\ next' = next
         \/ out = next /\ next' = next + 1,
         trueVar' = out, built' = built \cup {{out}}, asked' = asked \cup {Gate(PlainAnd, {}, out)},
         terms' = terms \cup {[facts |-> {}, out |-> out]},
         UNCHANGED <<round, ids, gates, base, laid>>
  PROVE  MeaningInv'
<1> DEFINE h == Gate(PlainAnd, {}, out)
<1>1. h.out = out /\ h.kind = PlainAnd /\ h.ins = {}
  BY DEF Gate
<1>2. \A m : Sat(m, {{out}}) <=> Right(m, h)
  BY <1>1 DEF Sat, ClauseTrue, Right, Value, IsAnd, PlainAnd
<1>3. Determined(built', laid', asked')
  BY <1>2, GateAdded DEF MeaningInv
<1>4. out \in Below(next')
  <2>1. trueVar # 0 => trueVar \in Below(next)
    BY DEF MeaningInv, TermsAsked, OutputsBelow, Gate
  <2>2. next \in Nat \ {0} /\ next \in Below(next + 1)
    BY DEF IInv, Below
  <2> QED
    BY <2>1, <2>2
<1>5. \A g \in asked : g.out \in Below(next')
  BY DEF IInv, MeaningInv, OutputsBelow, Below
<1>6. OutputsBelow(asked', next')
  BY <1>1, <1>4, <1>5 DEF OutputsBelow
<1>7. TermsAsked'
  <2> DEFINE t == [facts |-> {}, out |-> out]
  <2>1. t.facts = {} /\ t.out = out /\ {ids[f] : f \in t.facts} = {}
    OBVIOUS
  <2>2. Gate(PlainAnd, {ids[f] : f \in t.facts}, t.out) \in asked'
    BY <2>1
  <2> HIDE DEF t
  <2> QED
    BY <2>1, <2>2 DEF MeaningInv, TermsAsked, t
<1>8. BaseDetermined'
  BY DEF IInv, MeaningInv, BaseDetermined
<1> QED
  BY <1>3, <1>6, <1>7, <1>8 DEF MeaningInv

LEMMA NewTermMeans ==
  ASSUME IInv, MeaningInv, NEW fs, IsFiniteSet(fs), round > 0, ids' = Number(fs),
         UNCHANGED <<round, trueVar, base, laid>>,
         LET n == next + Cardinality(fs \ DOMAIN ids)
             ins == {ids'[f] : f \in fs}
         IN  /\ Make(PlainAnd, ins, n)
             /\ terms' = terms \cup {[facts |-> fs, out |-> Output(PlainAnd, ins, n)]}
  PROVE  MeaningInv'
<1> DEFINE n == next + Cardinality(fs \ DOMAIN ids)
           ins == {ids'[f] : f \in fs}
           out == Output(PlainAnd, ins, n)
<1>1. /\ Cardinality(fs \ DOMAIN ids) \in Nat /\ DOMAIN ids' = DOMAIN ids \cup fs
      /\ Apart(ids', n)
      /\ \A f \in DOMAIN ids : ids'[f] = ids[f]
  BY NumberApart DEF IInv
<1>2. n \in Nat \ {0} /\ n >= next /\ next \in Nat \ {0}
  BY <1>1 DEF IInv
<1>3. Make(PlainAnd, ins, n) /\ terms' = terms \cup {[facts |-> fs, out |-> out]}
  OBVIOUS
<1> HIDE DEF n
<1>4. ins \in SUBSET Below(n)
  BY <1>1, <1>2 DEF Apart, Below
<1> HIDE DEF ins
<1>5. /\ Determined(built', laid, asked') /\ gates' \subseteq asked' /\ OutputsBelow(asked', next')
      /\ asked' = asked \cup {Gate(PlainAnd, ins, out)}
  BY <1>2, <1>3, <1>4, MakeDetermined DEF MeaningInv, Kinds, PlainAnd
<1>6. \A t \in terms : {ids'[f] : f \in t.facts} = {ids[f] : f \in t.facts}
  BY <1>1 DEF MeaningInv, TermsAsked
<1>7. TermsAsked'
  <2> DEFINE t == [facts |-> fs, out |-> out]
  <2>1. t.facts = fs /\ t.out = out
    OBVIOUS
  <2>2. Gate(PlainAnd, {ids'[f] : f \in t.facts}, t.out) \in asked' /\ t.facts \subseteq DOMAIN ids'
    BY <1>1, <1>5, <2>1 DEF ins
  <2> HIDE DEF t, out
  <2>3. \A u \in terms : u.facts \subseteq DOMAIN ids' /\ Gate(PlainAnd, {ids'[f] : f \in u.facts}, u.out) \in asked'
    BY <1>1, <1>5, <1>6 DEF MeaningInv, TermsAsked
  <2>4. trueVar' # 0 => Gate(PlainAnd, {}, trueVar') \in asked'
    BY <1>5 DEF MeaningInv, TermsAsked
  <2>5. terms' = terms \cup {t}
    BY <1>3 DEF t
  <2> QED
    BY <2>2, <2>3, <2>4, <2>5 DEF TermsAsked
<1>8. BaseDetermined'
  BY DEF IInv, MeaningInv, BaseDetermined
<1> QED
  BY <1>5, <1>7, <1>8 DEF MeaningInv

LEMMA TermMeans ==
  ASSUME IInv, MeaningInv, NEW fs, IsFiniteSet(fs), Term(fs)
  PROVE  MeaningInv'
<1>1. round > 0 /\ UNCHANGED <<round, base, laid>>
  BY DEF Term
<1> DEFINE known == {t \in terms : t.facts = fs}
<1>2. CASE known # {}
  <2> DEFINE t == CHOOSE u \in known : TRUE
  <2>1. t \in terms /\ t.facts = fs
    BY <1>2
  <2>2. /\ asked' = asked \cup {Gate(PlainAnd, {ids[f] : f \in fs}, t.out)}
        /\ UNCHANGED <<ids, next, built, gates, terms, trueVar>>
    BY <1>2 DEF Term
  <2> HIDE DEF t
  <2> QED
    BY <1>1, <2>1, <2>2, KnownTermMeans
<1>3. CASE known = {} /\ fs = {}
  <2>1. PICK out : /\ out = IF trueVar = 0 THEN next ELSE trueVar
                   /\ trueVar' = out /\ next' = IF trueVar = 0 THEN next + 1 ELSE next
                   /\ built' = built \cup {{out}} /\ asked' = asked \cup {Gate(PlainAnd, {}, out)}
                   /\ terms' = terms \cup {[facts |-> {}, out |-> out]} /\ UNCHANGED <<ids, gates>>
    BY <1>3 DEF Term
  <2> QED
    BY <1>1, <2>1, TrueTermMeans
<1>4. CASE known = {} /\ fs # {}
  BY <1>1, <1>4, NewTermMeans DEF Term
<1> QED
  BY <1>2, <1>3, <1>4

LEMMA NextMeans ==
  ASSUME IInv, MeaningInv, [NextBuilder]_builderVars, IsFiniteSet(Static), IsFiniteSet(Later)
  PROVE  MeaningInv'
<1>1. CASE BuildStatic
  BY <1>1, BuildStaticMeans
<1>2. CASE BeginRound
  BY <1>2, BeginRoundMeans
<1>3. ASSUME NEW fs \in SmallSets(Static \cup Later), Term(fs)
      PROVE  MeaningInv'
  <2>1. IsFiniteSet(fs)
    BY FS_Union, FS_Subset DEF SmallSets
  <2> QED
    BY <1>3, <2>1, TermMeans
<1>4. ASSUME NEW kind \in Kinds, NEW ins \in SmallSets(Inputs), AskGate(kind, ins)
      PROVE  MeaningInv'
  <2>1. ins \in SUBSET Inputs
    BY DEF SmallSets
  <2> QED
    BY <1>4, <2>1, AskGateMeans
<1>5. ASSUME NEW f, NEW l, DefineFact(f, l)
      PROVE  MeaningInv'
  BY <1>5, DefineFactMeans
<1>6. CASE UNCHANGED builderVars
  BY <1>6 DEF builderVars, MeaningInv, TermsAsked, BaseDetermined
<1> QED
  BY <1>1, <1>2, <1>3, <1>4, <1>5, <1>6 DEF NextBuilder

LEMMA MeaningImplies == MeaningInv => GatesExact
<1> SUFFICES ASSUME MeaningInv PROVE GatesExact
  OBVIOUS
<1> DEFINE V == 1..(next - 1)
           Correct(m) == \A g \in asked : LitTrue(m, g.out) = Value(m, g)
<1>1. \A m, g : (LitTrue(m, g.out) = Value(m, g)) <=> Right(m, g)
  <2> SUFFICES ASSUME NEW m, NEW g PROVE (LitTrue(m, g.out) = Value(m, g)) <=> Right(m, g)
    OBVIOUS
  <2>1. LitTrue(m, g.out) \in BOOLEAN
    BY LitTrueBoolean
  <2>2. Value(m, g) \in BOOLEAN
    BY DEF Value
  <2> QED
    BY <2>1, <2>2 DEF Right
<1>2. \A m : Sat(m, built) <=> Sat(m, laid) /\ Correct(m)
  BY <1>1 DEF MeaningInv, Determined
<1>3. \A F : Models(F, V) = {m \in SUBSET V : Sat(m, F)}
  BY DEF Models, Sat
<1> HIDE DEF V, Correct
<1>4. Models(built, V) = {n \in Models(laid, V) : Correct(n)}
  BY <1>2, <1>3
<1>5. GatesMean
  BY <1>4 DEF GatesMean, Correct, V
<1>6. GatesConserve
  BY <1>4 DEF GatesConserve, Correct, V
<1> QED
  BY <1>5, <1>6 DEF GatesExact

\* With finitely many facts, in every round and however many gates and terms are asked
\* for: what is handed out, shared and constant gates and terms included, has the value of
\* its gate in every model of the clauses, and the gates take no model away from the
\* others (cnf_builder.cc:301, counter_cnf.cc:1351).
THEOREM GatesAreExact ==
  ASSUME IsFiniteSet(Static), IsFiniteSet(Later)
  PROVE  BuilderSpec => []GatesExact
<1>1. InitBuilder => IInv /\ MeaningInv
  BY InitNumbered, InitMeans
<1>2. IInv /\ MeaningInv /\ [NextBuilder]_builderVars => IInv' /\ MeaningInv'
  BY NextNumbered, NextMeans
<1> QED
  BY <1>1, <1>2, MeaningImplies, PTL DEF BuilderSpec

-----------------------------------------------------------------------------
(* Types: every literal is of a variable that was given out.                *)

Written(F, n) == \A c \in F : c \subseteq Below(n)
GatesTyped(A, n) == \A g \in A : g.kind \in Kinds /\ g.ins \subseteq Below(n) /\ g.out \in Below(n)

TypeInv ==
  /\ round \in 0..MaxRounds /\ trueVar \in 0..(next - 1)
  /\ DOMAIN ids \subseteq Static \cup Later /\ Written(built, next) /\ GatesTyped(asked, next)
  /\ round > 0 => /\ DOMAIN base.ids \subseteq Static \cup Later
                  /\ Written(base.built, base.next) /\ GatesTyped(base.asked, base.next)

LEMMA StaysBelow ==
  ASSUME NEW x, NEW n \in Nat \ {0}, x = 0 \/ \E k \in Nat : k <= n /\ x \in 0..(k - 1)
  PROVE  x \in 0..(n - 1)
OBVIOUS

LEMMA BelowGrows ==
  ASSUME NEW i \in Nat, NEW j \in Nat, i <= j
  PROVE  /\ Below(i) \subseteq Below(j)
         /\ \A F : Written(F, i) => Written(F, j)
         /\ \A A : GatesTyped(A, i) => GatesTyped(A, j)
<1>1. Below(i) \subseteq Below(j)
  BY DEF Below
<1> QED
  BY <1>1 DEF Written, GatesTyped

LEMMA VarsBelow ==
  ASSUME NEW n \in Nat \ {0}, NEW F, Written(F, n)
  PROVE  VarsIn(F) \subseteq 1..(n - 1)
<1>1. \A l \in Below(n) : VarOf(l) \in 1..(n - 1)
  BY DEF VarOf, Below
<1> QED
  BY <1>1 DEF Written, VarsIn

LEMMA GateClausesWritten ==
  ASSUME NEW n \in Nat \ {0}, NEW ins \in SUBSET Below(n), NEW kind \in Kinds
  PROVE  Written(Clauses(kind, n, ins), n + 1) /\ Written(Constant(kind, ins, n), n + 1)
<1>1. n \in Below(n + 1) /\ -n \in Below(n + 1) /\ -(-n) = n
  BY DEF Below
<1>2. \A l \in ins : l \in Below(n + 1) /\ -l \in Below(n + 1)
  BY DEF Below
<1>3. Negated(ins) \subseteq Below(n + 1) /\ ins \subseteq Below(n + 1)
  BY <1>2 DEF Negated
<1>4. Written(AndClauses(n, ins), n + 1)
  BY <1>1, <1>2, <1>3 DEF Written, AndClauses, Kept
<1>5. Written(OrClauses(n, ins), n + 1)
  BY <1>1, <1>2, <1>3 DEF Written, OrClauses, Kept
<1>6. Negated({n}) = {-n} /\ Negated({-n}) = {n}
  BY <1>1 DEF Negated
<1>7. Written(Constant(kind, ins, n), n + 1)
  BY <1>1, <1>6 DEF Written, Constant, Neutral
<1> QED
  BY <1>4, <1>5, <1>7 DEF Clauses

LEMMA MakeTyped ==
  ASSUME NEW kind \in Kinds, NEW n \in Nat \ {0}, NEW ins \in SUBSET Below(n), Make(kind, ins, n),
         next \in Nat \ {0}, n >= next, Written(built, next), GatesTyped(asked, next),
         OutputsBelow(asked', next')
  PROVE  Written(built', next') /\ GatesTyped(asked', next') /\ next' >= n /\ next' \in Nat
<1> DEFINE out == Output(kind, ins, n)
           h == Gate(kind, ins, out)
<1>1. asked' = asked \cup {h} /\ h.kind = kind /\ h.ins = ins
  BY DEF Make, Gate
<1>2. next' \in {n, n + 1} /\ next' >= n /\ next' >= next /\ next' \in Nat
  BY DEF Make
<1>3. ins \subseteq Below(next') /\ Written(built, next') /\ GatesTyped(asked, next')
  BY <1>2, BelowGrows
<1>4. GatesTyped(asked', next')
  BY <1>1, <1>3 DEF GatesTyped, OutputsBelow
<1>5. CASE out = n
  <2>1. next' = n + 1
    BY <1>5 DEF Make
  <2>2. built' \subseteq built \cup Constant(kind, ins, n) \cup Clauses(kind, n, ins)
    BY DEF Make
  <2> QED
    BY <1>2, <1>3, <1>4, <2>1, <2>2, GateClausesWritten DEF Written
<1>6. CASE out # n
  BY <1>2, <1>3, <1>4, <1>6 DEF Make
<1> QED
  BY <1>5, <1>6

LEMMA ExactlyOneWritten ==
  ASSUME NEW n \in Nat \ {0}, NEW vs, vs \subseteq 1..(n - 1)
  PROVE  Written(ExactlyOne(vs), n)
<1>1. \A v \in vs : v \in Below(n) /\ -v \in Below(n)
  BY DEF Below
<1>2. \A c \in ExactlyOne(vs) : c = vs \/ \E p \in vs \X vs : c = {-p[1], -p[2]}
  BY DEF ExactlyOne, Kept
<1>3. \A p \in vs \X vs : p[1] \in vs /\ p[2] \in vs
  OBVIOUS
<1> QED
  <2> SUFFICES ASSUME NEW c \in ExactlyOne(vs)
               PROVE  c \subseteq Below(n)
    BY DEF Written
  <2>1. CASE c = vs
    BY <1>1, <2>1
  <2>2. ASSUME NEW p \in vs \X vs, c = {-p[1], -p[2]} PROVE c \subseteq Below(n)
    BY <1>1, <1>3, <2>2
  <2> QED
    BY <1>2, <2>1, <2>2

LEMMA DefinedWritten ==
  ASSUME NEW n \in Nat \ {0}, NEW cur \in 1..(n - 1), NEW l \in Below(n)
  PROVE  Written(Defined(cur, {l}, 0), n)
<1>1. cur \in Below(n) /\ -cur \in Below(n) /\ -l \in Below(n)
  BY DEF Below
<1> QED
  BY <1>1 DEF Written, Defined, Kept

LEMMA InitTyped == ASSUME MaxRounds \in Nat, InitBuilder PROVE TypeInv
<1>1. asked = {} /\ trueVar = 0 /\ built = {} /\ round = 0 /\ next = 1
  BY DEF InitBuilder
<1>2. DOMAIN ids = {}
  BY NothingNumbered
<1>3. ~(round > 0) /\ round \in 0..MaxRounds
  <2>1. round = 0
    BY <1>1
  <2> QED
    BY <2>1
<1>4. trueVar \in 0..(next - 1)
  <2>1. trueVar = 0 /\ next = 1
    BY <1>1
  <2> QED
    BY <2>1
<1> QED
  BY <1>1, <1>2, <1>3, <1>4 DEF TypeInv, Written, GatesTyped

LEMMA BuildStaticTyped ==
  ASSUME MaxRounds \in Nat, IsFiniteSet(Static), IInv, MeaningInv, TypeInv, BuildStatic, IInv'
  PROVE  TypeInv'
<1>1. /\ round = 0 /\ DOMAIN ids = {} /\ ids' = Number(Static)
      /\ built' = ExactlyOne({ids'[f] : f \in Static})
      /\ UNCHANGED <<round, trueVar, base, asked>>
  BY DEF BuildStatic
<1>2. trueVar = 0 /\ asked = {}
  BY <1>1 DEF MeaningInv, BaseDetermined
<1>3. next' \in Nat \ {0} /\ Apart(ids', next') /\ DOMAIN ids' = Static
  BY <1>1, NumberApart DEF IInv
<1>4. {ids'[f] : f \in Static} \subseteq 1..(next' - 1)
  BY <1>3 DEF Apart
<1>5. Written(built', next')
  BY <1>1, <1>3, <1>4, ExactlyOneWritten
<1>6. trueVar' = 0 /\ GatesTyped(asked', next')
  BY <1>1, <1>2 DEF GatesTyped
<1>7. trueVar' \in 0..(next' - 1)
  BY <1>3, <1>6, StaysBelow
<1> QED
  BY <1>1, <1>3, <1>5, <1>6, <1>7 DEF TypeInv

LEMMA BeginRoundTyped ==
  ASSUME MaxRounds \in Nat, IInv, TypeInv, BeginRound, IInv'
  PROVE  TypeInv'
<1>1. /\ round < MaxRounds /\ round' = round + 1 /\ built' = base'.built
      /\ asked' = base'.asked /\ next' = base'.next /\ ids' = base'.ids /\ trueVar' = 0
  BY DEF BeginRound, SavedNext
<1>2. /\ DOMAIN base'.ids \subseteq Static \cup Later
      /\ Written(base'.built, base'.next) /\ GatesTyped(base'.asked, base'.next)
  <2>1. CASE round = 0
    <3>1. base' = [ids |-> ids, next |-> next, built |-> built, asked |-> asked]
      BY <2>1 DEF BeginRound
    <3> QED
      BY <3>1 DEF TypeInv
  <2>2. CASE round # 0
    <3>1. base' = base /\ round > 0
      BY <2>2 DEF BeginRound, IInv
    <3> QED
      BY <3>1 DEF TypeInv
  <2> QED
    BY <2>1, <2>2
<1>3. round' \in 0..MaxRounds
  BY <1>1 DEF TypeInv
<1>4. trueVar' \in 0..(next' - 1)
  BY <1>1 DEF IInv
<1> QED
  BY <1>1, <1>2, <1>3, <1>4 DEF TypeInv

LEMMA AskGateTyped ==
  ASSUME IInv, MeaningInv, TypeInv, NEW kind \in Kinds, NEW ins \in SUBSET Inputs, AskGate(kind, ins), MeaningInv'
  PROVE  TypeInv'
<1>1. Make(kind, ins, next) /\ UNCHANGED <<round, ids, trueVar, base>>
  BY DEF AskGate
<1>2. ins \in SUBSET Below(next) /\ next \in Nat \ {0} /\ OutputsBelow(asked', next')
  BY InputsBelow DEF MeaningInv, IInv
<1>3. Written(built, next) /\ GatesTyped(asked, next)
  BY DEF TypeInv
<1>4. next >= next
  BY <1>2
<1>5. Written(built', next') /\ GatesTyped(asked', next') /\ next' >= next /\ next' \in Nat
  BY <1>1, <1>2, <1>3, <1>4, MakeTyped
<1>6. trueVar' \in 0..(next' - 1)
  <2>1. trueVar' = trueVar /\ trueVar \in 0..(next - 1)
    BY <1>1 DEF TypeInv
  <2>2. next <= next' /\ next \in Nat /\ next' \in Nat \ {0}
    BY <1>2, <1>5
  <2> QED
    BY <2>1, <2>2, StaysBelow
<1> QED
  BY <1>1, <1>5, <1>6 DEF TypeInv

LEMMA DefineFactTyped ==
  ASSUME IInv, MeaningInv, TypeInv, IInv', NEW f \in Later, NEW l \in Handed, DefineFact(f, l)
  PROVE  TypeInv'
<1>1. /\ ids' = Number({f}) /\ next' = next + 1 /\ UNCHANGED <<round, trueVar, base, asked>>
      /\ built' = built \cup Defined(ids'[f], {l}, 0)
  BY DEF DefineFact
<1>2. IsFiniteSet({f})
  BY FS_Singleton
<1>3. DOMAIN ids' = DOMAIN ids \cup {f}
  BY <1>1, <1>2, NumberApart DEF IInv
<1>4. ids'[f] \in 1..(next' - 1)
  BY <1>3 DEF IInv, Apart
<1>5. next \in Nat /\ next' \in Nat \ {0} /\ next <= next'
  BY <1>1 DEF IInv
<1>6. l \in Below(next')
  <2>1. l \in Below(next)
    BY DEF MeaningInv, OutputsBelow, Handed
  <2> QED
    BY <1>5, <2>1, BelowGrows
<1>7. Written(built, next') /\ GatesTyped(asked', next')
  BY <1>1, <1>5, BelowGrows DEF TypeInv
<1>8. Written(built', next')
  <2>1. Written(Defined(ids'[f], {l}, 0), next')
    BY <1>4, <1>5, <1>6, DefinedWritten
  <2> QED
    BY <1>1, <1>7, <2>1 DEF Written
<1>9. trueVar' \in 0..(next' - 1)
  BY <1>1, <1>5 DEF TypeInv
<1> QED
  BY <1>1, <1>3, <1>7, <1>8, <1>9 DEF TypeInv

LEMMA TermTyped ==
  ASSUME IInv, MeaningInv, TypeInv, IInv', MeaningInv', NEW fs \in SUBSET (Static \cup Later),
         IsFiniteSet(fs), Term(fs)
  PROVE  TypeInv'
<1>1. UNCHANGED <<round, base>> /\ round > 0 /\ next \in Nat \ {0} /\ next' \in Nat \ {0}
  BY DEF Term, IInv
<1>2. OutputsBelow(asked, next) /\ OutputsBelow(asked', next') /\ PlainAnd \in Kinds
  BY DEF MeaningInv, Kinds, PlainAnd
<1> DEFINE known == {t \in terms : t.facts = fs}
<1>3. CASE known # {}
  <2> DEFINE t == CHOOSE u \in known : TRUE
  <2>1. t \in terms /\ t.facts = fs
    BY <1>3
  <2>2. /\ asked' = asked \cup {Gate(PlainAnd, {ids[f] : f \in fs}, t.out)}
        /\ UNCHANGED <<ids, next, built, trueVar>>
    BY <1>3 DEF Term
  <2> HIDE DEF t
  <2>3. asked' = asked
    BY <2>1, <2>2 DEF MeaningInv, TermsAsked
  <2> QED
    BY <1>1, <2>2, <2>3 DEF TypeInv
<1>4. CASE known = {} /\ fs = {}
  <2>1. PICK out : /\ trueVar' = out /\ out = IF trueVar = 0 THEN next ELSE trueVar
                   /\ next' = IF trueVar = 0 THEN next + 1 ELSE next
                   /\ built' = built \cup {{out}} /\ asked' = asked \cup {Gate(PlainAnd, {}, out)}
                   /\ ids' = ids
    BY <1>4 DEF Term
  <2>2. next' >= next /\ next <= next' /\ trueVar' \in 0..(next' - 1)
    BY <1>1, <2>1 DEF TypeInv
  <2>3. Written(built, next') /\ GatesTyped(asked, next')
    BY <1>1, <2>2, BelowGrows DEF TypeInv
  <2> DEFINE h == Gate(PlainAnd, {}, out)
  <2>4. h.out = out /\ h.kind = PlainAnd /\ h.ins = {} /\ h \in asked'
    BY <2>1 DEF Gate
  <2>5. out \in Below(next')
    BY <1>2, <2>4 DEF OutputsBelow
  <2>6. Written(built', next')
    BY <2>1, <2>3, <2>5 DEF Written
  <2>7. GatesTyped(asked', next')
    BY <1>2, <2>1, <2>3, <2>4, <2>5 DEF GatesTyped
  <2> QED
    BY <1>1, <2>1, <2>2, <2>6, <2>7 DEF TypeInv
<1>5. CASE known = {} /\ fs # {}
  <2> DEFINE n == next + Cardinality(fs \ DOMAIN ids)
             ins == {ids'[f] : f \in fs}
  <2>1. ids' = Number(fs) /\ Make(PlainAnd, ins, n) /\ trueVar' = trueVar
    BY <1>5 DEF Term
  <2>2. /\ Cardinality(fs \ DOMAIN ids) \in Nat /\ DOMAIN ids' = DOMAIN ids \cup fs
        /\ Apart(ids', n)
    BY <2>1, NumberApart DEF IInv
  <2>3. n \in Nat \ {0} /\ n >= next
    BY <1>1, <2>2
  <2> HIDE DEF n
  <2>4. ins \in SUBSET Below(n)
    BY <2>2, <2>3 DEF Apart, Below
  <2> HIDE DEF ins
  <2>5. Written(built, next) /\ GatesTyped(asked, next)
    BY DEF TypeInv
  <2>6. Written(built', next') /\ GatesTyped(asked', next') /\ next' >= n
    BY <1>1, <1>2, <2>1, <2>3, <2>4, <2>5, MakeTyped
  <2>7. trueVar' \in 0..(next' - 1)
    <3>1. trueVar' = trueVar /\ trueVar \in 0..(next - 1)
      BY <2>1 DEF TypeInv
    <3>2. next <= next' /\ next \in Nat
      BY <1>1, <2>3, <2>6
    <3> QED
      BY <1>1, <3>1, <3>2, StaysBelow
  <2> QED
    BY <1>1, <2>2, <2>6, <2>7 DEF TypeInv
<1> QED
  BY <1>3, <1>4, <1>5

LEMMA NextTyped ==
  ASSUME MaxRounds \in Nat, IsFiniteSet(Static), IsFiniteSet(Later),
         IInv, MeaningInv, TypeInv, [NextBuilder]_builderVars, IInv', MeaningInv'
  PROVE  TypeInv'
<1>1. CASE BuildStatic
  BY <1>1, BuildStaticTyped
<1>2. CASE BeginRound
  BY <1>2, BeginRoundTyped
<1>3. ASSUME NEW fs \in SmallSets(Static \cup Later), Term(fs)
      PROVE  TypeInv'
  <2>1. IsFiniteSet(fs) /\ fs \in SUBSET (Static \cup Later)
    BY FS_Union, FS_Subset DEF SmallSets
  <2> QED
    BY <1>3, <2>1, TermTyped
<1>4. ASSUME NEW kind \in Kinds, NEW ins \in SmallSets(Inputs), AskGate(kind, ins)
      PROVE  TypeInv'
  <2>1. ins \in SUBSET Inputs
    BY DEF SmallSets
  <2> QED
    BY <1>4, <2>1, AskGateTyped
<1>5. ASSUME NEW f \in Later, NEW l \in Handed, DefineFact(f, l)
      PROVE  TypeInv'
  BY <1>5, DefineFactTyped
<1>6. CASE UNCHANGED builderVars
  BY <1>6 DEF builderVars, TypeInv
<1> QED
  BY <1>1, <1>2, <1>3, <1>4, <1>5, <1>6 DEF NextBuilder

LEMMA TypeInvImplies == IInv /\ MeaningInv /\ TypeInv => BuilderTypeOK
<1> SUFFICES ASSUME IInv, MeaningInv, TypeInv PROVE BuilderTypeOK
  OBVIOUS
<1>1. next \in Nat \ {0} /\ \A f \in DOMAIN ids : ids[f] \in 1..(next - 1)
  BY DEF IInv, Apart
<1>2. VarsIn(built) \subseteq 1..(next - 1)
  BY <1>1, VarsBelow DEF TypeInv
<1>3. ASSUME NEW g \in gates \cup asked
      PROVE  g.kind \in Kinds /\ VarsIn({g.ins \cup {g.out}}) \subseteq 1..(next - 1)
  <2>1. g \in asked
    BY DEF MeaningInv
  <2>2. g.kind \in Kinds /\ Written({g.ins \cup {g.out}}, next)
    BY <2>1 DEF TypeInv, GatesTyped, Written
  <2> QED
    BY <1>1, <2>2, VarsBelow
<1> QED
  BY <1>1, <1>2, <1>3 DEF TypeInv, BuilderTypeOK

\* With finitely many facts every literal of a clause and of a gate is of a variable that
\* was given out in this round or with the base, and the true variable is one of those.
THEOREM BuilderTypeCorrect ==
  ASSUME MaxRounds \in Nat, IsFiniteSet(Static), IsFiniteSet(Later)
  PROVE  BuilderSpec => []BuilderTypeOK
<1>1. InitBuilder => IInv /\ MeaningInv /\ TypeInv
  BY InitNumbered, InitMeans, InitTyped
<1>2. IInv /\ MeaningInv /\ TypeInv /\ [NextBuilder]_builderVars => IInv' /\ MeaningInv' /\ TypeInv'
  BY NextNumbered, NextMeans, NextTyped
<1> QED
  BY <1>1, <1>2, TypeInvImplies, PTL DEF BuilderSpec

-----------------------------------------------------------------------------
(* The preprocessor.  First the literals of the input.                      *)

Vs == VarsIn(formula.clauses)
Ls == Literals(formula.clauses)

LEMMA LeastOf ==
  ASSUME NEW T \in SUBSET Nat, T # {}
  PROVE  \E x \in T : \A y \in T : x <= y
<1> DEFINE less == OpToRel(<, Nat)
<1>1. IsWellFoundedOn(less, Nat)
  BY NatLessThanWellFounded
<1>2. PICK x \in T : \A y \in T : <<y, x>> \notin less
  BY <1>1, WFMin
<1>3. \A y \in T : ~(y < x)
  BY <1>2 DEF OpToRel
<1> QED
  BY <1>3

LEMMA ImageFinite ==
  ASSUME NEW S, NEW T, NEW f, IsFiniteSet(S), f = [x \in S |-> f[x]], T = {f[x] : x \in S}
  PROVE  IsFiniteSet(T)
<1>1. f \in Surjection(S, T)
  BY DEF Surjection
<1> QED
  BY <1>1, FS_Surjection

LEMMA InputLiterals ==
  ASSUME formula \in Formulas
  PROVE  /\ Vs \subseteq Nat \ {0}
         /\ \A l \in Ls : l \in Int /\ l # 0 /\ -l \in Ls /\ VarOf(l) \in Vs
         /\ \A v \in Vs : v \in Ls /\ -v \in Ls
         /\ \A c \in formula.clauses : c \subseteq Ls /\ c # {}
<1>1. \A c \in formula.clauses : c # {} /\ c \subseteq Int \ {0}
  BY FormulaShape
<1>2. ASSUME NEW c \in formula.clauses, NEW l \in c
      PROVE  VarOf(l) \in Nat \ {0} /\ (l = VarOf(l) \/ l = -VarOf(l)) /\ VarOf(l) \in Vs
  <2>1. l \in Int /\ l # 0
    BY <1>1
  <2>2. l \in UNION formula.clauses
    OBVIOUS
  <2> QED
    BY <2>1, <2>2 DEF VarOf, Vs, VarsIn
<1>3. Vs \subseteq Nat \ {0}
  BY <1>2 DEF Vs, VarsIn
<1>4. Ls = Vs \cup Negated(Vs)
  BY DEF Ls, Literals, Vs
<1>5. \A v \in Vs : v \in Ls /\ -v \in Ls
  BY <1>4 DEF Negated
<1>6. ASSUME NEW l \in Ls PROVE l \in Int /\ l # 0 /\ -l \in Ls /\ VarOf(l) \in Vs
  <2>1. CASE l \in Vs
    BY <1>3, <1>5, <2>1 DEF VarOf
  <2>2. ASSUME NEW v \in Vs, l = -v PROVE l \in Int /\ l # 0 /\ -l \in Ls /\ VarOf(l) \in Vs
    <3>1. v \in Nat \ {0} /\ -(-v) = v /\ ~(-v > 0)
      BY <1>3
    <3> QED
      BY <1>5, <2>2, <3>1 DEF VarOf
  <2> QED
    BY <1>4, <2>1, <2>2 DEF Negated
<1> QED
  BY <1>1, <1>2, <1>3, <1>5, <1>6

LEMMA InputFinite ==
  ASSUME formula \in Formulas
  PROVE  IsFiniteSet(Vs) /\ IsFiniteSet(Ls) /\ IsFiniteSet(formula.clauses)
<1>1. IsFiniteSet(formula.clauses) /\ \A c \in formula.clauses : IsFiniteSet(c)
  BY FormulaShape
<1>2. IsFiniteSet(UNION formula.clauses)
  BY <1>1, FS_UNION
<1>3. IsFiniteSet(Vs)
  <2> DEFINE S == UNION formula.clauses
             f == [l \in S |-> VarOf(l)]
  <2>1. f = [l \in S |-> f[l]] /\ Vs = {f[l] : l \in S}
    BY DEF Vs, VarsIn
  <2>2. IsFiniteSet(S)
    BY <1>2
  <2> HIDE DEF f, S
  <2> QED
    BY <2>1, <2>2, ImageFinite
<1>4. IsFiniteSet(Negated(Vs))
  <2> DEFINE f == [l \in Vs |-> -l]
  <2>1. f = [l \in Vs |-> f[l]] /\ Negated(Vs) = {f[l] : l \in Vs}
    BY DEF Negated
  <2> HIDE DEF f
  <2> QED
    BY <1>3, <2>1, ImageFinite
<1>5. Ls = Vs \cup Negated(Vs)
  BY DEF Ls, Literals, Vs
<1> QED
  BY <1>1, <1>3, <1>4, <1>5, FS_Union

\* Whether a literal is true is decided by the value of its variable.
LEMMA OnlyItsVariable ==
  ASSUME NEW m, NEW n, NEW l \in Int, VarOf(l) \in m <=> VarOf(l) \in n
  PROVE  LitTrue(m, l) <=> LitTrue(n, l)
BY DEF LitTrue, VarOf

-----------------------------------------------------------------------------
(* The simplifications, one at a time.  A formula is read over the          *)
(* variables of the input.                                                  *)

Clean(F) == F \subseteq SUBSET Ls

\* Every model of F is one of G.
Follows(G, F) == \A m \in SUBSET Vs : Sat(m, F) => Sat(m, G)

\* The variables of facts that the formula F decides, or nobody, if the literals X were
\* removed from it.
Open(F, X) == {x \in Vs \ formula.aux : x \in VarsIn(F) \/ \A l \in X : VarOf(l) # x}

\* Every model of G is, but for auxiliary variables and those of U, one of F in which the
\* literals U are true.
Extends(G, F, U) ==
  \A m \in SUBSET Vs : Sat(m, G) =>
    \E n \in SUBSET Vs :
      /\ Sat(n, F) /\ \A l \in U : LitTrue(n, l)
      /\ \A x \in Open(G, U) : x \in n <=> x \in m

LEMMA CleanVars ==
  ASSUME formula \in Formulas, NEW F, \A c \in F : c \subseteq Ls
  PROVE  VarsIn(F) \subseteq Vs
BY InputLiterals DEF VarsIn

LEMMA UnitsTrue ==
  ASSUME NEW F, NEW m, Sat(m, F)
  PROVE  \A l \in Units(F) : LitTrue(m, l)
<1> SUFFICES ASSUME NEW l \in Units(F) PROVE LitTrue(m, l)
  OBVIOUS
<1>1. {l} \in F
  BY DEF Units
<1>2. ClauseTrue(m, {l})
  BY <1>1 DEF Sat
<1> QED
  BY <1>2 DEF ClauseTrue

\* Unit propagation.
LEMMA PropagatedFollows ==
  ASSUME formula \in Formulas, NEW F, Clean(F)
  PROVE  Follows(Propagated(F), F)
<1> DEFINE U == Units(F)
<1> SUFFICES ASSUME NEW m \in SUBSET Vs, Sat(m, F) PROVE Sat(m, Propagated(F))
  BY DEF Follows
<1>1. \A l \in U : LitTrue(m, l) /\ l \in Ls
  BY UnitsTrue DEF Units, Clean
<1>2. \A l \in Negated(U) : ~LitTrue(m, l)
  <2> SUFFICES ASSUME NEW l \in U PROVE ~LitTrue(m, -l)
    BY DEF Negated
  <2>1. l \in Int /\ l # 0 /\ LitTrue(m, l)
    BY <1>1, InputLiterals
  <2> QED
    BY <2>1, NegatedFalse
<1>3. U \cap Negated(U) = {}
  BY <1>1, <1>2
<1>4. Propagated(F) = Reduced(F, U)
  BY <1>3 DEF Propagated
<1> HIDE DEF U
<1>5. ASSUME NEW c \in F PROVE ClauseTrue(m, c \ Negated(U))
  <2>1. PICK l \in c : LitTrue(m, l)
    BY DEF Sat, ClauseTrue
  <2> QED
    BY <1>2, <2>1 DEF ClauseTrue
<1> QED
  BY <1>4, <1>5 DEF Sat, Reduced

\* A model of what is left is one of the whole once the units are made true.
LEMMA PropagatedExtends ==
  ASSUME formula \in Formulas, NEW F, Clean(F), {} \notin Propagated(F)
  PROVE  Extends(Propagated(F), F, Units(F))
<1> DEFINE U == Units(F)
<1>1. U \cap Negated(U) = {} /\ Propagated(F) = Reduced(F, U)
  BY DEF Propagated
<1>2. \A l \in U : l \in Ls
  BY DEF Units, Clean
<1> HIDE DEF U
<1> SUFFICES ASSUME NEW m \in SUBSET Vs, Sat(m, Reduced(F, U))
             PROVE  \E n \in SUBSET Vs :
                      /\ Sat(n, F) /\ \A l \in U : LitTrue(n, l)
                      /\ \A x \in Open(Reduced(F, U), U) : x \in n <=> x \in m
  BY <1>1 DEF Extends, U
<1> DEFINE n == {x \in Vs : x \in U \/ (x \in m /\ -x \notin U)}
<1>3. ASSUME NEW l \in U PROVE LitTrue(n, l)
  <2>1. l \in Int /\ l # 0 /\ VarOf(l) \in Vs /\ -l \notin U
    <3>1. -l \in Negated(U)
      BY DEF Negated
    <3> QED
      BY <1>1, <1>2, <3>1, InputLiterals
  <2>2. CASE l > 0
    BY <2>1, <2>2 DEF LitTrue, VarOf
  <2>3. CASE l < 0
    <3>1. -(-l) = l /\ ~(l > 0)
      BY <2>1, <2>3
    <3>2. -l \notin n
      BY <2>1, <3>1
    <3> QED
      BY <3>1, <3>2 DEF LitTrue
  <2> QED
    BY <2>1, <2>2, <2>3
<1>4. ASSUME NEW x \in Vs, x \notin U, -x \notin U PROVE x \in n <=> x \in m
  BY <1>4
<1>5. \A d \in Reduced(F, U) : \A l \in d : l \in Ls /\ l \notin U /\ -l \notin U
  <2> SUFFICES ASSUME NEW c \in F, c \cap U = {}, NEW l \in c \ Negated(U)
               PROVE  l \in Ls /\ l \notin U /\ -l \notin U
    BY DEF Reduced
  <2>1. l \in Ls /\ l \notin U
    BY DEF Clean
  <2>2. ASSUME -l \in U PROVE FALSE
    <3>1. -(-l) = l
      BY <2>1, InputLiterals
    <3> QED
      BY <2>2, <3>1 DEF Negated
  <2> QED
    BY <2>1, <2>2
<1>6. \A d \in Reduced(F, U) : \A l \in d : VarOf(l) \in Vs /\ VarOf(l) \notin U /\ -VarOf(l) \notin U
  <2> SUFFICES ASSUME NEW d \in Reduced(F, U), NEW l \in d
               PROVE  VarOf(l) \in Vs /\ VarOf(l) \notin U /\ -VarOf(l) \notin U
    OBVIOUS
  <2>1. l \in Int /\ l \notin U /\ -l \notin U /\ VarOf(l) \in Vs
    BY <1>5, InputLiterals
  <2>2. VarOf(l) \in {l, -l} /\ -VarOf(l) \in {l, -l}
    BY <2>1 DEF VarOf
  <2> QED
    BY <2>1, <2>2
<1>7. \A x \in Open(Reduced(F, U), U) : x \in n <=> x \in m
  <2>1. \A x \in VarsIn(Reduced(F, U)) : x \in Vs /\ x \notin U /\ -x \notin U
    BY <1>6 DEF VarsIn
  <2>2. ASSUME NEW x \in Vs, \A l \in U : VarOf(l) # x PROVE x \notin U /\ -x \notin U
    <3>1. x \in Nat \ {0}
      BY InputLiterals
    <3>2. VarOf(x) = x /\ VarOf(-x) = x
      BY <3>1 DEF VarOf
    <3> QED
      BY <2>2, <3>2
  <2> QED
    BY <1>4, <2>1, <2>2 DEF Open
<1>8. ASSUME NEW c \in F PROVE ClauseTrue(n, c)
  <2>1. CASE c \cap U # {}
    BY <1>3, <2>1 DEF ClauseTrue
  <2>2. CASE c \cap U = {}
    <3> DEFINE d == c \ Negated(U)
    <3>1. d \in Reduced(F, U)
      BY <2>2 DEF Reduced
    <3>2. PICK l \in d : LitTrue(m, l)
      BY <3>1 DEF Sat, ClauseTrue
    <3>3. l \in Int /\ VarOf(l) \in Vs /\ VarOf(l) \notin U /\ -VarOf(l) \notin U
      BY <1>5, <1>6, <3>1, InputLiterals
    <3>4. LitTrue(n, l)
      BY <1>4, <3>2, <3>3, OnlyItsVariable
    <3> QED
      BY <3>4 DEF ClauseTrue
  <2> QED
    BY <2>1, <2>2
<1>9. n \in SUBSET Vs
  OBVIOUS
<1> HIDE DEF n
<1> QED
  BY <1>3, <1>7, <1>8, <1>9 DEF Sat

LEMMA PropagatedClean ==
  ASSUME formula \in Formulas, NEW F, Clean(F), {} \notin Propagated(F)
  PROVE  Clean(Propagated(F)) /\ VarsIn(Propagated(F)) \subseteq VarsIn(F)
<1> DEFINE U == Units(F)
           G == Propagated(F)
<1>1. G = {c \ Negated(U) : c \in {d \in F : d \cap U = {}}}
  BY DEF Propagated, Reduced
<1> HIDE DEF U, G
<1>2. \A d \in G : \E c \in F : d \subseteq c
  BY <1>1
<1>3. \A d \in G : d \subseteq Ls
  BY <1>2 DEF Clean
<1>4. VarsIn(G) \subseteq VarsIn(F)
  BY <1>2 DEF VarsIn
<1> QED
  BY <1>3, <1>4, InputFinite DEF Clean, G

\* Strengthening.
LEMMA StrengthenedFollows ==
  ASSUME formula \in Formulas, NEW F, Clean(F), ~Mutual(F)
  PROVE  Follows(Strengthened(F), F)
<1> SUFFICES ASSUME NEW m \in SUBSET Vs, Sat(m, F), NEW c \in F
             PROVE  ClauseTrue(m, c \ Superfluous(F, c))
  BY DEF Follows, Strengthened, Sat
<1> DEFINE D == {l \in c : LitTrue(m, l)}
<1>1. D # {}
  BY DEF Sat, ClauseTrue
<1>2. ASSUME D \subseteq Superfluous(F, c)
      PROVE  \A l \in D : \E o \in D \ {l} : {-l, o} \in F
  <2> SUFFICES ASSUME NEW l \in D PROVE \E o \in D \ {l} : {-l, o} \in F
    OBVIOUS
  <2>1. PICK o \in c \ {l} : {-l, o} \in F
    BY <1>2 DEF Superfluous
  <2>2. LitTrue(m, -l) \/ LitTrue(m, o)
    <3>1. ClauseTrue(m, {-l, o})
      BY <2>1 DEF Sat
    <3> QED
      BY <3>1 DEF ClauseTrue
  <2>3. l \in Int /\ l # 0
    BY InputLiterals DEF Clean
  <2>4. ~LitTrue(m, -l)
    BY <2>3, NegatedFalse
  <2> QED
    BY <2>1, <2>2, <2>4
<1>3. D \in SUBSET c
  OBVIOUS
<1>4. ~(D \subseteq Superfluous(F, c))
  BY <1>1, <1>2, <1>3 DEF Mutual
<1> QED
  BY <1>4 DEF ClauseTrue

LEMMA StrengthenedExtends ==
  ASSUME NEW F, Clean(F)
  PROVE  /\ Extends(Strengthened(F), F, {})
         /\ Clean(Strengthened(F)) /\ VarsIn(Strengthened(F)) \subseteq VarsIn(F)
<1> DEFINE G == Strengthened(F)
<1>1. \A d \in G : \E c \in F : d \subseteq c
  BY DEF Strengthened
<1>2. ASSUME NEW c \in F PROVE \E d \in G : d \subseteq c
  <2>1. c \ Superfluous(F, c) \in G
    BY DEF Strengthened
  <2> HIDE DEF G
  <2> QED
    BY <2>1
<1> HIDE DEF G
<1>3. \A m : Sat(m, G) => Sat(m, F)
  BY <1>2 DEF Sat, ClauseTrue
<1>4. Extends(G, F, {})
  <2> SUFFICES ASSUME NEW m \in SUBSET Vs, Sat(m, G)
               PROVE  Sat(m, F)
    BY DEF Extends
  <2> QED
    BY <1>3
<1>5. VarsIn(G) \subseteq VarsIn(F)
  BY <1>1 DEF VarsIn
<1> QED
  BY <1>1, <1>4, <1>5 DEF Clean, G

\* Subsumption: every clause contains one that is kept, a smallest of those it contains.
LEMMA SubsumedByOneKept ==
  ASSUME formula \in Formulas, NEW F, Clean(F), NEW c \in F
  PROVE  \E d \in MostGeneral(F) : d \subseteq c
<1> DEFINE S == {d \in F : d \subseteq c}
           T == {Cardinality(d) : d \in S}
<1>1. \A d \in F : IsFiniteSet(d) /\ Cardinality(d) \in Nat
  <2> SUFFICES ASSUME NEW d \in F PROVE IsFiniteSet(d) /\ Cardinality(d) \in Nat
    OBVIOUS
  <2>1. d \in SUBSET Ls
    BY DEF Clean
  <2>2. IsFiniteSet(d)
    BY <2>1, InputFinite, FS_Subset
  <2> QED
    BY <2>2, FS_CardinalityType
<1>2. T \in SUBSET Nat /\ T # {}
  BY <1>1
<1> HIDE DEF T
<1>3. PICK n \in T : \A k \in T : n <= k
  BY <1>2, LeastOf
<1>4. PICK d \in S : n = Cardinality(d)
  BY DEF T
<1>5. ASSUME NEW e \in F, e \subseteq d, e # d PROVE FALSE
  <2>1. Cardinality(e) <= Cardinality(d) /\ (Cardinality(d) = Cardinality(e) => d = e)
    BY <1>1, <1>5, FS_Subset
  <2>2. Cardinality(e) \in T
    BY <1>5 DEF T
  <2> QED
    BY <1>1, <1>3, <1>4, <1>5, <2>1, <2>2
<1> QED
  BY <1>4, <1>5 DEF MostGeneral

LEMMA MostGeneralExtends ==
  ASSUME formula \in Formulas, NEW F, Clean(F)
  PROVE  /\ Follows(MostGeneral(F), F) /\ Extends(MostGeneral(F), F, {})
         /\ Clean(MostGeneral(F)) /\ VarsIn(MostGeneral(F)) \subseteq VarsIn(F)
<1> DEFINE G == MostGeneral(F)
<1>1. G \subseteq F
  BY DEF MostGeneral
<1>2. \A c \in F : \E d \in G : d \subseteq c
  BY SubsumedByOneKept
<1> HIDE DEF G
<1>3. \A m : Sat(m, G) <=> Sat(m, F)
  BY <1>1, <1>2 DEF Sat, ClauseTrue
<1>4. Extends(G, F, {}) /\ Follows(G, F)
  BY <1>3 DEF Extends, Follows
<1>5. VarsIn(G) \subseteq VarsIn(F)
  BY <1>1 DEF VarsIn
<1> QED
  BY <1>1, <1>4, <1>5 DEF Clean, G

\* The literals a literal implies stay within a set that is closed under the implications.
Nodes(imp) == {p[1] : p \in imp} \cup {p[2] : p \in imp}
Further(imp, A) == A \cup {p[2] : p \in {q \in imp : q[1] \in A}}
Chain(imp, l, N, f) == f = [n \in 0..N |-> IF n = 0 THEN {l} ELSE Further(imp, f[n - 1])]

LEMMA ChainExists ==
  ASSUME NEW imp, NEW l, NEW N \in Nat
  PROVE  \E f : Chain(imp, l, N, f)
<1> DEFINE T == {n \in Nat : ~\E f : Chain(imp, l, n, f)}
<1> SUFFICES ASSUME N \in T PROVE FALSE
  OBVIOUS
<1>1. T \in SUBSET Nat /\ T # {}
  OBVIOUS
<1> HIDE DEF T
<1>2. PICK n \in T : \A k \in T : n <= k
  BY <1>1, LeastOf
<1>3. n # 0
  <2> DEFINE f == [k \in 0..0 |-> {l}]
  <2>1. Chain(imp, l, 0, f)
    BY DEF Chain
  <2> HIDE DEF f
  <2> QED
    BY <2>1 DEF T
<1>4. n - 1 \in Nat /\ ~(n <= n - 1)
  BY <1>1, <1>3
<1>5. PICK g : Chain(imp, l, n - 1, g)
  BY <1>2, <1>4 DEF T
<1> DEFINE f == [k \in 0..n |-> IF k = n THEN Further(imp, g[n - 1]) ELSE g[k]]
<1>6. ASSUME NEW k \in 0..n PROVE f[k] = IF k = 0 THEN {l} ELSE Further(imp, f[k - 1])
  <2>1. n \in Nat
    BY <1>1
  <2>2. CASE k = n
    BY <1>3, <1>4, <2>1, <2>2
  <2>3. CASE k # n
    <3>1. k \in 0..(n - 1) /\ f[k] = g[k]
      BY <2>1, <2>3
    <3>2. g[k] = IF k = 0 THEN {l} ELSE Further(imp, g[k - 1])
      BY <1>5, <3>1 DEF Chain
    <3>3. k # 0 => f[k - 1] = g[k - 1]
      BY <2>1, <3>1
    <3> QED
      BY <3>1, <3>2, <3>3
  <2> QED
    BY <2>2, <2>3
<1>7. f = [k \in 0..n |-> f[k]]
  OBVIOUS
<1> HIDE DEF f
<1>8. Chain(imp, l, n, f)
  BY <1>6, <1>7 DEF Chain
<1> QED
  BY <1>8 DEF T

LEMMA ImpliedWithin ==
  ASSUME NEW imp, IsFiniteSet(Nodes(imp)), NEW l, NEW S, l \in S,
         \A p \in imp : p[1] \in S => p[2] \in S
  PROVE  Implied(imp, l) \subseteq S
<1> DEFINE N == Cardinality(Nodes(imp))
           f == CHOOSE f : Chain(imp, l, N, f)
<1>1. N \in Nat
  BY FS_CardinalityType
<1>2. Implied(imp, l) = f[N]
  BY DEF Implied, Chain, Nodes, Further
<1>3. Chain(imp, l, N, f)
  BY <1>1, ChainExists
<1> HIDE DEF N, f
<1> DEFINE T == {n \in 0..N : ~(f[n] \subseteq S)}
<1>4. T = {}
  <2> SUFFICES ASSUME T # {} PROVE FALSE
    OBVIOUS
  <2>1. T \in SUBSET Nat
    BY <1>1
  <2> HIDE DEF T
  <2>2. PICK n \in T : \A k \in T : n <= k
    BY <2>1, LeastOf
  <2>3. n \in 0..N /\ ~(f[n] \subseteq S)
    BY DEF T
  <2>4. f[n] = IF n = 0 THEN {l} ELSE Further(imp, f[n - 1])
    BY <1>3, <2>3 DEF Chain
  <2>5. n # 0
    BY <2>3, <2>4
  <2>6. n - 1 \in 0..N /\ n - 1 \notin T
    BY <1>1, <2>2, <2>3, <2>5
  <2>7. f[n - 1] \subseteq S
    BY <2>6 DEF T
  <2>8. Further(imp, f[n - 1]) \subseteq S
    BY <2>7 DEF Further
  <2> QED
    BY <2>3, <2>4, <2>5, <2>8
<1> QED
  BY <1>1, <1>2, <1>4

\* Substitution: what the classes are.
LEMMA LiteralsClosed ==
  ASSUME formula \in Formulas, NEW F, Clean(F)
  PROVE  /\ UNION F \subseteq Literals(F) /\ Literals(F) \subseteq Ls
         /\ \A l \in Literals(F) : -l \in Literals(F) /\ VarOf(l) \in VarsIn(F)
<1>1. VarsIn(F) \subseteq Vs /\ VarsIn(F) \subseteq Nat \ {0}
  BY CleanVars, InputLiterals DEF Clean
<1>2. \A l \in UNION F : l \in Int /\ l # 0 /\ VarOf(l) \in VarsIn(F)
  BY InputLiterals DEF VarsIn, Clean
<1>3. \A l \in UNION F : l = VarOf(l) \/ l = -VarOf(l)
  BY <1>2 DEF VarOf
<1>4. UNION F \subseteq Literals(F)
  BY <1>2, <1>3 DEF Literals, Negated
<1>5. Literals(F) \subseteq Ls
  BY <1>1 DEF Literals, Negated, Ls, Vs
<1>6. ASSUME NEW l \in Literals(F) PROVE -l \in Literals(F) /\ VarOf(l) \in VarsIn(F)
  <2>1. CASE l \in VarsIn(F)
    BY <1>1, <2>1 DEF VarOf, Literals, Negated
  <2>2. ASSUME NEW v \in VarsIn(F), l = -v PROVE -l \in Literals(F) /\ VarOf(l) \in VarsIn(F)
    <3>1. v \in Nat \ {0} /\ -(-v) = v /\ ~(-v > 0)
      BY <1>1
    <3> QED
      BY <2>2, <3>1 DEF VarOf, Literals
  <2> QED
    BY <2>1, <2>2 DEF Literals, Negated
<1> QED
  BY <1>4, <1>5, <1>6

LEMMA Pairs ==
  ASSUME NEW d, Cardinality(d) = 2, IsFiniteSet(d), NEW a \in d, NEW b \in d, a # b
  PROVE  d \subseteq {a, b}
<1>1. IsFiniteSet(d \ {a}) /\ Cardinality(d \ {a}) = 1
  BY FS_RemoveElement
<1>2. \E x : d \ {a} = {x}
  BY <1>1, FS_Singleton
<1> QED
  BY <1>2

LEMMA ImplicationsOf ==
  ASSUME formula \in Formulas, NEW F, Clean(F), NEW p \in Implications(F)
  PROVE  /\ p[1] \in Literals(F) /\ p[2] \in Literals(F)
         /\ \A m : Sat(m, F) /\ LitTrue(m, p[1]) => LitTrue(m, p[2])
<1>1. PICK c \in F : Cardinality(c) = 2 /\ \E q \in c \X c : q[1] # q[2] /\ p = <<-q[1], q[2]>>
  BY DEF Implications
<1>0. PICK q \in c \X c : q[1] # q[2] /\ p = <<-q[1], q[2]>>
  BY <1>1
<1>2. c \in SUBSET Ls /\ IsFiniteSet(c)
  BY InputFinite, FS_Subset DEF Clean
<1>3. q[1] \in c /\ q[2] \in c /\ p[1] = -q[1] /\ p[2] = q[2]
  BY <1>0
<1>4. c \subseteq {q[1], q[2]}
  BY <1>0, <1>1, <1>2, <1>3, Pairs
<1>5. q[1] \in Int /\ q[1] # 0
  BY <1>2, <1>3, InputLiterals
<1>6. ASSUME NEW m, Sat(m, F), LitTrue(m, p[1]) PROVE LitTrue(m, p[2])
  <2>1. ClauseTrue(m, c)
    BY <1>6 DEF Sat
  <2>2. LitTrue(m, q[1]) \/ LitTrue(m, q[2])
    BY <1>4, <2>1 DEF ClauseTrue
  <2> QED
    BY <1>3, <1>5, <1>6, <2>2, NegatedFalse
<1>7. q[1] \in Literals(F) /\ q[2] \in Literals(F)
  BY <1>3, LiteralsClosed
<1> QED
  BY <1>3, <1>6, <1>7, LiteralsClosed

LEMMA NodesAre ==
  ASSUME formula \in Formulas, NEW F, Clean(F)
  PROVE  /\ Nodes(Implications(F)) \subseteq Literals(F)
         /\ IsFiniteSet(Nodes(Implications(F)))
<1>1. Nodes(Implications(F)) \subseteq Literals(F)
  BY ImplicationsOf DEF Nodes
<1>2. Nodes(Implications(F)) \in SUBSET Ls
  BY <1>1, LiteralsClosed
<1> QED
  BY <1>1, <1>2, InputFinite, FS_Subset

LEMMA ImpliedIs ==
  ASSUME formula \in Formulas, NEW F, Clean(F), NEW l \in Nodes(Implications(F))
  PROVE  /\ Implied(Implications(F), l) \subseteq Nodes(Implications(F))
         /\ \A m : Sat(m, F) /\ LitTrue(m, l) =>
              \A k \in Implied(Implications(F), l) : LitTrue(m, k)
<1> DEFINE imp == Implications(F)
<1>1. IsFiniteSet(Nodes(imp)) /\ \A p \in imp : p[1] \in Nodes(imp) /\ p[2] \in Nodes(imp)
  BY NodesAre DEF Nodes
<1>2. \A m : \A p \in imp : Sat(m, F) /\ LitTrue(m, p[1]) => LitTrue(m, p[2])
  BY ImplicationsOf
<1> HIDE DEF imp
<1>3. Implied(imp, l) \subseteq Nodes(imp)
  <2>1. l \in Nodes(imp)
    BY DEF imp
  <2> QED
    BY <1>1, <2>1, ImpliedWithin
<1>4. ASSUME NEW m, Sat(m, F), LitTrue(m, l), NEW k \in Implied(imp, l) PROVE LitTrue(m, k)
  <2> DEFINE S == {j \in Nodes(imp) : LitTrue(m, j)}
  <2>1. l \in S
    BY <1>4 DEF imp
  <2>2. \A p \in imp : p[1] \in S => p[2] \in S
    BY <1>1, <1>2, <1>4
  <2> HIDE DEF S
  <2>3. Implied(imp, l) \subseteq S
    BY <1>1, <2>1, <2>2, ImpliedWithin
  <2> QED
    BY <1>4, <2>3 DEF S
<1> QED
  BY <1>3, <1>4 DEF imp

\* The literals of a class are equivalent.
LEMMA ClassEquivalent ==
  ASSUME formula \in Formulas, NEW F, Clean(F), NEW C \in Classes(F)
  PROVE  /\ C # {} /\ C \subseteq Literals(F)
         /\ \A m : Sat(m, F) => \A k, l \in C : LitTrue(m, k) <=> LitTrue(m, l)
<1> DEFINE imp == Implications(F)
           nodes == Nodes(imp)
           reach == [l \in nodes |-> Implied(imp, l)]
<1>1. Cardinality(C) > 1 /\ \E l \in nodes : C = {k \in reach[l] : l \in reach[k]}
  BY DEF Classes, Nodes
<1>2. \A l \in nodes : reach[l] \subseteq nodes
  BY ImpliedIs
<1>3. \A m : \A l \in nodes : Sat(m, F) /\ LitTrue(m, l) => \A k \in reach[l] : LitTrue(m, k)
  BY ImpliedIs
<1>4. nodes \subseteq Literals(F)
  BY NodesAre
<1> HIDE DEF imp, nodes, reach
<1>5. PICK l \in nodes : C = {k \in reach[l] : l \in reach[k]}
  BY <1>1
<1>6. C # {}
  <2>1. Cardinality({}) = 0
    BY FS_EmptySet
  <2>2. ~(0 > 1)
    OBVIOUS
  <2>3. Cardinality(C) > 1
    BY <1>1
  <2> QED
    BY <2>1, <2>2, <2>3
<1>7. C \subseteq nodes
  BY <1>2, <1>5
<1>8. \A m : Sat(m, F) => \A k \in C : LitTrue(m, k) <=> LitTrue(m, l)
  <2> SUFFICES ASSUME NEW m, Sat(m, F), NEW k \in C PROVE LitTrue(m, k) <=> LitTrue(m, l)
    OBVIOUS
  <2>1. LitTrue(m, l) => LitTrue(m, k)
    BY <1>3, <1>5
  <2>2. LitTrue(m, k) => LitTrue(m, l)
    BY <1>3, <1>5, <1>7
  <2> QED
    BY <2>1, <2>2
<1>9. ASSUME NEW m, Sat(m, F), NEW j \in C, NEW k \in C PROVE LitTrue(m, j) <=> LitTrue(m, k)
  BY <1>8, <1>9
<1> QED
  BY <1>4, <1>6, <1>7, <1>9

LEMMA RepresentativeIn ==
  ASSUME formula \in Formulas, NEW C, C # {}, C \subseteq Ls
  PROVE  Representative(C) \in C
<1> DEFINE S == {Score(k) + 1 : k \in C}
<1>1. \A k \in C : Score(k) \in Int /\ Score(k) + 1 \in Nat /\ VarOf(k) \in Nat
  <2> SUFFICES ASSUME NEW k \in C PROVE Score(k) \in Int /\ Score(k) + 1 \in Nat /\ VarOf(k) \in Nat
    OBVIOUS
  <2>1. VarOf(k) \in Nat
    BY InputLiterals
  <2>2. (IF VarOf(k) \in formula.aux THEN 1 ELSE 0) \in 0..1 /\ (IF k > 0 THEN 1 ELSE 0) \in 0..1
    OBVIOUS
  <2>3. Score(k) \in Int /\ Score(k) + 1 \in Nat
    BY <2>2 DEF Score
  <2> QED
    BY <2>1, <2>3
<1> HIDE DEF S
<1>2. PICK s \in S : \A t \in S : s <= t
  <2>1. S \in SUBSET Nat /\ S # {}
    BY <1>1 DEF S
  <2> QED
    BY <2>1, LeastOf
<1> DEFINE V == {VarOf(k) : k \in {j \in C : Score(j) + 1 = s}}
<1>3. V \in SUBSET Nat /\ V # {}
  BY <1>1, <1>2 DEF S
<1> HIDE DEF V
<1>4. PICK v \in V : \A w \in V : v <= w
  BY <1>3, LeastOf
<1>5. PICK l \in C : Score(l) + 1 = s /\ VarOf(l) = v
  BY <1>4 DEF V
<1>6. ASSUME NEW k \in C
      PROVE  Score(l) < Score(k) \/ (Score(l) = Score(k) /\ VarOf(l) <= VarOf(k))
  <2>1. Score(k) + 1 \in S
    BY DEF S
  <2>2. s <= Score(k) + 1
    BY <1>2, <2>1
  <2>3. Score(k) + 1 = s => VarOf(k) \in V
    BY DEF V
  <2>4. Score(k) + 1 = s => v <= VarOf(k)
    BY <1>4, <2>3
  <2>5. Score(k) \in Int /\ Score(l) \in Int
    BY <1>1
  <2>6. CASE Score(k) + 1 = s
    BY <1>5, <2>4, <2>5, <2>6
  <2>7. CASE Score(k) + 1 # s
    BY <1>5, <2>2, <2>5, <2>7
  <2> QED
    BY <2>6, <2>7
<1>7. \E j \in C : \A k \in C : Score(j) < Score(k) \/ (Score(j) = Score(k) /\ VarOf(j) <= VarOf(k))
  BY <1>6
<1> QED
  BY <1>7 DEF Representative

\* Substitution: what a literal is replaced by.
Sensible(F, Cs) ==
  \A C \in Cs : /\ Representative(C) \in C /\ C \subseteq Literals(F)
                /\ \A m : Sat(m, F) => \A k, l \in C : LitTrue(m, k) <=> LitTrue(m, l)

LEMMA ClassesSensible ==
  ASSUME formula \in Formulas, NEW F, Clean(F)
  PROVE  Sensible(F, Classes(F))
<1>1. ASSUME NEW C \in Classes(F) PROVE C # {} /\ C \subseteq Ls
  BY ClassEquivalent, LiteralsClosed
<1> QED
  BY <1>1, ClassEquivalent, RepresentativeIn DEF Sensible

LEMMA SubstituteIs ==
  ASSUME NEW Cs, NEW later, NEW l
  PROVE  \/ Substitute(Cs, later, l) = l
         \/ \E C \in Cs : /\ VarOf(l) \in formula.aux /\ (l \in C \/ -l \in C)
                          /\ Substitute(Cs, later, l) = Image(C, l)
<1>1. CASE Last(Cs, later, l) = {}
  BY <1>1 DEF Substitute
<1>2. CASE Last(Cs, later, l) # {}
  <2> DEFINE C == CHOOSE C \in Last(Cs, later, l) : TRUE
  <2>1. C \in Last(Cs, later, l) /\ Substitute(Cs, later, l) = Image(C, l)
    BY <1>2 DEF Substitute
  <2> HIDE DEF C
  <2>2. C \in Writers(Cs, l)
    BY <2>1 DEF Last
  <2>3. C \in Cs /\ VarOf(l) \in formula.aux /\ (l \in C \/ -l \in C)
    BY <2>2 DEF Writers
  <2> QED
    BY <2>1, <2>3
<1> QED
  BY <1>1, <1>2

LEMMA ImageIs ==
  ASSUME formula \in Formulas, NEW F, Clean(F), NEW Cs, Sensible(F, Cs), NEW C \in Cs,
         NEW l \in Ls, l \in C \/ -l \in C
  PROVE  /\ Image(C, l) \in Literals(F)
         /\ \A m : Sat(m, F) => (LitTrue(m, Image(C, l)) <=> LitTrue(m, l))
<1> DEFINE r == Representative(C)
<1>1. r \in C /\ C \subseteq Literals(F) /\ l \in Int /\ l # 0
  BY InputLiterals DEF Sensible
<1>2. r \in Int /\ r # 0 /\ r \in Literals(F) /\ -r \in Literals(F)
  BY <1>1, LiteralsClosed, InputLiterals
<1>3. \A m : Sat(m, F) => \A k, j \in C : LitTrue(m, k) <=> LitTrue(m, j)
  BY DEF Sensible
<1> HIDE DEF r
<1>4. CASE l \in C
  <2>1. Image(C, l) = r
    BY <1>4 DEF Image, r
  <2> QED
    BY <1>1, <1>2, <1>3, <1>4, <2>1
<1>5. CASE l \notin C
  <2>1. Image(C, l) = -r /\ -l \in C
    BY <1>5 DEF Image, r
  <2>2. ASSUME NEW m, Sat(m, F) PROVE LitTrue(m, -r) <=> LitTrue(m, l)
    <3>1. LitTrue(m, r) <=> LitTrue(m, -l)
      BY <1>1, <1>3, <2>1, <2>2
    <3>2. LitTrue(m, -r) <=> ~LitTrue(m, r)
      BY <1>2, NegatedFalse
    <3>3. LitTrue(m, -l) <=> ~LitTrue(m, l)
      BY <1>1, NegatedFalse
    <3> QED
      BY <3>1, <3>2, <3>3
  <2> QED
    BY <1>2, <2>1, <2>2
<1> QED
  BY <1>4, <1>5

\* A literal and its negation are replaced by a literal and its negation.
LEMMA SubstituteNegated ==
  ASSUME formula \in Formulas, NEW F, Clean(F), NEW Cs, Sensible(F, Cs), NEW later, NEW l \in Ls,
         \A C \in Cs : C \cap Negated(C) = {}
  PROVE  Substitute(Cs, later, -l) = -Substitute(Cs, later, l)
<1>1. l \in Int /\ -(-l) = l /\ {-l, -(-l)} = {l, -l} /\ VarOf(-l) = VarOf(l)
  BY InputLiterals DEF VarOf
<1>2. Writers(Cs, -l) = Writers(Cs, l)
  BY <1>1 DEF Writers
<1>3. Last(Cs, later, -l) = Last(Cs, later, l)
  BY <1>2 DEF Last
<1>4. CASE Last(Cs, later, l) = {}
  BY <1>3, <1>4 DEF Substitute
<1>5. CASE Last(Cs, later, l) # {}
  <2> DEFINE C == CHOOSE C \in Last(Cs, later, l) : TRUE
  <2>1. /\ C \in Last(Cs, later, l)
        /\ Substitute(Cs, later, l) = Image(C, l) /\ Substitute(Cs, later, -l) = Image(C, -l)
    BY <1>3, <1>5 DEF Substitute
  <2> HIDE DEF C
  <2>2. C \in Cs /\ (l \in C \/ -l \in C)
    BY <2>1 DEF Last, Writers
  <2>3. ~(l \in C /\ -l \in C)
    <3>1. l \in C => -l \in Negated(C)
      BY DEF Negated
    <3> QED
      BY <2>2, <3>1
  <2>4. Representative(C) \in Int
    BY <2>2, LiteralsClosed, InputLiterals DEF Sensible
  <2>5. -(-Representative(C)) = Representative(C)
    BY <2>4
  <2>6. Image(C, -l) = -Image(C, l)
    BY <2>2, <2>3, <2>5 DEF Image
  <2> QED
    BY <2>1, <2>6
<1> QED
  BY <1>4, <1>5

LEMMA SubstituteMeans ==
  ASSUME formula \in Formulas, NEW F, Clean(F), NEW Cs, Sensible(F, Cs), NEW later,
         NEW l \in Literals(F)
  PROVE  /\ Substitute(Cs, later, l) \in Literals(F)
         /\ \A m : Sat(m, F) => (LitTrue(m, Substitute(Cs, later, l)) <=> LitTrue(m, l))
<1>1. l \in Ls
  BY LiteralsClosed
<1>2. CASE Substitute(Cs, later, l) = l
  BY <1>2
<1>3. ASSUME NEW C \in Cs, l \in C \/ -l \in C, Substitute(Cs, later, l) = Image(C, l)
      PROVE  /\ Substitute(Cs, later, l) \in Literals(F)
             /\ \A m : Sat(m, F) => (LitTrue(m, Substitute(Cs, later, l)) <=> LitTrue(m, l))
  BY <1>1, <1>3, ImageIs
<1> QED
  BY <1>2, <1>3, SubstituteIs

LEMMA SubstitutedFollows ==
  ASSUME formula \in Formulas, NEW F, Clean(F), NEW Cs, Sensible(F, Cs), NEW later
  PROVE  Follows(Substituted(F, Cs, later), F)
<1> SUFFICES ASSUME NEW m \in SUBSET Vs, Sat(m, F), NEW c \in F
             PROVE  ClauseTrue(m, {Substitute(Cs, later, l) : l \in c})
  BY DEF Follows, Sat, Substituted, Kept
<1>1. PICK l \in c : LitTrue(m, l)
  BY DEF Sat, ClauseTrue
<1>2. l \in Literals(F)
  BY LiteralsClosed
<1>3. LitTrue(m, Substitute(Cs, later, l))
  BY <1>1, <1>2, SubstituteMeans
<1> QED
  BY <1>3 DEF ClauseTrue

LEMMA SubstitutedExtends ==
  ASSUME formula \in Formulas, NEW F, Clean(F), {} \notin F, NEW Cs, Sensible(F, Cs), NEW later,
         \A C \in Cs : C \cap Negated(C) = {}
  PROVE  Extends(Substituted(F, Cs, later), F, {})
<1> DEFINE S(l) == Substitute(Cs, later, l)
           G == Substituted(F, Cs, later)
<1> SUFFICES ASSUME NEW m \in SUBSET Vs, Sat(m, G)
             PROVE  \E n \in SUBSET Vs :
                      /\ Sat(n, F) /\ \A l \in {} : LitTrue(n, l)
                      /\ \A x \in Open(G, {}) : x \in n <=> x \in m
  BY DEF Extends
<1> DEFINE n == {x \in Vs : LitTrue(m, S(x))}
<1>1. ASSUME NEW l \in Ls PROVE S(-l) = -S(l) /\ S(l) \in Int /\ S(l) # 0
  <2>1. S(-l) = -S(l)
    BY SubstituteNegated
  <2>2. S(l) \in Ls
    <3>1. CASE S(l) = l
      BY <3>1
    <3>2. ASSUME NEW C \in Cs, l \in C \/ -l \in C, S(l) = Image(C, l) PROVE S(l) \in Ls
      BY <3>2, ImageIs, LiteralsClosed
    <3> QED
      BY <3>1, <3>2, SubstituteIs
  <2> QED
    BY <2>1, <2>2, InputLiterals
<1>2. \A x \in Open(G, {}) : x \in n <=> x \in m
  <2> SUFFICES ASSUME NEW x \in Vs, x \notin formula.aux PROVE x \in n <=> x \in m
    BY DEF Open
  <2>1. x \in Nat \ {0} /\ VarOf(x) = x
    BY InputLiterals DEF VarOf
  <2>2. S(x) = x
    BY <2>1, SubstituteIs
  <2>3. LitTrue(m, x) <=> x \in m
    BY <2>1 DEF LitTrue
  <2> QED
    BY <2>2, <2>3
<1>3. ASSUME NEW l \in Ls PROVE LitTrue(n, l) <=> LitTrue(m, S(l))
  <2>1. l \in Int /\ l # 0 /\ VarOf(l) \in Vs /\ VarOf(l) \in Ls
    BY InputLiterals
  <2>2. CASE l > 0
    <3>1. VarOf(l) = l /\ (LitTrue(n, l) <=> l \in n)
      BY <2>2 DEF VarOf, LitTrue
    <3> QED
      BY <2>1, <3>1
  <2>3. CASE ~(l > 0)
    <3>1. VarOf(l) = -l /\ (LitTrue(n, l) <=> -l \notin n)
      BY <2>3 DEF VarOf, LitTrue
    <3>2. -l \in n <=> LitTrue(m, S(-l))
      BY <2>1, <3>1
    <3>3. LitTrue(m, S(-l)) <=> ~LitTrue(m, S(l))
      BY <1>1, NegatedFalse
    <3> QED
      BY <3>1, <3>2, <3>3
  <2> QED
    BY <2>2, <2>3
<1> HIDE DEF n
<1>4. ASSUME NEW c \in F PROVE ClauseTrue(n, c)
  <2> DEFINE d == {S(l) : l \in c}
  <2>1. c # {} /\ c \subseteq Ls
    BY DEF Clean
  <2>2. \E l \in c : LitTrue(m, S(l))
    <3>1. CASE d \in G
      BY <3>1 DEF Sat, ClauseTrue
    <3>2. CASE d \notin G
      <4>1. d # {}
        BY <2>1
      <4>2. d \cap Negated(d) # {}
        BY <3>2, <4>1 DEF Substituted, Kept
      <4>3. PICK k \in c, l \in c : S(k) = -S(l)
        BY <4>2 DEF Negated
      <4>4. LitTrue(m, S(k)) <=> ~LitTrue(m, S(l))
        BY <1>1, <2>1, <4>3, NegatedFalse
      <4> QED
        BY <4>4
    <3> QED
      BY <3>1, <3>2
  <2> QED
    BY <1>3, <2>1, <2>2 DEF ClauseTrue
<1>5. n \in SUBSET Vs
  BY DEF n
<1> QED
  BY <1>2, <1>4, <1>5 DEF Sat

LEMMA SubstitutedClean ==
  ASSUME formula \in Formulas, NEW F, Clean(F), NEW Cs, Sensible(F, Cs), NEW later
  PROVE  /\ Clean(Substituted(F, Cs, later)) /\ {} \notin Substituted(F, Cs, later)
         /\ VarsIn(Substituted(F, Cs, later)) \subseteq VarsIn(F)
<1> DEFINE G == Substituted(F, Cs, later)
<1>1. \A d \in G : d \subseteq Literals(F) /\ d # {}
  BY LiteralsClosed, SubstituteMeans DEF Substituted, Kept
<1> HIDE DEF G
<1>2. Clean(G)
  BY <1>1, LiteralsClosed DEF Clean
<1>3. VarsIn(G) \subseteq VarsIn(F)
  BY <1>1, LiteralsClosed DEF VarsIn
<1> QED
  BY <1>1, <1>2, <1>3 DEF G

LEMMA NoContradiction ==
  ASSUME formula \in Formulas, NEW F, Clean(F), NEW Cs, Sensible(F, Cs), NEW C \in Cs,
         C \cap Negated(C) # {}
  PROVE  \A m : ~Sat(m, F)
<1>1. PICK k \in C, l \in C : k = -l
  BY DEF Negated
<1>2. l \in Int /\ l # 0
  BY LiteralsClosed, InputLiterals DEF Sensible
<1>3. \A m : Sat(m, F) => (LitTrue(m, k) <=> LitTrue(m, l))
  BY DEF Sensible
<1> QED
  BY <1>1, <1>2, <1>3, NegatedFalse

LEMMA OutcomesFollow ==
  ASSUME formula \in Formulas, NEW F, Clean(F), NEW G \in Outcomes(F, Classes(F))
  PROVE  Follows(G, F)
<1> DEFINE Cs == Classes(F)
<1>1. Sensible(F, Cs)
  BY ClassesSensible
<1>2. G \in Outcomes(F, Cs)
  OBVIOUS
<1> HIDE DEF Cs
<1>3. CASE \E C \in Cs : C \cap Negated(C) # {}
  BY <1>1, <1>3, NoContradiction DEF Follows
<1>4. CASE G = F
  BY <1>4 DEF Follows
<1>5. ASSUME NEW later, G = Substituted(F, Cs, later) PROVE Follows(G, F)
  BY <1>1, <1>5, SubstitutedFollows
<1> QED
  BY <1>2, <1>3, <1>4, <1>5 DEF Outcomes

LEMMA OutcomesExtend ==
  ASSUME formula \in Formulas, NEW F, Clean(F), {} \notin F, NEW G \in Outcomes(F, Classes(F)),
         {} \notin G
  PROVE  Extends(G, F, {}) /\ Clean(G) /\ VarsIn(G) \subseteq VarsIn(F)
<1> DEFINE Cs == Classes(F)
<1>1. Sensible(F, Cs)
  BY ClassesSensible
<1>2. G \in Outcomes(F, Cs)
  OBVIOUS
<1> HIDE DEF Cs
<1>3. \A C \in Cs : C \cap Negated(C) = {}
  BY <1>2 DEF Outcomes
<1>4. CASE G = F
  BY <1>4 DEF Extends
<1>5. ASSUME NEW later, G = Substituted(F, Cs, later)
      PROVE  Extends(G, F, {}) /\ Clean(G) /\ VarsIn(G) \subseteq VarsIn(F)
  BY <1>1, <1>3, <1>5, SubstitutedExtends, SubstitutedClean
<1> QED
  BY <1>2, <1>3, <1>4, <1>5 DEF Outcomes

\* An empty clause appears only where there are variables to write the unsatisfiable formula with.
LEMMA EmptyNeedsVariables ==
  ASSUME formula \in Formulas, NEW F, Clean(F), {} \notin F, NEW G, {} \in G,
         G = Propagated(F) \/ G \in Outcomes(F, Classes(F)) \/ G = Strengthened(F)
  PROVE  Vs # {}
<1>1. \A c \in F : c # {} /\ c \subseteq Ls
  BY DEF Clean
<1>2. \A l \in Ls : VarOf(l) \in Vs
  BY InputLiterals
<1>3. CASE F # {}
  BY <1>1, <1>2, <1>3
<1>4. CASE F = {}
  <2>1. Units(F) = {} /\ Propagated(F) = {} /\ Strengthened(F) = {}
    BY <1>4 DEF Units, Propagated, Reduced, Strengthened
  <2>2. PICK C \in Classes(F) : C \cap Negated(C) # {}
    <3>1. G \in Outcomes(F, Classes(F)) /\ G # F
      BY <1>4, <2>1
    <3>2. \A later : {} \notin Substituted(F, Classes(F), later)
      BY DEF Substituted, Kept
    <3> QED
      BY <3>1, <3>2 DEF Outcomes
  <2>3. PICK l \in C : TRUE
    BY <2>2
  <2>4. C \subseteq Ls
    BY ClassEquivalent, LiteralsClosed
  <2> QED
    BY <1>2, <2>3, <2>4
<1> QED
  BY <1>3, <1>4

LEMMA UnsatIs ==
  ASSUME formula \in Formulas, Vs # {}
  PROVE  Clean(Unsat) /\ {} \notin Unsat /\ \A m : ~Sat(m, Unsat)
<1> DEFINE v == CHOOSE x \in Vs : TRUE
<1>1. v \in Vs /\ Unsat = {{v}, {-v}}
  BY DEF Unsat, Vs
<1> HIDE DEF v
<1>2. v \in Ls /\ -v \in Ls /\ v \in Int /\ v # 0
  BY <1>1, InputLiterals
<1>3. ASSUME NEW m, Sat(m, Unsat) PROVE FALSE
  <2>1. ClauseTrue(m, {v}) /\ ClauseTrue(m, {-v})
    BY <1>1, <1>3 DEF Sat
  <2>2. LitTrue(m, v) /\ LitTrue(m, -v)
    BY <2>1 DEF ClauseTrue
  <2> QED
    BY <1>2, <2>2, NegatedFalse
<1> QED
  BY <1>1, <1>2, <1>3 DEF Clean

\* The models of F, extended, are models of the input in which the literals X are true.
Back(F, X) ==
  \A m \in SUBSET Vs : Sat(m, F) =>
    \E o \in SUBSET Vs :
      /\ Sat(o, formula.clauses)
      /\ \A l \in X : VarOf(l) \in formula.aux \/ LitTrue(o, l)
      /\ \A x \in Open(F, X) : x \in o <=> x \in m

LEMMA BackOnce ==
  ASSUME formula \in Formulas, NEW F, Clean(F), NEW G, NEW X, Back(F, X), NEW U, U \subseteq UNION F,
         Extends(G, F, U), VarsIn(G) \subseteq VarsIn(F)
  PROVE  Back(G, X \cup U)
<1> SUFFICES ASSUME NEW m \in SUBSET Vs, Sat(m, G)
             PROVE  \E o \in SUBSET Vs :
                      /\ Sat(o, formula.clauses)
                      /\ \A l \in X \cup U : VarOf(l) \in formula.aux \/ LitTrue(o, l)
                      /\ \A x \in Open(G, X \cup U) : x \in o <=> x \in m
  BY DEF Back
<1>1. PICK n \in SUBSET Vs : /\ Sat(n, F) /\ \A l \in U : LitTrue(n, l)
                             /\ \A x \in Open(G, U) : x \in n <=> x \in m
  BY DEF Extends
<1>2. PICK o \in SUBSET Vs : /\ Sat(o, formula.clauses)
                             /\ \A l \in X : VarOf(l) \in formula.aux \/ LitTrue(o, l)
                             /\ \A x \in Open(F, X) : x \in o <=> x \in n
  BY <1>1 DEF Back
<1>3. ASSUME NEW l \in U, VarOf(l) \notin formula.aux PROVE LitTrue(o, l)
  <2>1. VarOf(l) \in VarsIn(F) /\ l \in Int
    BY InputLiterals DEF VarsIn, Clean
  <2>2. VarOf(l) \in o <=> VarOf(l) \in n
    BY <1>2, <1>3, <2>1, CleanVars DEF Open, Clean
  <2> QED
    BY <1>1, <2>1, <2>2, OnlyItsVariable
<1>4. Open(G, X \cup U) \subseteq Open(G, U) /\ Open(G, X \cup U) \subseteq Open(F, X)
  BY DEF Open
<1> QED
  BY <1>1, <1>2, <1>3, <1>4

\* What GoOn leaves, whichever simplification comes before it.
Left(G) == IF {} \in G THEN Unsat ELSE G

LEMMA GoneOn ==
  ASSUME formula \in Formulas, NEW F, Clean(F), NEW G, NEW X, Back(F, X), NEW U, U \subseteq UNION F,
         {} \notin G => Extends(G, F, U) /\ Clean(G) /\ VarsIn(G) \subseteq VarsIn(F),
         {} \in G => Vs # {}
  PROVE  Clean(Left(G)) /\ {} \notin Left(G) /\ Back(Left(G), X \cup U)
<1>1. CASE {} \in G
  <2>1. Left(G) = Unsat
    BY <1>1 DEF Left
  <2> QED
    BY <1>1, <2>1, UnsatIs DEF Back
<1>2. CASE {} \notin G
  <2>1. Left(G) = G
    BY <1>2 DEF Left
  <2> QED
    BY <1>2, <2>1, BackOnce
<1> QED
  BY <1>1, <1>2

LEMMA GoneOnFollows ==
  ASSUME NEW F, NEW G, Follows(G, F), Follows(F, formula.clauses)
  PROVE  Follows(Left(G), formula.clauses)
<1>1. CASE {} \in G
  <2>1. \A m : ~Sat(m, G)
    BY <1>1 DEF Sat, ClauseTrue
  <2> QED
    BY <2>1 DEF Follows
<1>2. CASE {} \notin G
  BY <1>2 DEF Left, Follows
<1> QED
  BY <1>1, <1>2

LEMMA ModelsAre ==
  ASSUME formula \in Formulas, NEW F, Clean(F)
  PROVE  Models(F, VarsIn(F)) # {} <=> \E m \in SUBSET Vs : Sat(m, F)
<1>1. VarsIn(F) \subseteq Vs
  BY CleanVars DEF Clean
<1>2. ASSUME NEW m \in Models(F, VarsIn(F)) PROVE m \in SUBSET Vs /\ Sat(m, F)
  BY <1>1 DEF Models, Sat
<1>3. ASSUME NEW m \in SUBSET Vs, Sat(m, F) PROVE m \cap VarsIn(F) \in Models(F, VarsIn(F))
  <2> DEFINE n == m \cap VarsIn(F)
  <2>1. ASSUME NEW c \in F PROVE ClauseTrue(n, c)
    <3>1. PICK l \in c : LitTrue(m, l)
      BY <1>3 DEF Sat, ClauseTrue
    <3>2. l \in Int /\ VarOf(l) \in VarsIn(F)
      BY InputLiterals DEF Clean, VarsIn
    <3>3. LitTrue(n, l)
      BY <3>1, <3>2, OnlyItsVariable
    <3> QED
      BY <3>3 DEF ClauseTrue
  <2> QED
    BY <2>1 DEF Models
<1> QED
  BY <1>2, <1>3

-----------------------------------------------------------------------------
(* The invariant: the working clauses say of the input what they may say.   *)

\* The same in one state, for the formula F, the literals X and the flag b.
Faithful(F, X, b) ==
  /\ Clean(F) /\ {} \notin F /\ X \subseteq Ls /\ Back(F, X)
  /\ ~b => Follows(F, formula.clauses)

Answered(F, p) ==
  /\ p = "sat" => \E m \in SUBSET Vs : Sat(m, F)
  /\ p = "unsat" => ~\E m \in SUBSET Vs : Sat(m, F)

PreInv == TypeOK /\ Faithful(clauses, fixed, mutual) /\ Answered(clauses, pc)

LEMMA PreInit == Init => PreInv
<1> SUFFICES ASSUME Init PROVE PreInv
  OBVIOUS
<1>1. formula \in Formulas /\ clauses = formula.clauses /\ fixed = {} /\ mutual = FALSE /\ pc = "units1"
  BY DEF Init
<1>2. \A c \in clauses : c \subseteq Ls /\ c # {}
  BY <1>1, InputLiterals
<1>3. TypeOK
  <2>1. pass \in 1..MaxPasses /\ changed \in BOOLEAN /\ mutual \in BOOLEAN
    <3>1. pass = 1 /\ changed = FALSE /\ mutual = FALSE
      BY DEF Init
    <3>2. pass \in 1..MaxPasses
      BY <3>1 DEF MaxPasses
    <3>3. changed \in BOOLEAN /\ mutual \in BOOLEAN
      BY <3>1
    <3> QED
      BY <3>2, <3>3
  <2> QED
    BY <1>1, <1>2, <2>1 DEF TypeOK, Ls
<1>4. Back(clauses, fixed)
  BY <1>1 DEF Back
<1>5. Faithful(clauses, fixed, mutual)
  BY <1>1, <1>2, <1>4 DEF Faithful, Clean, Follows
<1>6. Answered(clauses, pc)
  BY <1>1 DEF Answered
<1> QED
  BY <1>3, <1>5, <1>6 DEF PreInv

\* What a simplification owes to the formula before it.
LEMMA StepFaithful ==
  ASSUME formula \in Formulas, NEW F, NEW X, NEW b, Faithful(F, X, b),
         NEW G, NEW U, U \subseteq UNION F,
         {} \notin G => Extends(G, F, U) /\ Clean(G) /\ VarsIn(G) \subseteq VarsIn(F),
         {} \in G => Vs # {}, NEW d, ~d => ~b /\ Follows(G, F)
  PROVE  Faithful(Left(G), X \cup U, d)
<1>1. Clean(Left(G)) /\ {} \notin Left(G) /\ Back(Left(G), X \cup U)
  BY GoneOn DEF Faithful
<1>2. U \subseteq Ls
  BY DEF Faithful, Clean
<1>3. ~d => Follows(Left(G), formula.clauses)
  BY GoneOnFollows DEF Faithful
<1> QED
  BY <1>1, <1>2, <1>3 DEF Faithful

LEMMA PropagateStep ==
  ASSUME formula \in Formulas, NEW F, NEW X, NEW b, Faithful(F, X, b)
  PROVE  Faithful(Left(Propagated(F)), X \cup Units(F), b)
<1>1. Clean(F) /\ {} \notin F
  BY DEF Faithful
<1>2. Units(F) \subseteq UNION F
  BY DEF Units
<1>3. Follows(Propagated(F), F)
  BY <1>1, PropagatedFollows
<1>4. {} \notin Propagated(F) => /\ Extends(Propagated(F), F, Units(F))
                                 /\ Clean(Propagated(F)) /\ VarsIn(Propagated(F)) \subseteq VarsIn(F)
  BY <1>1, PropagatedExtends, PropagatedClean
<1>5. {} \in Propagated(F) => Vs # {}
  BY <1>1, EmptyNeedsVariables
<1> QED
  BY <1>2, <1>3, <1>4, <1>5, StepFaithful

LEMMA SubstituteStep ==
  ASSUME formula \in Formulas, NEW F, NEW X, NEW b, Faithful(F, X, b),
         NEW G \in Outcomes(F, Classes(F))
  PROVE  Faithful(Left(G), X, b)
<1>1. Clean(F) /\ {} \notin F
  BY DEF Faithful
<1>2. Follows(G, F)
  BY <1>1, OutcomesFollow
<1>3. {} \notin G => Extends(G, F, {}) /\ Clean(G) /\ VarsIn(G) \subseteq VarsIn(F)
  BY <1>1, OutcomesExtend
<1>4. {} \in G => Vs # {}
  BY <1>1, EmptyNeedsVariables
<1>5. Faithful(Left(G), X \cup {}, b)
  BY <1>2, <1>3, <1>4, StepFaithful
<1>6. X \cup {} = X
  OBVIOUS
<1> QED
  BY <1>5, <1>6

LEMMA StrengthenStep ==
  ASSUME formula \in Formulas, NEW F, NEW X, NEW b, Faithful(F, X, b)
  PROVE  Faithful(Left(Strengthened(F)), X, b \/ Mutual(F))
<1> DEFINE G == Strengthened(F)
           d == b \/ Mutual(F)
<1>1. Clean(F) /\ {} \notin F
  BY DEF Faithful
<1>2. ~d => ~b /\ Follows(G, F)
  BY <1>1, StrengthenedFollows
<1>3. {} \notin G => Extends(G, F, {}) /\ Clean(G) /\ VarsIn(G) \subseteq VarsIn(F)
  BY <1>1, StrengthenedExtends
<1>4. {} \in G => Vs # {}
  BY <1>1, EmptyNeedsVariables
<1> HIDE DEF G, d
<1>5. Faithful(Left(G), X \cup {}, d)
  BY <1>2, <1>3, <1>4, StepFaithful
<1>6. X \cup {} = X
  OBVIOUS
<1> QED
  BY <1>5, <1>6 DEF G, d

LEMMA SubsumeStep ==
  ASSUME formula \in Formulas, NEW F, NEW X, NEW b, Faithful(F, X, b)
  PROVE  Faithful(MostGeneral(F), X, b)
<1> DEFINE G == MostGeneral(F)
<1>1. Clean(F) /\ {} \notin F
  BY DEF Faithful
<1>2. {} \notin G
  BY <1>1 DEF MostGeneral
<1>3. Follows(G, F) /\ Extends(G, F, {}) /\ Clean(G) /\ VarsIn(G) \subseteq VarsIn(F)
  BY <1>1, MostGeneralExtends
<1> HIDE DEF G
<1>4. Faithful(Left(G), X \cup {}, b)
  BY <1>2, <1>3, StepFaithful
<1>5. Left(G) = G /\ X \cup {} = X
  BY <1>2 DEF Left
<1> QED
  BY <1>4, <1>5 DEF G

\* What GoOn does, written with the formula it leaves.
LEMMA GoOnLeaves ==
  ASSUME NEW G, NEW ch \in BOOLEAN, NEW label, changed \in BOOLEAN, GoOn(G, ch, label)
  PROVE  /\ clauses' = Left(G) /\ pc' \in {label, "solve"} /\ changed' \in BOOLEAN
BY DEF GoOn, Left

LEMMA TypeFromFaithful ==
  ASSUME formula \in Formulas, NEW F, NEW X, NEW b, Faithful(F, X, b)
  PROVE  (\A c \in F : c # {} /\ c \subseteq Literals(formula.clauses)) /\ X \subseteq Literals(formula.clauses)
BY DEF Faithful, Clean, Ls

LEMMA PreNext == PreInv /\ [Next]_vars => PreInv'
<1> SUFFICES ASSUME PreInv, [Next]_vars PROVE PreInv'
  OBVIOUS
<1>1. /\ formula \in Formulas /\ changed \in BOOLEAN /\ mutual \in BOOLEAN /\ pass \in 1..3
      /\ Faithful(clauses, fixed, mutual)
  BY DEF PreInv, TypeOK, MaxPasses
<1> DEFINE places == {"units1", "equiv", "units2", "strengthen", "units3", "subsume", "solve", "sat", "unsat"}
\* It is enough to show this of a step.
<1> DEFINE Harmless == /\ formula' = formula /\ changed' \in BOOLEAN /\ mutual' \in BOOLEAN
                    /\ pass' \in 1..3 /\ pc' \in places
                    /\ Faithful(clauses', fixed', mutual') /\ Answered(clauses', pc')
<1>2. ASSUME Harmless PROVE PreInv'
  <2>1. formula' \in Formulas /\ formula' = formula
    BY <1>1, <1>2
  <2>2. (\A c \in clauses' : c # {} /\ c \subseteq Literals(formula.clauses)) /\ fixed' \subseteq Literals(formula.clauses)
    BY <1>1, <1>2, TypeFromFaithful
  <2>3. TypeOK'
    BY <1>2, <2>1, <2>2 DEF TypeOK, MaxPasses
  <2>4. Faithful(clauses, fixed, mutual)'
    BY <1>2, <2>1 DEF Faithful, Clean, Back, Open, Follows, Ls, Vs
  <2>5. Answered(clauses, pc)'
    BY <1>2, <2>1 DEF Answered, Vs
  <2> QED
    BY <2>3, <2>4, <2>5 DEF PreInv
<1>3. CASE PropagateUnits
  <2> DEFINE G == Propagated(clauses)
             label == CASE pc = "units1" -> "equiv" [] pc = "units2" -> "strengthen" [] OTHER -> "subsume"
  <2>1. /\ GoOn(G, G # clauses, label) /\ fixed' = fixed \cup Units(clauses)
        /\ formula' = formula /\ pass' = pass /\ mutual' = mutual
    BY <1>3 DEF PropagateUnits
  <2>2. label \in {"equiv", "strengthen", "subsume"}
    OBVIOUS
  <2>3. Faithful(Left(G), fixed \cup Units(clauses), mutual)
    BY <1>1, PropagateStep
  <2> DEFINE ch == G # clauses
  <2>9. ch \in BOOLEAN /\ GoOn(G, ch, label)
    BY <2>1
  <2> HIDE DEF G, label, ch
  <2>4. clauses' = Left(G) /\ pc' \in {label, "solve"} /\ changed' \in BOOLEAN
    BY <1>1, <2>9, GoOnLeaves
  <2>5. Answered(clauses', pc')
    BY <2>2, <2>4 DEF Answered
  <2> QED
    BY <1>1, <1>2, <2>1, <2>2, <2>3, <2>4, <2>5
<1>4. CASE SubstituteAux
  <2> DEFINE Cs == Classes(clauses)
  <2>1. /\ \E G \in Outcomes(clauses, Cs) : GoOn(G, Useful(clauses, Cs), "units2")
        /\ formula' = formula /\ pass' = pass /\ mutual' = mutual /\ fixed' = fixed
    BY <1>4 DEF SubstituteAux
  <2>2. PICK G \in Outcomes(clauses, Cs) : GoOn(G, Useful(clauses, Cs), "units2")
    BY <2>1
  <2>3. Faithful(Left(G), fixed, mutual)
    BY <1>1, SubstituteStep
  <2>4. Useful(clauses, Cs) \in BOOLEAN
    BY DEF Useful
  <2>5. clauses' = Left(G) /\ pc' \in {"units2", "solve"} /\ changed' \in BOOLEAN
    BY <1>1, <2>2, <2>4, GoOnLeaves
  <2>6. Answered(clauses', pc')
    BY <2>5 DEF Answered
  <2> QED
    BY <1>1, <1>2, <2>1, <2>3, <2>5, <2>6
<1>5. CASE StrengthenBinary
  <2> DEFINE G == Strengthened(clauses)
  <2>1. /\ GoOn(G, G # clauses, "units3") /\ mutual' = (mutual \/ Mutual(clauses))
        /\ formula' = formula /\ pass' = pass /\ fixed' = fixed
    BY <1>5 DEF StrengthenBinary
  <2>2. Faithful(Left(G), fixed, mutual \/ Mutual(clauses))
    BY <1>1, StrengthenStep
  <2> DEFINE ch == G # clauses
  <2>9. ch \in BOOLEAN /\ GoOn(G, ch, "units3")
    BY <2>1
  <2> HIDE DEF G, ch
  <2>3. clauses' = Left(G) /\ pc' \in {"units3", "solve"} /\ changed' \in BOOLEAN
    BY <1>1, <2>9, GoOnLeaves
  <2>4. Answered(clauses', pc')
    BY <2>3 DEF Answered
  <2>5. mutual' \in BOOLEAN
    BY <2>1 
  <2> QED
    BY <1>1, <1>2, <2>1, <2>2, <2>3, <2>4, <2>5
<1>6. CASE Subsume
  <2>1. /\ clauses' = MostGeneral(clauses) /\ formula' = formula /\ fixed' = fixed /\ mutual' = mutual
        /\ changed' = FALSE
        /\ \/ pass < MaxPasses /\ pc' = "units1" /\ pass' = pass + 1
           \/ pc' = "solve" /\ pass' = pass
    BY <1>6 DEF Subsume
  <2>2. pass' \in 1..3 /\ pc' \in {"units1", "solve"}
    BY <1>1, <2>1 DEF MaxPasses
  <2>3. Faithful(MostGeneral(clauses), fixed, mutual)
    BY <1>1, SubsumeStep
  <2>4. Answered(clauses', pc')
    BY <2>2 DEF Answered
  <2> QED
    BY <1>1, <1>2, <2>1, <2>2, <2>3, <2>4
<1>7. CASE Solve
  <2>1. /\ formula' = formula /\ clauses' = clauses /\ pass' = pass /\ changed' = changed
        /\ fixed' = fixed /\ mutual' = mutual
        /\ \/ Models(clauses, VarsIn(clauses)) # {} /\ pc' = "sat"
           \/ Models(clauses, VarsIn(clauses)) = {} /\ pc' = "unsat"
    BY <1>7 DEF Solve
  <2>2. Answered(clauses, pc')
    BY <1>1, <2>1, ModelsAre DEF Answered, Faithful
  <2> QED
    BY <1>1, <1>2, <2>1, <2>2
<1>8. CASE UNCHANGED vars
  <2>1. /\ formula' = formula /\ clauses' = clauses /\ pass' = pass /\ changed' = changed
        /\ fixed' = fixed /\ mutual' = mutual /\ pc' = pc
    BY <1>8 DEF vars
  <2>2. pc \in places /\ Answered(clauses, pc)
    BY DEF PreInv, TypeOK
  <2> QED
    BY <1>1, <1>2, <2>1, <2>2
<1> QED
  BY <1>3, <1>4, <1>5, <1>6, <1>7, <1>8 DEF Next

LEMMA PreInvariant == Spec => []PreInv
BY PreInit, PreNext, PTL DEF Spec

\* The working formula never has an empty clause, and it and the units removed from it
\* are made of the literals of the input (CnfPreprocessor::simplify_safe).
THEOREM PreprocessorTypeCorrect == Spec => []TypeOK
<1>1. PreInv => TypeOK
  BY DEF PreInv
<1> QED
  BY <1>1, PreInvariant, PTL

\* No simplification, alone or with the others, in any order of the mirrored classes, gives
\* a model to a formula that has none: a conformant plan is never refuted by it.
THEOREM NothingInvented == Spec => []NeverInvents
<1>1. PreInv => NeverInvents
  <2> SUFFICES ASSUME PreInv, pc = "sat" PROVE OriginalModels # {}
    BY DEF NeverInvents
  <2>1. formula \in Formulas /\ Back(clauses, fixed) /\ \E m \in SUBSET Vs : Sat(m, clauses)
    BY DEF PreInv, TypeOK, Faithful, Answered
  <2>2. \E o \in SUBSET Vs : Sat(o, formula.clauses)
    BY <2>1 DEF Back
  <2> QED
    BY <2>2 DEF OriginalModels, Models, Vs, Sat
<1> QED
  BY <1>1, PreInvariant, PTL

\* A formula with a model keeps one, unless a clause was strengthened by literals of its own
\* that imply one another in a circle, which is the only thing that can lose it.
THEOREM NothingLost == Spec => []NeverLoses
<1>1. PreInv => NeverLoses
  <2> SUFFICES ASSUME PreInv, pc = "unsat", ~mutual PROVE OriginalModels = {}
    BY DEF NeverLoses
  <2>1. ~\E m \in SUBSET Vs : Sat(m, clauses)
    BY DEF PreInv, Answered
  <2>2. Follows(clauses, formula.clauses)
    BY DEF PreInv, Faithful
  <2>3. \A o \in SUBSET Vs : ~Sat(o, formula.clauses)
    BY <2>1, <2>2 DEF Follows
  <2> QED
    BY <2>3 DEF OriginalModels, Models, Vs, Sat
<1> QED
  BY <1>1, PreInvariant, PTL

\* Whatever the simplified formula says of the facts holds of a model of the original one
\* with the removed units put back: only units are dropped.
THEOREM OnlyUnitsDropped == Spec => []DropsOnlyUnits
<1>1. PreInv => DropsOnlyUnits
  <2> SUFFICES ASSUME PreInv, NEW m \in Models(clauses, VarsIn(clauses))
               PROVE  \E o \in OriginalModels :
                        /\ \A l \in fixed : VarOf(l) \in formula.aux \/ LitTrue(o, l)
                        /\ \A x \in VarsIn(clauses) \ formula.aux : (x \in o) = (x \in m)
    BY DEF DropsOnlyUnits
  <2>1. formula \in Formulas /\ Back(clauses, fixed) /\ Clean(clauses)
    BY DEF PreInv, TypeOK, Faithful
  <2>2. m \in SUBSET Vs /\ Sat(m, clauses)
    <3>1. VarsIn(clauses) \subseteq Vs
      BY <2>1, CleanVars DEF Clean
    <3> QED
      BY <3>1 DEF Models, Sat
  <2>3. PICK o \in SUBSET Vs :
          /\ Sat(o, formula.clauses)
          /\ \A l \in fixed : VarOf(l) \in formula.aux \/ LitTrue(o, l)
          /\ \A x \in Open(clauses, fixed) : x \in o <=> x \in m
    BY <2>1, <2>2 DEF Back
  <2>4. o \in OriginalModels
    BY <2>3 DEF OriginalModels, Models, Vs, Sat
  <2>5. VarsIn(clauses) \ formula.aux \subseteq Open(clauses, fixed)
    BY <2>1, CleanVars DEF Open, Clean
  <2> QED
    BY <2>3, <2>4, <2>5
<1> QED
  BY <1>1, PreInvariant, PTL

-----------------------------------------------------------------------------
(* The sample.                                                              *)

\* A fact of time 0 that no unit is about occurs in the simplified formula.
LEMMA FactsStay ==
  ASSUME PreInv, \A l \in fixed : VarOf(l) \notin DOMAIN formula.initial,
         NEW m \in SUBSET Vs, Sat(m, clauses), NEW x \in DOMAIN formula.initial
  PROVE  x \in VarsIn(clauses)
<1> SUFFICES ASSUME x \notin VarsIn(clauses) PROVE FALSE
  OBVIOUS
<1> DEFINE Zero == DOMAIN formula.initial
           about == {y \in Zero : formula.initial[y][1] = formula.initial[x][1]}
<1>1. formula \in Formulas /\ Back(clauses, fixed) /\ Clean(clauses)
  BY DEF PreInv, TypeOK, Faithful
<1>2. Zero \subseteq Vs \ formula.aux
  BY <1>1, FormulaShape DEF Vs
<1>3. Zero \subseteq Open(clauses, fixed)
  BY <1>2 DEF Open
<1>4. ASSUME NEW n \in SUBSET Vs, \A y \in Vs : y # x => (y \in n <=> y \in m)
      PROVE  \E y \in about : about \cap n = {y}
  <2>1. ASSUME NEW c \in clauses PROVE ClauseTrue(n, c)
    <3>1. PICK l \in c : LitTrue(m, l)
      BY DEF Sat, ClauseTrue
    <3>2. l \in Int /\ VarOf(l) \in VarsIn(clauses) /\ VarOf(l) \in Vs
      BY <1>1, InputLiterals DEF Clean, VarsIn
    <3>3. LitTrue(n, l)
      BY <1>4, <3>1, <3>2, OnlyItsVariable
    <3> QED
      BY <3>3 DEF ClauseTrue
  <2>2. PICK o \in SUBSET Vs : Sat(o, formula.clauses) /\ \A y \in Open(clauses, fixed) : y \in o <=> y \in n
    BY <1>1, <2>1 DEF Back, Sat
  <2>3. o \in Models(formula.clauses, VarsIn(formula.clauses))
    BY <2>2 DEF Models, Vs, Sat
  <2>4. \E y \in about : about \cap o = {y}
    BY <1>1, <2>3, OneValueEach
  <2> QED
    BY <1>3, <2>2, <2>4
<1>5. PICK y \in about : about \cap (m \ {x}) = {y}
  <2>1. m \ {x} \in SUBSET Vs /\ \A y \in Vs : y # x => (y \in m \ {x} <=> y \in m)
    OBVIOUS
  <2> QED
    BY <1>4, <2>1
<1>6. PICK z \in about : about \cap (m \cup {x}) = {z}
  <2>1. m \cup {x} \in SUBSET Vs /\ \A k \in Vs : k # x => (k \in m \cup {x} <=> k \in m)
    BY <1>2
  <2> QED
    BY <1>4, <2>1
<1>7. x \in about \cap (m \cup {x}) /\ y \in about \cap (m \cup {x}) /\ y # x
  BY <1>5
<1> QED
  BY <1>6, <1>7

\* What was read is the sample of a model.
Read == pc = "sat" => \E m \in Models(clauses, VarsIn(clauses)) : sample = Sample(m)

LEMMA ReadInvariant == Spec => []Read
<1>1. Init => Read
  BY DEF Init, Read
<1>2. Read /\ [Next]_vars => Read'
  <2> SUFFICES ASSUME Read, [Next]_vars, pc' = "sat"
               PROVE  \E m \in Models(clauses', VarsIn(clauses')) : sample' = Sample(m)'
    BY DEF Read
  <2>1. CASE Solve
    <3>1. PICK m \in Models(clauses, VarsIn(clauses)) : sample' = Sample(m)
      BY <2>1 DEF Solve
    <3>2. clauses' = clauses /\ formula' = formula
      BY <2>1 DEF Solve
    <3>3. Sample(m)' = Sample(m)
      BY <3>2 DEF Sample
    <3> QED
      BY <3>1, <3>2, <3>3
  <2>2. CASE UNCHANGED vars
    <3>1. clauses' = clauses /\ formula' = formula /\ sample' = sample /\ pc = "sat"
      BY <2>2 DEF vars
    <3>2. PICK m \in Models(clauses, VarsIn(clauses)) : sample = Sample(m)
      BY <3>1 DEF Read
    <3>3. Sample(m)' = Sample(m)
      BY <3>1 DEF Sample
    <3> QED
      BY <3>1, <3>2, <3>3
  <2>3. CASE PropagateUnits
    BY <2>3 DEF PropagateUnits, GoOn
  <2>4. CASE SubstituteAux
    BY <2>4 DEF SubstituteAux, GoOn
  <2>5. CASE StrengthenBinary
    BY <2>5 DEF StrengthenBinary, GoOn
  <2>6. CASE Subsume
    BY <2>6 DEF Subsume
  <2> QED
    BY <2>1, <2>2, <2>3, <2>4, <2>5, <2>6 DEF Next
<1> QED
  BY <1>1, <1>2, PTL DEF Spec

\* The state read from a model, with the base state's value for what occurs in no clause, is
\* that of a model of the formula as it was built, unless a unit decided a fact of time 0
\* (extract_time0_sample, build_state_from_sample).
THEOREM SamplesAreModels == Spec => []SampleIsModel
<1>1. PreInv /\ Read => SampleIsModel
  <2> SUFFICES ASSUME PreInv, Read, pc = "sat", \A l \in fixed : VarOf(l) \notin DOMAIN formula.initial
               PROVE  \E o \in OriginalModels : \A x \in DOMAIN formula.initial :
                        (x \in o) = (sample[formula.initial[x][1]] = formula.initial[x][2])
    BY DEF SampleIsModel
  <2> DEFINE Zero == DOMAIN formula.initial
  <2>1. PICK m \in Models(clauses, VarsIn(clauses)) : sample = Sample(m)
    BY DEF Read
  <2>2. formula \in Formulas /\ Back(clauses, fixed) /\ Clean(clauses)
    BY DEF PreInv, TypeOK, Faithful
  <2>3. m \in SUBSET Vs /\ Sat(m, clauses)
    <3>1. VarsIn(clauses) \subseteq Vs
      BY <2>2, CleanVars DEF Clean
    <3> QED
      BY <2>1, <3>1 DEF Models, Sat
  <2>4. Zero \subseteq VarsIn(clauses)
    BY <2>3, FactsStay
  <2>5. Zero \subseteq Open(clauses, fixed)
    BY <2>2, FormulaShape DEF Open, Vs
  <2>6. PICK o \in SUBSET Vs : Sat(o, formula.clauses) /\ \A y \in Open(clauses, fixed) : y \in o <=> y \in m
    BY <2>2, <2>3 DEF Back
  <2>7. o \in OriginalModels
    BY <2>6 DEF OriginalModels, Models, Vs, Sat
  <2>8. ASSUME NEW x \in Zero
        PROVE  (x \in o) = (sample[formula.initial[x][1]] = formula.initial[x][2])
    <3> DEFINE v == formula.initial[x][1]
               about == {y \in Zero : formula.initial[y][1] = v}
               seen == {y \in Zero : y \in VarsIn(clauses) /\ y \in m}
    <3>1. v \in DOMAIN formula.base /\ \A y \in about : formula.initial[y][2] = formula.initial[x][2] => y = x
      BY <2>2, OneValueEach
    <3>2. PICK y \in about : about \cap o = {y}
      BY <2>2, <2>7, OneValueEach DEF OriginalModels
    <3>3. about \cap m = {y}
      BY <2>5, <2>6, <3>2
    <3>4. \A z \in seen : formula.initial[z][1] = v => z = y
      BY <3>3
    <3>5. y \in seen /\ formula.initial[y][1] = v
      BY <2>4, <3>3
    <3>6. (CHOOSE z \in seen : formula.initial[z][1] = v) = y
      BY <3>4, <3>5
    <3>7. sample[v] = formula.initial[y][2]
      BY <2>1, <3>1, <3>5, <3>6 DEF Sample
    <3>8. x \in about
      OBVIOUS
    <3> QED
      BY <3>1, <3>2, <3>7, <3>8
  <2> QED
    BY <2>7, <2>8
<1> QED
  BY <1>1, PreInvariant, ReadInvariant, PTL
==============================================================================
