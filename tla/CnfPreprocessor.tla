--------------------------- MODULE CnfPreprocessor ---------------------------
(***************************************************************************)
(* CnfPreprocessor::simplify_safe (lama/search/cnf_preprocessor.cc), which *)
(* option u puts between the encoding of a plan's failure and the solver:  *)
(* up to three passes of unit propagation, substitution of equivalent      *)
(* auxiliary variables, strengthening by binary clauses and subsumption.   *)
(* When it is done, a model is read as a counterexample state.             *)
(***************************************************************************)
EXTENDS Cnf

CONSTANTS
  Formulas    (* the inputs: records [clauses, aux, initial, base, roots];    *)
              (* aux: the auxiliary variables, initial: the variables of the  *)
              (* time-0 facts with the fact each stands for, base: the state  *)
              (* in which a sample is filled in                               *)

ASSUME FormulaShape ==
  \A f \in Formulas : /\ IsFiniteSet(f.clauses)
                      /\ \A c \in f.clauses : IsFiniteSet(c) /\ c # {} /\ c \subseteq Int \ {0}
                      /\ DOMAIN f.initial \subseteq VarsIn(f.clauses) \ f.aux

\* build_time0_exactly_one: in a model each variable has one value at time 0.
ASSUME OneValueEach ==
  \A f \in Formulas :
    LET about(x) == {y \in DOMAIN f.initial : f.initial[y][1] = f.initial[x][1]}
    IN  \A x \in DOMAIN f.initial :
          /\ f.initial[x][1] \in DOMAIN f.base
          /\ \A y \in about(x) : f.initial[y][2] = f.initial[x][2] => y = x
          /\ \A m \in Models(f.clauses, VarsIn(f.clauses)) : \E y \in about(x) : about(x) \cap m = {y}

VARIABLES
  formula,    (* the input                                                  *)
  clauses,    (* the working clauses                                        *)
  pc,         (* the next simplification                                    *)
  pass,       (* the number of passes begun                                 *)
  changed,    (* did this pass change anything so far?                      *)
  fixed,      (* history: the literals unit propagation fixed and dropped   *)
  mutual,     (* history: literals of a clause implied one another, in a circle *)
  sample      (* the counterexample state, once one was read                *)

vars == <<formula, clauses, pc, pass, changed, fixed, mutual, sample>>

MaxPasses == 3

-----------------------------------------------------------------------------
(* apply_unit_propagation: the units of the formula, taken once.            *)

Units(F) == {l \in UNION F : {l} \in F}

\* Mutant: a clause with a false literal goes, not the literal.
ReducedByDropping(F, U) == {c \in F : c \cap (U \cup Negated(U)) = {}}

Reduced(F, U) == {c \ Negated(U) : c \in {d \in F : d \cap U = {}}}

\* make_unsat_formula: a variable and its negation (the code takes the last one).
Unsat == LET v == CHOOSE x \in VarsIn(formula.clauses) : TRUE IN {{v}, {-v}}

Propagated(F) == IF Units(F) \cap Negated(Units(F)) # {} THEN {{}} ELSE Reduced(F, Units(F))

-----------------------------------------------------------------------------
(* apply_aux_equivalence_substitution: the strongly connected components of *)
(* the implications of the binary clauses.                                  *)

Implications(F) ==
  UNION {{<<-p[1], p[2]>> : p \in {q \in c \X c : q[1] # q[2]}} : c \in {d \in F : Cardinality(d) = 2}}

Literals(F) == VarsIn(F) \cup Negated(VarsIn(F))

\* The literals that l implies along chains of binary clauses.
Implied(imp, l) ==
  LET nodes == {p[1] : p \in imp} \cup {p[2] : p \in imp}
      after[n \in 0..Cardinality(nodes)] ==
        IF n = 0 THEN {l} ELSE LET A == after[n - 1] IN A \cup {p[2] : p \in {q \in imp : q[1] \in A}}
  IN  after[Cardinality(nodes)]

Classes(F) ==
  LET imp == Implications(F)
      nodes == {p[1] : p \in imp} \cup {p[2] : p \in imp}
      reach == [l \in nodes |-> Implied(imp, l)]
  IN  {C \in {{k \in reach[l] : l \in reach[k]} : l \in nodes} : Cardinality(C) > 1}

\* Facts before auxiliary variables, positive before negative, low ids first.
Score(l) == (IF VarOf(l) \in formula.aux THEN 1 ELSE 0) - (IF l > 0 THEN 1 ELSE 0)

Representative(C) ==
  CHOOSE l \in C : \A k \in C : Score(l) < Score(k) \/ (Score(l) = Score(k) /\ VarOf(l) <= VarOf(k))

\* The classes that write a replacement for l and for -l, and what they write for l.
Writers(Cs, l) ==
  IF VarOf(l) \notin formula.aux THEN {}
  ELSE {C \in Cs : \E k \in C : k \in {l, -l} /\ k # Representative(C)}

Image(C, l) == IF l \in C THEN Representative(C) ELSE -Representative(C)

\* The classes come in mirrored pairs, of which a variable keeps what the one that
\* comes later writes; which one that is depends on the order of the clauses.
Orders(Cs) == {later \in SUBSET Cs : \A C \in Cs : C \in later <=> Negated(C) \notin later}

Last(Cs, later, l) ==
  IF Writers(Cs, l) \cap later # {} THEN Writers(Cs, l) \cap later ELSE Writers(Cs, l)

\* Mutant: the negation of a replaced literal is left alone.
SubstituteOneSided(Cs, later, l) ==
  IF l < 0 \/ Last(Cs, later, l) = {} THEN l ELSE Image(CHOOSE C \in Last(Cs, later, l) : TRUE, l)

Substitute(Cs, later, l) ==
  IF Last(Cs, later, l) = {} THEN l ELSE Image(CHOOSE C \in Last(Cs, later, l) : TRUE, l)

Substituted(F, Cs, later) == Kept({{Substitute(Cs, later, l) : l \in c} : c \in F})
Useful(F, Cs) == \E l \in Literals(F) : Writers(Cs, l) # {}

Outcomes(F, Cs) ==
  IF \E C \in Cs : C \cap Negated(C) # {} THEN {{{}}}
  ELSE IF Useful(F, Cs) THEN {Substituted(F, Cs, later) : later \in Orders(Cs)} ELSE {F}

-----------------------------------------------------------------------------
(* apply_binary_strengthening: a literal goes when it implies another one   *)
(* of its clause by a binary clause of the formula as it was.               *)

\* Mutant: a literal goes when another one implies it.
WeakerLiteral(F, c) == {l \in c : \E o \in c \ {l} : {-o, l} \in F}

Superfluous(F, c) == {l \in c : \E o \in c \ {l} : {-l, o} \in F}

Strengthened(F) == {c \ Superfluous(F, c) : c \in F}

\* Some literals of a clause imply one another in a circle: all of them go.
Mutual(F) == \E c \in F : \E D \in SUBSET c : D # {} /\ \A l \in D : \E o \in D \ {l} : {-l, o} \in F

\* apply_subsumption: the clauses no other clause is part of.
MostGeneral(F) == {c \in F : \A d \in F : ~(d \subseteq c /\ d # c)}

-----------------------------------------------------------------------------
Init ==
  /\ formula \in Formulas /\ clauses = formula.clauses
  /\ pc = "units1" /\ pass = 1 /\ changed = FALSE /\ fixed = {} /\ mutual = FALSE
  /\ sample = << >>

GoOn(F, ch, next) ==
  IF {} \in F THEN clauses' = Unsat /\ pc' = "solve" /\ changed' = TRUE
  ELSE clauses' = F /\ pc' = next /\ changed' = (changed \/ ch)

PropagateUnits ==
  /\ pc \in {"units1", "units2", "units3"}
  /\ GoOn(Propagated(clauses), Propagated(clauses) # clauses,
          CASE pc = "units1" -> "equiv" [] pc = "units2" -> "strengthen" [] OTHER -> "subsume")
  /\ fixed' = fixed \cup Units(clauses)
  /\ UNCHANGED <<formula, pass, mutual, sample>>

SubstituteAux ==
  LET Cs == Classes(clauses)
  IN  /\ pc = "equiv"
      /\ \E G \in Outcomes(clauses, Cs) : GoOn(G, Useful(clauses, Cs), "units2")
      /\ UNCHANGED <<formula, pass, fixed, mutual, sample>>

StrengthenBinary ==
  /\ pc = "strengthen"
  /\ GoOn(Strengthened(clauses), Strengthened(clauses) # clauses, "units3")
  /\ mutual' = (mutual \/ Mutual(clauses))
  /\ UNCHANGED <<formula, pass, fixed, sample>>

\* The end of a pass: another one, if this one changed anything.
Subsume ==
  LET ch == changed \/ MostGeneral(clauses) # clauses
  IN  /\ pc = "subsume"
      /\ clauses' = MostGeneral(clauses)
      /\ IF ch /\ pass < MaxPasses THEN pc' = "units1" /\ pass' = pass + 1 ELSE pc' = "solve" /\ pass' = pass
      /\ changed' = FALSE
      /\ UNCHANGED <<formula, fixed, mutual, sample>>

\* Mutant: a variable the model makes false is read as its fact.
SampleInverted(m) ==
  LET seen == {x \in DOMAIN formula.initial : x \in VarsIn(clauses) /\ x \notin m}
  IN  [v \in DOMAIN formula.base |->
         IF \E x \in seen : formula.initial[x][1] = v
         THEN formula.initial[CHOOSE x \in seen : formula.initial[x][1] = v][2]
         ELSE formula.base[v]]

\* extract_time0_sample reads the variables that occur in a clause, and
\* build_state_from_sample keeps the base state's value of any other one.
Sample(m) ==
  LET seen == {x \in DOMAIN formula.initial : x \in VarsIn(clauses) /\ x \in m}
  IN  [v \in DOMAIN formula.base |->
         IF \E x \in seen : formula.initial[x][1] = v
         THEN formula.initial[CHOOSE x \in seen : formula.initial[x][1] = v][2]
         ELSE formula.base[v]]

Solve ==
  /\ pc = "solve"
  /\ \/ \E m \in Models(clauses, VarsIn(clauses)) : sample' = Sample(m) /\ pc' = "sat"
     \/ Models(clauses, VarsIn(clauses)) = {} /\ pc' = "unsat" /\ sample' = sample
  /\ UNCHANGED <<formula, clauses, pass, changed, fixed, mutual>>

Next == PropagateUnits \/ SubstituteAux \/ StrengthenBinary \/ Subsume \/ Solve

Spec == Init /\ [][Next]_vars

-----------------------------------------------------------------------------
TypeOK ==
  /\ formula \in Formulas /\ pass \in 1..MaxPasses /\ changed \in BOOLEAN /\ mutual \in BOOLEAN
  /\ pc \in {"units1", "equiv", "units2", "strengthen", "units3", "subsume", "solve", "sat", "unsat"}
  /\ \A c \in clauses : c # {} /\ c \subseteq Literals(formula.clauses)
  /\ fixed \subseteq Literals(formula.clauses)

OriginalModels == Models(formula.clauses, VarsIn(formula.clauses))

\* A formula without a model never gets one: a plan that works is never
\* refuted because of the preprocessor.
NeverInvents == pc = "sat" => OriginalModels # {}

\* A failing state is never lost, unless a clause was strengthened by literals
\* of its own that imply one another, two of them or more in a circle.
NeverLoses == pc = "unsat" => (OriginalModels = {} \/ mutual)

\* What the simplified formula says of the facts, with the units put back, is
\* what the original says: nothing else was dropped.
DropsOnlyUnits ==
  (pc = "solve" /\ ~mutual /\ OriginalModels # {}) =>
    \A m \in Models(clauses, VarsIn(clauses)) :
      \E o \in OriginalModels :
        /\ \A l \in fixed : VarOf(l) \in formula.aux \/ LitTrue(o, l)
        /\ \A x \in VarsIn(clauses) \ formula.aux : (x \in o) = (x \in m)

\* What the comment in apply_subsumption promises of the rule that is left in:
\* no satisfiable formula is strengthened into one without a model.
Equisatisfiable == pc = "unsat" => OriginalModels = {}

\* The state read from a model is that of a model of the original formula,
\* unless a unit decided a fact of time 0: such a fact occurs in no clause any
\* more and keeps the base state's value.
SampleIsModel ==
  (pc = "sat" /\ \A l \in fixed : VarOf(l) \notin DOMAIN formula.initial) =>
    \E o \in OriginalModels :
      \A x \in DOMAIN formula.initial :
        (x \in o) = (sample[formula.initial[x][1]] = formula.initial[x][2])
==============================================================================
