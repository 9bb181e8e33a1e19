------------------------------- MODULE SasTask -------------------------------
(***************************************************************************)
(* The planning task as LAMA holds it: finite-domain variables, operators  *)
(* with conditional effects, axioms (lama/search: state.cc, operator.h,    *)
(* axioms.cc).  A state is a function on Vars, a fact a pair <<var, val>>. *)
(* An operator has a set of prevail facts and a sequence of effects        *)
(* [cond, var, pre, post], where pre = -1 says "any value"; a rule of the  *)
(* axioms has a condition and the fact it derives.                         *)
(***************************************************************************)
EXTENDS Integers, Sequences, FiniteSets

CONSTANTS
  Vars,      (* the variables                                              *)
  Dom,       (* a function on Vars: the number of values of each           *)
  Op,        (* a function: the operators by name                          *)
  Rules,     (* the axioms: a set of [cond, head]                          *)
  Layer,     (* a function on Vars: the axiom layer, -1 for a base variable *)
  Default    (* a function on Vars: the value of a variable nothing derives *)

Facts == {f \in Vars \X (0..10) : f[2] < Dom[f[1]]}
Effect == [cond : SUBSET Facts, var : Vars, pre : Int, post : Nat]

Derived == {v \in Vars : Layer[v] # -1}
IsDerived(f) == f[1] \in Derived

ASSUME TaskShape ==
  /\ IsFiniteSet(Derived) /\ IsFiniteSet(Rules)
  /\ Dom \in [Vars -> 1..11] /\ Layer \in [Vars -> -1..Cardinality(Derived)]
  /\ Default \in [Vars -> Nat] /\ \A v \in Derived : <<v, Default[v]>> \in Facts
  /\ \A a \in DOMAIN Op : Op[a].prevail \subseteq Facts /\ Op[a].effects \in Seq(Effect)
  /\ \A r \in Rules : r.cond \subseteq Facts /\ r.head \in Facts /\ IsDerived(r.head)

Holds(s, cond) == \A f \in cond : s[f[1]] = f[2]

\* Operator::is_conformant_applicable: the prevail facts and nothing else.
Applicable(op, s) == Holds(s, op.prevail)

\* Operator::is_applicable, which reads the effects' old values too.
FullyApplicable(op, s) ==
  /\ Holds(s, op.prevail)
  /\ \A i \in DOMAIN op.effects : op.effects[i].pre \in {-1, s[op.effects[i].var]}

Fires(eff, s) == Holds(s, eff.cond)

-----------------------------------------------------------------------------
(* What the axioms derive, layer by layer: the rules of one layer are       *)
(* applied until nothing changes, then the next layer reads what this one   *)
(* left at its default value.                                               *)

\* Reading the base variables in s, the derived ones among the facts D deduced
\* so far, and what is not deduced as its default.
IsRead(s, D, f) ==
  IF ~IsDerived(f) THEN s[f[1]] = f[2]
  ELSE f \in D \/ (f[2] = Default[f[1]] /\ \A g \in D : g[1] # f[1])

Deduced(s, D, l) ==
  D \cup {r.head : r \in {q \in Rules : Layer[q.head[1]] = l /\ \A f \in q.cond : IsRead(s, D, f)}}

Layers == {Layer[v] : v \in Derived}

\* A layer has reached its fixed point after as many passes as it has rules.
Saturated(s, D, l) ==
  LET pass[n \in 0..Cardinality(Rules)] == IF n = 0 THEN D ELSE Deduced(s, pass[n - 1], l)
  IN  pass[Cardinality(Rules)]

DeducedUpTo(s) ==
  LET upto[l \in -1..Cardinality(Derived)] ==
        IF l = -1 THEN {} ELSE IF l \in Layers THEN Saturated(s, upto[l - 1], l) ELSE upto[l - 1]
  IN  upto[Cardinality(Derived)]

Closure(s) ==
  LET D == DeducedUpTo(s)
  IN  [v \in Vars |-> IF v \notin Derived THEN s[v]
                      ELSE CHOOSE x \in 0..10 : IsRead(s, D, <<v, x>>)]

-----------------------------------------------------------------------------
(* State::State(predecessor, op): the conditions are read in the            *)
(* predecessor, the effects written in their order, then the axioms run.    *)

Effects(op, s) ==
  [v \in Vars |->
     LET is == {i \in DOMAIN op.effects : op.effects[i].var = v /\ Fires(op.effects[i], s)}
     IN  IF is = {} THEN s[v] ELSE op.effects[CHOOSE i \in is : \A j \in is : j <= i].post]

Apply(op, s) == Closure(Effects(op, s))

Changed(op) == {op.effects[i].var : i \in DOMAIN op.effects}

\* The state after the first n actions of a plan, each applied in any state.
After(plan, s, n) ==
  LET st[k \in 0..n] == IF k = 0 THEN Closure(s) ELSE Apply(Op[plan[k]], st[k - 1]) IN st[n]

\* The same with every inapplicable action skipped.
AfterSkipping(plan, s) ==
  LET st[k \in 0..Len(plan)] ==
        IF k = 0 THEN Closure(s)
        ELSE IF Applicable(Op[plan[k]], st[k - 1]) THEN Apply(Op[plan[k]], st[k - 1])
        ELSE st[k - 1]
  IN  st[Len(plan)]

\* Execution as testPlanisvalid has it: an inapplicable action fails the plan.
Executes(plan, s, goal) ==
  /\ \A k \in DOMAIN plan : Applicable(Op[plan[k]], After(plan, s, k - 1))
  /\ Holds(After(plan, s, Len(plan)), goal)
==============================================================================
