------------------------------ MODULE StripsTask ------------------------------
(***************************************************************************)
(* Grounded actions as the translator holds them (PropositionalAction in   *)
(* translate/pddl/actions.py) and what they do in PDDL.  A literal is a    *)
(* pair <<atom, sign>>, a state the set of atoms that hold.                *)
(***************************************************************************)
EXTENDS Naturals, Sequences

CONSTANT Atoms   (* the ground atoms *)

Literals == Atoms \X BOOLEAN
Effects == [cond : Seq(Literals), fact : Atoms]
Actions == [pre : Seq(Literals), add : Seq(Effects), del : Seq(Effects)]

\* A delete beside an add with the same condition is no effect.
PropositionalAction(pre, add, del) ==
  [pre |-> pre, add |-> add, del |-> SelectSeq(del, LAMBDA e : \A i \in DOMAIN add : add[i] # e)]

Satisfies(s, l) == (l[1] \in s) = l[2]
HoldsIn(s, lits) == \A i \in DOMAIN lits : Satisfies(s, lits[i])
Fires(s, eff) == HoldsIn(s, eff.cond)
Fired(s, effs) == {effs[i].fact : i \in {j \in DOMAIN effs : Fires(s, effs[j])}}

\* An atom that is added and deleted at once holds.
Applied(act, s) == (s \ Fired(s, act.del)) \cup Fired(s, act.add)
==============================================================================
