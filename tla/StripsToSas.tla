------------------------------ MODULE StripsToSas ------------------------------
(***************************************************************************)
(* The operators the translator writes (translate_strips_operator and what *)
(* it rests on in translate/translate.py), carried out beside the grounded *)
(* actions they stand for.  A finite-domain variable is a group of atoms   *)
(* at most one of which holds; its last value means none of those.         *)
(*                                                                         *)
(* A fact is a pair <<variable, value>>; a condition is a set of facts.    *)
(***************************************************************************)
EXTENDS StripsTask, Integers

CONSTANTS
  Groups,       (* of each variable its atoms, in the order of its values   *)
  MutexGroups,  (* the sets of atoms the invariant synthesis found exclusive *)
  Acts,         (* the grounded actions                                     *)
  Starts        (* initial states                                           *)

Exclusive(s) == \A M \in MutexGroups : \A a, b \in M \cap s : a = b

\* choose_groups with a partial encoding: every atom is in one group, and the atoms
\* of a group are exclusive.
ASSUME GroupsArePartition ==
  /\ Groups \in Seq(Seq(Atoms) \ {<< >>})
  /\ \A a \in Atoms :
       /\ \E v \in DOMAIN Groups : \E i \in DOMAIN Groups[v] : Groups[v][i] = a
       /\ \A v, w \in DOMAIN Groups : \A i \in DOMAIN Groups[v], j \in DOMAIN Groups[w] :
            Groups[v][i] = a /\ Groups[w][j] = a => v = w /\ i = j
  /\ \A v \in DOMAIN Groups : \E M \in MutexGroups : \A i \in DOMAIN Groups[v] : Groups[v][i] \in M
  /\ \A M \in MutexGroups : M \subseteq Atoms
ASSUME TaskIsGrounded == Acts \subseteq Actions /\ \A s \in Starts : s \subseteq Atoms /\ Exclusive(s)

VARIABLES
  facts,    (* the atoms that hold after the actions                        *)
  values,   (* the values of the variables after the operators              *)
  regular   (* history: all actions were regular and kept the groups exclusive *)

sasVars == <<facts, values, regular>>

-----------------------------------------------------------------------------
(* strips_to_sas_dictionary and translate_strips_conditions.                *)

NoneOfThose(v) == Len(Groups[v])
Binary(v) == Len(Groups[v]) = 1

Places == UNION {{v} \X (0..(Len(Groups[v]) - 1)) : v \in DOMAIN Groups}
Pair(a) == CHOOSE f \in Places : Groups[f[1]][f[2] + 1] = a

Fact(l) == IF l[2] THEN Pair(l[1]) ELSE <<Pair(l[1])[1], NoneOfThose(Pair(l[1])[1])>>
Condition(lits) == {Fact(lits[i]) : i \in DOMAIN lits}

\* The same in terms of the mutex groups, where a negative literal stands for none of
\* the group, too.
InMutexes(lits) ==
  {<<x[2], IF lits[x[1]][2] THEN {lits[x[1]][1]} ELSE {}>> :
     x \in {y \in (DOMAIN lits) \X MutexGroups : lits[y[1]][1] \in y[2]}}

Consistent(cond) == \A f, g \in cond : f[1] = g[1] => f = g
Possible(lits) == Consistent(InMutexes(lits)) /\ Consistent(Condition(lits))

-----------------------------------------------------------------------------
(* translate_strips_operator.                                               *)

Variables(cond) == {f[1] : f \in cond}

\* build_implied_facts: when p holds, an atom that is a variable of its own and
\* exclusive with p does not.
Implied(cond) ==
  {<<v, 1>> : v \in {w \in DOMAIN Groups : Binary(w) /\
                       \E M \in MutexGroups : Groups[w][1] \in M /\
                         \E p \in M \ {Groups[w][1]} : Pair(p) \in cond}}

\* Mutant: something is implied of the variable, whatever it is.
OldWhateverImplied(pre, v, post) ==
  IF v \in Variables(pre) THEN (CHOOSE f \in pre : f[1] = v)[2]
  ELSE IF Binary(v) /\ v \in Variables(Implied(pre)) THEN 1 - post ELSE -1

\* The old value of an effect on v.
Old(pre, v, post) ==
  IF v \in Variables(pre) THEN (CHOOSE f \in pre : f[1] = v)[2]
  ELSE IF Binary(v) /\ <<v, 1 - post>> \in Implied(pre) THEN 1 - post ELSE -1

Effect(cond, v, pre, post) == [cond |-> cond, var |-> v, pre |-> pre, post |-> post]

\* Mutant: also an add that changes what the precondition says of the variable.
AddsUnlessMentioned(act) ==
  LET pre == Condition(act.pre)
      kept == {i \in DOMAIN act.add : Possible(act.add[i].cond) /\ Pair(act.add[i].fact)[1] \notin Variables(pre)}
  IN  {LET p == Pair(act.add[i].fact)
       IN  Effect(Condition(act.add[i].cond), p[1], Old(pre, p[1], p[2]), p[2]) : i \in kept}

\* An add that the precondition implies is left out.
Adds(act) ==
  LET pre == Condition(act.pre)
      kept == {i \in DOMAIN act.add : Possible(act.add[i].cond) /\ Pair(act.add[i].fact) \notin pre}
  IN  {LET p == Pair(act.add[i].fact)
       IN  Effect(Condition(act.add[i].cond), p[1], Old(pre, p[1], p[2]), p[2]) : i \in kept}

Added(act) == {e.var : e \in Adds(act)}

\* A delete beside an add of its group is left to the add, or, of a single atom, written
\* behind the other effects; one of another value than the precondition's is left out.
Dels(act) ==
  LET pre == Condition(act.pre)
      cond(j) == Condition(act.del[j].cond)
      p(j) == Pair(act.del[j].fact)
      possible == {j \in DOMAIN act.del : Possible(act.del[j].cond)}
      alone == {j \in possible : /\ p(j)[1] \notin Added(act)
                                 /\ p(j) \in pre \cup cond(j) \/ p(j)[1] \notin Variables(pre)}
      beside == {j \in possible : p(j)[1] \in Added(act) /\ Binary(p(j)[1])}
      none(j) == NoneOfThose(p(j)[1])
  IN  {Effect(cond(j), p(j)[1], Old(pre, p(j)[1], none(j)), none(j)) : j \in alone}
        \cup {Effect(cond(j), p(j)[1], -1, none(j)) : j \in beside}

Operator(act) == [prevail |-> Condition(act.pre), effects |-> Adds(act) \cup Dels(act)]

\* translate_strips_operators: an action whose precondition is impossible gets none.
Operators == [act \in {a \in Acts : Possible(a.pre)} |-> Operator(act)]

\* Two adds to one variable end the translation with an assertion.
Refused(act) == \E e, f \in Adds(act) : e.var = f.var /\ e.post # f.post
RefusedActs == {act \in Acts : Refused(act)}

-----------------------------------------------------------------------------
(* The state and the operators of the search: SASInit, is_applicable,       *)
(* State::State(predecessor, op).  SASOperator sorts the effects, and of    *)
(* two on one variable the last one stays.                                  *)

Encoded(s) ==
  [v \in DOMAIN Groups |->
     IF \E i \in DOMAIN Groups[v] : Groups[v][i] \in s
     THEN (CHOOSE i \in DOMAIN Groups[v] : Groups[v][i] \in s) - 1 ELSE NoneOfThose(v)]

Holds(s, cond) == \A f \in cond : s[f[1]] = f[2]

Applicable(op, s) == Holds(s, op.prevail) /\ \A e \in op.effects : e.pre \in {-1, s[e.var]}

Before(e, f) == e.pre < f.pre \/ (e.pre = f.pre /\ e.post < f.post)

Result(op, s) ==
  [v \in DOMAIN Groups |->
     LET firing == {e \in op.effects : e.var = v /\ Holds(s, e.cond)}
     IN  IF firing = {} THEN s[v]
         ELSE (CHOOSE e \in firing : \A f \in firing : ~Before(e, f)).post]

-----------------------------------------------------------------------------
(* What the translation takes for granted of an action.                     *)

Alone(a) == \A M \in MutexGroups : a \in M => M = {a}
Members(lits) == {lits[i] : i \in DOMAIN lits}
PositiveInGroups(lits) == \A l \in Members(lits) : l[2] \/ Alone(l[1])
Opposed(c, d) == \E l \in Members(c) : <<l[1], ~l[2]>> \in Members(d)

\* No negative literal on an atom of a group; no atom added and deleted at once; and a
\* delete of an atom of a larger group either comes with an add to the group, or is
\* asked for only where the atom holds.
Regular(act) ==
  /\ PositiveInGroups(act.pre)
  /\ \A i \in DOMAIN act.add : PositiveInGroups(act.add[i].cond)
  /\ ~Refused(act)
  /\ \A j \in DOMAIN act.del :
       LET d == act.del[j]
           v == Pair(d.fact)[1]
           with == {i \in DOMAIN act.add : Pair(act.add[i].fact)[1] = v}
       IN  /\ PositiveInGroups(d.cond)
           /\ \A i \in with : act.add[i].fact = d.fact => Opposed(act.add[i].cond, d.cond)
           /\ \/ Binary(v)
              \/ \E i \in with : act.add[i].fact # d.fact
                                 /\ Members(act.add[i].cond) \subseteq Members(act.pre) \cup Members(d.cond)
              \/ with = {} /\ <<d.fact, TRUE>> \in Members(act.pre) \cup Members(d.cond)

RegularActs == {act \in Acts : Regular(act)}

-----------------------------------------------------------------------------
InitSas == facts \in Starts /\ values = Encoded(facts) /\ regular = TRUE

Take(act) ==
  /\ HoldsIn(facts, act.pre) /\ Holds(values, Operators[act].prevail)
  /\ facts' = Applied(act, facts)
  /\ values' = Result(Operators[act], values)
  /\ regular' = (regular /\ act \in RegularActs /\ Exclusive(facts'))

NextSas == \E act \in DOMAIN Operators \ RefusedActs : Take(act)

SasSpec == InitSas /\ [][NextSas]_sasVars

-----------------------------------------------------------------------------
\* The operators lead to the state that encodes where the actions lead, as long as the
\* actions are regular and the groups exclusive (translate_strips_operator).
ValuesAreFacts == regular => values = Encoded(facts)

\* Where a regular action is applicable, it was written and its operator is applicable,
\* old values that were added to it included; and the reverse.
NoActionLost ==
  regular => \A act \in RegularActs :
    HoldsIn(facts, act.pre) <=> act \in DOMAIN Operators /\ Applicable(Operators[act], values)

\* "Need a guard for this delete effect": where an action adds nothing to a variable's
\* group and takes nothing from it, its operator leaves the variable as it is.
DeletesAreGuarded ==
  regular => \A act \in DOMAIN Operators \ RefusedActs, v \in DOMAIN Groups :
    LET group == {Groups[v][i] : i \in DOMAIN Groups[v]}
        gone == Fired(facts, act.del) \cap facts
    IN  HoldsIn(facts, act.pre) /\ group \cap (Fired(facts, act.add) \cup gone) = {}
          => Result(Operators[act], values)[v] = values[v]
==============================================================================
