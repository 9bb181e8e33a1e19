---------------------------- MODULE SearchPromise ----------------------------
(***************************************************************************)
(* What the search owes to its callers: that BestFirstSearch implements    *)
(* PlanSearch.  And what it needs to keep the promise: EngineInput says    *)
(* which tasks it is right about.                                          *)
(***************************************************************************)
EXTENDS BestFirstSearch

\* Where an operator leads from s, nowhere if it cannot be applied.
Through(a, s) == {Apply(Op[a], t) : t \in {u \in {s} : FullyApplicable(Op[a], u)}}

Promise == INSTANCE PlanSearch WITH
  Operators <- DOMAIN Op, Meets <- Holds, States <- [Vars -> 0..10],
  pending <- Running,
  answer <- IF solved THEN << solution >> ELSE << >>,
  ended <- {s \in DOMAIN closed : Holds(s, goal) /\ ~(phase \in {"explore", "evaluated"} /\ s = current.state)}

\* The search keeps what its callers rely on: although a dead end is what the relaxed
\* exploration calls one, the goal what it estimates at 0 (best_first_search.cc:163),
\* and the preferred operators are applied without another look, every plan works, and
\* failure means that there is no other (planner.cc:991, 1009, and the cache of 2698).
KeepsPromise == Promise!Spec

-----------------------------------------------------------------------------
(* The tasks.  The variables are numbered, derived ones are binary, and the *)
(* effects write values in range.                                           *)

EngineTask ==
  /\ IsFiniteSet(Vars) /\ Vars \subseteq Nat /\ \A v \in Derived : Dom[v] = 2
  /\ \A a \in DOMAIN Op : \A i \in DOMAIN Op[a].effects :
       LET e == Op[a].effects[i]
       IN  <<e.var, e.post>> \in Facts /\ (e.pre = -1 \/ <<e.var, e.pre>> \in Facts)

Valued == {s \in [Vars -> 0..10] : \A v \in Vars : s[v] < Dom[v]}

\* The rules have been applied in s.
AxiomsHold(s) == \A r \in Rules : Holds(s, r.cond) => s[r.head[1]] = r.head[2]

\* What the operators and a goal read.
AskedByOperators == UNION {Required(Op[a]) \cup UNION {e.cond : e \in ToSet(Op[a].effects)} : a \in DOMAIN Op}
AskedFor(g) == g \cup AskedByOperators

\* A derived fact is grounded in w if rules derive it in the end from base facts.
DerivedFacts == {f \in Facts : IsDerived(f)}
Reasons(w, D) == \A r \in Rules : Holds(w, r.cond) /\ {f \in r.cond : IsDerived(f)} \subseteq D => r.head \in D
Grounded(w, f) == \A D \in SUBSET DerivedFacts : Reasons(w, D) => f \in D

\* No operator reads a derived fact that is true by default only: the relaxed
\* exploration knows the rules and what holds at the start, not the defaults.
Supported(g) ==
  \A z \in Valued : \A f \in AskedFor(g) \cap DerivedFacts : Closure(z)[f[1]] = f[2] => Grounded(Closure(z), f)

EngineProblems ==
  /\ \A z \in Valued : AxiomsHold(Closure(z))
  /\ \A t \in Tasks : t[1] \in Valued /\ AxiomsHold(t[1]) /\ t[2] \in SUBSET Facts /\ Supported(t[2])

EngineInput == EngineTask /\ EngineProblems

\* Tasks of which EngineProblems holds for simple reasons: the rules derive one value of
\* a variable, not its default, from such values of variables of no later layer, and
\* nothing else is asked for.
OneSided ==
  \A r \in Rules :
    /\ r.head[2] # Default[r.head[1]]
    /\ \A c \in r.cond : IsDerived(c) => Layer[c[1]] <= Layer[r.head[1]] /\ c[2] # Default[c[1]]
AsksDerived(g) == \A f \in AskedFor(g) : IsDerived(f) => f[2] # Default[f[1]]
OneSidedTasks ==
  \A t \in Tasks : (\E z \in Valued : t[1] = Closure(z)) /\ t[2] \in SUBSET Facts /\ AsksDerived(t[2])
==============================================================================
