----------------------------- MODULE FFHeuristic -----------------------------
(***************************************************************************)
(* The heuristic of the search (lama/search/ff_heuristic.cc): the additive *)
(* costs of all facts when nothing is ever deleted, found in the order of  *)
(* their cost from a queue of buckets, then a relaxed plan that is read    *)
(* off backwards from the goal.  Its size is the estimate, its operators   *)
(* that can be applied at once are the preferred ones.                     *)
(*                                                                         *)
(* An exploration is a record: of each fact its cost (-1 if not reached),  *)
(* its depth and the unary operator that reached it (by, a set of at most  *)
(* one); of each unary operator the missing preconditions, its cost and    *)
(* its depth; the queue, and the number of goals unsolved.                 *)
(* Operators have unit costs: g_use_metric is off.                         *)
(***************************************************************************)
EXTENDS SasTask, SequencesExt

-----------------------------------------------------------------------------
(* build_unary_operators: one for each effect, with everything the operator *)
(* reads besides its condition.  Of an axiom that includes the value its    *)
(* variable has before; derived variables are binary.                       *)

Old(e) == IF e.pre = -1 THEN {} ELSE {<<e.var, e.pre>>}
Required(op) == op.prevail \cup UNION {Old(op.effects[i]) : i \in DOMAIN op.effects}

Unary(a) ==
  {[name |-> a, axiom |-> FALSE, pre |-> Required(Op[a]) \cup e.cond, effect |-> <<e.var, e.post>>] :
     e \in ToSet(Op[a].effects)}
UnaryRule(r) ==
  [name |-> "<axiom>", axiom |-> TRUE, pre |-> r.cond \cup {<<r.head[1], 1 - r.head[2]>>}, effect |-> r.head]

UnaryOperators == {UnaryRule(r) : r \in Rules} \cup UNION {Unary(a) : a \in DOMAIN Op}

BaseCost(u) == IF u.axiom THEN 0 ELSE 1
DepthBehind(u, d) == IF u.axiom THEN d ELSE d + 1

-----------------------------------------------------------------------------
(* The relaxed exploration.                                                 *)

Unreached == -1
Larger(x, y) == IF x > y THEN x ELSE y

\* enqueue_if_necessary, for the effects of the operators us: a fact is queued again
\* whenever it becomes cheaper.
Reaching(x, us) ==
  LET better(f) == {u \in us : u.effect = f /\ (x.cost[f] = Unreached \/ x.opCost[u] < x.cost[f])}
      by == [f \in {g \in Facts : better(g) # {}} |->
               CHOOSE u \in better(f) : \A w \in better(f) : x.opCost[u] <= x.opCost[w]]
  IN  [x EXCEPT !.cost = [f \in Facts |-> IF f \in DOMAIN by THEN x.opCost[by[f]] ELSE @[f]],
                !.depth = [f \in Facts |-> IF f \in DOMAIN by THEN DepthBehind(by[f], x.opDepth[by[f]]) ELSE @[f]],
                !.by = [f \in Facts |-> IF f \in DOMAIN by THEN {by[f]} ELSE @[f]],
                !.queue = @ \cup {<<x.opCost[by[f]], f>> : f \in DOMAIN by}]

\* setup_exploration_queue.
Setup(s, goal) ==
  LET given(f) == s[f[1]] = f[2]
  IN  Reaching([cost |-> [f \in Facts |-> IF given(f) THEN 0 ELSE Unreached],
                depth |-> [f \in Facts |-> IF given(f) THEN 0 ELSE -1],
                by |-> [f \in Facts |-> {}],
                queue |-> {<<0, f>> : f \in {g \in Facts : given(g)}},
                unsolved |-> Cardinality(goal),
                missing |-> [u \in UnaryOperators |-> Cardinality(u.pre)],
                opCost |-> [u \in UnaryOperators |-> BaseCost(u)],
                opDepth |-> [u \in UnaryOperators |-> IF u.pre = {} THEN 0 ELSE -1]],
               {u \in UnaryOperators : u.pre = {}})

Explored(x) == x.unsolved = 0 \/ x.queue = {}

\* A fact that has come tells the operators that wait for it.
Triggered(x, f) ==
  LET waiting == {u \in UnaryOperators : f \in u.pre}
      told == [x EXCEPT !.missing = [u \in DOMAIN @ |-> IF u \in waiting THEN @[u] - 1 ELSE @[u]],
                        !.opCost = [u \in DOMAIN @ |-> IF u \in waiting THEN @[u] + x.cost[f] ELSE @[u]],
                        !.opDepth = [u \in DOMAIN @ |-> IF u \in waiting THEN Larger(@[u], x.depth[f]) ELSE @[u]]]
  IN  Reaching(told, {u \in waiting : x.missing[u] = 1})

\* One turn of relaxed_exploration, with an entry of the cheapest bucket: one that has
\* become cheaper since is passed over, the last goal ends it all.
Popped(x, goal) ==
  LET entry == CHOOSE e \in x.queue : \A d \in x.queue : e[1] <= d[1]
      f == entry[2]
      rest == [x EXCEPT !.queue = @ \ {entry}]
  IN  IF x.cost[f] < entry[1] THEN rest
      ELSE IF f \notin goal THEN Triggered(rest, f)
      ELSE IF x.unsolved = 1 THEN [rest EXCEPT !.unsolved = 0]
      ELSE Triggered([rest EXCEPT !.unsolved = @ - 1], f)

-----------------------------------------------------------------------------
(* The estimate.                                                            *)

\* compute_hsp_add_heuristic.
DeadEnd(x, goal) == \E f \in goal : x.cost[f] = Unreached

Sooner(f, g) == f[1] < g[1] \/ (f[1] = g[1] /\ f[2] < g[2])
InOrder(fs) == CHOOSE q \in [1..Cardinality(fs) -> fs] : \A i, j \in DOMAIN q : i < j => Sooner(q[i], q[j])

\* A mutant: it is not asked whether the operator can be applied at once.
Eager(x, u) == TRUE

\* The operator's preconditions hold, or follow by axioms.
AtOnce(x, u) == x.opCost[u] = BaseCost(u) /\ x.opDepth[u] = 0

\* The unary operators that collect_relaxed_plan comes by on its way from the facts fs:
\* of each its preconditions first, as often as it is needed.
Trail(x, fs) ==
  LET trail[f \in Facts] ==
        IF x.by[f] = {} THEN << >>
        ELSE LET u == CHOOSE v \in x.by[f] : TRUE
             IN  Append(FlattenSeq([i \in 1..Cardinality(u.pre) |-> trail[InOrder(u.pre)[i]]]), u)
  IN  FlattenSeq([i \in 1..Cardinality(fs) |-> trail[InOrder(fs)[i]]])

\* collect_relaxed_plan: an operator is preferred if it can be applied at once when it
\* is met for the first time.
Relaxed(trail, x) ==
  LET met == {i \in DOMAIN trail : ~trail[i].axiom /\ \A j \in 1..(i - 1) : trail[j].axiom \/ trail[j].name # trail[i].name}
  IN  [plan |-> {trail[i].name : i \in met},
       preferred |-> {trail[i].name : i \in {j \in met : AtOnce(x, trail[j])}}]

\* FFHeuristic::compute_heuristic: axioms cost nothing; a dead end has no preferred
\* operators (Heuristic::evaluate).
Estimate(x, goal) ==
  LET r == Relaxed(Trail(x, goal), x)
  IN  IF DeadEnd(x, goal) THEN [dead |-> TRUE, h |-> -1, preferred |-> {}]
      ELSE [dead |-> FALSE, h |-> Cardinality(r.plan), preferred |-> r.preferred]
==============================================================================
