------------------------------ MODULE CounterCnf ------------------------------
(***************************************************************************)
(* The verifier CounterCNF (lama/search/counter_cnf.cc): given a plan, the *)
(* formula "the plan fails on some initial state" is built by regressing   *)
(* the goal through the plan, layer by layer, and solved.  The object      *)
(* lives through all rounds of a run and reuses what it knows of the last  *)
(* plan: the times at which each variable can change, and the facts that   *)
(* were asked for at each layer of a common suffix.                        *)
(*                                                                         *)
(* A timed fact <<var, val, t>> is a SAT variable of the formula.          *)
(***************************************************************************)
EXTENDS SasTask

CONSTANTS
  Goal,       (* the goal, a set of facts                                  *)
  Belief,     (* the initial states the static time-0 clauses admit        *)
  Plans,      (* the plans that are verified                               *)
  Bans,       (* the sets of initial states a caller may have forbidden    *)
  MaxRounds   (* bound on the number of plans one run verifies             *)

ASSUME CnfInputs ==
  /\ Goal \subseteq Facts /\ MaxRounds \in Nat
  /\ Plans \subseteq Seq(DOMAIN Op)
  /\ \A s \in Belief : s \in [Vars -> 0..10]
  /\ \A B \in Bans : B \subseteq Belief

\* What translate.py writes: an effect's old value is a prevail fact too, unless it is
\* the other value of a binary variable, which a mutex implies; nothing but the goal and
\* the axioms reads a derived variable, and nothing but the axioms sets one.
ASSUME TranslatedOperators ==
  \A a \in DOMAIN Op :
    /\ \A f \in Op[a].prevail : ~IsDerived(f)
    /\ \A i \in DOMAIN Op[a].effects :
         LET e == Op[a].effects[i] IN
         /\ <<e.var, e.post>> \in Facts /\ e.var \notin Derived
         /\ \/ e.pre = -1 \/ <<e.var, e.pre>> \in Op[a].prevail
            \/ Dom[e.var] = 2 /\ e.pre = 1 - e.post
         /\ \A f \in e.cond : ~IsDerived(f)

\* No operator sets a variable to two values at once: where two effects disagree, their
\* conditions do.
ASSUME OneValueAtOnce ==
  \A a \in DOMAIN Op : \A i, j \in DOMAIN Op[a].effects :
    LET e == Op[a].effects[i]
        d == Op[a].effects[j]
    IN  e.var = d.var /\ e.post # d.post =>
          \E f, h \in Op[a].prevail \cup e.cond \cup d.cond : f[1] = h[1] /\ f[2] # h[2]

\* compute_axiom_layers: an axiom reads the derived variables of its own layer and of
\* earlier ones.
ASSUME TranslatedAxioms ==
  \A r \in Rules : \A f \in r.cond : IsDerived(f) => Layer[f[1]] <= Layer[r.head[1]]

VARIABLES
  pc,         (* "idle", "regress" or "solved"                             *)
  round,      (* the number of plans taken up so far                       *)
  plan,       (* the plan being verified                                   *)
  banned,     (* the initial states forbidden in this round                *)
  points,     (* plan_suffix_summary_: the change points of each variable  *)
  suffix,     (* last_suffix_reused_steps_                                 *)
  frontier,   (* last_regression_frontier_layers_, and the plan's own      *)
  scheduled,  (* scheduled_layers: the facts asked for at each time        *)
  replayed,   (* p8_active_replayed_layer_mask_: the times replayed        *)
  time,       (* the next layer to regress                                 *)
  equations,  (* the defining clauses: a function on timed facts           *)
  roots,      (* root_vars                                                 *)
  answer      (* the outcome of the last round                             *)

vars == <<pc, round, plan, banned, points, suffix, frontier, scheduled, replayed,
          time, equations, roots, answer>>

-----------------------------------------------------------------------------
(* When a variable can change.  The summary of the last plan is shifted     *)
(* where the two plans agree and computed anew before.                      *)

Least(i, j) == IF i < j THEN i ELSE j

SameSuffix(p, q, k) == \A j \in 0..(k - 1) : p[Len(p) - j] = q[Len(q) - j]

CommonSuffix(p, q) ==
  CHOOSE k \in 0..Least(Len(p), Len(q)) :
    /\ SameSuffix(p, q, k)
    /\ \A n \in 0..Least(Len(p), Len(q)) : SameSuffix(p, q, n) => n <= k

ScannedPoints(p, n) == [v \in Vars |-> {t \in 1..n : v \in Changed(Op[p[t]])}]

\* Mutant: the shared suffix is not shifted to its new place.
SummaryUnshifted(p, k) ==
  [v \in Vars |-> {y \in points[v] : y > Len(plan) - k} \cup ScannedPoints(p, Len(p) - k)[v]]

Summary(p, k) ==
  LET start == Len(p) - k
      oldStart == Len(plan) - k
  IN  [v \in Vars |-> {x + (start - oldStart) : x \in {y \in points[v] : y > oldStart}}
                        \cup ScannedPoints(p, start)[v]]

\* canonical_time_for_fact: the last time at which the variable can have changed.
Canonical(pts, f, t) ==
  LET before == {x \in pts[f[1]] : x <= t}
  IN  IF before = {} THEN 0 ELSE CHOOSE x \in before : \A y \in before : y <= x

At(pts, f, t) == <<f[1], f[2], Canonical(pts, f, t)>>
AllAt(pts, fs, t) == {At(pts, f, t) : f \in fs}

-----------------------------------------------------------------------------
(* The equation of a fact after an action: the seven cases of               *)
(* get_var_regression_skeleton and regress_var_bucket.  It is true when no  *)
(* condition of dels holds and some condition of adds does, or when the     *)
(* fact was true before and keep says so.                                   *)

Adds(op, f) ==
  {op.effects[i].cond : i \in {j \in DOMAIN op.effects : /\ op.effects[j].var = f[1]
                                                         /\ op.effects[j].post = f[2]}}

Dels(op, f) ==
  {op.effects[i].cond : i \in {j \in DOMAIN op.effects : /\ op.effects[j].var = f[1]
                                                         /\ op.effects[j].post # f[2]
                                                         /\ op.effects[j].pre \in {-1, f[2]}}}

Always == {{}}

\* Mutant: a fact that some effect adds does not persist.
EquationForgetsPrev(op, f) ==
  [adds |-> Adds(op, f), dels |-> Dels(op, f), keep |-> Adds(op, f) = {} /\ {} \notin Dels(op, f)]

Equation(op, f) ==
  LET adds == Adds(op, f)
      dels == Dels(op, f)
  IN  IF {} \in dels THEN [adds |-> {}, dels |-> Always, keep |-> FALSE]
      ELSE IF {} \in adds THEN [adds |-> Always, dels |-> dels, keep |-> FALSE]
      ELSE [adds |-> adds, dels |-> dels, keep |-> TRUE]

\* The facts the equation reads, one step earlier.
Needs(op, f) ==
  LET eq == Equation(op, f)
  IN  (IF {} \in eq.dels THEN {} ELSE UNION (eq.adds \cup eq.dels))
        \cup (IF eq.keep THEN {f} ELSE {})

Timed(pts, eq, f, t) ==
  [adds |-> {AllAt(pts, c, t) : c \in eq.adds},
   dels |-> {AllAt(pts, c, t) : c \in eq.dels},
   prev |-> IF eq.keep THEN {At(pts, f, t)} ELSE {}]

\* One regressed layer: what it asks for one step earlier.
Asked(op, layer) == op.prevail \cup UNION {Needs(op, f) : f \in layer}

-----------------------------------------------------------------------------
(* The goal: every goal fact is a root; one with axioms is defined by them. *)
(* No action changes a derived variable, so its canonical time is 0.        *)

Bodies(f) == {r.cond : r \in {q \in Rules : q.head = f}}

Undefined(fs) == {f \in fs : Bodies(f) = {}}

\* The goal facts and what their axioms read, through all axioms in between.
Reached ==
  LET step[k \in 0..Cardinality(Rules)] ==
        IF k = 0 THEN Goal ELSE step[k - 1] \cup UNION UNION {Bodies(f) : f \in step[k - 1]}
  IN  step[Cardinality(Rules)]

\* Mutant: every fact of a body supports the head by itself.
AxiomEquationsSplit(pts, n) ==
  [x \in AllAt(pts, Reached \ Undefined(Reached), n) |->
     [adds |-> {{At(pts, f, n)} : f \in UNION Bodies(<<x[1], x[2]>>)}, dels |-> {}, prev |-> {}]]

AxiomEquations(pts, n) ==
  [x \in AllAt(pts, Reached \ Undefined(Reached), n) |->
     [adds |-> {AllAt(pts, c, n) : c \in Bodies(<<x[1], x[2]>>)}, dels |-> {}, prev |-> {}]]

-----------------------------------------------------------------------------
(* The formula and its models.  A model is an initial state with a value    *)
(* for every timed fact that no equation below it settles: a fact no        *)
(* equation defines is free, a derived fact may take part in a cycle.       *)

Disjuncts(eq) == eq.prev \cup UNION (eq.adds \cup eq.dels)
Timely == roots \cup DOMAIN equations \cup UNION {Disjuncts(equations[x]) : x \in DOMAIN equations}
InitialFact(x) == x[3] = 0 /\ ~IsDerived(x)
Guessed == {x \in Timely : IsDerived(x) \/ ~(InitialFact(x) \/ x \in DOMAIN equations)}

Evaluate(eq, val) ==
  /\ \A c \in eq.dels : \E x \in c : ~val[x]
  /\ (\E c \in eq.adds : \A x \in c : val[x]) \/ (\E x \in eq.prev : val[x])

Valuation(s, guess) ==
  LET val[x \in Timely] == IF x \in Guessed THEN guess[x]
                           ELSE IF InitialFact(x) THEN s[x[1]] = x[2]
                           ELSE Evaluate(equations[x], val)
  IN  val

\* The clauses: the equations of the guessed facts and "some root is false".
Satisfies(val) ==
  /\ \A x \in Guessed \cap DOMAIN equations : val[x] = Evaluate(equations[x], val)
  /\ \E x \in roots : ~val[x]

SatModels == {m \in (Belief \ banned) \X [Guessed -> BOOLEAN] : Satisfies(Valuation(m[1], m[2]))}

\* extract_time0_sample gives up when one variable has two values.
Conflict(g) == \E x, y \in DOMAIN g : g[x] /\ g[y] /\ x[1] = y[1] /\ x[2] # y[2] /\ x[3] = 0 /\ y[3] = 0

Refuted == {m[1] : m \in SatModels}

-----------------------------------------------------------------------------
Idle == [kind |-> "none", state |-> {}]

Init ==
  /\ pc = "idle" /\ round = 0 /\ plan = <<>> /\ banned = {} /\ suffix = 0
  /\ points = [v \in Vars |-> {}] /\ frontier = << >> /\ scheduled = << >>
  /\ replayed = {} /\ time = 0 /\ equations = << >> /\ roots = {} /\ answer = Idle

\* The facts of fs that are not settled at time 0, by their canonical time.
Landing(pts, fs, t, n) == [x \in 1..n |-> {f \in fs : Canonical(pts, f, t) = x}]

\* Mutant: the layers of the last plan are replayed one step too late.
OldLayerLate(p, k, t) == IF k > 1 /\ t > Len(p) - k + 1 THEN frontier[t + Len(plan) - Len(p) - 1] ELSE {}

\* What the last plan asked for at the time that corresponds to time t of plan
\* p, if both plans end with the same k actions: one alone is not replayed.
OldLayer(p, k, t) == IF k > 1 /\ t > Len(p) - k THEN frontier[t + Len(plan) - Len(p)] ELSE {}

\* prepare_counterexample_cnf up to the regression loop.
Prepare(p, B) ==
  LET n == Len(p)
      k == IF round = 0 THEN 0 ELSE CommonSuffix(p, plan)
      pts == Summary(p, k)
      goals == Landing(pts, Undefined(Reached), n, n)
  IN  /\ pc # "regress" /\ round < MaxRounds
      /\ pc' = "regress" /\ round' = round + 1 /\ plan' = p /\ banned' = B
      /\ points' = pts /\ suffix' = k
      /\ scheduled' = [t \in 1..n |-> goals[t] \cup OldLayer(p, k, t)]
      /\ replayed' = {t \in 1..n : OldLayer(p, k, t) # {}}
      /\ frontier' = [t \in 1..n |-> {}]
      /\ time' = n
      /\ roots' = AllAt(pts, Goal, n) /\ equations' = AxiomEquations(pts, n)
      /\ answer' = Idle

Suppressing == time > Len(plan) - suffix + 1 /\ time \in replayed

\* One turn of the regression loop on a layer somebody asked for.
Regress ==
  LET op == Op[plan[time]]
      layer == scheduled[time]
      lands == Landing(points, Asked(op, layer), time - 1, Len(plan))
      defined == {<<f[1], f[2], time>> : f \in layer}
  IN  /\ pc = "regress" /\ time > 0 /\ layer # {}
      /\ frontier' = [frontier EXCEPT ![time] = layer]
      /\ scheduled' = [t \in 1..Len(plan) |->
                         IF t = time THEN {}
                         ELSE IF Suppressing /\ t \in replayed THEN scheduled[t]
                         ELSE scheduled[t] \cup lands[t]]
      /\ equations' = [x \in defined \cup DOMAIN equations |->
                         IF x \in defined THEN Timed(points, Equation(op, <<x[1], x[2]>>), <<x[1], x[2]>>, time - 1)
                         ELSE equations[x]]
      /\ roots' = roots \cup AllAt(points, op.prevail, time - 1)
      /\ time' = time - 1
      /\ UNCHANGED <<pc, round, plan, banned, points, suffix, replayed, answer>>

\* A layer nobody asked for is passed over, its action's prevail facts with it.
PassOver ==
  /\ pc = "regress" /\ time > 0 /\ scheduled[time] = {}
  /\ time' = time - 1
  /\ UNCHANGED <<pc, round, plan, banned, points, suffix, frontier, scheduled, replayed,
                 equations, roots, answer>>

\* run_kissat_validation: a model, no model, or no result.  The sample fills
\* the base variables; build_state_from_sample recomputes the derived ones.
Outcomes ==
  {[kind |-> "unknown", state |-> {}]}
    \cup (IF SatModels = {} THEN {[kind |-> "valid", state |-> {}]}
          ELSE {IF Conflict(m[2]) THEN [kind |-> "unusable", state |-> {}]
                ELSE [kind |-> "counterexample", state |-> Closure(m[1])] : m \in SatModels})

Solve ==
  /\ pc = "regress" /\ time = 0
  /\ pc' = "solved" /\ answer' \in Outcomes
  /\ UNCHANGED <<round, plan, banned, points, suffix, frontier, scheduled, replayed, time,
                 equations, roots>>

Next == (\E p \in Plans, B \in Bans : Prepare(p, B)) \/ Regress \/ PassOver \/ Solve

Spec == Init /\ [][Next]_vars

-----------------------------------------------------------------------------
\* The shifted summary is the one a scan of the whole plan would give.
SummaryIsPlan == points = ScannedPoints(plan, Len(plan))

\* The layers a plan's own regression asks for, with nothing reused.
FreshLayers ==
  LET n == Len(plan)
      pts == ScannedPoints(plan, n)
      layer[t \in 1..n] ==
        {f \in Undefined(Reached) : Canonical(pts, f, n) = t}
          \cup UNION {IF layer[u] = {} THEN {}
                      ELSE {f \in Asked(Op[plan[u]], layer[u]) : Canonical(pts, f, u - 1) = t} :
                        u \in (t + 1)..n}
  IN  layer

\* Replaying the frontier of the last plan changes nothing: after the
\* regression every layer holds what a fresh object would have asked for.
ReplayChangesNothing == (pc # "idle" /\ time = 0) => frontier = FreshLayers

\* A returned counterexample is a possible initial state nobody had forbidden
\* on which carrying out the plan really fails.
RefutedReallyFails ==
  answer.kind = "counterexample" =>
    \E s \in Belief \ banned : answer.state = Closure(s) /\ ~Executes(plan, s, Goal)

\* On an initial state the formula does not refute, the plan reaches the goal
\* even when every inapplicable action is skipped; an accepted plan does so
\* from every state that was not forbidden.
UnrefutedReachesGoal ==
  /\ (pc = "regress" /\ time = 0) =>
       \A s \in Belief \ (banned \cup Refuted) : Holds(AfterSkipping(plan, s), Goal)
  /\ answer.kind = "valid" => \A s \in Belief \ banned : Holds(AfterSkipping(plan, s), Goal)

\* What the comments of counter.cc promise of the formula: an accepted plan
\* can be carried out, action by action, from every initial state.
AcceptedPlansExecute ==
  answer.kind = "valid" => \A s \in Belief \ banned : Executes(plan, s, Goal)
==============================================================================
