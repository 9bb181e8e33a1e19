------------------------------- MODULE IgcLoop -------------------------------
(***************************************************************************)
(* The planner's own loop, which runs when the CEGIS mode is off           *)
(* (lama/search/planner.cc, main and solve_belief_state_ite): search a     *)
(* plan from one possible initial state s0, ask a verifier for an initial  *)
(* state on which it fails, repair the plan for that one with searched     *)
(* subplans, and so on; when a repair fails, continue the search for       *)
(* another plan of s0, and when there is none take another s0.             *)
(***************************************************************************)
EXTENDS SasTask, SequencesExt

CONSTANTS
  Goal,          (* g_goal                                                  *)
  Starts,        (* what a run starts with: pairs of a set of possible      *)
                 (* initial states and the settings of the command line     *)
  MaxSearch,     (* a bound on the length of a searched plan                *)
  MaxCached,     (* SUBPLAN_CACHE_MAX_ENTRIES: 20000 in the code            *)
  LoopLimit,     (* how often a counterexample may come: 5 in the code      *)
  MaxRounds,     (* a bound on the rounds of a run without loop avoidance   *)
  Undecided      (* what the SMT solver may answer besides the truth: a set *)

ASSUME SilenceIsNoCounterexample == Undecided \subseteq {{}}
ASSUME SwitchesAssumption == \A start \in Starts : start[2].avoid \in BOOLEAN

VARIABLES
  belief,        (* the possible initial states                             *)
  opt,           (* [avoid, optimize, relax, reference, original]           *)
  init,          (* g_initial_state                                         *)
  s0,            (* firststate of main                                      *)
  engine,        (* the search engine of main                               *)
  cache,         (* g_subplan_cache: a function on states and subgoals      *)
  counter,       (* the Counter: what was learnt, and the two flags         *)
  ref,           (* the reference states of solve_belief_state_ite          *)
  fix,           (* the plan under repair, how far and for which state      *)
  todo,          (* the repeated counterexamples sovle_counter has to visit *)
  rounds,        (* the rounds so far, counted up to MaxRounds              *)
  final,         (* the plan in the file finalplan: a set of at most one    *)
  pc

vars == <<belief, opt, init, s0, engine, cache, counter, ref, fix, todo, rounds, final, pc>>

-----------------------------------------------------------------------------
(* BestFirstSearchEngine.  A state with heuristic value 0 is a goal state:  *)
(* the search stops there without expanding it, and when search() is called *)
(* again it goes on with what is left in the open lists.                    *)

NoPlan == [found |-> FALSE, plan |-> << >>]
Found(p) == [found |-> TRUE, plan |-> p]

States == {s \in [Vars -> 0..10] : \A v \in Vars : s[v] < Dom[v]}
Successor == [a \in DOMAIN Op |-> [s \in States |-> Apply(Op[a], s)]]

\* The states a plan passes through, the inapplicable operators included.
Step(s, a) == Successor[a][s]
Reach(s, p) == FoldLeft(Step, s, p)

\* The plan works from s: every operator is applicable in its turn, then the goal holds.
Works(p, s) ==
  /\ \A k \in DOMAIN p : Applicable(Op[p[k]], Reach(s, SubSeq(p, 1, k - 1)))
  /\ Holds(Reach(s, p), Goal)

\* The closed list is a tree of paths that meet no state twice; which ones depends on
\* the heuristic.
Prolonged(w, a) == [w EXCEPT !.plan = Append(@, a), !.past = @ \cup {w.to}, !.to = Step(@, a)]
Longer(W) ==
  W \cup UNION {{x \in {Prolonged(w, a) : a \in {b \in DOMAIN Op : FullyApplicable(Op[b], w.to)}} : x.to \notin x.past} :
                w \in W}

Paths ==
  LET path[n \in 0..MaxSearch] ==
        IF n = 0 THEN {[from |-> s, plan |-> << >>, past |-> {}, to |-> s] : s \in States} ELSE Longer(path[n - 1])
  IN  path[MaxSearch]

\* The plans to a state with sub that is not in given.
Ways(s, sub, given) ==
  {w.plan : w \in {x \in Paths : x.from = s /\ Holds(x.to, sub) /\ x.to \notin given /\ \A t \in x.past : ~Holds(t, sub)}}

\* The search is greedy: a plan need not be a shortest one.
Searches(s, sub, given) ==
  UNION {IF ways = {} THEN {NoPlan} ELSE {Found(p) : p \in ways} : ways \in {Ways(s, sub, given)}}

\* An engine made from a cached plan has no open list and no heuristic: searched
\* again, it takes its first state for a dead end and finds nothing.
Engine(s, live, r) == [start |-> s, live |-> live, result |-> r,
                       given |-> IF r.found THEN {Reach(s, r.plan)} ELSE {}]

\* A mutant: the search starts afresh each time it is asked.
SearchAnew(e) ==
  IF e.live THEN {[e EXCEPT !.result = r] : r \in Searches(e.start, Goal, {})}
  ELSE {[e EXCEPT !.result = NoPlan]}

SearchAgain(e) ==
  IF e.live
  THEN {[e EXCEPT !.result = r, !.given = IF r.found THEN @ \cup {Reach(e.start, r.plan)} ELSE @] :
          r \in Searches(e.start, Goal, e.given)}
  ELSE {[e EXCEPT !.result = NoPlan]}

-----------------------------------------------------------------------------
(* search_subplan and its cache.                                            *)

Cached(s, sub) == <<s, sub>> \in DOMAIN cache

Subplans(s, sub) ==
  IF Cached(s, sub) THEN {cache[<<s, sub>>]} ELSE Searches(s, sub, {})

\* What is known stays; when the cache is full nothing is added.
Keeping(key, r) ==
  IF key \in DOMAIN cache \/ Cardinality(DOMAIN cache) >= MaxCached THEN cache
  ELSE [k \in DOMAIN cache \cup {key} |-> IF k = key THEN r ELSE cache[k]]

\* A mutant: the key is made from g_initial_state, before search_subplan sets it.
RememberingEarly(s, sub, r) == Keeping(<<init, sub>>, r)

Remembering(s, sub, r) == Keeping(<<s, sub>>, r)

\* Whether the engine that search_subplan returns can be searched again.
Live(s, sub) == ~Cached(s, sub) /\ ~Holds(s, sub)

-----------------------------------------------------------------------------
(* The Counter, and the verifier as far as the loop can see it.             *)

\* appearcounter and counterset_new after one more counterexample.
Learnt(c, s) ==
  IF s \in DOMAIN c.appear THEN [c EXCEPT !.appear[s] = @ + 1]
  ELSE [c EXCEPT !.appear = @ @@ (s :> 1), !.recent = Append(@, s)]

\* main records s0 among them: the map keeps an entry it has, the vector grows.
Recorded(c, s) ==
  [c EXCEPT !.appear = @ @@ (s :> 1), !.recent = Append(@, s)]

Repeated(c) == {s \in DOMAIN c.appear : c.appear[s] > 1}

\* A mutant: the first "no counterexample" is believed.
AppliedAtOnce(c, ce) ==
  IF ce # {} THEN Learnt([c EXCEPT !.isfind = FALSE], CHOOSE s \in ce : TRUE)
  ELSE [c EXCEPT !.isfind = TRUE, !.findvalidplan = TRUE]

\* applyPrimaryCounterexampleResult and the end of Counter::invokeSMTSolver; ce
\* is the counterexample, in a set that is empty when there is none.
Applied(c, ce) ==
  IF ce # {} THEN Learnt([c EXCEPT !.isfind = FALSE], CHOOSE s \in ce : TRUE)
  ELSE IF c.isfind THEN [c EXCEPT !.findvalidplan = TRUE]
  ELSE [c EXCEPT !.isfind = TRUE,
                 !.findvalidplan = @ \/ ~opt.avoid \/ Repeated(c) = {}]

\* A mutant: the selection bans what came twice, like every other verification.
BannedAlike(isfirst) ==
  IF ~opt.avoid \/ counter.isfind THEN {} ELSE Repeated(counter)

\* The initial states the encoding leaves out: with loop avoidance those that came
\* twice, until a verification finds no other, and every s0 when one is selected.
Banned(isfirst) ==
  IF ~opt.avoid THEN {}
  ELSE IF isfirst THEN counter.firststate
  ELSE IF counter.isfind THEN {} ELSE Repeated(counter)

\* What a solver that answers says: an initial state on which the plan fails.
Answers(p, banned) ==
  LET bad == {s \in belief \ banned : ~Works(p, s)}
  IN  IF bad = {} THEN {{}} ELSE {{s} : s \in bad}

\* The answer of the CNF backend, with whether it can be used: there may be no
\* encoding, no library, no verdict or no sample.
CnfResults(p, banned) ==
  [usable : {TRUE}, ce : Answers(p, banned)] \cup {[usable |-> FALSE, ce |-> {}]}

\* What cannot be used hands over to the SMT solver, whose silence counts as "no
\* counterexample".
Verdicts(p, banned) ==
  LET smt == Answers(p, banned) \cup Undecided
  IN  UNION {IF r.usable THEN {r.ce} ELSE smt : r \in CnfResults(p, banned)}

-----------------------------------------------------------------------------
(* The pieces of a repair.                                                  *)

\* Operator::condition_sub_goal: what the operator read when it was applied in s.
ConditionSubGoal(op, s) ==
  IF ~opt.relax /\ \E i \in DOMAIN op.effects : Cardinality(op.effects[i].cond) > 1
  THEN {}
  ELSE op.prevail \cup UNION {op.effects[i].cond : i \in {j \in DOMAIN op.effects : Fires(op.effects[j], s)}}

\* Operator::conformant_sub_goal: the preconditions that do not hold in s.
ConformantSubGoal(op, s) == {f \in op.prevail : s[f[1]] # f[2]}

Inserted(p, i, q) == SubSeq(p, 1, i - 1) \o q \o SubSeq(p, i, Len(p))

\* The simulation of sovle_counter, which skips what is_applicable refuses.
Skipping(s, p) ==
  LET skip(T, a) == {IF FullyApplicable(Op[a], t) THEN Step(t, a) ELSE t : t \in T}
  IN  FoldLeft(skip, {s}, p)

\* Counter::optimizePlantest: the known states move together, the first one that
\* an operator does not suit keeps those behind it where they are, and a stretch of the plan
\* that ends where it began is cut.
Together(known, a) ==
  LET moves(s) == [Op[a] EXCEPT !.effects = SelectSeq(@, LAMBDA e : e.pre \in {-1, s[e.var]})]
      suits(n) == \A m \in 1..n : Applicable(Op[a], known[m])
  IN  [n \in DOMAIN known |-> IF suits(n) THEN Effects(moves(known[n]), known[n]) ELSE known[n]]

Optimized(p, known) ==
  LET at[k \in 0..Len(p)] == IF k = 0 THEN {known} ELSE {Together(now, p[k]) : now \in at[k - 1]}
      last(k) == CHOOSE m \in k..Len(p) : at[m] = at[k] /\ \A n \in (m + 1)..Len(p) : at[n] # at[k]
      keep[k \in 0..(Len(p) + 1)] ==
        IF k > Len(p) THEN << >>
        ELSE (IF k = 0 THEN << >> ELSE << p[k] >>) \o keep[last(k) + 1]
  IN  keep[0]

-----------------------------------------------------------------------------
(* main: the choice of s0, the search, and another try after a failure.     *)

NoCounter == [isfind |-> FALSE, findvalidplan |-> FALSE, appear |-> << >>, recent |-> << >>,
              firststate |-> {}, landmark |-> FALSE]
NoFix == [who |-> "ite", plan |-> << >>, i |-> 1, cur |-> init, start |-> init, prev |-> init, maintain |-> TRUE]

Init ==
  /\ \E start \in Starts : belief = start[1] /\ opt = start[2]
  /\ init = CHOOSE s \in belief : TRUE
  /\ s0 = init /\ engine = Engine(init, TRUE, NoPlan)
  /\ cache = << >> /\ counter = NoCounter
  /\ ref = [prev |-> init, check |-> init, maintain |-> TRUE]
  /\ fix = NoFix /\ todo = {} /\ rounds = 0 /\ final = {} /\ pc = "select"

\* s0 is a landmark state when no reference was asked for and one is found, else
\* what a verification of the empty plan answers, by a Counter of its own.
SelectInitial ==
  /\ pc = "select"
  /\ \/ /\ opt.reference = "landmark"
        /\ init' \in belief
        /\ counter' = [counter EXCEPT !.landmark = TRUE, !.firststate = IF opt.avoid THEN {init'} ELSE @]
     \/ \E ce \in Verdicts(<< >>, {}) :
          /\ init' = IF ce = {} THEN init ELSE CHOOSE s \in ce : TRUE
          /\ counter' = [counter EXCEPT !.firststate = IF opt.avoid THEN {init'} ELSE @]
  /\ s0' = init' /\ engine' = Engine(init', TRUE, NoPlan) /\ pc' = "search"
  /\ UNCHANGED <<belief, opt, cache, ref, fix, todo, rounds, final>>

Search ==
  /\ pc = "search"
  /\ engine' \in SearchAgain(engine)
  /\ IF engine'.result.found
     THEN init' = s0 /\ counter' = Recorded(counter, s0) /\ pc' = "solve"
     ELSE UNCHANGED <<init, counter>> /\ pc' = IF opt.avoid THEN "restart" ELSE "done"
  /\ UNCHANGED <<belief, opt, s0, cache, ref, fix, todo, rounds, final>>

\* Another s0, from a verification of the empty plan in which every s0 so far is
\* banned; the loop goes on with its engine whether that found a plan or not.
Restart ==
  /\ pc = "restart"
  /\ \E ce \in Verdicts(<< >>, Banned(TRUE)) :
       IF ce = {}
       THEN /\ counter' = Applied(counter, ce) /\ pc' = "done"
            /\ UNCHANGED <<init, s0, engine, cache>>
       ELSE \E s \in ce : \E r \in Subplans(s, Goal) :
              /\ init' = s /\ s0' = s
              /\ counter' = Recorded([Applied(counter, ce) EXCEPT !.firststate = @ \cup {s}], s)
              /\ engine' = Engine(s, Live(s, Goal), r)
              /\ cache' = Remembering(s, Goal, r)
              /\ pc' = "solve"
  /\ UNCHANGED <<belief, opt, ref, fix, todo, rounds, final>>

\* solve_belief_state_ite returned false.
Failed ==
  /\ pc = "failed"
  /\ counter' = [counter EXCEPT !.appear = << >>, !.recent = << >>]
  /\ pc' = "search"
  /\ UNCHANGED <<belief, opt, init, s0, engine, cache, ref, fix, todo, rounds, final>>

-----------------------------------------------------------------------------
(* solve_belief_state_ite: each round takes the plan with what was searched *)
(* to its end, chooses the reference state, and verifies.                   *)

Solve ==
  /\ pc = "solve"
  /\ ref' = [prev |-> init, check |-> init, maintain |-> TRUE]
  /\ fix' = [NoFix EXCEPT !.plan = engine.result.plan]
  /\ pc' = "round"
  /\ UNCHANGED <<belief, opt, init, s0, engine, cache, counter, todo, rounds, final>>

\* The static reference, and the one of a landmark, give way to a state that came
\* once when they came twice.
References ==
  IF opt.reference = "dynamic" \/ (opt.reference = "landmark" /\ ~counter.landmark)
  THEN {[ref EXCEPT !.prev = IF opt.original THEN @ ELSE init]}
  ELSE IF ref.prev \in Repeated(counter)
  THEN LET once == DOMAIN counter.appear \ Repeated(counter)
       IN  IF once = {} THEN {ref} ELSE {[ref EXCEPT !.prev = s, !.check = s] : s \in once}
  ELSE {[ref EXCEPT !.prev = ref.check]}

Round ==
  /\ pc = "round"
  /\ opt.avoid \/ rounds < MaxRounds
  /\ rounds' = IF opt.avoid THEN rounds ELSE rounds + 1
  /\ fix' = [fix EXCEPT !.i = 1,
                        !.plan = IF opt.optimize /\ ~counter.isfind
                                 THEN Optimized(@, counter.recent) ELSE @]
  /\ ref' \in References
  /\ pc' = "verify"
  /\ UNCHANGED <<belief, opt, init, s0, engine, cache, counter, todo, final>>

Verify ==
  /\ pc = "verify"
  /\ \E ce \in Verdicts(fix.plan, Banned(FALSE)) :
       LET c == Applied(counter, ce)
       IN  /\ counter' = c
           /\ IF ce = {}
              THEN /\ pc' = IF c.findvalidplan THEN "done" ELSE "resolve"
                   /\ final' = IF c.findvalidplan THEN {fix.plan} ELSE final
                   /\ todo' = IF c.findvalidplan THEN todo ELSE Repeated(c)
                   /\ fix' = [fix EXCEPT !.who = "counter", !.prev = init, !.maintain = TRUE]
                   /\ UNCHANGED init
              ELSE /\ init' = CHOOSE s \in ce : TRUE
                   /\ pc' = IF opt.avoid /\ \E s \in DOMAIN c.appear : c.appear[s] > LoopLimit
                            THEN "failed" ELSE "repair"
                   /\ fix' = [fix EXCEPT !.who = "ite", !.i = 1, !.cur = init',
                                         !.prev = ref.prev, !.maintain = ref.maintain]
                   /\ UNCHANGED <<final, todo>>
  /\ UNCHANGED <<belief, opt, s0, engine, cache, ref, rounds>>

-----------------------------------------------------------------------------
(* The repair, for the last counterexample (solve_belief_state_ite) and for *)
(* a repeated one (sovle_counter).                                          *)

AtOperator == pc = "repair" /\ fix.i <= Len(fix.plan)
NextOp == Op[fix.plan[fix.i]]

\* A repair that cannot be finished: sovle_counter's caller ignores that it failed
\* and goes on with the plan it did not set, the empty one.
GiveUp ==
  IF fix.who = "ite" THEN pc' = "failed" /\ UNCHANGED fix
  ELSE pc' = "round" /\ fix' = [fix EXCEPT !.plan = << >>, !.i = 1]

\* ite keeps the previous state and the flag from one round to the next.
KeepRef == ref' = IF fix'.who = "ite" THEN [ref EXCEPT !.prev = fix'.prev, !.maintain = fix'.maintain] ELSE ref

\* The operator is applicable: what it read in the previous state is to hold here too,
\* then both states move.
KeepEffects ==
  /\ AtOperator /\ Applicable(NextOp, fix.cur)
  /\ LET sub == IF fix.maintain THEN ConditionSubGoal(NextOp, fix.prev) ELSE {}
     IN  \E r \in IF Holds(fix.cur, sub) THEN {Found(<< >>)} ELSE Subplans(fix.cur, sub) :
           LET cur == Reach(fix.cur, r.plan)
               move == \/ fix.who = "ite" /\ opt.original
                       \/ Applicable(NextOp, cur) /\ Applicable(NextOp, fix.prev)
           IN  /\ cache' = IF Holds(fix.cur, sub) THEN cache ELSE Remembering(fix.cur, sub, r)
               /\ fix' = [fix EXCEPT !.plan = Inserted(@, fix.i, r.plan),
                                     !.i = @ + Len(r.plan) + 1,
                                     !.cur = IF move THEN Step(cur, fix.plan[fix.i]) ELSE cur,
                                     !.prev = IF move THEN Step(@, fix.plan[fix.i]) ELSE @,
                                     !.maintain = @ /\ (r.found \/ opt.relax)]
  /\ KeepRef
  /\ UNCHANGED <<belief, opt, init, s0, engine, counter, todo, rounds, final, pc>>

\* The operator is not applicable: a subplan for the preconditions it lacks.  The
\* operator is applied after it without another look.
ReachCondition ==
  /\ AtOperator /\ ~Applicable(NextOp, fix.cur)
  /\ LET sub == ConformantSubGoal(NextOp, fix.cur)
     IN  \E r \in Subplans(fix.cur, sub) :
           /\ cache' = Remembering(fix.cur, sub, r)
           /\ IF r.found
              THEN /\ fix' = [fix EXCEPT !.plan = Inserted(@, fix.i, r.plan),
                                         !.i = @ + Len(r.plan) + 1,
                                         !.cur = Reach(@, Append(r.plan, fix.plan[fix.i]))]
                   /\ UNCHANGED pc
              ELSE IF opt.optimize
              THEN fix' = [fix EXCEPT !.plan = SubSeq(@, 1, fix.i - 1)] /\ UNCHANGED pc
              ELSE GiveUp
  /\ UNCHANGED <<belief, opt, init, s0, engine, counter, ref, todo, rounds, final>>

\* At the end of the plan: a subplan for the goal.
ReachGoal ==
  /\ pc = "repair" /\ fix.i > Len(fix.plan)
  /\ \E r \in Subplans(fix.cur, Goal) :
       /\ cache' = Remembering(fix.cur, Goal, r)
       /\ IF ~r.found THEN GiveUp /\ UNCHANGED init
          ELSE /\ fix' = [fix EXCEPT !.plan = @ \o r.plan]
               /\ IF fix.who = "ite" THEN pc' = "round" /\ UNCHANGED init
                  ELSE pc' = "resolve" /\ init' = fix.start
  /\ UNCHANGED <<belief, opt, s0, engine, counter, ref, todo, rounds, final>>

\* sovle_counter: the next counterexample that came twice, if the plan fails on it.
Resolve ==
  /\ pc = "resolve"
  /\ IF todo = {}
     THEN pc' = "round" /\ UNCHANGED <<fix, todo>>
     ELSE \E s \in todo :
            /\ todo' = todo \ {s}
            /\ IF \A t \in Skipping(s, fix.plan) : Holds(t, Goal)
               THEN /\ fix' = [fix EXCEPT !.prev = IF opt.original THEN s ELSE @]
                    /\ UNCHANGED pc
               ELSE /\ fix' = [fix EXCEPT !.i = 1, !.cur = s, !.start = s,
                                          !.prev = IF opt.original THEN @ ELSE init]
                    /\ pc' = "repair"
  /\ UNCHANGED <<belief, opt, init, s0, engine, cache, counter, ref, rounds, final>>

Next == \/ SelectInitial \/ Search \/ Restart \/ Failed
        \/ Solve \/ Round \/ Verify
        \/ KeepEffects \/ ReachCondition \/ ReachGoal \/ Resolve

Spec == Init /\ [][Next]_vars /\ WF_vars(Next)

-----------------------------------------------------------------------------

\* The plan that solve_belief_state_ite writes (planner.cc:2031) works from every
\* possible initial state, although verifications leave repeated counterexamples out
\* and sovle_counter's failure is ignored (planner.cc:1718).
AcceptedIsConformant == \A p \in final, s \in belief : Works(p, s)

\* What search_subplan keeps for a state and a subgoal (planner.cc:2698) is what a
\* search would find: a plan that leads there, or that there is none.
CacheIsTrue ==
  \A key \in DOMAIN cache :
    LET s == key[1]  sub == key[2]  r == cache[key]
    IN  IF r.found THEN r.plan \in Ways(s, sub, {}) ELSE Ways(s, sub, {}) = {}

\* A failed s0 is not taken again (planner.cc:1012).
EachStartIsNew == [][pc = "restart" /\ pc' = "solve" => s0' \notin counter.firststate]_vars

\* With loop avoidance the planner stops, on tasks that have a conformant plan and on
\* tasks that have none (planner.cc:1346): no repair goes round for ever.
Stops == opt.avoid => <>(pc = "done")
==============================================================================
