# Verification of CE-planner

CE-planner decides conformant planning problems: is there one sequence of
actions that reaches the goal from *every* possible initial state?  Its newer
mode is a CEGIS loop (`src/lama/search/cegis_framework.cc`): keep a set of
counterexample states, give them to an off-the-shelf conformant planner as a
*refined* problem, let a SAT-based verifier look for an initial state on which
the returned plan fails, add that state, repeat.  Its older mode (iGC,
`planner.cc`) searches a plan for one initial state itself and repairs it for
the others.  Both rest on the same verifier (`counter_cnf.cc`) and on what the
translator makes of a problem.  This directory holds TLA+ modules for both
modes, the verifier's encoding, its clause layer and the axioms, TLC runs over
small problems and TLAPS proofs.

## 1. Inventory

Line numbers without a file are of `src/lama/search/cegis_framework.cc`.

| component | code | state | operations | talks to |
|---|---|---|---|---|
| CEGIS loop | 4875-5127 | iteration, `duplicate_streak`, `candidate`, status | one round: dump, write, validate, domain, run, map, save, verify, insert | every part below, in sequence |
| counterexample store | 139-244 | entries in insertion order, index by state | `insert`, `states`, `dump_json` | loop, writer, validator |
| initial constraints | 328-436 | OR/ONEOF groups of `oneof_initial` | `load`, `alternative_holds` | writer (T1), validator |
| refined problem writer | 881-1624, 1765-1817 | none (a function of the store) | `write` in six syntaxes and three modes, selector domain | store, constraints, fact map |
| validator | 1819-2102 | none | accounting of forms, stored states against the groups | |
| candidate planner runner | 2200-2240, 3038-4531, `cegis_native_runtime.inc` | files of a run or solver directory, a process group | `run` per planner kind, isolated or native | planner processes |
| plan parsers | 2242-3036 | none | one per output format | mapper |
| action mapper | 4533-4671 | exact and relaxed name tables | `parse_and_map`, `map_actions` | loop |
| verifier | `counter_cnf.cc`, `kissat_counter.cc`, 4674-4725 | per-round flags, sample, CNF; caches across rounds | `prepare_counterexample_cnf`, `run_kissat_validation` | Kissat, file `oneof` |
| result files | 488-508, 4727-4743 | `result`, `finalplan`, `C_Plan`, `candidate.plan` | atomic replacement, in order | |
| legacy iGC loop | `planner.cc`, `counter.cc` | plan, belief states, subplan cache, swapped globals | `sovle_counter`, `solve_belief_state_ite`, `search_subplan` | search, SMT/CNF backends |
| other solver backends | `smt_`, `z3_`, `minisat_`, `glucose_`, `cadical_counter.cc` | one model each | solve, extract a sample | legacy loop |
| CNF infrastructure | `cnf_builder.cc`, `cnf_preprocessor.cc`, `sat_var_manager.cc` | clauses, variable table | add, simplify | backends |
| LAMA search | `best_first_search.cc`, open/closed lists, `ff_heuristic.cc` | open and closed lists, best estimate, the heuristic's costs of the last state | `search`, again after an answer | legacy loop |
| SAS semantics | `state.cc`, `operator.cc`, `axioms.cc` | variable values | apply, evaluate axioms | search |
| translator | `src/lama/translate`, `src/lama/preprocess` | files `output.sas`, `oneof`, `oneof_initial` | grounding, combining ONEOFs | verifier, constraints |
| tools and scripts | `src/tools`, `src/plan*`, `src/run-test-ce.sh` | temporary runtime directories | adapters, group filter, batch runs | runner |

### Hard behaviours

* **Reuse.**  One verifier, one mapper and one candidate vector live through
  all rounds; every round starts with state that belongs to the last plan.
* **Untrusted parts.**  A planner may print anything: an old plan, a plan of
  names that map to nothing or to two operators, a plan it has printed before.
* **Six syntaxes.**  One set of states is written in six different ways, each
  around a defect of a front-end (closed world, no UNKNOWN, omission in an
  alternative, no conjunctions in a ONEOF).
* **Two readings of one problem.**  The verifier reads `oneof` and completes
  the alternatives; writer and validator read `oneof_initial`.
* **Partial failure.**  Every call may fail; the solver may stop without an
  answer or without a usable model; three output files are replaced in turn.
* **Processes, deadlines and leftovers.**  A planner runs in a process group of
  its own, may be killed in the middle of its output or survive the program,
  may leave descendants, and hands its result over in files that outlive it,
  often in a directory that every round shares.
* **Caches that outlive what they were made for.**  The verifier keeps change
  points and whole regression layers of the last plan and shifts them where the
  next plan ends alike; its gate and term caches hold ids of one round beside a
  table of ids that is rolled back; the legacy loop keeps subplans by state and
  subgoal and searches by swapping the global initial state and goal.
* **A verdict that is the absence of something.**  "No counterexample" is read
  off flags, an empty set or an UNSAT answer, and several ways lead there that
  are not a proof: banned states, a formula strengthened too far, a solver
  without a verdict.
* **A loop that repairs what it broke.**  A repair for one initial state may
  undo the repair for another; only loop avoidance bounds that.
* **A search that trusts its heuristic.**  A state is a dead end, a goal state or
  the target of an operator nobody checks again because the relaxed exploration
  says so; and a search goes on from where its last answer stopped.
* **Axioms turned round.**  The translator simplifies axioms, negates them and
  orders them in layers; the evaluator counts conditions with counters that are
  reset, and defaults, that must fit what the translator wrote.

`PROJECT.json` lists these hazards at their lines.

## 2. Modules

| module | models | depends on |
|---|---|---|
| `CounterexampleStore` | `class CounterexampleStore`: entries, `Insert` | |
| `RefinedProblem` | constraints, initial belief as verifier and as validator see it, the forms of every profile, write and validation statuses, how front-ends read them | store |
| `RefinedWriter` | store + writer + validator under an environment that inserts any initial state and asks for any profile and mode | `RefinedProblem` |
| `CegisSpec` | the abstract learner: what the loop promises without files, solvers and planners | |
| `CegisLoop` | `run_cegis_loop` with all its calls | `RefinedProblem`, refines `CegisSpec` |
| `CegisProgress` | what the loop owes to a planner that solves what it is given | `CegisLoop` |
| `PlannerRunner` | `CandidatePlannerRunner` in both modes with `run_shell_command`, beside external planners | |
| `SasTask` | states, operators, axioms: applicability, successors, execution of a plan | |
| `CounterCnf` | the verifier's regression encoding over several plans, with what it keeps of the last | `SasTask` |
| `Cnf` | literals, clauses, models, the clauses of gates and definitions | |
| `CnfBuilder` | ids, gates, terms and snapshots through several rounds | `Cnf` |
| `CnfPreprocessor` | `simplify_safe` (option u), one action per simplification | `Cnf` |
| `IgcLoop` | `main` and `solve_belief_state_ite` of the legacy mode | `SasTask` |
| `PlanSearch` | the abstract search: what its callers rely on | |
| `FFHeuristic` | the relaxed exploration, the estimate, the preferred operators | `SasTask` |
| `BestFirstSearch` | the search engine, step by step | `FFHeuristic` |
| `SearchPromise` | that `BestFirstSearch` implements `PlanSearch`, and which tasks it does so for | `BestFirstSearch`, refines `PlanSearch` |
| `Axioms` | the translator's axiom rules and the evaluator of the search | |
| `StripsTask` | grounded actions as the translator holds them and what they do | |
| `OneofCombination` | `detect_combinable` and the initial states written for combined ONEOFs, against a plan carried out in every combination | `StripsTask` |
| `StripsToSas` | the operators the translator writes, carried out beside the actions they stand for | `StripsTask` |
| `MCCegisLoop`, `MCCegisSettings`, `MCPlannerRunner`, `MCCounterCnf`, `MCCnf`, `MCIgcLoop`, `MCServices`, `MCTranslator`, `MCWritten` | small problems for TLC; most hold several parts or settings, told apart by a variable that never changes | |
| `MCRobot`, `MCOtherProblems` | the constants of the search in `MCServices`, the second writer problems of `MCWritten` | |
| `RefinedProblemProofs` (of `RefinedProblem` and `RefinedWriter`), `CegisLoopProofs`, `PlannerRunnerProofs`, `SearchProofs` (of `SasTask` and the search), `CounterCnfProofs`, `CnfProofs`, `IgcLoopProofs`, `TranslatorProofs` (of `OneofCombination`, `StripsToSas` and `Axioms`) | theorems | |

### Store

A store is a sequence of records `[state, freq, first]`.  `insert` looks a
state up in an index keyed by all its values; the model looks it up in the
sequence (`Stored`), which is the same thing as long as index and vector agree,
and that is what `InsertKeepsDistinct` says.  The `INPUT_ERROR` branch (wrong
size or out-of-range value) is outside: `States` are the in-range states and
the verifier builds its samples from them.

### Refined problem

A refined `:init` is four sets: unit literals, UNKNOWN atoms, ONEOF groups and
OR clauses (`Forms`).  Spelling, order, indentation and duplicates do not
matter to any front-end, so they are left out.  `Groups` is the content of
`oneof_initial`: a group is a kind and a sequence of alternatives, an
alternative is a set of SAS literals.

There are two beliefs on purpose.  `Belief` is the reading of the validator:
an alternative holds when its literals hold.  `Worlds` is what the verifier's
time-0 clauses admit: with ORs (type 3) the same, without (type 2) an
alternative also sets the other variables of its group to their last value
(`Completed`), and for combined ONEOFs (type 1, ORS) exactly one of the
complete states the translator wrote (`IsNthState`).  `NeverRefusesItsOwnSamples`
is about the difference.

`InitialStates` and `Projected` are the reading of `:init` on the other side.
Where the planner's front-end is in the repository its source is mapped
(`cnf_planner/new.pl`, `GC_LAMA`, `gCPCES`); CpAH, T1 and iCPCES come as
binaries or are described by the writer's comments at 1315-1327 and 1410-1417.
GC-LAMA sets what an alternative omits to *none of those*; the others read a
conjunction.

### Loop

`pc` names the next call.  One action is one call with all its effects, so a
step may return early with a status (`Return`, after which nothing happens) or
go on (`Goto`).

| action | code |
|---|---|
| `Setup` | configuration, directories, fact groups, constraints (4876-4972) |
| `PrepareCnf`, `RunKissat`, `Judge` | `verify_full_problem`: reset of the round and encoding, `solve_with_kissat`, the verdict read off the flags |
| `InsertFirst`, `InsertNext` | `store.insert` after the bootstrap / in a round, streak, both limits |
| `BeginIteration` | directory and `counterexamples.json` |
| `WriteRefined`, `ValidateRefined`, `WriteDomain` | the refined problem |
| `RunPlanner` | `CandidatePlannerRunner::run`: any plan of `RawPlans`, or an early return |
| `MapPlan`, `SaveCandidate` | mapper, `candidate.plan` |
| `WriteResult`, `WriteFinalplan`, `WriteCPlan` | `write_final_outputs` |

`tried` is a history variable: the plans verified so far, the empty one first.
The verifier's answer is abstracted to `Answers`: 10 with an initial state on
which the plan fails, 20 when there is none, and, if `SolverMayGiveUp`,
neither.  `CounterCnf` says how far the encoding bears that out.  `Solves` is a constant: what it takes for a plan to work from a state is
not needed by the loop.

### Planner runner

The state is one runner per CEGIS process (`run`: where it is, which of its
commands, the outcome), the process group of its last command (`group`), the
files by directory and name, the iCPCES lock and the descendants that may
still write (`strays`).  A file is an author - the call for whose problem its
content was computed - and one of six kinds of content: absent, empty, cut in
the middle, or finished as a plan, a no-plan marker, a success marker without
actions, or anything else.  Author and `cut` are what the properties tell
apart; formats are reduced to what each parser accepts (`Counted`, `Console`,
`Listed`, `Unparsed`).

| action | code |
|---|---|
| `Begin` | the checks and unlinks at the head of every `run_*` |
| `Fork`, `Tick`, `Poll`, `Expire`, `Kill` | `run_shell_command`: fork and setpgid, the clock, `waitpid(WNOHANG)`, SIGTERM and one second, SIGKILL and waitpid (2200-2240) |
| `Read` | what follows it: status, files, parsers, fall-backs, the second command of the GC family (search) and of the CPA family (recovery) |
| `Publish` | `plan-result`: a copy of the planner's file read again, or the parsed actions |
| `Finish` | the loop goes to the next round or returns |
| `OpenConsole`, `TakeLock`, `RemoveOld`, `Translate`, `TestOutput` | the stages of the shell command, in the order of the command line |
| `Solve`, `StartPrinting`, `EndPrinting`, `Exit`, `Fail`, `StrayWrites` | the planner (external) |
| `Die` | a CEGIS process is killed; its planner, in a group of its own, is not |

The planner side is as free as the command line allows: it may print to its
files in any order, or none, stop anywhere, and exit with any status.  It is
asked for one thing only, that it exits with status 0 after closing what it
had begun to write.  A search works on what the translator left in `mid`,
whoever wrote that; so a stale `theory_0.al` gives a plan of the wrong author
even when the plan file itself is new.

`PlannerRunner` and `CegisLoop` meet in the action `RunPlanner`, which takes a
raw plan of this round or a failing status: `OwnAnswer` and `WholePlan` are
what makes that a fair picture of the runner.

### Tasks and axioms

`SasTask` is a task as the search holds it, and the reference against which the
verifier, the legacy loop and the axioms are judged.  `Applicable` reads the
prevail facts only (`is_conformant_applicable`), `FullyApplicable` the old
values of the effects too (`is_applicable`): the code uses both.

`Axioms` goes from the axioms of the task to the value of a derived variable.
`Translate` is `axiom_rules.py` up to the layers: what is needed and how, the
simplification, the axioms turned round, the defaults.  `FindLevel`, `LookUp`, `Call`,
`Return` and `Cycle` are `find_level`, a recursive function, whose calls are the stack
`frames`: an atom is marked, its dependencies are looked up or entered in any order, the
level goes back to the caller.  `Evaluate`, `Fire`, `Deduce` and `FailLayer` are
`AxiomEvaluator::evaluate`: reset of values and counters, a rule without open conditions,
one literal taken from the queue, the end of a layer.  The state the evaluator keeps
between two calls is part of the model, and the calls follow one another in any states.
Orders of sets, of the axioms in a Python set and of the rules of a literal are left open.

### Verifier

A timed fact `<<var, val, t>>` is a SAT variable.  `Prepare` is
`prepare_counterexample_cnf` up to the regression loop: the common suffix with
the last plan, the change points shifted (`Summary`) or scanned, the layers of
the last plan to replay (`OldLayer`), the goal with its axioms.  `Regress` is one
turn of the loop on a layer somebody asked for, `PassOver` one on an empty
layer, `Solve` the answer.  `Equation` is the skeleton of a fact after an action
in its seven cases; the formula is the function `equations` with the `roots`.
Its models are evaluated directly, not through clauses: `Guessed` are the timed
facts that nothing settles.

`CnfBuilder` is below that: what an id, a gate or a term is worth when rounds
follow one another.  `BuildStatic` and `BeginRound` build and restore the static
base, `Term` and `AskGate` ask for shared literals, `DefineFact` adds the
clauses of a fact.  `asked` and `laid` are history variables: what was handed
out, and the clauses that are not of gates.

`CnfPreprocessor` has one action per simplification of a pass, on every formula
of `Formulas`; reading the model as a sample is its last action.  The code finds every
class of equivalent literals twice, as it is and negated, and writes both into one map;
which of the two is written last depends on the order in which the components were
found, so `Orders` leaves it open.

### Combined ONEOFs

`Detected` is the pass of `detect_combinable`: the alternatives tag their atoms,
then every link from a condition to an effect, in the order of the loops, passes
the tag on; an atom that gets two tags ends it (`clash`).  `Links` keeps a detail
of the loops: what a precondition influences are the action's effects, not only
the conditional ones.  The state machine is the reading the result is for: a plan
carried out in every combination of alternatives at once (`Do`, `Finish`, as
`testPlanisvalid` does for the states of `belief`), beside `Listed`, the few
combinations of the ORS file.  The run goes on after an inapplicable operator, as
though it applied; the combination has failed already.

### Operators

`StripsToSas` takes an action from its literals to the operator of `output.sas` and
on to the state the search makes of it.  A variable is a group of atoms of which
at most one holds (`Groups`), the last value means none of them (`NoneOfThose`);
`MutexGroups` are what the invariant synthesis found, more than the groups.  `Fact`,
`Condition`, `Possible` are the translation of conditions with both tests for
conflicts, `Adds` and `Dels` the two loops over the effects with everything they
leave out, `Old` the old value, implied ones included (`Implied`), `Refused` the
assertion against conflicting adds.  `Result` is `State::State` on the sorted
effects.  `Take` carries out an action and its operator side by side; `regular` is
a history variable that says whether everything so far was within what the
translation takes for granted (`Regular`, section 6), and `ValuesAreFacts` that the
two still agree then.

### Legacy loop

| action of `IgcLoop` | code in `planner.cc` (and `counter.cc`) |
|---|---|
| `SelectInitial` | the first `s0`: a landmark state or the answer to an empty plan |
| `Search`, `Restart`, `Failed` | the loop of `main`: the next plan of `s0`, another `s0` when there is none, what a failed repair resets |
| `Solve`, `Round` | `solve_belief_state_ite`: its start, and the head of a round (optimised plan, reference state) |
| `Verify` | `invokeSMTSolver` with `applyPrimaryCounterexampleResult`: bans, fallback, the two flags, the file `finalplan` |
| `KeepEffects`, `ReachCondition`, `ReachGoal` | one operator of the plan under repair, with `search_subplan` and its cache |
| `Resolve` | `sovle_counter`: the next counterexample that came twice |

`search_subplan` is one step, since nothing runs between its swap of the
globals and the swap back; the mutant of the cache shows that the order in it
matters.  The search is greedy, so it returns any plan that meets no state
twice, whatever its length, as the closed list allows; a continued one any such
plan to a state it has not yet reported.  A full cache (`MaxCached`) takes no
entry, and what it lacks is searched each time, perhaps with another result.  What an engine made from the cache does when
searched again follows the code with assertions off (section 6).  Which landmark
state is chosen is left open (any possible state), the saving of the first,
unverified plan and the comparison of backends are left out.

### Search

| action of `BestFirstSearch` | code |
|---|---|
| `Search` | `SearchEngine::search`, the first time and after an answer |
| `Known`, `Close` | the head of `step`: a state that is closed already, or its entry in the closed list |
| `Explore` | one turn of `relaxed_exploration` |
| `EvaluateHeuristic` | `compute_ff_heuristic` with the relaxed plan and the preferred operators |
| `Prune`, `CheckGoal`, `Expand` | `is_dead_end`, `check_goal`, and `check_progress` to `generate_successors` |
| `Fetch`, `Exhausted` | `fetch_next_state` with `select_open_queue` |

An exploration is a record that `Popped` takes one queue entry further; an entry
of a fact that has become cheaper stays in the queue and is passed over, as in the
code.  Which of several operators of the same cost reaches a fact first, and the
order among equal entries of an open list, follow no rule the properties see: the
one is a `CHOOSE`, the other left open.  `PlanSearch` is the contract: an
answer is a plan that works and leads to a goal state no answer has led to yet,
failure means that there is none that can be reached without going through a goal
state - that a goal state is not expanded is what the engine does on purpose.

## 3. Runs

| run | problem | shows |
|---|---|---|
| `loop` | 3 positions x door; (untrusted) 7 possible outputs of the planner, all faults; (sound) a planner that solves what it is given, no faults, duplicate limit 1 | outputs, evidence, counters, mapping, refinement of `CegisSpec`; no repetition and termination with a plan when the planner is sound |
| `runner_isolated` | isolated mode, one process that may be killed, two rounds, every planner (one of DNF and PIP, one of iGC and GC-LAMA: they take the same paths), descendants that write late | types; answers are of their own call; one command at a time; what was timed out is silent |
| `runner_native` | native mode: (rounds) one process, two rounds in one solver directory, all nine planners but iCPCES; (shared) two concurrent processes with iCPCES, each of which may be killed | own answers, the lock keeps the two apart, no cut plan is published, calls return although the planner waits for the lock |
| `cnf_regression` | three plans in a row out of 19 over 8 operators, 8 variables, 5 rules | the verifier's reuse and its formula |
| `cnf_clauses` | option u on the failure formulas of one action over two variables; two rounds of the clause builder | simplification and sharing keep the meaning |
| `igc_loop` | 16 belief/setting pairs over a task of four operators | the legacy loop is right, its cache too, and with loop avoidance it stops |
| `services` | (writer) two ORs, one with a negative disjunct, and a ONEOF; up to 3 stored states.  (search) a robot, a key and a door with derived facts in both polarities; 14 pairs of a start and a goal, two calls each | every exact profile denotes the stored states exactly, T1 stays in the belief, nothing is refused; the search implements `PlanSearch` |
| `written` | (translator) two ONEOFs of length 2 and 3 with every sequence of two or three of nine actions; all 1180 actions with up to two effects over groups of two, of three and of one atom; every closed set of up to four axioms out of twelve.  (writer) a ONEOF over conjunctions and one whose facts have no atom, where states look alike to the planner and the verifier completes alternatives; two ONEOFs of length 3 and 2, combined; up to 3 stored states | the diagonal of combined ONEOFs is enough; operators do what actions do; translation and evaluation of axioms; the writer's properties hold of these problems too |
| `kissat_unknown` | the problem of `loop`, solver may give up | a finding of section 6 |
| `cnf_skipped` | as `cnf_regression` | a finding of section 6 |
| `cnf_strengthened` | as `cnf_clauses` | a finding of section 6 |
| `sas_unguarded` | as the translator's part of `written` | a finding of section 6 |

Properties, in one line each:

* `ExactSampleSet` - an exact profile denotes the visible stored worlds and
  nothing else.
* `StructuredStaysInBelief` - T1's product contains the stored worlds and no SAS state
  outside the belief.
* `DiagonalSuffices` - a plan that fails in some combination of combined ONEOFs
  fails in one of those the translator writes for the verifier.
* `NeverRefusesItsOwnSamples` - the inconsistency branches of writer and validator are
  dead for states the verifier returns.
* `WrittenAlike` - these three, of the two problems of `MCOtherProblems`.
* `OutputsVerified` - an output file holds what it held before or the one
  plan that passed; the order of the files; VALID iff all three were replaced.
* `StoreIsEvidence` - stored states are distinct and each refutes the plan of
  the round it is dated with.
* `FrequenciesAddUp` - frequencies, rounds, streak and limits agree.
* `VerifiedIsPlanned`, `NoStaleCandidate` - what is verified is what was
  printed in this round.
* `StoreOnlyGrows` - nothing stored is moved, re-dated or lost.
* `SoundRunNeverRepeats`, `SoundRunAccepts` - progress with a sound planner (the first
  is of `CegisProgress`, with the initial belief `MCCegisSettings` gives it).
* `ImplementsLearner` - the loop is a learner in the sense of `CegisSpec`.
* `OwnAnswer` - a plan or a no-plan verdict, and the file that is returned, is the
  work of the planner of this call on the problem of this call.
* `WholePlan` - a plan that is returned was written to its end (CFF excepted).
* `OneCommandAtATime` - no command runs that its runner has stopped waiting for.
* `TimedOutIsSilent` - a command that was timed out, descendants included,
  writes nothing any more.
* `CallsReturn` - a call ends whatever its planner does.
* `SummaryIsPlan` - the shifted change points are those of the plan.
* `ReplayChangesNothing` - with replayed layers the regression asks for exactly
  what a fresh object would ask for.
* `RefutedReallyFails` - a counterexample is a possible state, not a forbidden
  one, and the plan fails on it.
* `UnrefutedReachesGoal` - from a state the formula does not refute the plan
  reaches the goal if inapplicable actions are skipped.
* `ValuesAreFacts` - after any sequence of regular actions the operators have led to
  the state that encodes where the actions led.
* `NoActionLost` - a regular action is applicable exactly where its operator was
  written and is, old values that were added to it included.
* `AxiomsMean` - evaluating what the translator wrote gives what the axioms mean.
* `NeverInvents`, `NeverLoses` - a simplified formula has no model the input
  lacks, and, unless literals of a clause implied one another in a circle, loses none.
* `DropsOnlyUnits`, `SampleIsModel` - what propagation removed is fixed by the
  input, and the state read from a model is a counterexample of the input.
* `GatesExact` - what is handed out for a gate has the gate's value in every
  model, and gates take no model away.
* `IdsApart` - no two facts, no fact and gate share a variable, in any round.
* `AcceptedIsConformant` (of `IgcLoop`) - the plan in `finalplan` works from every
  possible state, whatever was banned on the way.
* `CacheIsTrue` - what the subplan cache holds is what a search would find.
* `EachStartIsNew` - an `s0` that failed is not taken again.
* `KeepsPromise` - the search engine implements `PlanSearch`: the plans work, each leads to
  another goal state, failure is reported only when there is none left, and every question
  is answered.
* `Stops` - with loop avoidance the planner ends.

### Bounds, and why they suffice

Three stored states (`MaxEntries`) give every renderer the cases it tells
apart: one visible world (early return), two, and three with two of them equal
to the planner.  The groups of `MCServices` and `MCOtherProblems` contain every shape the
constraint reader produces that the writer branches on: positive and negative
disjuncts, single atoms, conjunctions, facts without an atom, groups that share
a variable, groups of different length.  In the loop `MaxIterations = 4` and
`DuplicateLimit = 2` make both limits reachable, in the same round too, and
allow every stored state to come back; the possible plans include the empty
plan, a conformant one, plans refuted by different states, a relaxed match, an
ambiguous and an unknown name.  The sound setting has room for every initial state
(`MaxIterations` = 4 initial states) and the least duplicate limit, so any
repetition would end it.  `CHECK_DEADLOCK FALSE` is set because the loop
returns and the writer has no further request once its store is full.

In `CounterCnf` three plans in a row are the least in which a replay can follow a
round that was itself partly replayed; the 19 plans share suffixes of every
length from none to the whole plan, also between plans of different length,
with operators that compete for a fact, reset it, or change nothing of
interest.  The axioms of `MCTranslator` are three derived atoms over two others;
four axioms are enough for a cycle, a negation through it and a third atom that
reads both.  In its part for operators two atoms share a variable with none of those
as a third value, two atoms are alone, one of them excluded by another group, and
two effects are the most that can compete; longer actions only repeat the tests
per effect.  `CnfBuilder` needs a second round for anything to leak into, and two
gates for one to be shared; `CnfPreprocessor` is bounded by its own three
passes.  In `IgcLoop` no path of the task that meets no state twice has more
than 5 operators (`MaxSearch`); `MaxCached` is 4 where the code has 20000, which
runs reach; `LoopLimit` is 2 where the code has 5, which makes the limit
reachable by fewer repairs and changes nothing else; `MaxRounds` bounds runs
without loop avoidance only, about which `Stops` says nothing.

In `MCRobot` the start and goal pairs include ones without a plan, a goal that
holds at once, a derived goal whose atom is read negatively too, several goal
states and a precondition that holds later but not now; two calls (`MaxCalls`)
are the least in which a search goes on after an answer, and `Boost` is 2 where
the code has 1000, so that both open lists are used.

In `PlannerRunner` two rounds show everything one round can leave to the next
(a third meets the same files), and two processes everything that can meet at
the lock.  `Outputs` bounds what planners print; the
shared setting needs the author of a plan only and has one output, the others all
four.  `Init` offers
empty directories and directories full of finished plans of an earlier
experiment, the worst leftovers.  `Background` is off in `runner_native`: a
descendant of a planner that has exited is not killed, and in a shared solver
directory nothing can keep it from the next round (section 6).  The runs stop
because processes end, hence `CHECK_DEADLOCK FALSE`.

### Fairness

`PlannerRunner!Spec` asks weak fairness of each `Runner(r)`: the runner polls in a
loop of its own with a clock, and its calls into the system return.  Nothing is
asked of a planner, which may hang at any stage and for ever in `lock`;
`CallsReturn` rests on the deadline alone.  `Begin`, `Finish` and `Die` are not
fair.

`BestFirstSearch!Fairness` says that a search that runs keeps taking steps, which
is weak fairness of `Step` written without ENABLED: `search` is a loop in one thread.

`IgcLoop!Spec` has `WF_vars(Next)`: one thread, whose calls return (a search
ends because the states are finitely many).  `CounterCnf`, `CnfBuilder`,
`CnfPreprocessor`, `OneofCombination`, `StripsToSas` and `Axioms` have no liveness
property and no fairness.

`FairSpec` of `CegisLoop`, and `MCSpec` of `MCCegisSettings` for the sound setting, add
weak fairness of the next step: a step that can be taken is taken.  The
program is a single sequential process; the planner is killed at its deadline
and the solver terminates, so no call blocks for ever.  Nothing is assumed
about *which* outcome a call has.

## 4. Proofs

All theorems hold for every value of the constants allowed by the named
assumptions (`StatesAreFunctions`, `MappingTables`, `Limits`, `Configured`, ...),
each of which TLC evaluates in the runs.

`TypeOK` is not inductive: that `Judge` may insert the sample needs the sample
to be a state, and that the streak stays below its limit needs to know where
it can have stopped.  `CegisLoopProofs` strengthens it in layers:

* `TypeInv` - types and the relation between `pc`, limits and counters;
* `VerifierInv` - what the flags mean at `judge` and `insert`: a valid verdict
  implies `Conformant(candidate)` (when the solver decides), a sample implies
  that it refutes the candidate;
* `OutputsInv` - at each of the output steps the candidate is conformant and
  exactly the earlier files hold it;
* `RoundsInv`, `EvidenceInv` - the length of `tried` against the iteration, and
  `StoreIsEvidence`;
* `CountersInv` - while the loop runs, every round has left one count in the store
  and the streak has grown with each round since the last entry.  The frequencies
  are a sum over a sequence; `Totals` describes the partial sums as a function,
  `TotalIsLast` finds the last of them by a least disagreement, so no induction over
  data is needed;
* `PlansInv` - the candidate is one of `CandidatePlans`;
* `ShownInv`, `FreshInv` - for a planner that solves what it is given: what the
  refined problem denotes contains every stored world, so the candidate solves every
  stored state until the verifier has judged it, so a counterexample is new.

Each layer has an `Init...` and a `Next...` lemma, with one step per action and
one leaf per conjunct it can disturb, and a temporal theorem.

| theorem | says |
|---|---|
| `TypeCorrect` | `Spec => []TypeOK` |
| `OutputsCorrect` | `Spec => []OutputsVerified`, if the solver decides |
| `EvidenceCorrect` | `Spec => []StoreIsEvidence` |
| `StoreGrows` | `Spec => StoreOnlyGrows` |
| `PlannedCorrect` | `Spec => []VerifiedIsPlanned` |
| `MapperStartsAfresh` | `Spec => NoStaleCandidate` |
| `FrequenciesCorrect` | `Spec => []FrequenciesAddUp` |
| `LoopImplementsLearner` | `Spec => ImplementsLearner`, if the solver decides, and `WriterTrusted` for a planner that is trusted |
| `SoundRunsNeverRepeat` | `Spec => []SoundRunNeverRepeats`, for finitely many initial states and `WriterTrusted` |
| `ProfilesAreExact`, `SampleSetsAreExact` | every exact profile denotes the encoded worlds; `Spec => []ExactSampleSet` of `RefinedWriter` |
| `StructuredNeverLeavesBelief` | `Spec => []StructuredStaysInBelief`, if `Worlds` is within `Belief` |
| `WriterAcceptsItsOwnSamples` | `Spec => []NeverRefusesItsOwnSamples`, if `Worlds` is within `Belief` |
| `PlannerRunnerProofs!TypeCorrect` | `Spec => []TypeOK` of the runner |
| `OneCommand` | `Spec => []OneCommandAtATime` |
| `TimedOutSilent` | `Spec => []TimedOutIsSilent` |
| `AnswersAreOwn` | `Undisturbed => (Spec => []OwnAnswer)`, for any number of processes and rounds |
| `PlansAreWhole` | `Undisturbed /\ ~Background => (Spec => []WholePlan)`, for the same |
| `SummaryCorrect` | `Spec => []SummaryIsPlan` of the verifier, for every task and every sequence of plans |
| `ReplayIsHarmless` | `Spec => []ReplayChangesNothing`, for the same |
| `RefutedFails` | `Spec => []RefutedReallyFails`, if `PositiveGoal` |
| `UnrefutedReaches` | `Spec => []UnrefutedReachesGoal`, if `OneHead` |
| `IdsStayApart` | `BuilderSpec => []IdsApart`, for finite `Static` and `Later` |
| `GatesAreExact` | `BuilderSpec => []GatesExact`, for the same |
| `BuilderTypeCorrect` | `BuilderSpec => []BuilderTypeOK`, for the same |
| `PreprocessorTypeCorrect` | `Spec => []TypeOK` of `CnfPreprocessor` |
| `NothingInvented` | `Spec => []NeverInvents` |
| `NothingLost` | `Spec => []NeverLoses` |
| `OnlyUnitsDropped` | `Spec => []DropsOnlyUnits` |
| `SamplesAreModels` | `Spec => []SampleIsModel` |
| `AcceptedCorrect` | `Spec => []AcceptedIsConformant` of `IgcLoop`, if no solver is silent (`Undecided = {}`) |
| `CacheCorrect` | `Spec => []CacheIsTrue` |
| `StartsAreNew` | `Spec => EachStartIsNew` |
| `SearchKeepsPromise` | `SearchSpec => Promise!Safety`, the safety half of `KeepsPromise`, for tasks with `EngineInput` |
| `OneSidedKeepsPromise` | the same for tasks with `EngineTask`, `OneSided` and `OneSidedTasks` |
| `SearchInvHolds` | `SearchSpec => []SearchInv`, for tasks with `EngineInput` |
| `DiagonalCorrect` | `Spec => []DiagonalSuffices` of `OneofCombination` |
| `ValuesCorrect` | `SasSpec => []ValuesAreFacts` of `StripsToSas` |
| `ActionsCorrect` | `SasSpec => []NoActionLost` |
| `AxiomsAlwaysMean` | `AxiomSpec => []AxiomsMean`, for all programs and readers |
| `OnlyCyclesRefused` | `AxiomSpec => []RefusedRightly`: without a cycle `find_level` never meets its assertion |
| `LayersRespectDefaults` | `AxiomSpec => []LayeredRightly`: without a cycle the layers are those the evaluator needs |
| `InsertKeepsDistinct` | `insert` keeps index and vector in agreement |

The hypothesis "the solver decides" is `~SolverMayGiveUp`; section 6 shows that
it is needed.

The writer is proved in `RefinedProblemProofs`, one lemma per emitter.  `Denotes`
reduces "these forms denote the worlds W" to two facts about the atoms that vary in
W: every reading of the groups and clauses gives them the values of some world
(`SelectorsSound` for the selector profiles), and every world has a reading
(`SelectorsComplete`).  `ReadsOneof` counts alternatives; `OneRead` turns that into
"exactly one", which needs the alternatives to be finite, hence the assumptions
that mapped facts, alternatives and stores are.  For T1, `StructuredDenotes` states
the product group by group; `StructuredContains` and `StructuredWithin` compare it
with `Belief`: what the stored states have in common settles a group or leaves it
open as it was, and a variable no group mentions can be given its original value
(`StatesAreIndependent`).  `OneofNeverContradicts` and `OrNeverContradicts` show that
the partial evaluation never finds initial states contradictory, and `Accounted`
that the counts of `validate_refined` are those of every emitter.  The specification
of `RefinedWriter` then only adds that a write that stands is one of the present
store (`LastWriteIsOfTheStore`).

`Worlds` within `Belief` says that the verifier admits initial states only.  It is a
hypothesis and no assumption, for section 5 tells when it fails.
`VerifierWithinBelief` and `CombinedWithinBelief` give conditions under which it
holds: files with ORs always, others when a completed alternative contradicts each
other one of its group (`AlternativesExclude`), and for combined ONEOFs when the groups
are about different variables besides.  `WriterTrusted` is the same hypothesis where
T1 is configured and `IGC_REFINED_VALIDATION` is off; with validation on, the loop has
looked for itself.

For the runner `Ordered` adds to the types that a call under way is numbered
and that a running group belongs to a waiting runner; `NextOrdered` shows it
inductive, action by action, and the first three theorems follow from it.

`OwnAnswer` and `WholePlan` are proved for `Undisturbed` runs, which are all those in
which nothing works behind a call's back in a directory that calls share: runs that are
not native, with whatever planners, deaths and late descendants; native runs of gCPCES
and iCPCES, in parallel and with processes killed; native runs of any planner by
processes that take turns and live as long as their planners.  (The last two without
descendants; the three cover `runner_isolated` and both settings of `runner_native`.
Outside them the properties fail: section 6.)

`OwnAnswer` says nothing of a call before it returns, so its proof strengthens
it to `Separate`.  A call passes *points* - the unlinks, the opening
of the console, the `rm` of the command, the unlinks before the recovery - and
after each of them certain files hold its own work or nothing (`CleanFiles`;
`Past` says which state has passed which point, `Cleared` which files that
settles).  `OwnWork` says that groups and descendants write for their own call,
`OwnResult` that what is about to be published is the call's own, `LockHeld` that the
planner of iCPCES has its lock from before it removes the old theory until it ends,
`TakingTurns` that at most one process is at work where they take turns.  The argument
has three parts: no step of a process touches a file another call counts on
(`TouchApart`, `NextFiles`), because the directories differ, the lock is held, or nobody
else is at work; a call gets past a point
only by the action that clears its files (`PlannerPoints`, `RunnerPoints`); and a
positive answer can only be read from a file that the points passed so far have
cleared (`AnswerMine`, one case per planner).  What iCPCES leaves in its directory a
call counts on only while it has the lock (`Holds`): when its planner has ended the next
one may take it away, and the answer has to come from the run directory.

`WholePlan` does not say why a returned file is whole; `WholeInv` does.  An
interrupted file is the work of an earlier round, is being written, or was left by a
planner that failed or was killed (`CutIsOpen`), and the runner goes on to read a file,
and to publish it, only when its planner exited (`Ended`), CFF excepted.  That is said
of the author of a file and not of its place; with `Separate` the file that is returned
has the right author.  `~Background` is
needed because a descendant that outlives a planner may still be in the middle of a
file when the planner exits.

For `SummaryIsPlan` the two plans have to be compared: `CommonSuffix` returns a
length at which both end alike, hence a scan of the new plan finds at `t` what
the old scan found at `t` minus the shift.  That it returns anything is an
existence claim about numbers; `LeastOf` (a non-empty set of naturals has a least
element, from the library's `WFMin`) stands in for the induction that is out of
reach, here and in the arguments over the layers of a plan below.

`ReplayIsHarmless` compares the layers of the verifier with those a fresh object would
lay.  Where two plans end alike, the fresh layers of both are the same, shifted
(by the number of steps that are left); so what is replayed holds all of the fresh
layer, and what it holds beyond that was asked for by nobody and is asked for by
nothing that was asked for.

The two theorems about the formula rest on `FormulaInv`: the equations are those of the
fresh layers, whatever was replayed.  `EquationMeans` says that an equation is the
semantics of the action for its fact - this is where `TranslatedOperators` and
`OneValueAtOnce` come in - so a valuation agrees with the states of the trace layer by
layer (`TraceAgrees`).  What is left are the derived variables, whose facts nothing but
the rules of their own layer settles.  For `RefutedFails`, what the axioms deduce is true
in every valuation of the formula (`DeducedTrue`), hence a false root is a goal or a
precondition that really fails.  For `UnrefutedReaches` one valuation is enough: the
least model of the axioms is a consistent guess (`LeastConsistent`), so all roots are true
under it, and what it holds is deduced (`LeastDeduced`, `DeducedClosed`).  That a layer's
deductions stop is the argument of `ChainStops`: a chain of growing sets of finitely many
facts repeats.

`PositiveGoal` and `OneHead` are hypotheses about the axioms: the goal, through all
axioms, reads no default of a derived variable, and all axioms of a variable have
one and the same head.  Both hold when every derived atom is needed in one sign only
(`axiom_rules.py` writes axioms for the values that are needed).  An atom needed in both
signs has axioms for both values, the second set being the first one turned round; that
this set is the complement is part of `Faithful` in `TranslatorProofs`, but no assumption on
the rules of `CounterCnf` says it.

`IdsApart` is not inductive: a gate could have the id of a fact yet to come, and
`BeginRound` goes back to a table that was saved rounds ago.  The invariant adds
`GatesBelow` (ids and gates lie below `next`) and `Saved` (the snapshot is apart,
too).

`GatesExact` speaks of all models of all clauses, and a gate may be asked for in a
round that began from a base saved long before.  `MeaningInv` says what the clauses
mean: a valuation satisfies them exactly if it satisfies the clauses laid for facts
(`laid`) and gives every literal that was handed out the value of its gate (`asked`);
and it says the same of the saved base.  That a gate can be taken from the cache rests
on the cache holding gates of this round only, that a term can, on the terms outliving
their round only with the base.

For the preprocessor `PreInv` says what a working formula owes to the input, whatever
passes it went through (`Faithful`): it is made of the input's literals, its models
extend to models of the input in which the removed units are true, and, as long as no
clause was strengthened in a circle, it follows from the input.  Each simplification has
a lemma for either direction (`PropagatedFollows`, `PropagatedExtends`, and so on).  Two
of them hide the difficulty.  Strengthening drops several literals of a clause at once:
of those that are true in a model one stays, unless they all imply one another
(`Mutual`).  Substitution replaces equivalent literals by representatives: a model is
continued by giving each replaced variable the value of what replaced it
(`SubstitutedExtends`), and conversely the literals of a class have one value in every
model, because each is reached from each along binary clauses (`ClassEquivalent`).  The
proof attempt corrected the model: it had the first representative of mirrored classes
win, where the code keeps the last one written, and it took only pairs of literals for
circles.

`SamplesAreModels` needs that a fact of time 0 does not vanish from the formula by
subsumption or strengthening, for then the sample would have the base state's value.  A
model may give a vanished variable either value and still extends to a model of the
input that agrees with it on every open variable (`Back`); but with the same values for
the others, exactly one of the two choices respects that a variable has one value
(`OneValueEach`, `FactsStay`).

`AcceptedIsConformant` needs to know that the flag `findvalidplan` goes up only
with an answer from which nothing was left out; the invariant `IInv` of
`IgcLoopProofs` adds `CounterShape` (what the counter's maps are about) and
`Guarded` (the flag is down until `done`; a restart happens only with loop
avoidance).

For `DiagonalSuffices` the invariant relates two combinations: those that agree
on the ONEOF an atom is tagged with hold the atom alike (`Agree`), and whenever a
combination has failed there is one atom such that all that agree with it on that
atom's ONEOF have failed too.  An effect that fires in one of two such
combinations fires in the other because its conditions have the tag of its fact;
that is what `Settled` and `Positive` are for.  A listed combination agrees with
any combination on any one ONEOF (`DiagonalAgrees`).

`ValuesCorrect` and `ActionsCorrect` go variable by variable.  The invariant `Mirrored`
says that the values encode the facts and that at most one atom of a group holds.
`ConditionHolds` is the translation of a condition: the operator's condition holds in
the encoded state exactly if the literals hold in the facts, and `HoldingIsPossible` that
the tests for conflicts drop no condition that can hold.  For one step (`StepEncodes`) a
group has three cases: an add fires and wins (`AddWins`), none does and a delete fires
(`DeleteWins`), or nothing is about the group (`NothingFires`); `Regular` is used in the
second, where an unguarded delete must be of the atom that holds.  `ImpliedHolds` shows
that an old value that was added to an operator is true wherever the action applies.

`AxiomsMean` speaks of an evaluated state only, and of what the axioms of the task mean,
not of the rules that were evaluated.  Its invariant `AxInv` has a part for each stage.

* Translation: `Faithful` says that for every set of literals that may hold, a rule for a
  needed literal can apply exactly when the axioms make that literal hold.  For the
  literals needed positively this is `SimplifiedDominates`: of the axioms below an axiom
  one is kept, although `simplify` cuts its sets down in place.  `Simplified` is a recursive
  function; that it exists (`DominatedIs`) and that a kept axiom is below each dropped one are
  arguments about a least counterexample.  For the negative ones it is
  `TurnedIs`: a choice of one failing condition per axiom, which may be simplified again.
* Layers: `LevelType` and `LevelFit` are about the stack of `find_level`.  Without a cycle
  the atoms have ranks (`Ranks`), and the calls on the stack are about atoms of ever
  lower rank, so a marked atom is never met again (`CycleIsThere`); a dependency that has
  been looked at counts in the level of its call, except the one the call on top is about
  (`CallsFit`), and what is finished lies above what it depends on (`FinishedFit`).  The
  order of the calls does not matter.
* Evaluation: `Pushed` defines, without looking at the queue, which literals have been in
  it: the base literals, the values that are not the default, and the defaults of the
  layers that are over.  `Counted` ties every counter to it.  The hard step is `Fire`: a value
  changes, so a literal that held does not any more.  `Closed` and `LayersFit` see to it
  that this literal was not read yet; where everything is needed positively, no default is
  read at all (`DefaultsUnread`).  That a value never changes back is `Supported`,
  with `NeverBoth`: a rule and the one turned round never both have their conditions.

At the end (`AllDone`) every rule that could change a value has, so what holds follows from
itself (`FoundFollows`).  That there is nothing smaller has two arguments: without a cycle two
such sets cannot differ at an atom of least rank (`OnlyOne`), and without negation whatever is
deduced is in each of them (`Inside`).

`SearchKeepsPromise` is a refinement of which three parts are hard, and none of them is in
the engine alone.

* The relaxed exploration.  `SoundSoFar` is the invariant of one exploration.  A fact that is
  reached and not queued any more is settled, and costs no more than anything in the queue;
  every unary operator knows how many of its preconditions are not settled, and costs at
  least as much as each that is; the facts of the state cost nothing; any other reached fact
  was reached by an operator whose preconditions were settled before, in some order
  (`RankedBy`, which is why `Trail` is a function).  So when the queue is empty what is reached
  is closed under all unary operators.  `DeadEndIsHopeless` then says that it contains every
  fact that is asked for in any state real operators lead to, although derived facts come and
  go there.  This is where a fact that is true by default only would break it.
* The estimate.  `EstimateSays`: an estimate is 0 exactly in goal states, because a relaxed
  plan without operators is made of axioms, and axioms have been applied in the state; and a
  preferred operator can be applied, for what it reads costs nothing, so it holds in the state
  or follows by axioms.  The latter is `assert(op->is_applicable(state))` of
  `ff_heuristic.cc:399`, which is off in a release build, and on which the second open list
  relies.
* The engine.  `SearchInv` is the inductive invariant.  `KeepsPromise` itself only speaks of
  answers; that failure is justified needs `CompleteInv` - every closed state but the one in
  work meets the goal, is hopeless, or has all its successors closed, waiting in a list
  or current - and that the plans work needs `TreeInv` (each closed state comes by an applicable
  operator from one that was closed at a smaller depth, and the goal was not met on the way).
  `ReachableClosed` and `PathRuns` draw the conclusions.  A second search goes on in the same
  lists, so nothing in the invariant is about a single call.

`Reachable` of `PlanSearch` iterates until nothing is added; that it is closed rests on a
chain of growing sets within finitely many states (`ChainStops`, as in the layers of axioms).

Only model-checked: `SoundRunAccepts`, `CallsReturn` and `Stops` (liveness), the liveness half of
`KeepsPromise` (that every question is answered), and `WrittenAlike`, which
says of the two problems of `MCWritten` what `SampleSetsAreExact`,
`StructuredNeverLeavesBelief` and `WriterAcceptsItsOwnSamples` say of all.  Likewise the
`SoundRunNeverRepeats` of `MCCegisSettings` is the property of `SoundRunsNeverRepeat` in one
setting.

## 5. What is assumed

* In `CegisLoop` and `IgcLoop`: a verification that answers finds an initial
  state on which the plan fails if there is one.  `CounterCnf` shows this of the
  encoding up to inapplicable actions whose effects nobody asks for (section 6).
* Operators as the translator writes them (`TranslatedOperators`): an effect's
  old value is a prevail fact or follows from one, and no operator reads or sets a derived
  variable.  No operator sets one variable to two values at once (`OneValueAtOnce`,
  section 6).
* Axioms as the translator layers them (`TranslatedAxioms`): an axiom reads derived
  variables of its own layer or of earlier ones (`compute_axiom_layers`).  Without a cycle
  `LayersRespectDefaults` proves it for the rules that change a value.
* In `Axioms`: an axiom reads base atoms and atoms that have an axiom (`Grounded`; the
  grounder removes conditions nobody can make true).  `AxiomsMean` is about programs without a
  cycle and about those whose derived atoms are needed positively only (section 6).
* `Undecided = {}` for `AcceptedIsConformant`: an SMT solver that gives no verdict
  is read as "no counterexample" (section 6).
* Names are resolved by tables: at most one operator per exact name.
* In `CegisLoop` the runner returns a plan of this round or a failing status;
  `PlannerRunner` shows that, and `CegisLoop` does not depend on it for
  soundness because there the printed plan is arbitrary.
* In `PlannerRunner`: `flock` is installed (without it the code runs unlocked);
  `waitpid` does not fail; concurrent processes have run directories of their
  own (native mode uses `runs/current` unless `IGC_CEGIS_RUN_DIR` is set); a
  planner that exits with status 0 has closed its files; the mock outputs of
  the tests are off.
* In `OneofCombination`: the tags are complete after the one pass (`Settled`),
  and the alternatives and the conditions of effects are positive (`Positive`);
  section 6 says what the code does without.  In the other modules combined
  ONEOFs are read as the diagonal states, as the verifier reads them.
* In `StripsToSas`: the groups are exclusive in every state (`Exclusive`), and the
  actions are `Regular`; section 6 says what the code does without.
* Of the tasks of the search, as `EngineInput` in `SearchPromise`: finitely many numbered
  variables and effects with values in range (`EngineTask`); derived variables are binary, which
  `build_unary_operators` relies on when it takes the old value of an axiom's variable for a
  precondition; the axioms have been applied in every state and can be (`AxiomsHold`: no
  two rules derive both values, which `TranslatorProofs` shows of what the translator writes);
  and what an operator or a goal asks of a derived variable is grounded in rules wherever it
  holds (`Supported`).  The translator writes rules for the default, too, where somebody
  reads it, which is why `Supported` asks for no more than the code gives, cycles excepted
  (section 6): the relaxed exploration would take such a default for unreachable.  TLC
  evaluates `EngineInput` for the robot's task, which has axioms for both values of a variable
  (`RobotIsEngineInput`).  `OneSided` and `OneSidedTasks` are a condition that implies it
  and can be read off a task.
* In `CnfPreprocessor`: every model of an input gives a variable one value at time 0
  (`OneValueEach`; `build_time0_exactly_one` adds the clauses).
* In `RefinedProblem`: the states are closed under mixing the values of variables
  (`StatesAreIndependent`: they are the product of the domains), and the mapped facts
  and every alternative are finite.
* No alternative of a ONEOF in a type-2 file is contained in another; with
  nested ones the two readings of section 2 disagree and the validator refuses
  the verifier's own sample.  No problem under `src/test` has them.

## 6. Findings

**`kissat_unknown`.**  `solve_with_kissat` marks its result valid whatever Kissat
answered (`counter_cnf.cc:2095`).  An answer that is neither SAT nor UNSAT leaves
`has_counterexample` false, `verify_full_problem` reads that as VALID and the
loop writes the plan out as conformant, although `kissat_counter.cc:88` reserves
"the candidate passes verification" for UNSAT.  As shipped no limit is set on
Kissat, so the answer is rare; the run shows the consequence.

**`cnf_skipped`.**  The regression passes over a layer nobody asked a fact of
(`counter_cnf.cc:1736`), and the preconditions of its action with it.  A plan with
an inapplicable action is accepted when that action changes nothing the goal
depends on; the texts quoted in `PROJECT.json` call the formula one of the
preconditions and the goal.  Skipping such actions the plan still works, which
is what `UnrefutedReachesGoal` says.

**`cnf_strengthened`.**  With option u, `apply_binary_strengthening`
(`cnf_preprocessor.cc:437`) removes both of two literals of a clause that imply
one another, so a satisfiable formula can become unsatisfiable and a failing plan
be accepted.  `NeverLoses` excludes exactly that case.

**`sas_unguarded`.**  `translate_strips_operator` writes the delete of an atom in a
larger group as "set the variable to none of those".  `translate.py:194` says
"Need a guard for this delete effect", but the guard below it stands in a string
literal.  So an action that deletes an atom that does not hold takes away the one
that does, unless it adds to the group or asks for the atom.

Observations, not disagreements with any text.  A run that fails leaves
`result`, `finalplan` and `C_Plan` of an earlier run in place (`OldFile` in the
model), so a reader must look at the exit status first.

About the verifier, the axioms and the legacy loop:

* A goal that reads the default of a derived variable no axiom sets to that value is left
  free by the formula.  The translator writes axioms for that value then, so no task of
  its own has such a goal; `PositiveGoal` says so.
* An operator with two simultaneous effects on one variable is encoded as giving
  it neither value, and executed in the order of the effects (`operator.h:103`).
* A variable that unit propagation removed has no value in the model; for an
  ordinary one the sample keeps that of the reference state
  (`counter_cnf.cc:1808`).  `DropsOnlyUnits` and `SampleIsModel` say when it matters.
* `simplify` in `axiom_rules.py` updates a set in place while it compares, so
  some dominated axioms stay; they do no harm.  `find_level` raises the level of
  atoms that it computes inside a positive cycle.  An atom of such a cycle that is
  read negatively only is never deduced false, and an axiom without conditions
  that is needed negatively fails an assertion.
* `detect_combinable` looks at the actions once and in the order in which they
  were grounded: an action in front of the one that tags its condition passes
  nothing on.  A negative literal has no tag, neither as an alternative nor as a
  condition, so `when (not a)` carries no influence; and axioms are not looked at,
  so neither is a derived goal.  Drop `Settled` or `Positive` from `DiagonalSuffices`
  and the run shows a plan that fails in a combination nobody looks at.
* What `translate_strips_operator` takes for granted, and what happens otherwise
  (`Regular` names each): an atom added and deleted at once ends up deleted, where
  PDDL adds it, because the effects are sorted; a delete beside a conditional add of
  its group is dropped, so the old value stays when the add does not fire; a negative
  literal on an atom of a group is read as none of the group, and with another atom of
  the group in the same condition the whole action is dropped; two adds to one
  variable stop the translation, even under conditions that exclude one another.
* A task without ONEOFs is combinable and gets an ORS file with no state: the
  SMT formula has an empty disjunction for it, the CNF no clause.
* An SMT answer without a verdict counts as "no counterexample" and the plan is
  accepted (put `{{}}` for `Undecided` in `igc_loop.cfg` to see it).
* `optimizePlantest` never takes its flag `isApply` back: after one operator that
  does not suit one state, the states behind that one stand still.
* The comment at `best_first_search.cc:263` calls the tie breaker breadth-first;
  `OpenList::IsWorse` takes the deeper of two equal entries first.
* An engine made from a cached subplan has no open list; searched again it fails
  `assert(!open_lists.empty())` (`best_first_search.cc:96`), and reports "no
  solution" where assertions are off.
* `conformant_sub_goal` asks for the missing preconditions only, and the operator is
  applied behind the subplan without another look.
* What `sovle_counter` returns is ignored; when it fails, the next round starts
  with the empty plan.
* Without loop avoidance the repairs may go round for ever.

About the runner:

* In native mode there is no lock for planners other than iCPCES.  A CEGIS
  process that is killed leaves its planner running in the shared solver
  directory, and `OwnAnswer` fails for the next run there (set `Killable` and two
  sequential processes in `runner_native` to see it; the theorem excludes just this).  The verifier still checks
  the plan, so this costs rounds and not soundness.
* CFF's console is read even after a kill at the deadline; a plan cut after a
  step is taken for a plan.  `WholePlan` excludes CFF.
* A planner that ended just before the deadline may still be reported as timed
  out: the clock is read after the poll, and nothing polls again.
* `extract_plain_plan_actions` (2804-2829) takes any line that is not a comment
  for an action, "No plan found" included; the mapper refuses it later.
* In native mode the planner's file is read again for `plan-result` after it was
  parsed.

## 7. Not modelled

The landmark heuristic and weighted A* (never used), how the SMT
backends write the formula, grounding and invariant synthesis of the translator, the
preprocessor, the text adapters and the fact group filter, vendored planners
and SAT solvers, text scanning and spelling, environment variables (they are
constants), timing statistics, batch scripts, data under `test*`, `result*`,
`runs`.

## 8. Plan

1. Done: `CounterexampleStore`, `RefinedProblem`/`RefinedWriter`, `CegisLoop`
   against `CegisSpec`, `PlannerRunner`, and their proofs.
2. Done: `CounterCnf`, `CnfBuilder`, `CnfPreprocessor`, `IgcLoop`, `Axioms`, and
   the first proofs about them.
3. Done: `OneofCombination` and its proof, `StripsToSas`, `BestFirstSearch`.  Next: fact
   groups and the group filter; `cpa_refined_adapter.cc`; the SMT encoding.
4. Proofs.  Done: `ExactSampleSet` per profile and the T1 product, the refinement
   with a trusted planner, `FrequenciesAddUp`, `GatesExact`, the preprocessor,
   the answers of the runner in undisturbed runs, the encoding of the verifier and its
   replay, the translation of actions, the axioms from the translator to the value of a
   derived variable, the search engine with its heuristic.  Next: axioms for both values of an atom in the verifier's formula.
