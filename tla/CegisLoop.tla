------------------------------ MODULE CegisLoop ------------------------------
(***************************************************************************)
(* The CEGIS loop of lama/search/cegis_framework.cc (run_cegis_loop) with  *)
(* the parts it calls in turn: the counterexample store, the writer and    *)
(* validator of the refined problem, a candidate planner, the mapper of    *)
(* its actions, the verifier (CounterCNF with Kissat) and the writer of    *)
(* the results.  The program is sequential; what makes it hard is that     *)
(* every part but the store is untrusted or may fail, that each round      *)
(* reuses the objects of the last, and that each step returns early.       *)
(***************************************************************************)
EXTENDS RefinedProblem

CONSTANTS
  Operators,         (* the grounded operators                               *)
  Solves(_, _),      (* whether a sequence of operators works from a state   *)
  Names,             (* the action names a planner may print                 *)
  Exact, Relaxed,    (* the operators a name matches exactly, and relaxed    *)
  RawPlans,          (* the sequences of names a planner may print           *)
  Profile, Mode,     (* what the configured planner makes the writer produce *)
  BasicValidation,   (* IGC_REFINED_VALIDATION is not "off"                  *)
  MaxIterations,     (* IGC_CEGIS_MAX_ITERATIONS                             *)
  DuplicateLimit,    (* IGC_CEGIS_DUPLICATE_LIMIT                            *)
  SoundPlanner,      (* the planner solves every world it is given           *)
  SolverMayGiveUp,   (* Kissat may answer neither 10 (SAT) nor 20 (UNSAT)    *)
  Faults,            (* files, subprocesses and model extraction may fail    *)
  NoState,           (* the cleared counterexample of the verifier           *)
  OldFile            (* what an output file held before this run             *)

ASSUME MappingTables == /\ IsFiniteSet(Operators)
                        /\ Exact \in [Names -> SUBSET Operators]
                        /\ Relaxed \in [Names -> SUBSET Operators]
                        /\ \A name \in Names : Cardinality(Exact[name]) <= 1
                        /\ RawPlans \subseteq Seq(Names)
ASSUME Limits == {MaxIterations, DuplicateLimit} \subseteq Nat \ {0}
ASSUME Configured == /\ Profile \in Profiles
                     /\ Mode = "single" \/ (Mode = IF Profile = "T1" THEN "structured" ELSE "exact")
ASSUME Markers == NoState \notin States /\ OldFile \notin Seq(Operators)
ASSUME SomeWorld == Worlds # {}

VARIABLES
  pc,          (* the next call of the loop                                  *)
  status,      (* the status returned, "OK" while the loop runs              *)
  iteration,   (* the loop variable                                          *)
  store,       (* the counterexample store                                   *)
  streak,      (* duplicate_streak                                           *)
  refined,     (* what the refined problem on disk denotes, a set of views   *)
  raw,         (* the action names in the planner's result file              *)
  candidate,   (* the mapped plan                                            *)
  verifier,    (* the result fields of CounterCNF                            *)
  outputs,     (* the result file, finalplan and C_Plan                      *)
  tried        (* history: the plan of each verification, bootstrap first    *)

vars == <<pc, status, iteration, store, streak, refined, raw, candidate, verifier, outputs, tried>>

-----------------------------------------------------------------------------
(* The verifier.                                                            *)

Conformant(plan) == \A s \in Worlds : Solves(plan, s)

Verifier == [resultValid : BOOLEAN, hasCE : BOOLEAN, sampleValid : BOOLEAN,
             ce : States \cup {NoState}]

\* clear_round_dynamic_state: nothing of the last round survives.
Cleared == [resultValid |-> FALSE, hasCE |-> FALSE, sampleValid |-> FALSE, ce |-> NoState]

\* The answers Kissat may give to the encoding of a plan: a model is an
\* initial state on which the plan fails.
Answers(plan) ==
  {[code |-> 10, model |-> s] : s \in {w \in Worlds : ~Solves(plan, w)}}
    \cup (IF Conformant(plan) THEN {[code |-> 20, model |-> NoState]} ELSE {})
    \cup (IF SolverMayGiveUp THEN {[code |-> 0, model |-> NoState]} ELSE {})

ResultUnsampled(answer, extracted) ==
  [resultValid |-> TRUE, hasCE |-> answer.code = 10 /\ extracted,
   sampleValid |-> answer.code = 10 /\ extracted,
   ce |-> IF answer.code = 10 /\ extracted THEN answer.model ELSE NoState]

\* solve_with_kissat: the result counts as valid whatever the answer was.
Result(answer, extracted) ==
  [resultValid |-> TRUE, hasCE |-> answer.code = 10,
   sampleValid |-> answer.code = 10 /\ extracted,
   ce |-> IF answer.code = 10 /\ extracted THEN answer.model ELSE NoState]

JudgedBySample(v) ==
  IF ~v.resultValid THEN "BACKEND_ERROR" ELSE IF v.sampleValid THEN "COUNTEREXAMPLE" ELSE "VALID"

\* The verdict verify_full_problem reads off the flags.
Judged(v) ==
  IF ~v.resultValid \/ (v.hasCE /\ ~v.sampleValid) THEN "BACKEND_ERROR"
  ELSE IF v.hasCE THEN "COUNTEREXAMPLE" ELSE "VALID"

-----------------------------------------------------------------------------
(* The mapper.                                                              *)

\* An exact match wins; a relaxed one must not be ambiguous.
Matches(name) == IF Exact[name] # {} THEN Exact[name] ELSE Relaxed[name]
Mappable(name) == Cardinality(Matches(name)) = 1
Operator(name) == CHOOSE op \in Matches(name) : TRUE

\* map_actions: the operators up to the first name that does not map.
MappedLength(names) ==
  IF \A i \in DOMAIN names : Mappable(names[i]) THEN Len(names)
  ELSE Least({i \in DOMAIN names : ~Mappable(names[i])}) - 1
MapActions(names) == [i \in 1..MappedLength(names) |-> Operator(names[i])]

MappedSilently(parse, names, old) ==
  [status |-> parse, plan |-> IF parse = "OK" THEN MapActions(names) ELSE <<>>]

MappedOrKept(parse, names, old) ==
  [status |-> IF parse # "OK" THEN parse
              ELSE IF MappedLength(names) < Len(names) THEN "MAPPING_ERROR" ELSE "OK",
   plan |-> IF parse = "OK" THEN MapActions(names) ELSE old]

\* parse_and_map: the plan of the last round is cleared before the parser runs.
ParseAndMap(parse, names, old) ==
  [status |-> IF parse # "OK" THEN parse
              ELSE IF MappedLength(names) < Len(names) THEN "MAPPING_ERROR" ELSE "OK",
   plan |-> IF parse = "OK" THEN MapActions(names) ELSE <<>>]

\* The plans that may come to be verified.
CandidatePlans == {<<>>} \cup {MapActions(names) : names \in RawPlans}

-----------------------------------------------------------------------------
(* Bookkeeping of a round.                                                  *)

NextStreakEvery(s) == streak + 1
NextStreakKept(s) == IF s \in Stored(store) THEN streak + 1 ELSE streak

\* A new counterexample ends a series of repeated ones.
NextStreak(s) == IF s \in Stored(store) THEN streak + 1 ELSE 0

VerdictOffByOne(newStreak) ==
  IF newStreak > DuplicateLimit THEN "STAGNATION"
  ELSE IF iteration > MaxIterations THEN "ITERATION_LIMIT" ELSE "OK"

\* How the loop goes on after a counterexample.
Verdict(newStreak) ==
  IF newStreak >= DuplicateLimit THEN "STAGNATION"
  ELSE IF iteration + 1 >= MaxIterations THEN "ITERATION_LIMIT" ELSE "OK"

Goto(label) == pc' = label /\ status' = "OK"
Return(st) == pc' = "done" /\ status' = st
ReturnOnFault(sts) == Faults /\ \E st \in sts : Return(st)

-----------------------------------------------------------------------------
Init ==
  /\ pc = "setup" /\ status = "OK" /\ iteration = 0
  /\ store = <<>> /\ streak = 0
  /\ refined = {} /\ raw = <<>> /\ candidate = <<>>
  /\ verifier = Cleared
  /\ outputs = [result |-> OldFile, finalplan |-> OldFile, cplan |-> OldFile]
  /\ tried = <<>>

\* Configuration, directories, fact groups and constraints.
Setup ==
  /\ pc = "setup"
  /\ Goto("prepare") \/ ReturnOnFault({"INPUT_ERROR", "IO_ERROR", "MAPPING_ERROR"})
  /\ UNCHANGED <<iteration, store, streak, refined, raw, candidate, verifier, outputs, tried>>

\* prepare_counterexample_cnf, then whether Kissat was built in.
PrepareCnf ==
  /\ pc = "prepare"
  /\ verifier' = Cleared
  /\ tried' = Append(tried, candidate)
  /\ Goto("solve") \/ ReturnOnFault({"BACKEND_ERROR"})
  /\ UNCHANGED <<iteration, store, streak, refined, raw, candidate, outputs>>

RunKissat ==
  /\ pc = "solve"
  /\ \E answer \in Answers(candidate), extracted \in IF Faults THEN BOOLEAN ELSE {TRUE} :
       verifier' = Result(answer, extracted)
  /\ Goto("judge")
  /\ UNCHANGED <<iteration, store, streak, refined, raw, candidate, outputs, tried>>

Judge ==
  /\ pc = "judge"
  /\ CASE Judged(verifier) = "VALID"          -> Goto("result")
       [] Judged(verifier) = "COUNTEREXAMPLE" -> Goto("insert")
       [] OTHER                               -> Return(Judged(verifier))
  /\ UNCHANGED <<iteration, store, streak, refined, raw, candidate, verifier, outputs, tried>>

\* The counterexample of the empty plan opens the store.
InsertFirst ==
  /\ pc = "insert" /\ store = <<>>
  /\ store' = Insert(store, verifier.ce, 0)
  /\ Goto("begin")
  /\ UNCHANGED <<iteration, streak, refined, raw, candidate, verifier, outputs, tried>>

\* A later one is stored or counted, and may end the loop.
InsertNext ==
  /\ pc = "insert" /\ store # <<>>
  /\ store' = Insert(store, verifier.ce, iteration + 1)
  /\ LET d == NextStreak(verifier.ce)
     IN  /\ streak' = d
         /\ iteration' = IF Verdict(d) = "STAGNATION" THEN iteration ELSE iteration + 1
         /\ IF Verdict(d) = "OK" THEN Goto("begin") ELSE Return(Verdict(d))
  /\ UNCHANGED <<refined, raw, candidate, verifier, outputs, tried>>

\* The directory of the iteration and counterexamples.json.
BeginIteration ==
  /\ pc = "begin"
  /\ Goto("write") \/ ReturnOnFault({"IO_ERROR"})
  /\ UNCHANGED <<iteration, store, streak, refined, raw, candidate, verifier, outputs, tried>>

\* RefinedProblemWriter::write.
WriteRefined ==
  /\ pc = "write"
  /\ LET st == RenderStatus(Profile, Mode, store)
     IN  \/ IF st = "OK"
            THEN /\ refined' = Projected(Profile, RenderForms(Profile, Mode, store))
                 /\ Goto(IF BasicValidation THEN "validate" ELSE "domain")
            ELSE Return(st) /\ UNCHANGED refined
         \/ ReturnOnFault({"IO_ERROR", "INPUT_ERROR"}) /\ UNCHANGED refined
  /\ UNCHANGED <<iteration, store, streak, raw, candidate, verifier, outputs, tried>>

ValidateRefined ==
  /\ pc = "validate"
  /\ LET st == ValidateStatus(Profile, Mode, RenderForms(Profile, Mode, store), store)
     IN  IF st = "OK" THEN Goto("domain") ELSE Return(st)
  /\ UNCHANGED <<iteration, store, streak, refined, raw, candidate, verifier, outputs, tried>>

\* Only the selector profiles need a domain of their own.
WriteDomain ==
  /\ pc = "domain"
  /\ \/ Goto("run")
     \/ /\ Profile \in {"CPA", "CPAH", "ICPCES"}
        /\ ReturnOnFault({"IO_ERROR", "INPUT_ERROR", "MAPPING_ERROR"})
  /\ UNCHANGED <<iteration, store, streak, refined, raw, candidate, verifier, outputs, tried>>

\* What a sound planner may print: a plan that maps, and that solves every
\* initial state of the refined problem.
SoundFor(names) ==
  /\ MappedLength(names) = Len(names)
  /\ \A s \in Worlds : View(s) \in refined => Solves(MapActions(names), s)

\* CandidatePlannerRunner::run: a fresh result file, or an early return.
RunPlanner ==
  /\ pc = "run"
  /\ \/ /\ \E names \in RawPlans : (SoundPlanner => SoundFor(names)) /\ raw' = names
        /\ Goto("map")
     \/ /\ ReturnOnFault({"PLANNER_TIMEOUT", "PLANNER_FAILED", "PLANNER_NO_PLAN",
                          "PLANNER_PARSE_ERROR", "IO_ERROR"})
        /\ UNCHANGED raw
  /\ UNCHANGED <<iteration, store, streak, refined, candidate, verifier, outputs, tried>>

MapPlan ==
  /\ pc = "map"
  /\ \E parse \in IF Faults THEN {"OK", "IO_ERROR", "PLANNER_NO_PLAN", "PLANNER_PARSE_ERROR"}
                  ELSE {"OK"} :
       LET mapped == ParseAndMap(parse, raw, candidate)
       IN  /\ candidate' = mapped.plan
           /\ IF mapped.status = "OK" THEN Goto("save") ELSE Return(mapped.status)
  /\ UNCHANGED <<iteration, store, streak, refined, raw, verifier, outputs, tried>>

\* write_candidate_plan, then the next verification.
SaveCandidate ==
  /\ pc = "save"
  /\ Goto("prepare") \/ ReturnOnFault({"IO_ERROR"})
  /\ UNCHANGED <<iteration, store, streak, refined, raw, candidate, verifier, outputs, tried>>

\* write_final_outputs: three files, each replaced atomically, in this order.
WriteOutput(label, file, next) ==
  /\ pc = label
  /\ \/ outputs' = [outputs EXCEPT ![file] = candidate] /\ next
     \/ ReturnOnFault({"IO_ERROR"}) /\ UNCHANGED outputs
  /\ UNCHANGED <<iteration, store, streak, refined, raw, candidate, verifier, tried>>

WriteResult == WriteOutput("result", "result", Goto("finalplan"))
WriteFinalplan == WriteOutput("finalplan", "finalplan", Goto("cplan"))
WriteCPlan == WriteOutput("cplan", "cplan", Return("VALID"))

Next ==
  \/ Setup \/ PrepareCnf \/ RunKissat \/ Judge \/ InsertFirst \/ InsertNext
  \/ BeginIteration \/ WriteRefined \/ ValidateRefined \/ WriteDomain
  \/ RunPlanner \/ MapPlan \/ SaveCandidate
  \/ WriteResult \/ WriteFinalplan \/ WriteCPlan

Spec == Init /\ [][Next]_vars

\* The program is sequential, the solver returns and the planner is killed at
\* its timeout: as long as a step is possible, one is taken.
FairSpec == Spec /\ WF_vars(Next)

-----------------------------------------------------------------------------
(* Properties.                                                              *)

Labels == {"setup", "prepare", "solve", "judge", "insert", "begin", "write", "validate",
           "domain", "run", "map", "save", "result", "finalplan", "cplan", "done"}

\* Statuses of a run that ended without a plan.
Failures == {"INPUT_ERROR", "MAPPING_ERROR", "PLANNER_TIMEOUT", "PLANNER_PARSE_ERROR",
             "PLANNER_FAILED", "BACKEND_ERROR", "IO_ERROR", "ITERATION_LIMIT",
             "STAGNATION", "PLANNER_NO_PLAN", "UNSUPPORTED_INPUT"}

Plan == Seq(Operators)
Output == Plan \cup {OldFile}

\* Types, and that the loop returns a status exactly when it is over.
TypeOK ==
  /\ pc \in Labels
  /\ status \in IF pc = "done" THEN Failures \cup {"VALID"} ELSE {"OK"}
  /\ iteration \in 0..MaxIterations
  /\ store \in Store
  /\ streak \in 0..DuplicateLimit
  /\ refined \in SUBSET (SUBSET Mapped)
  /\ raw \in Seq(Names)
  /\ candidate \in Plan
  /\ verifier \in Verifier
  /\ outputs \in [result : Output, finalplan : Output, cplan : Output]
  /\ tried \in Seq(Plan)

\* No unverified plan ever reaches an output file, whatever the planner
\* printed, whichever call failed and wherever the run was cut short: the
\* files hold what they held before or one and the same plan that works from
\* every initial state, they are replaced in order, and a run that reports
\* VALID has replaced all three (write_final_outputs after verify_full_problem).
OutputsVerified ==
  /\ \A f \in DOMAIN outputs :
       outputs[f] # OldFile => outputs[f] = candidate /\ Conformant(candidate)
  /\ outputs.cplan # OldFile => outputs.finalplan # OldFile
  /\ outputs.finalplan # OldFile => outputs.result # OldFile
  /\ status = "VALID" <=> outputs.cplan # OldFile

\* The store is evidence: its states are distinct initial states, and each
\* refutes the very plan that was verified in the round it is dated with
\* (first_iteration of counterexamples.json).
StoreIsEvidence ==
  /\ \A i, j \in DOMAIN store : store[i].state = store[j].state => i = j
  /\ \A i \in DOMAIN store :
       /\ store[i].state \in Worlds
       /\ store[i].first + 1 \in DOMAIN tried
       /\ ~Solves(tried[store[i].first + 1], store[i].state)

TotalFrequency(st) ==
  LET sum[n \in 0..Len(st)] == IF n = 0 THEN 0 ELSE sum[n - 1] + st[n].freq IN sum[Len(st)]

\* Nothing is lost or counted twice: at the head of an iteration the
\* frequencies add up to the plans refuted so far, the streak counts the
\* rounds since the newest counterexample came in, and the loop has neither
\* overrun IGC_CEGIS_MAX_ITERATIONS nor gone on past the duplicate limit.
FrequenciesAddUp ==
  pc = "begin" =>
    /\ TotalFrequency(store) = Len(tried)
    /\ Len(tried) = iteration + 1
    /\ iteration < MaxIterations
    /\ streak = iteration - store[Len(store)].first
    /\ streak < DuplicateLimit

\* What is verified, and what is written out, is name for name what the
\* planner printed in this round: no name is skipped, guessed or left over.
VerifiedIsPlanned ==
  store # <<>> /\ pc \in {"save", "prepare", "solve", "judge", "insert",
                          "result", "finalplan", "cplan"} =>
    /\ Len(candidate) = Len(raw)
    /\ \A i \in DOMAIN raw : Matches(raw[i]) = {candidate[i]}

\* "Never leave the previous iteration's candidate visible after a parser
\* failure": a step of the mapper leaves no operator of an earlier round.
NoStaleCandidate ==
  [][pc = "map" => /\ candidate' \in {<<>>, MapActions(raw)}
                   /\ status' \in {"PLANNER_PARSE_ERROR", "PLANNER_NO_PLAN"} => candidate' = <<>>]_vars

\* A stored counterexample stays, at its place and with its date; only its
\* frequency may grow.
StoreOnlyGrows ==
  [][\A i \in DOMAIN store :
       /\ i \in DOMAIN store'
       /\ store'[i].state = store[i].state
       /\ store'[i].first = store[i].first
       /\ store'[i].freq >= store[i].freq]_store

\* The loop implements the abstract learner: insertions of new states are
\* Learn (which ends the run at the iteration limit), the replacement of the
\* last output file is Accept, a return with any other status is GiveUp, and
\* every other step changes nothing.
Abstract == INSTANCE CegisSpec
  WITH Worlds <- Worlds, Plans <- CandidatePlans, Solves <- Solves,
       Trusted <- SoundPlanner /\ Mode # "single",
       known <- Stored(store),
       accepted <- IF status = "VALID" THEN {candidate} ELSE {},
       over <- pc = "done"
ImplementsLearner == Abstract!Spec

\* "UNSAT, no counterexample: the candidate passes verification" is the only
\* answer of the solver on which a plan is accepted.
AcceptedIsConformant == status = "VALID" => Conformant(candidate)
==============================================================================
