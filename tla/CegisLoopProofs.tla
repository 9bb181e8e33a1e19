--------------------------- MODULE CegisLoopProofs ---------------------------
(***************************************************************************)
(* Proofs about the CEGIS loop.  The properties are not inductive as they  *)
(* stand: that the files hold verified plans rests on what the verifier's  *)
(* flags mean between the solver's answer and the verdict, and that the    *)
(* store is evidence rests on how many plans have been tried at each call. *)
(* The parts of the inductive invariant say just that.                     *)
(***************************************************************************)
EXTENDS CegisProgress, RefinedProblemProofs

\* TypeOK, and the limits that hold as long as the loop runs.
TypeInv ==
  /\ TypeOK
  /\ pc # "done" => iteration < MaxIterations /\ streak < DuplicateLimit

\* Between the solver's answer and the verdict the verifier holds the result
\* of an answer about the candidate; after a verdict of COUNTEREXAMPLE its
\* state refutes the candidate.
VerifierInv ==
  /\ pc = "judge" => \E answer \in Answers(candidate), extracted \in BOOLEAN :
                       verifier = Result(answer, extracted)
  /\ pc = "insert" => verifier.ce \in Worlds /\ ~Solves(candidate, verifier.ce)

\* After the verdict VALID the candidate is conformant, the files are
\* replaced one by one, and before it none is.
OutputsInv ==
  /\ pc \in {"result", "finalplan", "cplan"} => Conformant(candidate)
  /\ pc \notin {"finalplan", "cplan", "done"} => outputs.result = OldFile
  /\ pc \notin {"cplan", "done"} => outputs.finalplan = OldFile
  /\ pc # "done" => outputs.cplan = OldFile
  /\ pc \in {"finalplan", "cplan"} => outputs.result = candidate
  /\ pc = "cplan" => outputs.finalplan = candidate
  /\ pc = "done" => OutputsVerified

\* How many plans have been tried when each call is made, and that the last
\* one is the candidate under verification.
RoundsInv ==
  /\ pc = "setup" => tried = <<>> /\ store = <<>>
  /\ pc \in {"begin", "write", "validate", "domain", "run", "map", "save"} => store # <<>>
  /\ store = <<>> => iteration = 0
  /\ pc \in {"begin", "write", "validate", "domain", "run", "map", "save", "prepare"} =>
       Len(tried) = IF store = <<>> THEN 0 ELSE iteration + 1
  /\ pc \in {"solve", "judge", "insert"} =>
       /\ Len(tried) = IF store = <<>> THEN 1 ELSE iteration + 2
       /\ tried[Len(tried)] = candidate

EvidenceInv == RoundsInv /\ StoreIsEvidence

\* The candidate comes from a result file of the planner.
PlansInv ==
  /\ candidate \in CandidatePlans
  /\ pc = "map" => raw \in RawPlans

\* The counters between two verifications.  While the loop runs, every round so far has
\* left one count in the store, and the streak has grown with each round since the last
\* entry was made.
CountersInv ==
  pc # "done" =>
    /\ store = <<>> => streak = 0
    /\ store # <<>> => /\ TotalFrequency(store) = iteration + 1
                       /\ store[Len(store)].first + streak = iteration

\* A planner that solves what it is given, given all stored worlds.
Trusted == SoundPlanner /\ Mode # "single"

\* What a trusted planner is shown, and what is known of its answer until the verifier has
\* judged it.
ShownInv ==
  /\ pc = "validate" => /\ RenderStatus(Profile, Mode, store) = "OK"
                        /\ refined = Projected(Profile, RenderForms(Profile, Mode, store))
  /\ pc \in {"domain", "run"} => VisibleWorlds(store) \subseteq refined
  /\ pc = "map" => \A s \in Stored(store) : Solves(MapActions(raw), s)
  /\ pc \in {"save", "prepare", "solve", "judge", "insert"} =>
       \A s \in Stored(store) : Solves(candidate, s)

\* So no counterexample comes back.
FreshInv ==
  /\ \A i \in DOMAIN store : store[i].freq = 1
  /\ streak = 0
  /\ status # "STAGNATION"

\* A structured problem contains the stored worlds if they are initial states: because
\* validate_refined asks, or because the verifier admits no others (see
\* VerifierWithinBelief and CombinedWithinBelief).
WriterTrusted == Mode = "structured" => BasicValidation \/ Worlds \subseteq Belief

-----------------------------------------------------------------------------
(* The verifier.                                                            *)

LEMMA WorldsAreStates == Worlds \subseteq States
BY DEF Worlds

LEMMA ResultType ==
  ASSUME NEW plan, NEW answer \in Answers(plan), NEW extracted \in BOOLEAN
  PROVE  Result(answer, extracted) \in Verifier
<1>1. answer.code \in {0, 10, 20} /\ (answer.code = 10 => answer.model \in States)
  BY WorldsAreStates DEF Answers
<1> QED
  BY <1>1 DEF Result, Verifier

\* A verdict of COUNTEREXAMPLE comes with a state that refutes the plan.
LEMMA CounterexampleRefutes ==
  ASSUME NEW plan, NEW answer \in Answers(plan), NEW extracted \in BOOLEAN,
         Judged(Result(answer, extracted)) = "COUNTEREXAMPLE"
  PROVE  /\ Result(answer, extracted).ce \in Worlds
         /\ ~Solves(plan, Result(answer, extracted).ce)
<1>1. answer.code = 10 /\ extracted
  BY DEF Judged, Result
<1>2. answer.model \in Worlds /\ ~Solves(plan, answer.model)
  BY <1>1 DEF Answers
<1> QED
  BY <1>1, <1>2 DEF Result

\* A verdict of VALID is right if the solver always answers.
LEMMA ValidIsConformant ==
  ASSUME NEW plan, NEW answer \in Answers(plan), NEW extracted \in BOOLEAN,
         ~SolverMayGiveUp, Judged(Result(answer, extracted)) = "VALID"
  PROVE  Conformant(plan)
<1>1. answer.code # 10
  BY DEF Judged, Result
<1> QED
  BY <1>1 DEF Answers

-----------------------------------------------------------------------------
(* The mapper.                                                              *)

LEMMA MappedLengthType ==
  ASSUME NEW names \in Seq(Names)
  PROVE  /\ MappedLength(names) \in 0..Len(names)
         /\ \A i \in 1..MappedLength(names) : Mappable(names[i])
<1> DEFINE bad == {i \in DOMAIN names : ~Mappable(names[i])}
<1>1. CASE \A i \in DOMAIN names : Mappable(names[i])
  BY <1>1 DEF MappedLength
<1>2. CASE ~(\A i \in DOMAIN names : Mappable(names[i]))
  <2>1. bad \subseteq Nat /\ bad # {}
    BY <1>2
  <2>2. Least(bad) \in bad /\ \A j \in bad : Least(bad) <= j
    BY <2>1, LeastIsLeast
  <2>3. MappedLength(names) = Least(bad) - 1
    BY <1>2 DEF MappedLength
  <2>4. DOMAIN names = 1..Len(names) /\ Len(names) \in Nat
    OBVIOUS
  <2>5. ASSUME NEW i \in 1..(Least(bad) - 1) PROVE Mappable(names[i])
    <3> HIDE DEF bad
    <3>1. Least(bad) \in 1..Len(names)
      BY <2>2, <2>4 DEF bad
    <3>2. i \in DOMAIN names /\ ~(Least(bad) <= i)
      BY <2>4, <3>1
    <3>3. i \notin bad
      BY <2>2, <3>2
    <3> QED
      BY <3>2, <3>3 DEF bad
  <2> QED
    BY <2>2, <2>3, <2>4, <2>5
<1> QED
  BY <1>1, <1>2

LEMMA OperatorType ==
  ASSUME NEW name \in Names, Mappable(name)
  PROVE  Operator(name) \in Operators
<1>1. Matches(name) \subseteq Operators
  BY MappingTables DEF MappingTables, Matches
<1>2. Matches(name) # {}
  BY FS_EmptySet DEF Mappable
<1> QED
  BY <1>1, <1>2 DEF Operator

LEMMA MapActionsType ==
  ASSUME NEW names \in Seq(Names)
  PROVE  MapActions(names) \in Plan
<1>1. \A i \in 1..MappedLength(names) : Operator(names[i]) \in Operators
  <2>1. \A i \in 1..MappedLength(names) : names[i] \in Names /\ Mappable(names[i])
    BY MappedLengthType
  <2> QED
    BY <2>1, OperatorType
<1>2. MappedLength(names) \in Nat
  BY MappedLengthType
<1> DEFINE op(i) == Operator(names[i])
<1> HIDE DEF op
<1>3. [i \in 1..MappedLength(names) |-> op(i)] \in Seq(Operators)
  BY <1>1, <1>2 DEF op
<1> QED
  BY <1>3 DEF MapActions, Plan, op

-----------------------------------------------------------------------------
(* Types and the verifier's state.                                          *)

LEMMA InitTypes == Init => TypeInv /\ VerifierInv
<1> SUFFICES ASSUME Init PROVE TypeInv /\ VerifierInv
  OBVIOUS
<1>1. /\ store \in Store /\ raw \in Seq(Names) /\ candidate \in Plan /\ tried \in Seq(Plan)
  BY DEF Init, Store, Plan
<1>2. verifier \in Verifier
  BY DEF Init, Cleared, Verifier
<1>3. outputs \in [result : Output, finalplan : Output, cplan : Output]
  BY DEF Init, Output
<1>4. iteration \in 0..(MaxIterations - 1) /\ streak \in 0..(DuplicateLimit - 1)
  BY Limits DEF Init, Limits
<1>5. pc \in Labels /\ pc \notin {"judge", "insert", "done"} /\ status = "OK" /\ refined = {}
  BY DEF Init, Labels
<1>6. iteration \in 0..MaxIterations /\ streak \in 0..DuplicateLimit
      /\ iteration < MaxIterations /\ streak < DuplicateLimit
  BY <1>4, Limits DEF Limits
<1> QED
  BY <1>1, <1>2, <1>3, <1>5, <1>6 DEF TypeInv, TypeOK, VerifierInv

LEMMA NextTypes == TypeInv /\ VerifierInv /\ [Next]_vars => TypeInv' /\ VerifierInv'
<1> SUFFICES ASSUME TypeInv, VerifierInv, [Next]_vars
             PROVE  TypeInv' /\ VerifierInv'
  OBVIOUS
<1> USE DEF TypeInv, TypeOK, VerifierInv, Goto, Return, ReturnOnFault
<1>1. CASE Setup
  BY <1>1 DEF Setup, Labels, Failures
<1>2. CASE PrepareCnf
  <2>1. Cleared \in Verifier
    BY DEF Cleared, Verifier
  <2>2. tried' \in Seq(Plan)
    BY <1>2 DEF PrepareCnf
  <2> QED
    BY <1>2, <2>1, <2>2 DEF PrepareCnf, Labels, Failures
<1>3. CASE RunKissat
  <2>1. PICK answer \in Answers(candidate), extracted \in BOOLEAN :
          verifier' = Result(answer, extracted)
    BY <1>3 DEF RunKissat
  <2>2. verifier' \in Verifier
    BY <2>1, ResultType
  <2>3. candidate' = candidate
    BY <1>3 DEF RunKissat
  <2>4. VerifierInv'
    <3>1. Answers(candidate') = Answers(candidate)
      BY <2>3
    <3> QED
      BY <1>3, <2>1, <2>3, <3>1 DEF RunKissat
  <2> QED
    BY <1>3, <2>2, <2>4 DEF RunKissat, Labels
<1>4. CASE Judge
  <2>1. PICK answer \in Answers(candidate), extracted \in BOOLEAN :
          verifier = Result(answer, extracted)
    BY <1>4 DEF Judge
  <2>2. Judged(verifier) = "COUNTEREXAMPLE" =>
          verifier.ce \in Worlds /\ ~Solves(candidate, verifier.ce)
    BY <2>1, CounterexampleRefutes
  <2>3. Judged(verifier) \in {"VALID", "COUNTEREXAMPLE", "BACKEND_ERROR"}
    BY DEF Judged
  <2> QED
    BY <1>4, <2>2, <2>3 DEF Judge, Labels, Failures
<1>5. CASE InsertFirst
  <2>1. verifier.ce \in States
    BY <1>5, WorldsAreStates DEF InsertFirst
  <2>2. store' \in Store
    BY <1>5, <2>1, InsertEntries DEF InsertFirst
  <2> QED
    BY <1>5, <2>2 DEF InsertFirst, Labels
<1>6. CASE InsertNext
  <2>1. verifier.ce \in States
    BY <1>6, WorldsAreStates DEF InsertNext
  <2>2. store' \in Store
    BY <1>6, <2>1, InsertEntries DEF InsertNext
  <2> DEFINE d == NextStreak(verifier.ce)
  <2>3. d \in 0..DuplicateLimit
    BY <1>6, Limits DEF InsertNext, NextStreak, Limits
  <2>4. /\ Verdict(d) \in {"OK", "STAGNATION", "ITERATION_LIMIT"}
        /\ Verdict(d) = "OK" => d < DuplicateLimit /\ iteration + 1 < MaxIterations
    BY <1>6, <2>3, Limits DEF InsertNext, Verdict, Limits
  <2>5. iteration' \in 0..MaxIterations
    BY <1>6, Limits DEF InsertNext, Limits
  <2>6. CASE Verdict(d) = "OK"
    BY <1>6, <2>2, <2>3, <2>4, <2>5, <2>6 DEF InsertNext, Labels
  <2>7. CASE Verdict(d) # "OK"
    BY <1>6, <2>2, <2>3, <2>4, <2>5, <2>7 DEF InsertNext, Labels, Failures
  <2> QED
    BY <2>6, <2>7
<1>7. CASE BeginIteration
  BY <1>7 DEF BeginIteration, Labels, Failures
<1>8. CASE WriteRefined
  <2>1. refined' \in SUBSET (SUBSET Mapped)
    BY <1>8, ProjectedType DEF WriteRefined
  <2>2. RenderStatus(Profile, Mode, store) # "OK" =>
          RenderStatus(Profile, Mode, store) \in Failures
    BY RenderStatusType DEF WriterStatuses, Failures
  <2> QED
    BY <1>8, <2>1, <2>2 DEF WriteRefined, Labels, Failures
<1>9. CASE ValidateRefined
  <2>1. ValidateStatus(Profile, Mode, RenderForms(Profile, Mode, store), store)
          \in {"OK", "UNSUPPORTED_INPUT", "BACKEND_ERROR"}
    BY DEF ValidateStatus
  <2> QED
    BY <1>9, <2>1 DEF ValidateRefined, Labels, Failures
<1>10. CASE WriteDomain
  BY <1>10 DEF WriteDomain, Labels, Failures
<1>11. CASE RunPlanner
  <2>1. raw' \in Seq(Names)
    BY <1>11, MappingTables DEF RunPlanner, MappingTables
  <2> QED
    BY <1>11, <2>1 DEF RunPlanner, Labels, Failures
<1>12. CASE MapPlan
  <2>1. PICK parse \in {"OK", "IO_ERROR", "PLANNER_NO_PLAN", "PLANNER_PARSE_ERROR"} :
          LET mapped == ParseAndMap(parse, raw, candidate)
          IN  /\ candidate' = mapped.plan
              /\ IF mapped.status = "OK" THEN Goto("save") ELSE Return(mapped.status)
    BY <1>12 DEF MapPlan
  <2>2. candidate' \in Plan
    BY <1>12, <2>1, MapActionsType DEF MapPlan, ParseAndMap, Plan
  <2>3. ParseAndMap(parse, raw, candidate).status \in Failures \cup {"OK"}
    BY <2>1 DEF ParseAndMap, Failures
  <2> QED
    BY <1>12, <2>1, <2>2, <2>3 DEF MapPlan, Labels
<1>13. CASE SaveCandidate
  BY <1>13 DEF SaveCandidate, Labels, Failures
<1>14. CASE WriteResult
  BY <1>14 DEF WriteResult, WriteOutput, Labels, Failures, Output
<1>15. CASE WriteFinalplan
  BY <1>15 DEF WriteFinalplan, WriteOutput, Labels, Failures, Output
<1>16. CASE WriteCPlan
  BY <1>16 DEF WriteCPlan, WriteOutput, Labels, Failures, Output
<1>17. CASE UNCHANGED vars
  BY <1>17 DEF vars
<1> QED
  BY <1>1, <1>2, <1>3, <1>4, <1>5, <1>6, <1>7, <1>8, <1>9, <1>10, <1>11, <1>12,
     <1>13, <1>14, <1>15, <1>16, <1>17 DEF Next

LEMMA Types == Spec => [](TypeInv /\ VerifierInv)
BY InitTypes, NextTypes, PTL DEF Spec

\* Type correctness of the whole loop: whatever the planner prints, every
\* handler returns one of the documented statuses, and the iteration and the
\* duplicate streak stay within their configured limits.
THEOREM TypeCorrect == Spec => []TypeOK
<1>1. TypeInv => TypeOK
  BY DEF TypeInv
<1> QED
  BY <1>1, Types, PTL

-----------------------------------------------------------------------------
(* The output files.                                                        *)

LEMMA InitOutputs == Init => OutputsInv
BY DEF Init, OutputsInv

LEMMA NextOutputs ==
  ASSUME ~SolverMayGiveUp
  PROVE  TypeInv /\ VerifierInv /\ OutputsInv /\ [Next]_vars => OutputsInv'
<1> SUFFICES ASSUME TypeInv, VerifierInv, OutputsInv, [Next]_vars
             PROVE  OutputsInv'
  OBVIOUS
<1> USE DEF OutputsInv, OutputsVerified, Goto, Return, ReturnOnFault
<1>t. /\ candidate \in Plan /\ candidate # OldFile
      /\ outputs \in [result : Output, finalplan : Output, cplan : Output]
      /\ status \in IF pc = "done" THEN Failures \cup {"VALID"} ELSE {"OK"}
  BY Markers DEF TypeInv, TypeOK, Plan, Markers
<1>d. DOMAIN outputs = {"result", "finalplan", "cplan"}
  BY <1>t
\* A return before the first output file is written changes none of them.
<1>r. ASSUME pc \notin {"result", "finalplan", "cplan", "done"}, pc' = "done",
             outputs' = outputs, status' # "VALID"
      PROVE  OutputsInv'
  BY <1>r, <1>d
\* Neither does a step from a call to the next before the verdict VALID.
<1>s. ASSUME pc \notin {"result", "finalplan", "cplan", "done"},
             pc' \notin {"result", "finalplan", "cplan", "done"}, outputs' = outputs
      PROVE  OutputsInv'
  BY <1>s
<1>1. CASE Setup
  BY <1>1, <1>r, <1>s DEF Setup
<1>2. CASE PrepareCnf
  BY <1>2, <1>r, <1>s DEF PrepareCnf
<1>3. CASE RunKissat
  BY <1>3, <1>r, <1>s DEF RunKissat
<1>4. CASE Judge
  <2>1. PICK answer \in Answers(candidate), extracted \in BOOLEAN :
          verifier = Result(answer, extracted)
    BY <1>4 DEF Judge, VerifierInv
  <2>2. CASE Judged(verifier) = "VALID"
    <3>1. Conformant(candidate)
      BY <2>1, <2>2, ValidIsConformant
    <3>2. pc' = "result" /\ candidate' = candidate /\ outputs' = outputs
      BY <1>4, <2>2 DEF Judge
    <3>3. Conformant(candidate')
      BY <3>1, <3>2
    <3> QED
      BY <1>4, <3>2, <3>3 DEF Judge
  <2>3. CASE Judged(verifier) # "VALID"
    BY <1>4, <2>3, <1>r, <1>s DEF Judge
  <2> QED
    BY <2>2, <2>3
<1>5. CASE InsertFirst
  BY <1>5, <1>s DEF InsertFirst
<1>6. CASE InsertNext
  BY <1>6, <1>r, <1>s DEF InsertNext, Verdict
<1>7. CASE BeginIteration
  BY <1>7, <1>r, <1>s DEF BeginIteration
<1>8. CASE WriteRefined
  <2>1. RenderStatus(Profile, Mode, store) # "VALID"
    BY RenderStatusType DEF WriterStatuses
  <2> QED
    BY <1>8, <2>1, <1>r, <1>s DEF WriteRefined
<1>9. CASE ValidateRefined
  <2>1. ValidateStatus(Profile, Mode, RenderForms(Profile, Mode, store), store) # "VALID"
    BY DEF ValidateStatus
  <2> QED
    BY <1>9, <2>1, <1>r, <1>s DEF ValidateRefined
<1>10. CASE WriteDomain
  BY <1>10, <1>r, <1>s DEF WriteDomain
<1>11. CASE RunPlanner
  BY <1>11, <1>r, <1>s DEF RunPlanner
<1>12. CASE MapPlan
  <2>1. PICK parse \in {"OK", "IO_ERROR", "PLANNER_NO_PLAN", "PLANNER_PARSE_ERROR"} :
          LET mapped == ParseAndMap(parse, raw, candidate)
          IN  IF mapped.status = "OK" THEN Goto("save") ELSE Return(mapped.status)
    BY <1>12 DEF MapPlan
  <2>2. ParseAndMap(parse, raw, candidate).status # "VALID"
    BY <2>1 DEF ParseAndMap
  <2> QED
    BY <1>12, <2>1, <2>2, <1>r, <1>s DEF MapPlan
<1>13. CASE SaveCandidate
  BY <1>13, <1>r, <1>s DEF SaveCandidate
\* The three writes: the candidate stays, one file changes or the run ends.
<1>c. ASSUME candidate' = candidate PROVE Conformant(candidate') <=> Conformant(candidate)
  BY <1>c
<1>14. CASE WriteResult
  BY <1>14, <1>t, <1>d, <1>c DEF WriteResult, WriteOutput
<1>15. CASE WriteFinalplan
  BY <1>15, <1>t, <1>d, <1>c DEF WriteFinalplan, WriteOutput
<1>16. CASE WriteCPlan
  BY <1>16, <1>t, <1>d, <1>c DEF WriteCPlan, WriteOutput
<1>17. CASE UNCHANGED vars
  BY <1>17, <1>c DEF vars
<1> QED
  BY <1>1, <1>2, <1>3, <1>4, <1>5, <1>6, <1>7, <1>8, <1>9, <1>10, <1>11, <1>12,
     <1>13, <1>14, <1>15, <1>16, <1>17 DEF Next

LEMMA OutputsInvImplies == TypeInv /\ OutputsInv => OutputsVerified
<1> SUFFICES ASSUME TypeInv, OutputsInv PROVE OutputsVerified
  OBVIOUS
<1>1. CASE pc = "done"
  BY <1>1 DEF OutputsInv
<1>2. CASE pc # "done"
  <2>1. /\ outputs \in [result : Output, finalplan : Output, cplan : Output]
        /\ status = "OK"
    BY <1>2 DEF TypeInv, TypeOK
  <2>2. DOMAIN outputs = {"result", "finalplan", "cplan"}
    BY <2>1
  <2>3. pc \notin {"result", "finalplan", "cplan"} =>
          \A f \in DOMAIN outputs : outputs[f] = OldFile
    BY <1>2, <2>2 DEF OutputsInv
  <2> QED
    BY <1>2, <2>1, <2>2, <2>3 DEF OutputsInv, OutputsVerified
<1> QED
  BY <1>1, <1>2

\* A verified plan, or nothing: if the solver always answers (no Kissat limit
\* is configured), the output files never hold a plan that fails from some
\* initial state, whatever the planner, the files and the subprocesses do.
THEOREM OutputsCorrect ==
  ASSUME ~SolverMayGiveUp
  PROVE  Spec => []OutputsVerified
BY InitOutputs, NextOutputs, OutputsInvImplies, Types, PTL DEF Spec

-----------------------------------------------------------------------------
(* The store.                                                               *)

LEMMA InitEvidence == Init => EvidenceInv
BY DEF Init, EvidenceInv, RoundsInv, StoreIsEvidence

\* An insertion of a state that refutes the last plan tried, dated with the
\* round of that plan, keeps the store evidence.
LEMMA InsertKeepsEvidence ==
  ASSUME TypeInv, VerifierInv, EvidenceInv, pc = "insert",
         NEW round \in Nat, round + 1 = Len(tried),
         store' = Insert(store, verifier.ce, round), tried' = tried
  PROVE  /\ StoreIsEvidence'
         /\ store' # <<>>
<1>1. /\ store \in Store /\ tried \in Seq(Plan)
      /\ verifier.ce \in Worlds /\ ~Solves(candidate, verifier.ce)
      /\ tried[Len(tried)] = candidate
  BY DEF TypeInv, TypeOK, VerifierInv, EvidenceInv, RoundsInv
<1>2. verifier.ce \in States
  BY <1>1, WorldsAreStates
<1> DEFINE s == verifier.ce
<1> HIDE DEF s
<1>3. /\ DOMAIN store = 1..Len(store) /\ DOMAIN store' = 1..Len(store')
      /\ Len(store) \in Nat
      /\ Len(store') = IF s \in Stored(store) THEN Len(store) ELSE Len(store) + 1
      /\ \A i \in 1..Len(store) : /\ store'[i].state = store[i].state
                                  /\ store'[i].first = store[i].first
      /\ s \notin Stored(store) => store'[Len(store) + 1] = NewEntry(s, round)
  BY <1>1, <1>2, InsertEntries DEF s
<1>4. Distinct(store')
  <2>1. Distinct(store)
    BY DEF EvidenceInv, StoreIsEvidence, Distinct
  <2> QED
    BY <1>1, <1>2, <2>1, InsertKeepsDistinct
<1>5. \A i \in 1..Len(store) :
        /\ store[i].state \in Worlds
        /\ store[i].first + 1 \in DOMAIN tried
        /\ ~Solves(tried[store[i].first + 1], store[i].state)
  BY <1>3 DEF EvidenceInv, StoreIsEvidence
<1>6. round + 1 \in DOMAIN tried /\ ~Solves(tried[round + 1], s)
  BY <1>1 DEF s
<1>7. ASSUME NEW i \in DOMAIN store'
      PROVE  /\ store'[i].state \in Worlds
             /\ store'[i].first + 1 \in DOMAIN tried
             /\ ~Solves(tried[store'[i].first + 1], store'[i].state)
  <2>1. CASE i \in 1..Len(store)
    <3>1. store'[i].state = store[i].state /\ store'[i].first = store[i].first
      BY <1>3, <2>1
    <3> QED
      BY <1>5, <2>1, <3>1
  <2>2. CASE i \notin 1..Len(store)
    <3>1. store'[i] = NewEntry(s, round)
      BY <1>3, <2>2
    <3>2. store'[i].state = s /\ store'[i].first = round
      BY <3>1 DEF NewEntry
    <3> QED
      BY <1>1, <1>6, <3>2 DEF s
  <2> QED
    BY <2>1, <2>2
<1>8. store' # <<>>
  <2>1. CASE s \in Stored(store)
    <3>1. Len(store) # 0
      BY <1>3, <2>1 DEF Stored
    <3> QED
      BY <1>3, <2>1, <3>1
  <2>2. CASE s \notin Stored(store)
    BY <1>3, <2>2
  <2> QED
    BY <2>1, <2>2
<1> QED
  BY <1>4, <1>7, <1>8 DEF StoreIsEvidence, Distinct

LEMMA NextEvidence ==
  TypeInv /\ VerifierInv /\ EvidenceInv /\ [Next]_vars => EvidenceInv'
<1> SUFFICES ASSUME TypeInv, VerifierInv, EvidenceInv, [Next]_vars
             PROVE  EvidenceInv'
  OBVIOUS
<1> USE DEF Goto, Return, ReturnOnFault
<1>t. iteration \in Nat /\ Len(tried) \in Nat
  BY DEF TypeInv, TypeOK
\* A step that leaves the store and the plans tried alone keeps the evidence.
<1>e. ASSUME store' = store, tried' = tried PROVE StoreIsEvidence'
  BY <1>e DEF EvidenceInv, StoreIsEvidence
\* A step from a call to the next in the rest of an iteration.
<1>s. ASSUME pc \in {"begin", "write", "validate", "domain", "run", "map", "save"},
             pc' \in {"begin", "write", "validate", "domain", "run", "map", "save", "prepare"},
             store' = store, tried' = tried, iteration' = iteration
      PROVE  EvidenceInv'
  BY <1>s, <1>e DEF EvidenceInv, RoundsInv
\* A return, and every step towards the output files.
<1>r. ASSUME pc' \in {"result", "finalplan", "cplan", "done"},
             store' = store, tried' = tried, iteration' = iteration
      PROVE  EvidenceInv'
  BY <1>r, <1>e DEF EvidenceInv, RoundsInv
<1>1. CASE Setup
  BY <1>1, <1>e, <1>r DEF Setup, EvidenceInv, RoundsInv
<1>2. CASE PrepareCnf
  <2>1. tried \in Seq(Plan) /\ candidate \in Plan
    BY DEF TypeInv, TypeOK
  <2>2. /\ Len(tried') = Len(tried) + 1 /\ tried'[Len(tried')] = candidate
        /\ DOMAIN tried' = 1..Len(tried') /\ DOMAIN tried = 1..Len(tried)
        /\ \A i \in DOMAIN tried : i \in DOMAIN tried' /\ tried'[i] = tried[i]
    BY <1>2, <2>1 DEF PrepareCnf
  <2>3. StoreIsEvidence'
    BY <1>2, <2>2 DEF PrepareCnf, EvidenceInv, StoreIsEvidence
  <2>4. RoundsInv'
    <3>1. /\ store' = store /\ iteration' = iteration /\ candidate' = candidate
          /\ pc' \in {"solve", "done"}
      BY <1>2 DEF PrepareCnf
    <3>2. /\ Len(tried) = IF store = <<>> THEN 0 ELSE iteration + 1
          /\ store = <<>> => iteration = 0
      BY <1>2 DEF PrepareCnf, EvidenceInv, RoundsInv
    <3>3. Len(tried') = IF store' = <<>> THEN 1 ELSE iteration' + 2
      BY <1>t, <2>2, <3>1, <3>2
    <3>4. tried'[Len(tried')] = candidate'
      BY <2>2, <3>1
    <3> QED
      BY <3>1, <3>2, <3>3, <3>4 DEF RoundsInv
  <2> QED
    BY <2>3, <2>4 DEF EvidenceInv
<1>3. CASE RunKissat
  BY <1>3, <1>e DEF RunKissat, EvidenceInv, RoundsInv
<1>4. CASE Judge
  <2>1. CASE Judged(verifier) = "COUNTEREXAMPLE"
    BY <1>4, <2>1, <1>e DEF Judge, EvidenceInv, RoundsInv
  <2>2. CASE Judged(verifier) # "COUNTEREXAMPLE"
    BY <1>4, <2>2, <1>r DEF Judge
  <2> QED
    BY <2>1, <2>2
<1>5. CASE InsertFirst
  <2>1. Len(tried) = 1 /\ iteration = 0
    BY <1>5 DEF InsertFirst, EvidenceInv, RoundsInv
  <2>2. StoreIsEvidence' /\ store' # <<>>
    BY <1>5, <2>1, InsertKeepsEvidence DEF InsertFirst
  <2> QED
    BY <1>5, <2>1, <2>2 DEF InsertFirst, EvidenceInv, RoundsInv
<1>6. CASE InsertNext
  <2>1. Len(tried) = iteration + 2
    BY <1>6 DEF InsertNext, EvidenceInv, RoundsInv
  <2>2. StoreIsEvidence' /\ store' # <<>>
    BY <1>6, <1>t, <2>1, InsertKeepsEvidence DEF InsertNext
  <2> DEFINE d == NextStreak(verifier.ce)
  <2>3. CASE Verdict(d) = "OK"
    BY <1>6, <1>t, <2>1, <2>2, <2>3 DEF InsertNext, EvidenceInv, RoundsInv
  <2>4. CASE Verdict(d) # "OK"
    BY <1>6, <2>2, <2>4 DEF InsertNext, EvidenceInv, RoundsInv
  <2> QED
    BY <2>3, <2>4
<1>7. CASE BeginIteration
  BY <1>7, <1>r, <1>s DEF BeginIteration
<1>8. CASE WriteRefined
  BY <1>8, <1>r, <1>s DEF WriteRefined
<1>9. CASE ValidateRefined
  BY <1>9, <1>r, <1>s DEF ValidateRefined
<1>10. CASE WriteDomain
  BY <1>10, <1>r, <1>s DEF WriteDomain
<1>11. CASE RunPlanner
  BY <1>11, <1>r, <1>s DEF RunPlanner
<1>12. CASE MapPlan
  BY <1>12, <1>r, <1>s DEF MapPlan
<1>13. CASE SaveCandidate
  BY <1>13, <1>r, <1>s DEF SaveCandidate
<1>14. CASE WriteResult
  BY <1>14, <1>r DEF WriteResult, WriteOutput
<1>15. CASE WriteFinalplan
  BY <1>15, <1>r DEF WriteFinalplan, WriteOutput
<1>16. CASE WriteCPlan
  BY <1>16, <1>r DEF WriteCPlan, WriteOutput
<1>17. CASE UNCHANGED vars
  BY <1>17 DEF vars, EvidenceInv, RoundsInv, StoreIsEvidence
<1> QED
  BY <1>1, <1>2, <1>3, <1>4, <1>5, <1>6, <1>7, <1>8, <1>9, <1>10, <1>11, <1>12,
     <1>13, <1>14, <1>15, <1>16, <1>17 DEF Next

\* Every stored counterexample is an initial state of the problem that
\* refuted the plan of its round, and none is stored twice, for every
\* planner, even if the solver gives up.
THEOREM EvidenceCorrect == Spec => []StoreIsEvidence
<1>1. EvidenceInv => StoreIsEvidence
  BY DEF EvidenceInv
<1> QED
  BY <1>1, InitEvidence, NextEvidence, Types, PTL DEF Spec

\* The history kept in counterexamples.json is append-only: no step rewrites
\* the state or the date of a stored counterexample or loses a count.
THEOREM StoreGrows == Spec => StoreOnlyGrows
<1>1. ASSUME TypeInv, VerifierInv, [Next]_vars
      PROVE  [\A i \in DOMAIN store :
                /\ i \in DOMAIN store'
                /\ store'[i].state = store[i].state
                /\ store'[i].first = store[i].first
                /\ store'[i].freq >= store[i].freq]_store
  <2>1. CASE pc = "insert"
    <3>1. SUFFICES ASSUME store' # store
                   PROVE  \A i \in DOMAIN store :
                            /\ i \in DOMAIN store'
                            /\ store'[i].state = store[i].state
                            /\ store'[i].first = store[i].first
                            /\ store'[i].freq >= store[i].freq
      OBVIOUS
    <3>2. /\ store \in Store /\ verifier.ce \in States /\ iteration + 1 \in Nat
      BY <1>1, <2>1, WorldsAreStates DEF TypeInv, TypeOK, VerifierInv
    <3>3. PICK round \in Nat : store' = Insert(store, verifier.ce, round)
      BY <1>1, <2>1, <3>1, <3>2
         DEF Next, vars, Setup, PrepareCnf, RunKissat, Judge, InsertFirst, InsertNext,
             BeginIteration, WriteRefined, ValidateRefined, WriteDomain, RunPlanner,
             MapPlan, SaveCandidate, WriteResult, WriteFinalplan, WriteCPlan, WriteOutput
    <3>4. /\ DOMAIN store = 1..Len(store) /\ DOMAIN store' = 1..Len(store')
          /\ Len(store) \in Nat
          /\ Len(store') = IF verifier.ce \in Stored(store) THEN Len(store) ELSE Len(store) + 1
      BY <3>2, <3>3, InsertEntries
    <3>5. \A i \in 1..Len(store) :
            /\ store'[i].state = store[i].state
            /\ store'[i].first = store[i].first
            /\ store'[i].freq = IF store[i].state = verifier.ce THEN store[i].freq + 1
                                                              ELSE store[i].freq
      BY <3>2, <3>3, InsertEntries
    <3>6. SUFFICES ASSUME NEW i \in 1..Len(store)
                   PROVE  /\ i \in 1..Len(store')
                          /\ store'[i].state = store[i].state
                          /\ store'[i].first = store[i].first
                          /\ store'[i].freq >= store[i].freq
      BY <3>4
    <3>7. i \in 1..Len(store')
      <4>1. Len(store') = Len(store) \/ Len(store') = Len(store) + 1
        BY <3>4
      <4> DEFINE n == Len(store)
                 m == Len(store')
      <4>2. n \in Nat /\ (m = n \/ m = n + 1) /\ i \in 1..n
        BY <3>4, <4>1
      <4> HIDE DEF n, m
      <4>3. i \in 1..m
        BY <4>2
      <4> QED
        BY <4>3 DEF m
    <3>8. store[i].freq \in Nat
      <4>1. store[i] \in Entry
        BY <3>2, <3>6 DEF Store
      <4> QED
        BY <4>1 DEF Entry
    <3> QED
      BY <3>5, <3>7, <3>8
  <2>2. CASE pc # "insert"
    <3>1. store' = store
      BY <1>1, <2>2
         DEF Next, vars, Setup, PrepareCnf, RunKissat, Judge, InsertFirst, InsertNext,
             BeginIteration, WriteRefined, ValidateRefined, WriteDomain, RunPlanner,
             MapPlan, SaveCandidate, WriteResult, WriteFinalplan, WriteCPlan, WriteOutput
    <3> QED
      BY <3>1
  <2> QED
    BY <2>1, <2>2
<1> QED
  BY <1>1, Types, PTL DEF Spec, StoreOnlyGrows

-----------------------------------------------------------------------------
(* The counters.                                                            *)

\* The running totals of the frequencies, as TotalFrequency computes them.
Totals(st, g) ==
  /\ g \in [0..Len(st) -> Nat]
  /\ g[0] = 0
  /\ \A n \in 1..Len(st) : g[n] = g[n - 1] + st[n].freq

LEMMA StoreShape ==
  ASSUME NEW st \in Store
  PROVE  /\ Len(st) \in Nat /\ DOMAIN st = 1..Len(st)
         /\ \A n \in 1..Len(st) : st[n].freq \in Nat
<1>1. \A n \in 1..Len(st) : st[n] \in Entry
  BY DEF Store
<1>2. \A e \in Entry : e.freq \in Nat
  BY DEF Entry
<1> QED
  BY <1>1, <1>2 DEF Store

\* TotalFrequency is a recursive function; it has a value because there are totals up
\* to any length.
LEMMA TotalsExist ==
  ASSUME NEW st \in Store
  PROVE  \E g : Totals(st, g)
<1>1. Len(st) \in Nat /\ \A n \in 1..Len(st) : st[n].freq \in Nat
  BY StoreShape
<1> DEFINE UpTo(L) == \E g \in [0..L -> Nat] :
             g[0] = 0 /\ \A n \in 1..L : g[n] = g[n - 1] + st[n].freq
           bad == {L \in 0..Len(st) : ~UpTo(L)}
<1>2. CASE bad = {}
  <2>1. UpTo(Len(st))
    <3> HIDE DEF UpTo
    <3> QED
      BY <1>1, <1>2
  <2> QED
    BY <2>1 DEF Totals
<1>3. CASE bad # {}
  <2> DEFINE L == Least(bad)
  <2>1. L \in bad /\ \A j \in bad : L <= j
    <3>1. bad \subseteq Nat
      BY <1>1
    <3> HIDE DEF bad
    <3> QED
      BY <1>3, <3>1, LeastIsLeast
  <2>2. L \in 0..Len(st) /\ ~UpTo(L)
    BY <2>1
  <2> HIDE DEF L
  <2>3. UpTo(0)
    <3> DEFINE h == [n \in 0..0 |-> 0]
    <3>1. h \in [0..0 -> Nat] /\ h[0] = 0 /\ 1..0 = {}
      OBVIOUS
    <3> HIDE DEF h
    <3> QED
      BY <3>1
  <2>4. L # 0
    BY <2>2, <2>3
  <2>5. L - 1 \in 0..Len(st) /\ L \in 1..Len(st)
    BY <1>1, <2>2, <2>4
  <2>6. UpTo(L - 1)
    <3> HIDE DEF UpTo
    <3> QED
      BY <2>1, <2>2, <2>5, <1>1
  <2>7. PICK g \in [0..(L - 1) -> Nat] :
          g[0] = 0 /\ \A n \in 1..(L - 1) : g[n] = g[n - 1] + st[n].freq
    BY <2>6
  <2> DEFINE h == [n \in 0..L |-> IF n = L THEN g[L - 1] + st[L].freq ELSE g[n]]
  <2>8. h \in [0..L -> Nat]
    BY <1>1, <2>5, <2>7
  <2>9. h[0] = 0 /\ \A n \in 1..L : h[n] = h[n - 1] + st[n].freq
    BY <1>1, <2>5, <2>7
  <2> HIDE DEF h
  <2> QED
    BY <2>2, <2>8, <2>9
<1> QED
  BY <1>2, <1>3

\* Any totals end in the value of TotalFrequency.
LEMMA TotalIsLast ==
  ASSUME NEW st \in Store, NEW g, Totals(st, g)
  PROVE  TotalFrequency(st) = g[Len(st)]
<1>1. Len(st) \in Nat /\ \A n \in 1..Len(st) : st[n].freq \in Nat
  BY StoreShape
<1> DEFINE Body(s) == [n \in 0..Len(st) |-> IF n = 0 THEN 0 ELSE s[n - 1] + st[n].freq]
           sum == CHOOSE s : s = Body(s)
<1>2. TotalFrequency(st) = sum[Len(st)]
  BY DEF TotalFrequency
<1>3. g = Body(g)
  <2>1. \A n \in 0..Len(st) : g[n] = IF n = 0 THEN 0 ELSE g[n - 1] + st[n].freq
    BY <1>1 DEF Totals
  <2> QED
    BY <2>1 DEF Totals
<1>4. sum = Body(sum)
  <2> HIDE DEF Body
  <2> QED
    BY <1>3
<1>5. \A n \in 0..Len(st) : sum[n] = IF n = 0 THEN 0 ELSE sum[n - 1] + st[n].freq
  <2> HIDE DEF sum
  <2> QED
    BY <1>4
<1> HIDE DEF sum, Body
<1> DEFINE bad == {n \in 0..Len(st) : sum[n] # g[n]}
<1>6. CASE bad # {}
  <2>1. bad \subseteq Nat
    BY <1>1
  <2>2. PICK n \in bad : \A j \in bad : n <= j
    <3> HIDE DEF bad
    <3> QED
      BY <1>6, <2>1, LeastIsLeast
  <2>3. n # 0
    BY <1>1, <1>5, <2>2 DEF Totals
  <2>4. n \in 1..Len(st) /\ n - 1 \in 0..Len(st) /\ n - 1 \notin bad
    BY <1>1, <2>1, <2>2, <2>3
  <2>5. sum[n - 1] = g[n - 1]
    BY <2>4
  <2>6. sum[n] = g[n]
    BY <1>5, <2>4, <2>5, <2>3 DEF Totals
  <2> QED
    BY <2>2, <2>6
<1>7. CASE bad = {}
  BY <1>1, <1>2, <1>7
<1> QED
  BY <1>6, <1>7

\* insert() counts once.
LEMMA InsertCounts ==
  ASSUME NEW st \in Store, NEW s \in States, NEW round \in Nat, Distinct(st)
  PROVE  TotalFrequency(Insert(st, s, round)) = TotalFrequency(st) + 1
<1> DEFINE new == Insert(st, s, round)
<1>1. /\ new \in Store
      /\ DOMAIN st = 1..Len(st) /\ DOMAIN new = 1..Len(new)
      /\ Len(st) \in Nat
      /\ Len(new) = IF s \in Stored(st) THEN Len(st) ELSE Len(st) + 1
      /\ \A i \in 1..Len(st) :
           new[i].freq = IF st[i].state = s THEN st[i].freq + 1 ELSE st[i].freq
      /\ s \notin Stored(st) => new[Len(st) + 1] = NewEntry(s, round)
  BY InsertEntries
<1> HIDE DEF new
<1>2. \A n \in 1..Len(st) : st[n].freq \in Nat
  BY StoreShape
<1>3. PICK g : Totals(st, g)
  BY TotalsExist
<1>4. g \in [0..Len(st) -> Nat] /\ g[0] = 0 /\ \A n \in 1..Len(st) : g[n] = g[n - 1] + st[n].freq
  BY <1>3 DEF Totals
<1>5. CASE s \in Stored(st)
  <2>1. PICK k \in 1..Len(st) : st[k].state = s
    BY <1>1, <1>5 DEF Stored
  <2>2. \A i \in 1..Len(st) : new[i].freq = IF i = k THEN st[i].freq + 1 ELSE st[i].freq
    BY <1>1, <2>1 DEF Distinct
  <2> DEFINE h == [n \in 0..Len(st) |-> IF n < k THEN g[n] ELSE g[n] + 1]
  <2>3. Len(new) = Len(st)
    BY <1>1, <1>5
  <2>4. h \in [0..Len(st) -> Nat] /\ h[0] = 0 /\ h[Len(st)] = g[Len(st)] + 1
    BY <1>1, <1>4, <2>1
  <2>5. \A n \in 1..Len(st) : h[n] = h[n - 1] + new[n].freq
    <3> SUFFICES ASSUME NEW n \in 1..Len(st) PROVE h[n] = h[n - 1] + new[n].freq
      OBVIOUS
    <3>1. n \in 0..Len(st) /\ n - 1 \in 0..Len(st) /\ g[n - 1] \in Nat /\ st[n].freq \in Nat
          /\ g[n] = g[n - 1] + st[n].freq
      BY <1>1, <1>2, <1>4
    <3>2. h[n] = (IF n < k THEN g[n] ELSE g[n] + 1) /\ h[n - 1] = (IF n - 1 < k THEN g[n - 1] ELSE g[n - 1] + 1)
      BY <3>1
    <3> QED
      BY <2>1, <2>2, <3>1, <3>2
  <2> HIDE DEF h
  <2>6. Totals(new, h)
    BY <2>3, <2>4, <2>5 DEF Totals
  <2> QED
    BY <1>1, <1>3, <2>3, <2>4, <2>6, TotalIsLast DEF new
<1>6. CASE s \notin Stored(st)
  <2>1. \A i \in 1..Len(st) : new[i].freq = st[i].freq
    BY <1>1, <1>6 DEF Stored
  <2>2. Len(new) = Len(st) + 1 /\ new[Len(st) + 1].freq = 1
    BY <1>1, <1>6 DEF NewEntry
  <2> DEFINE h == [n \in 0..(Len(st) + 1) |-> IF n = Len(st) + 1 THEN g[Len(st)] + 1 ELSE g[n]]
  <2>3. h \in [0..(Len(st) + 1) -> Nat] /\ h[0] = 0 /\ h[Len(st) + 1] = g[Len(st)] + 1
    BY <1>1, <1>4
  <2>4. \A n \in 1..(Len(st) + 1) : h[n] = h[n - 1] + new[n].freq
    BY <1>1, <1>4, <2>1, <2>2
  <2> HIDE DEF h
  <2>5. Totals(new, h)
    BY <2>2, <2>3, <2>4 DEF Totals
  <2> QED
    BY <1>1, <1>3, <2>2, <2>3, <2>5, TotalIsLast DEF new
<1> QED
  BY <1>5, <1>6

LEMMA InitCounters == Init => CountersInv
BY DEF Init, CountersInv

LEMMA NextCounters ==
  TypeInv /\ VerifierInv /\ EvidenceInv /\ CountersInv /\ [Next]_vars => CountersInv'
<1> SUFFICES ASSUME TypeInv, VerifierInv, EvidenceInv, CountersInv, [Next]_vars
             PROVE  CountersInv'
  OBVIOUS
<1>t. /\ store \in Store /\ iteration \in Nat /\ streak \in Nat
      /\ pc = "insert" => verifier.ce \in States
      /\ store = <<>> => iteration = 0
      /\ Distinct(store)
  BY WorldsAreStates DEF TypeInv, TypeOK, VerifierInv, EvidenceInv, RoundsInv, StoreIsEvidence, Distinct
<1>e. /\ Len(store) \in Nat /\ (store = <<>> <=> Len(store) = 0)
      /\ \A i \in 1..Len(store) : store[i].first \in Nat
  <2>1. \A i \in 1..Len(store) : store[i] \in Entry
    BY <1>t DEF Store
  <2>2. \A x \in Entry : x.first \in Nat
    BY DEF Entry
  <2> QED
    BY <1>t, <2>1, <2>2 DEF Store
<1>1. CASE InsertFirst
  <2>1. /\ pc = "insert" /\ store = <<>> /\ streak' = streak /\ iteration' = iteration
        /\ store' = Insert(store, verifier.ce, 0)
    BY <1>1 DEF InsertFirst
  <2>2. store' = <<NewEntry(verifier.ce, 0)>>
    <3>1. verifier.ce \notin Stored(store)
      BY <2>1 DEF Stored
    <3> QED
      BY <2>1, <3>1 DEF Insert
  <2>3. Len(store') = 1 /\ store'[1].first = 0
    BY <2>2 DEF NewEntry
  <2>4. TotalFrequency(store') = TotalFrequency(store) + 1
    BY <1>t, <2>1, InsertCounts
  <2>5. TotalFrequency(store) = 0
    <3>1. PICK g : Totals(store, g)
      BY <1>t, TotalsExist
    <3>2. TotalFrequency(store) = g[0] /\ g[0] = 0
      BY <1>t, <1>e, <2>1, <3>1, TotalIsLast DEF Totals
    <3> QED
      BY <3>2
  <2> QED
    BY <1>t, <2>1, <2>2, <2>3, <2>4, <2>5 DEF CountersInv
<1>2. CASE InsertNext
  <2> DEFINE s == verifier.ce
             d == NextStreak(s)
  <2>1. /\ pc = "insert" /\ store # <<>>
        /\ store' = Insert(store, s, iteration + 1) /\ streak' = d
        /\ pc' # "done" => iteration' = iteration + 1
    BY <1>2 DEF InsertNext, Verdict, Goto, Return
  <2>2. /\ TotalFrequency(store) = iteration + 1
        /\ store[Len(store)].first + streak = iteration
    BY <2>1 DEF CountersInv
  <2>3. TotalFrequency(store') = TotalFrequency(store) + 1
    BY <1>t, <2>1, InsertCounts
  <2>4. /\ Len(store') = IF s \in Stored(store) THEN Len(store) ELSE Len(store) + 1
        /\ \A i \in 1..Len(store) : store'[i].first = store[i].first
        /\ s \notin Stored(store) => store'[Len(store) + 1] = NewEntry(s, iteration + 1)
    BY <1>t, <2>1, InsertEntries
  <2>5. store' # <<>>
    BY <1>e, <2>1, <2>4
  <2>6. pc' # "done" => store'[Len(store')].first + streak' = iteration'
    <3>1. CASE s \in Stored(store)
      <4>1. Len(store') = Len(store) /\ streak' = streak + 1 /\ Len(store) \in 1..Len(store)
        BY <1>e, <2>1, <2>4, <3>1 DEF NextStreak
      <4> QED
        BY <1>t, <1>e, <2>1, <2>2, <2>4, <4>1
    <3>2. CASE s \notin Stored(store)
      <4>1. Len(store') = Len(store) + 1 /\ streak' = 0
        BY <2>1, <2>4, <3>2 DEF NextStreak
      <4>2. store'[Len(store')].first = iteration + 1
        BY <2>4, <3>2, <4>1 DEF NewEntry
      <4> QED
        BY <1>t, <2>1, <4>1, <4>2
    <3> QED
      BY <3>1, <3>2
  <2> QED
    BY <1>t, <2>1, <2>2, <2>3, <2>5, <2>6 DEF CountersInv
<1>3. CASE ~(InsertFirst \/ InsertNext)
  <2>1. /\ store' = store /\ streak' = streak /\ iteration' = iteration
        /\ pc' # "done" => pc # "done"
    BY <1>3
       DEF Next, vars, Setup, PrepareCnf, RunKissat, Judge, BeginIteration, WriteRefined,
           ValidateRefined, WriteDomain, RunPlanner, MapPlan, SaveCandidate,
           WriteResult, WriteFinalplan, WriteCPlan, WriteOutput
  <2> QED
    BY <2>1 DEF CountersInv
<1> QED
  BY <1>1, <1>2, <1>3

\* No verification is lost or counted twice: at the head of every iteration the
\* frequencies of the store add up to the plans refuted so far, the streak is the number
\* of rounds since the newest counterexample came in, and neither limit is overrun
\* (insert and duplicate_streak of run_cegis_loop).
THEOREM FrequenciesCorrect == Spec => []FrequenciesAddUp
<1>1. ASSUME TypeInv, EvidenceInv, CountersInv
      PROVE  FrequenciesAddUp
  <2> SUFFICES ASSUME pc = "begin"
               PROVE  /\ TotalFrequency(store) = Len(tried)
                      /\ Len(tried) = iteration + 1
                      /\ iteration < MaxIterations
                      /\ streak = iteration - store[Len(store)].first
                      /\ streak < DuplicateLimit
    BY DEF FrequenciesAddUp
  <2>1. /\ store # <<>> /\ Len(tried) = iteration + 1
        /\ iteration < MaxIterations /\ streak < DuplicateLimit
    BY <1>1 DEF EvidenceInv, RoundsInv, TypeInv
  <2>2. /\ TotalFrequency(store) = iteration + 1
        /\ store[Len(store)].first + streak = iteration
    BY <1>1, <2>1 DEF CountersInv
  <2>3. store[Len(store)].first \in Nat /\ streak \in Nat /\ iteration \in Nat
    <3>1. store \in Store /\ streak \in Nat /\ iteration \in Nat
      BY <1>1 DEF TypeInv, TypeOK
    <3>2. store[Len(store)] \in Entry
      BY <2>1, <3>1 DEF Store
    <3> QED
      BY <3>1, <3>2 DEF Entry
  <2> QED
    BY <2>1, <2>2, <2>3
<1> QED
  BY <1>1, InitEvidence, NextEvidence, InitCounters, NextCounters, Types, PTL DEF Spec

-----------------------------------------------------------------------------
(* The mapper.                                                              *)

\* A sequence of names that maps completely maps name for name.
LEMMA MapActionsExact ==
  ASSUME NEW names \in Seq(Names), MappedLength(names) = Len(names)
  PROVE  /\ Len(MapActions(names)) = Len(names)
         /\ \A i \in DOMAIN names : Matches(names[i]) = {MapActions(names)[i]}
<1>1. Len(names) \in Nat /\ DOMAIN names = 1..Len(names)
  OBVIOUS
<1>2. MapActions(names) = [i \in 1..Len(names) |-> Operator(names[i])]
  BY DEF MapActions
<1>3. ASSUME NEW i \in 1..Len(names) PROVE Matches(names[i]) = {Operator(names[i])}
  <2>1. Mappable(names[i]) /\ names[i] \in Names
    BY MappedLengthType
  <2>2. Matches(names[i]) \subseteq Operators
    BY <2>1, MappingTables DEF MappingTables, Matches
  <2>3. IsFiniteSet(Matches(names[i]))
    BY <2>2, MappingTables, FS_Subset DEF MappingTables
  <2>4. PICK op : Matches(names[i]) = {op}
    BY <2>1, <2>3, FS_Singleton DEF Mappable
  <2> QED
    BY <2>4 DEF Operator
<1>4. Len(MapActions(names)) = Len(names)
  BY <1>1, <1>2
<1> QED
  BY <1>1, <1>2, <1>3, <1>4

\* Only a complete mapping of the names of this round reaches the verifier,
\* the store and the output files, for every planner and every mapping table.
THEOREM PlannedCorrect == Spec => []VerifiedIsPlanned
<1>1. Init => VerifiedIsPlanned
  BY DEF Init, VerifiedIsPlanned
<1>2. ASSUME TypeInv, EvidenceInv, VerifiedIsPlanned, [Next]_vars
      PROVE  VerifiedIsPlanned'
  <2> USE DEF Goto, Return, ReturnOnFault
  <2>1. CASE InsertFirst \/ InsertNext
    BY <2>1 DEF InsertFirst, InsertNext, VerifiedIsPlanned
  <2>2. CASE RunPlanner
    BY <2>2 DEF RunPlanner, VerifiedIsPlanned
  <2>3. CASE MapPlan
    <3>1. CASE pc' = "save"
      <4>1. MappedLength(raw) = Len(raw) /\ candidate' = MapActions(raw)
        <5>1. PICK parse \in {"OK", "IO_ERROR", "PLANNER_NO_PLAN", "PLANNER_PARSE_ERROR"} :
                /\ candidate' = ParseAndMap(parse, raw, candidate).plan
                /\ ParseAndMap(parse, raw, candidate).status = "OK"
          BY <2>3, <3>1 DEF MapPlan
        <5>2. parse = "OK" /\ ~(MappedLength(raw) < Len(raw))
          BY <5>1 DEF ParseAndMap
        <5>3. raw \in Seq(Names)
          BY <1>2 DEF TypeInv, TypeOK
        <5>4. MappedLength(raw) \in 0..Len(raw) /\ Len(raw) \in Nat
          BY <5>3, MappedLengthType
        <5> QED
          BY <5>1, <5>2, <5>4 DEF ParseAndMap
      <4>2. raw' = raw /\ raw \in Seq(Names)
        BY <1>2, <2>3 DEF MapPlan, TypeInv, TypeOK
      <4> QED
        BY <4>1, <4>2, MapActionsExact DEF VerifiedIsPlanned
    <3>2. CASE pc' # "save"
      BY <2>3, <3>2 DEF MapPlan, VerifiedIsPlanned
    <3> QED
      BY <3>1, <3>2
  <2>4. CASE ~(InsertFirst \/ InsertNext \/ RunPlanner \/ MapPlan)
    <3>1. /\ raw' = raw /\ candidate' = candidate /\ store' = store
          /\ pc' \in {"save", "prepare", "solve", "judge", "insert",
                     "result", "finalplan", "cplan"} =>
               pc \in {"setup", "save", "prepare", "solve", "judge", "insert",
                      "result", "finalplan", "cplan"}
      BY <1>2, <2>4
         DEF Next, vars, Setup, PrepareCnf, RunKissat, Judge, BeginIteration,
             WriteRefined, ValidateRefined, WriteDomain, SaveCandidate,
             WriteResult, WriteFinalplan, WriteCPlan, WriteOutput
    <3>2. pc = "setup" => store = <<>>
      BY <1>2 DEF EvidenceInv, RoundsInv
    <3> QED
      BY <1>2, <3>1, <3>2 DEF VerifiedIsPlanned
  <2> QED
    BY <2>1, <2>2, <2>3, <2>4
<1> QED
  BY <1>1, <1>2, InitEvidence, NextEvidence, Types, PTL DEF Spec

\* A step of the mapper leaves no operator of an earlier round in the candidate,
\* whichever call of the parser failed (the clearing assignment before read_raw_plan).
THEOREM MapperStartsAfresh == Spec => NoStaleCandidate
<1>1. ASSUME [Next]_vars
      PROVE  [pc = "map" =>
                /\ candidate' \in {<<>>, MapActions(raw)}
                /\ status' \in {"PLANNER_PARSE_ERROR", "PLANNER_NO_PLAN"} => candidate' = <<>>]_vars
  <2>1. SUFFICES ASSUME Next, pc = "map"
                 PROVE  /\ candidate' \in {<<>>, MapActions(raw)}
                        /\ status' \in {"PLANNER_PARSE_ERROR", "PLANNER_NO_PLAN"} => candidate' = <<>>
    BY <1>1
  <2>2. MapPlan
    BY <2>1
       DEF Next, Setup, PrepareCnf, RunKissat, Judge, InsertFirst, InsertNext,
           BeginIteration, WriteRefined, ValidateRefined, WriteDomain, RunPlanner,
           SaveCandidate, WriteResult, WriteFinalplan, WriteCPlan, WriteOutput
  <2>3. PICK parse \in {"OK", "IO_ERROR", "PLANNER_NO_PLAN", "PLANNER_PARSE_ERROR"} :
          LET mapped == ParseAndMap(parse, raw, candidate)
          IN  /\ candidate' = mapped.plan
              /\ IF mapped.status = "OK" THEN Goto("save") ELSE Return(mapped.status)
    BY <2>2 DEF MapPlan
  <2>4. CASE parse = "OK"
    BY <2>3, <2>4 DEF ParseAndMap, Goto, Return
  <2>5. CASE parse # "OK"
    BY <2>3, <2>5 DEF ParseAndMap
  <2> QED
    BY <2>4, <2>5
<1> QED
  BY <1>1, PTL DEF Spec, NoStaleCandidate

-----------------------------------------------------------------------------
(* A planner that solves what it is given.                                  *)

\* Whatever the configured profile, what it denotes contains the stored worlds.
LEMMA StoredWorldsShown ==
  ASSUME NEW st \in Store, Stored(st) \subseteq Worlds, Mode # "single",
         Mode = "structured" => Stored(st) \subseteq Belief,
         RenderStatus(Profile, Mode, st) = "OK"
  PROVE  VisibleWorlds(st) \subseteq Projected(Profile, RenderForms(Profile, Mode, st))
<1>1. \A s \in Stored(st) : Certain(s)
  BY DEF Worlds
<1>2. Profile \in Profiles /\ Mode \in {"structured", "exact"}
  BY Configured DEF Configured
<1>3. CASE Mode = "exact"
  <2>1. Projected(Profile, RenderForms(Profile, Mode, st)) = Encoded(Mode, st)
    BY <1>1, <1>2, <1>3, ProfilesAreExact
  <2>2. Encoded(Mode, st) = VisibleWorlds(st)
    BY <1>3 DEF Encoded
  <2> QED
    BY <2>1, <2>2
<1>4. CASE Mode = "structured"
  <2> DEFINE S == Stored(st)
  <2>1. Profile = "T1"
    BY <1>4, Configured DEF Configured
  <2>2. Encoded(Mode, st) = Seen(S) /\ VisibleWorlds(st) = Seen(S)
    BY <1>4 DEF Encoded, VisibleWorlds, Seen
  <2>3. StructuredStatus(Seen(S)) = "OK" /\ RenderForms(Profile, Mode, st) = T1Forms(Seen(S))
    BY <1>4, <2>2 DEF RenderStatus, RenderForms
  <2>4. S \in SUBSET Belief
    BY <1>4
  <2> HIDE DEF S
  <2>5. \A s \in S : View(s) \in Projected("T1", T1Forms(Seen(S)))
    BY <2>3, <2>4, StructuredContains
  <2> QED
    BY <2>1, <2>2, <2>3, <2>5 DEF Seen
<1> QED
  BY <1>2, <1>3, <1>4

\* A validated store holds initial states.
LEMMA ValidatedIsBelief ==
  ASSUME NEW st \in Store, Stored(st) \subseteq Worlds, Mode # "single", NEW forms,
         ValidateStatus(Profile, Mode, forms, st) = "OK"
  PROVE  Stored(st) \subseteq Belief
<1>1. \A s \in Stored(st) : \A i \in DOMAIN Groups : GroupHolds(Groups[i], s)
  BY DEF ValidateStatus
<1> QED
  BY <1>1 DEF Belief, Worlds

LEMMA InitFresh == Init => ShownInv /\ FreshInv
BY DEF Init, ShownInv, FreshInv

\* A counterexample refutes the candidate, the candidate solves every stored state, so
\* the counterexample is new.
LEMMA NextFresh ==
  ASSUME Trusted, WriterTrusted
  PROVE  TypeInv /\ VerifierInv /\ EvidenceInv /\ ShownInv /\ FreshInv /\ [Next]_vars =>
           ShownInv' /\ FreshInv'
<1> SUFFICES ASSUME TypeInv, VerifierInv, EvidenceInv, ShownInv, FreshInv, [Next]_vars
             PROVE  ShownInv' /\ FreshInv'
  OBVIOUS
<1>t. /\ store \in Store /\ Stored(store) \subseteq Worlds
      /\ Mode # "single" /\ SoundPlanner
  BY DEF TypeInv, TypeOK, EvidenceInv, StoreIsEvidence, Stored, Trusted
<1>l. DuplicateLimit \in Nat /\ DuplicateLimit > 0
  BY Limits DEF Limits
\* A step that leaves the store and the candidate alone.
<1>f. ASSUME store' = store, streak' = streak, status' # "STAGNATION" PROVE FreshInv'
  BY <1>f DEF FreshInv
<1>r. ASSUME pc' \in {"begin", "write", "result", "finalplan", "cplan", "done"} PROVE ShownInv'
  BY <1>r DEF ShownInv
<1>c. ASSUME pc \in {"save", "prepare", "solve", "judge"},
             pc' \in {"prepare", "solve", "judge", "insert"}, store' = store, candidate' = candidate
      PROVE  ShownInv'
  BY <1>c DEF ShownInv, Stored
<1> USE DEF Goto, Return, ReturnOnFault
<1>1. CASE Setup
  <2>1. store = <<>>
    BY <1>1 DEF Setup, EvidenceInv, RoundsInv
  <2>2. Stored(store) = {}
    BY <2>1 DEF Stored
  <2>3. store' = store /\ candidate' = candidate /\ streak' = streak /\ status' # "STAGNATION"
        /\ pc' \in {"prepare", "done"}
    BY <1>1 DEF Setup
  <2>4. Stored(store)' = {}
    BY <2>2, <2>3 DEF Stored
  <2> QED
    BY <1>f, <1>r, <2>3, <2>4 DEF ShownInv
<1>2. CASE PrepareCnf
  BY <1>2, <1>f, <1>r, <1>c DEF PrepareCnf
<1>3. CASE RunKissat
  BY <1>3, <1>f, <1>c DEF RunKissat
<1>4. CASE Judge
  BY <1>4, <1>f, <1>r, <1>c DEF Judge, Judged
<1>5. CASE InsertFirst \/ InsertNext
  <2> DEFINE w == verifier.ce
  <2>1. pc = "insert" /\ w \in Worlds /\ ~Solves(candidate, w) /\ w \in States
    BY <1>5, WorldsAreStates DEF InsertFirst, InsertNext, VerifierInv
  <2>2. w \notin Stored(store)
    BY <2>1 DEF ShownInv
  <2>3. \E round : store' = Append(store, NewEntry(w, round))
    BY <1>5, <2>2 DEF InsertFirst, InsertNext, Insert
  <2>4. \A i \in DOMAIN store' : store'[i].freq = 1
    <3>1. PICK round : store' = Append(store, NewEntry(w, round))
      BY <2>3
    <3>2. NewEntry(w, round).freq = 1
      BY DEF NewEntry
    <3> HIDE DEF w
    <3>3. /\ Len(store) \in Nat /\ DOMAIN store = 1..Len(store)
          /\ DOMAIN store' = 1..(Len(store) + 1)
          /\ store'[Len(store) + 1] = NewEntry(w, round)
          /\ \A i \in 1..Len(store) : store'[i] = store[i]
      BY <1>t, <3>1 DEF Store
    <3> QED
      BY <3>2, <3>3 DEF FreshInv
  <2>5. CASE InsertFirst
    <3>1. streak' = streak /\ status' = "OK" /\ pc' = "begin"
      BY <2>5 DEF InsertFirst
    <3> QED
      BY <1>r, <2>4, <3>1 DEF FreshInv
  <2>6. CASE InsertNext
    <3>1. NextStreak(w) = 0
      BY <2>2 DEF NextStreak
    <3>2. Verdict(0) \in {"OK", "ITERATION_LIMIT"}
      BY <1>l DEF Verdict
    <3>3. streak' = 0 /\ status' # "STAGNATION" /\ pc' \in {"begin", "done"}
      BY <2>6, <3>1, <3>2 DEF InsertNext
    <3> QED
      BY <1>r, <2>4, <3>3 DEF FreshInv
  <2> QED
    BY <1>5, <2>5, <2>6
<1>6. CASE BeginIteration
  BY <1>6, <1>f, <1>r DEF BeginIteration
<1>7. CASE WriteRefined
  <2>1. store' = store /\ streak' = streak /\ pc' \in {"validate", "domain", "done"}
    BY <1>7 DEF WriteRefined
  <2>2. pc' # "done" => /\ RenderStatus(Profile, Mode, store) = "OK" /\ status' = "OK"
                        /\ refined' = Projected(Profile, RenderForms(Profile, Mode, store))
                        /\ pc' = IF BasicValidation THEN "validate" ELSE "domain"
    BY <1>7 DEF WriteRefined
  <2>3. status' # "STAGNATION"
    <3>1. RenderStatus(Profile, Mode, store) # "STAGNATION"
      BY RenderStatusType DEF WriterStatuses
    <3> QED
      BY <1>7, <3>1 DEF WriteRefined
  <2>4. CASE pc' = "domain"
    <3>1. Mode = "structured" => Stored(store) \subseteq Belief
      BY <1>t, <2>2, <2>4 DEF WriterTrusted
    <3>2. VisibleWorlds(store) \subseteq refined'
      BY <1>t, <2>2, <2>4, <3>1, StoredWorldsShown
    <3> QED
      BY <1>f, <2>1, <2>3, <2>4, <3>2 DEF ShownInv, VisibleWorlds, Stored
  <2>5. CASE pc' = "validate"
    BY <1>f, <2>1, <2>2, <2>3, <2>5 DEF ShownInv
  <2>6. CASE pc' = "done"
    BY <1>f, <1>r, <2>1, <2>3, <2>6
  <2> QED
    BY <2>1, <2>4, <2>5, <2>6
<1>8. CASE ValidateRefined
  <2> DEFINE st == ValidateStatus(Profile, Mode, RenderForms(Profile, Mode, store), store)
  <2>1. st \in {"OK", "UNSUPPORTED_INPUT", "BACKEND_ERROR"}
    BY DEF ValidateStatus
  <2>2. store' = store /\ streak' = streak /\ refined' = refined /\ pc = "validate"
        /\ IF st = "OK" THEN Goto("domain") ELSE Return(st)
    BY <1>8 DEF ValidateRefined
  <2>3. CASE st = "OK"
    <3>1. Stored(store) \subseteq Belief
      BY <1>t, <2>3, ValidatedIsBelief
    <3>2. VisibleWorlds(store) \subseteq refined
      BY <1>t, <2>2, <3>1, StoredWorldsShown DEF ShownInv
    <3> HIDE DEF st
    <3> QED
      BY <1>f, <2>2, <2>3, <3>2 DEF ShownInv, VisibleWorlds, Stored
  <2>4. CASE st # "OK"
    <3> HIDE DEF st
    <3> QED
      BY <1>f, <1>r, <2>1, <2>2, <2>4
  <2> QED
    BY <2>3, <2>4
<1>9. CASE WriteDomain
  <2>1. store' = store /\ streak' = streak /\ refined' = refined /\ pc = "domain"
        /\ pc' \in {"run", "done"} /\ status' # "STAGNATION"
    BY <1>9 DEF WriteDomain
  <2> QED
    BY <1>f, <1>r, <2>1 DEF ShownInv, VisibleWorlds, Stored
<1>10. CASE RunPlanner
  <2>1. store' = store /\ streak' = streak /\ pc = "run" /\ status' # "STAGNATION"
        /\ pc' \in {"map", "done"}
    BY <1>10 DEF RunPlanner
  <2>2. CASE pc' = "map"
    <3>1. SoundFor(raw')
      BY <1>t, <1>10, <2>2 DEF RunPlanner
    <3>2. ASSUME NEW s \in Stored(store) PROVE Solves(MapActions(raw'), s)
      <4>1. View(s) \in refined
        BY <2>1 DEF ShownInv, VisibleWorlds
      <4> QED
        BY <1>t, <3>1, <4>1 DEF SoundFor
    <3>3. Stored(store)' = Stored(store)
      BY <2>1 DEF Stored
    <3> QED
      BY <1>f, <2>1, <2>2, <3>2, <3>3 DEF ShownInv
  <2>3. CASE pc' = "done"
    BY <1>f, <1>r, <2>1, <2>3
  <2> QED
    BY <2>1, <2>2, <2>3
<1>11. CASE MapPlan
  <2>1. PICK parse \in {"OK", "IO_ERROR", "PLANNER_NO_PLAN", "PLANNER_PARSE_ERROR"} :
          LET mapped == ParseAndMap(parse, raw, candidate)
          IN  /\ candidate' = mapped.plan
              /\ IF mapped.status = "OK" THEN Goto("save") ELSE Return(mapped.status)
    BY <1>11 DEF MapPlan
  <2>2. store' = store /\ streak' = streak /\ pc = "map"
    BY <1>11 DEF MapPlan
  <2>3. CASE ParseAndMap(parse, raw, candidate).status = "OK"
    <3>1. parse = "OK" /\ candidate' = MapActions(raw) /\ pc' = "save" /\ status' = "OK"
      BY <2>1, <2>3 DEF ParseAndMap
    <3>2. Stored(store)' = Stored(store)
      BY <2>2 DEF Stored
    <3> QED
      BY <1>f, <2>2, <3>1, <3>2 DEF ShownInv
  <2>4. CASE ParseAndMap(parse, raw, candidate).status # "OK"
    <3>1. ParseAndMap(parse, raw, candidate).status # "STAGNATION"
      BY <2>1 DEF ParseAndMap
    <3> QED
      BY <1>f, <1>r, <2>1, <2>2, <2>4, <3>1
  <2> QED
    BY <2>3, <2>4
<1>12. CASE SaveCandidate
  BY <1>12, <1>f, <1>r, <1>c DEF SaveCandidate
<1>13. CASE WriteResult \/ WriteFinalplan \/ WriteCPlan
  BY <1>13, <1>f, <1>r DEF WriteResult, WriteFinalplan, WriteCPlan, WriteOutput
<1>14. CASE UNCHANGED vars
  BY <1>14 DEF vars, ShownInv, FreshInv, VisibleWorlds, Stored
<1> QED
  BY <1>1, <1>2, <1>3, <1>4, <1>5, <1>6, <1>7, <1>8, <1>9, <1>10, <1>11, <1>12,
     <1>13, <1>14 DEF Next

\* Distinct initial states: no more than there are.
LEMMA StoreIsBounded ==
  ASSUME NEW st \in Store, IsFiniteSet(Worlds), Distinct(st), Stored(st) \subseteq Worlds
  PROVE  Len(st) <= Cardinality(Worlds)
<1>1. Len(st) \in Nat /\ DOMAIN st = 1..Len(st)
  BY DEF Store
<1> DEFINE image == [i \in 1..Len(st) |-> st[i].state]
<1>2. image \in [1..Len(st) -> Stored(st)] /\ \A i, j \in 1..Len(st) : image[i] = image[j] => i = j
  BY <1>1 DEF Stored, Distinct
<1>3. image \in Surjection(1..Len(st), Stored(st))
  BY <1>1 DEF Surjection, Stored
<1> HIDE DEF image
<1>4. image \in Injection(1..Len(st), Stored(st))
  BY <1>2 DEF Injection, IsInjective
<1>5. IsFiniteSet(1..Len(st)) /\ Cardinality(1..Len(st)) = Len(st)
  <2>1. \A n \in Nat : IsFiniteSet(1..n) /\ Cardinality(1..n) = IF 1 > n THEN 0 ELSE n - 1 + 1
    BY FS_Interval
  <2>2. \A n \in Nat : Cardinality(1..n) = n
    BY <2>1
  <2> QED
    BY <1>1, <2>1, <2>2
<1>6. Cardinality(Stored(st)) = Cardinality(1..Len(st))
  BY <1>3, <1>4, <1>5, FS_Surjection
<1>7. Cardinality(Stored(st)) <= Cardinality(Worlds)
  BY FS_Subset
<1> QED
  BY <1>5, <1>6, <1>7

\* A planner that solves every world it is given is never shown the same counterexample
\* twice, whatever the profile, the limits and the faults: run_cegis_loop stores the
\* counterexample, and what is written next contains every stored world.
THEOREM SoundRunsNeverRepeat ==
  ASSUME IsFiniteSet(Worlds), WriterTrusted
  PROVE  Spec => []SoundRunNeverRepeats
<1>1. CASE Trusted
  <2>1. TypeInv /\ EvidenceInv /\ FreshInv => SoundRunNeverRepeats
    <3> SUFFICES ASSUME TypeInv, EvidenceInv, FreshInv PROVE SoundRunNeverRepeats
      OBVIOUS
    <3>1. store \in Store /\ Distinct(store) /\ Stored(store) \subseteq Worlds
      BY DEF TypeInv, TypeOK, EvidenceInv, StoreIsEvidence, Distinct, Stored
    <3>2. Len(store) <= Cardinality(Worlds)
      BY <3>1, StoreIsBounded
    <3> QED
      BY <3>2 DEF FreshInv, SoundRunNeverRepeats
  <2>2. TypeInv /\ VerifierInv /\ EvidenceInv /\ ShownInv /\ FreshInv /\ [Next]_vars =>
           ShownInv' /\ FreshInv'
    BY <1>1, NextFresh
  <2> QED
    BY <2>1, <2>2, InitFresh, InitEvidence, NextEvidence, Types, PTL DEF Spec
<1>2. CASE ~Trusted
  <2>1. SoundRunNeverRepeats
    BY <1>2 DEF Trusted, SoundRunNeverRepeats
  <2> QED
    BY <2>1, PTL
<1> QED
  BY <1>1, <1>2

-----------------------------------------------------------------------------
(* The loop implements the abstract learner.                                *)

LEMMA InitPlans == Init => PlansInv
BY DEF Init, PlansInv, CandidatePlans

LEMMA NextPlans == PlansInv /\ [Next]_vars => PlansInv'
<1> SUFFICES ASSUME PlansInv, [Next]_vars PROVE PlansInv'
  OBVIOUS
<1>1. CASE RunPlanner
  BY <1>1 DEF RunPlanner, PlansInv, CandidatePlans, Goto, Return, ReturnOnFault
<1>2. CASE MapPlan
  <2>1. candidate' \in {<<>>, MapActions(raw)}
    BY <1>2 DEF MapPlan, ParseAndMap
  <2>2. pc' # "map"
    BY <1>2 DEF MapPlan, ParseAndMap, Goto, Return
  <2> QED
    BY <1>2, <2>1, <2>2 DEF MapPlan, PlansInv, CandidatePlans
<1>3. CASE ~RunPlanner /\ ~MapPlan
  <2>1. candidate' = candidate /\ (pc' = "map" => pc = "map" /\ raw' = raw)
    BY <1>3
       DEF Next, vars, Setup, PrepareCnf, RunKissat, Judge, InsertFirst, InsertNext,
           BeginIteration, WriteRefined, ValidateRefined, WriteDomain, SaveCandidate,
           WriteResult, WriteFinalplan, WriteCPlan, WriteOutput,
           Goto, Return, ReturnOnFault
  <2> QED
    BY <2>1 DEF PlansInv, CandidatePlans
<1> QED
  BY <1>1, <1>2, <1>3

LEMMA InitLearner == Init => Abstract!Init
BY DEF Init, Abstract!Init, Stored

\* Every step is Learn, Accept or GiveUp, or the learner does not see it.
LEMMA NextLearner ==
  ASSUME ~SolverMayGiveUp
  PROVE  TypeInv /\ VerifierInv /\ OutputsInv /\ PlansInv /\ (Trusted => ShownInv) /\ [Next]_vars =>
           [Abstract!Next]_Abstract!vars
<1> SUFFICES ASSUME TypeInv, VerifierInv, OutputsInv, PlansInv, Trusted => ShownInv, [Next]_vars
             PROVE  [Abstract!Next]_Abstract!vars
  OBVIOUS
<1> DEFINE accepted == IF status = "VALID" THEN {candidate} ELSE {}
<1>t. /\ status \in IF pc = "done" THEN Failures \cup {"VALID"} ELSE {"OK"}
      /\ store \in Store
  BY DEF TypeInv, TypeOK
<1>a. pc # "done" => status = "OK" /\ accepted = {}
  BY <1>t
\* A step of the loop that goes on without touching the store is not seen.
<1>s. ASSUME pc # "done", pc' # "done", store' = store, status' = "OK"
      PROVE  UNCHANGED Abstract!vars
  <2>1. Stored(store') = Stored(store)
    BY <1>s
  <2> QED
    BY <1>s, <1>a, <2>1 DEF Abstract!vars, Stored
\* A return with a failure is GiveUp.
<1>r. ASSUME pc # "done", pc' = "done", store' = store, status' # "VALID"
      PROVE  Abstract!GiveUp
  <2>1. Stored(store') = Stored(store)
    BY <1>r
  <2> QED
    BY <1>r, <1>a, <2>1 DEF Abstract!GiveUp, Stored
<1>n. Abstract!GiveUp => Abstract!Next
  BY DEF Abstract!Next
<1> USE DEF Goto, Return, ReturnOnFault
<1>1. CASE Setup
  BY <1>1, <1>n, <1>r, <1>s DEF Setup
<1>2. CASE PrepareCnf
  BY <1>2, <1>n, <1>r, <1>s DEF PrepareCnf
<1>3. CASE RunKissat
  BY <1>3, <1>s DEF RunKissat
<1>4. CASE Judge
  BY <1>4, <1>n, <1>r, <1>s DEF Judge
<1>5. CASE InsertFirst \/ InsertNext
  <2> DEFINE w == verifier.ce
  <2>1. /\ pc = "insert" /\ candidate' = candidate
        /\ w \in Worlds /\ ~Solves(candidate, w)
    BY <1>5 DEF InsertFirst, InsertNext, VerifierInv
  <2>2. PICK round \in Nat : store' = Insert(store, w, round)
    <3>1. iteration + 1 \in Nat
      BY DEF TypeInv, TypeOK
    <3> QED
      BY <1>5, <3>1 DEF InsertFirst, InsertNext
  <2>3. Stored(store') = Stored(store) \cup {w}
    BY <1>t, <2>1, <2>2, InsertStored, WorldsAreStates
  <2>4. status' # "VALID"
    BY <1>5 DEF InsertFirst, InsertNext, Verdict
  <2>5. accepted = {} /\ accepted' = {} /\ pc # "done"
    BY <1>a, <2>1, <2>4
  <2>6. CASE w \notin Stored(store)
    <3>1. candidate \in CandidatePlans
      BY DEF PlansInv
    <3>2. (pc' = "done") \in BOOLEAN
      OBVIOUS
    <3>3. Trusted => \A v \in Stored(store) : Solves(candidate, v)
      BY <2>1 DEF ShownInv
    <3>4. Abstract!Learn
      BY <2>1, <2>3, <2>5, <2>6, <3>1, <3>2, <3>3 DEF Abstract!Learn, Trusted
    <3> QED
      BY <3>4 DEF Abstract!Next
  <2>7. CASE w \in Stored(store)
    <3>1. Stored(store') = Stored(store)
      BY <2>3, <2>7
    <3>2. CASE pc' = "done"
      <4>1. Abstract!GiveUp
        BY <2>5, <3>1, <3>2 DEF Abstract!GiveUp
      <4> QED
        BY <4>1, <1>n
    <3>3. CASE pc' # "done"
      BY <2>5, <3>1, <3>3 DEF Abstract!vars
    <3> QED
      BY <3>2, <3>3
  <2> QED
    BY <2>6, <2>7
<1>7. CASE BeginIteration
  BY <1>7, <1>n, <1>r, <1>s DEF BeginIteration
<1>8. CASE WriteRefined
  <2>1. RenderStatus(Profile, Mode, store) # "VALID"
    BY RenderStatusType DEF WriterStatuses
  <2> QED
    BY <1>8, <2>1, <1>n, <1>r, <1>s DEF WriteRefined
<1>9. CASE ValidateRefined
  <2>1. ValidateStatus(Profile, Mode, RenderForms(Profile, Mode, store), store) # "VALID"
    BY DEF ValidateStatus
  <2> QED
    BY <1>9, <2>1, <1>n, <1>r, <1>s DEF ValidateRefined
<1>10. CASE WriteDomain
  BY <1>10, <1>n, <1>r, <1>s DEF WriteDomain
<1>11. CASE RunPlanner
  BY <1>11, <1>n, <1>r, <1>s DEF RunPlanner
<1>12. CASE MapPlan
  <2>1. PICK parse \in {"OK", "IO_ERROR", "PLANNER_NO_PLAN", "PLANNER_PARSE_ERROR"} :
          LET mapped == ParseAndMap(parse, raw, candidate)
          IN  IF mapped.status = "OK" THEN Goto("save") ELSE Return(mapped.status)
    BY <1>12 DEF MapPlan
  <2>2. ParseAndMap(parse, raw, candidate).status # "VALID"
    BY <2>1 DEF ParseAndMap
  <2> QED
    BY <1>12, <2>1, <2>2, <1>n, <1>r, <1>s DEF MapPlan
<1>13. CASE SaveCandidate
  BY <1>13, <1>n, <1>r, <1>s DEF SaveCandidate
<1>14. CASE WriteResult
  BY <1>14, <1>n, <1>r, <1>s DEF WriteResult, WriteOutput
<1>15. CASE WriteFinalplan
  BY <1>15, <1>n, <1>r, <1>s DEF WriteFinalplan, WriteOutput
<1>16. CASE WriteCPlan
  <2>1. CASE status' = "VALID"
    <3>1. /\ pc = "cplan" /\ pc' = "done" /\ store' = store /\ candidate' = candidate
      BY <1>16, <2>1, <1>a DEF WriteCPlan, WriteOutput
    <3>2. Conformant(candidate) /\ candidate \in CandidatePlans
      BY <3>1 DEF OutputsInv, PlansInv
    <3>3. Abstract!Conformant(candidate)
      BY <3>2 DEF Conformant, Abstract!Conformant
    <3>4. accepted' = {candidate} /\ Stored(store') = Stored(store)
      BY <2>1, <3>1 DEF Stored
    <3>5. Abstract!Accept
      BY <3>1, <3>2, <3>3, <3>4 DEF Abstract!Accept
    <3> QED
      BY <3>5 DEF Abstract!Next
  <2>2. CASE status' # "VALID"
    BY <1>16, <2>2, <1>n, <1>r DEF WriteCPlan, WriteOutput
  <2> QED
    BY <2>1, <2>2
<1>17. CASE UNCHANGED vars
  BY <1>17 DEF vars, Abstract!vars, Stored
<1> QED
  BY <1>1, <1>2, <1>3, <1>4, <1>5, <1>7, <1>8, <1>9, <1>10, <1>11, <1>12,
     <1>13, <1>14, <1>15, <1>16, <1>17 DEF Next

\* Whatever the planner prints, the loop only ever learns initial states that
\* refute a plan, accepts one plan that works from all of them, or gives up; with
\* a planner that solves what it is given, every plan that is refuted works from all
\* that was learnt before.
THEOREM LoopImplementsLearner ==
  ASSUME ~SolverMayGiveUp, Trusted => WriterTrusted
  PROVE  Spec => ImplementsLearner
<1>1. TypeInv /\ VerifierInv /\ OutputsInv /\ [Next]_vars => OutputsInv'
  BY NextOutputs
<1>2. TypeInv /\ VerifierInv /\ OutputsInv /\ PlansInv /\ (Trusted => ShownInv) /\ [Next]_vars =>
        [Abstract!Next]_Abstract!vars
  BY NextLearner
<1>3. CASE Trusted
  <2>1. TypeInv /\ VerifierInv /\ EvidenceInv /\ ShownInv /\ FreshInv /\ [Next]_vars =>
          ShownInv' /\ FreshInv'
    BY <1>3, NextFresh
  <2>2. ShownInv => (Trusted => ShownInv)
    OBVIOUS
  <2> QED
    BY <1>1, <1>2, <2>1, <2>2, InitOutputs, InitPlans, NextPlans, InitLearner, InitFresh, InitEvidence,
       NextEvidence, Types, PTL
       DEF Spec, ImplementsLearner, Abstract!Spec
<1>4. CASE ~Trusted
  <2>1. Trusted => ShownInv
    BY <1>4
  <2> QED
    BY <1>1, <1>2, <2>1, InitOutputs, InitPlans, NextPlans, InitLearner, Types, PTL
       DEF Spec, ImplementsLearner, Abstract!Spec
<1> QED
  BY <1>3, <1>4
==============================================================================
