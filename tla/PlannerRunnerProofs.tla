------------------------- MODULE PlannerRunnerProofs -------------------------
(***************************************************************************)
(* What holds of PlannerRunner for every set of processes, every bound on  *)
(* the rounds and every behaviour of the planners.                         *)
(***************************************************************************)
EXTENDS PlannerRunner, TLAPS

What == Whole \cup {"absent", "empty", "cut"}

\* A call is under way, or its planner is.
Underway(r) == run[r].pc \notin {"idle", "over"} \/ group[r].state = "running"

Rounds ==
  \A r \in Runs : /\ run[r].pc = "idle" => run[r].round < MaxRounds
                  /\ Underway(r) => run[r].round # 0

LEMMA NoFileType == NoFile \in Content
BY DEF NoFile, Content

LEMMA CurrentCall ==
  ASSUME NEW r \in Runs, TypeOK, Rounds, Underway(r)
  PROVE  Current(r) \in Calls /\ Command(r) \in Calls \X {1, 2}
<1>1. run[r] \in Runners
  BY DEF TypeOK
<1>2. run[r].round \in 1..MaxRounds /\ run[r].command \in {1, 2}
  BY <1>1, RunnerSetup DEF Runners, Rounds
<1> QED
  BY <1>2 DEF Current, Command, Calls

LEMMA AtLocated ==
  ASSUME NEW c \in Calls, NEW f \in FileNames
  PROVE  At(c, f) \in Locations
BY DEF At, Locations

LEMMA PutType ==
  ASSUME files \in [Locations -> Content], NEW l \in Locations,
         NEW a \in Calls \cup {Nobody}, NEW w \in What
  PROVE  Put(l, a, w) \in [Locations -> Content]
BY DEF Put, Content, What

LEMMA RemovedType ==
  ASSUME files \in [Locations -> Content], NEW c, NEW names
  PROVE  Removed(c, names) \in [Locations -> Content]
BY NoFileType DEF Removed

LEMMA GaveType ==
  ASSUME NEW e \in Statuses \cup {"MORE"}
  PROVE  Gave(e).status \in Statuses \cup {"MORE"} /\ Gave(e).basis \in Content
BY NoFileType DEF Gave, Said

LEMMA ReadingType ==
  ASSUME NEW c \in Content, NEW plans
  PROVE  Reading(plans, c).status \in {"OK", "PLANNER_NO_PLAN", "PLANNER_PARSE_ERROR"} /\ Reading(plans, c).basis = c
BY DEF Reading, Said

\* An answer has a status, or asks for a second command, and rests on a
\* content.
IsAnswer(a) == a.status \in Statuses \cup {"MORE"} /\ a.basis \in Content

LEMMA GaveIsAnswer ==
  ASSUME NEW e \in Statuses \cup {"MORE"}
  PROVE  IsAnswer(Gave(e))
BY GaveType DEF IsAnswer

LEMMA ReadingIsAnswer ==
  ASSUME NEW c \in Content, NEW plans
  PROVE  IsAnswer(Reading(plans, c))
BY ReadingType DEF IsAnswer, Statuses, Outcomes

LEMMA AnswerType ==
  ASSUME NEW r \in Runs, TypeOK, Current(r) \in Calls
  PROVE  IsAnswer(Answer(r))
<1> DEFINE v == View(Current(r))
           st == run[r].outcome
<1>1. \A f \in FileNames : v[f] \in Content
  BY AtLocated DEF View, TypeOK
<1>2. v["artifact"] \in Content /\ v["second"] \in Content /\ v["stdout"] \in Content /\ v["recovered"] \in Content
  BY <1>1 DEF FileNames
<1>3. st \in Statuses
  <2>1. run[r] \in Runners
    BY DEF TypeOK
  <2> QED
    BY <2>1 DEF Runners, Statuses, Outcomes
<1>4. kind \in AllKinds
  BY RunnerSetup DEF TypeOK
<1>5. IsAnswer(Gave("PLANNER_PARSE_ERROR")) /\ IsAnswer(Gave("MORE")) /\ IsAnswer(Gave(st))
  BY <1>3, GaveIsAnswer DEF Statuses, Outcomes
<1>6. /\ \A plans : IsAnswer(Reading(plans, v["artifact"])) /\ IsAnswer(Reading(plans, v["stdout"]))
      /\ \A plans : IsAnswer(Reading(plans, v["second"])) /\ IsAnswer(Reading(plans, v["recovered"]))
  BY <1>2, ReadingIsAnswer
<1>7. IsAnswer(Said("OK", v["stdout"]))
  BY <1>2 DEF IsAnswer, Said, Statuses, Outcomes
<1> HIDE DEF v, st
<1>8. IsAnswer(T1Answer(v, st))
  BY <1>5, <1>6 DEF T1Answer, Unparsed
<1>9. IsAnswer(CffAnswer(v, st))
  BY <1>5, <1>6 DEF CffAnswer, Console
<1>10. IsAnswer(GcFrontendAnswer(st))
  BY <1>5 DEF GcFrontendAnswer
<1>11. IsAnswer(FinalPlan(v))
  BY <1>5, <1>6, <1>7 DEF FinalPlan, Listed
<1>12. IsAnswer(GcSearchAnswer(v, st))
  BY <1>5, <1>6, <1>11 DEF GcSearchAnswer, Counted, Console
<1>13. IsAnswer(CpcesAnswer(v, st))
  BY <1>5, <1>6 DEF CpcesAnswer, Counted, Listed
<1>14. IsAnswer(CpahAnswer(v, st))
  BY <1>5, <1>6 DEF CpahAnswer, Counted
<1>15. IsAnswer(CpaAnswer(v, st))
  BY <1>5, <1>6 DEF CpaAnswer, Console
<1>16. IsAnswer(RecoveryAnswer(v, st))
  BY <1>5, <1>6 DEF RecoveryAnswer, Console
<1> QED
  BY <1>4, <1>8, <1>9, <1>10, <1>12, <1>13, <1>14, <1>15, <1>16 DEF Answer, AllKinds, v, st

LEMMA RefusalsType ==
  ASSUME NEW r \in Runs
  PROVE  Refusals(r) \subseteq Statuses
BY DEF Refusals, Statuses, Outcomes

-----------------------------------------------------------------------------
(* Types, the numbering of calls and one command at a time.                 *)

Ordered == TypeOK /\ Rounds /\ OneCommandAtATime

LEMMA InitOrdered == Init => Ordered
<1> SUFFICES ASSUME Init PROVE Ordered
  OBVIOUS
<1>1. NoFile \in Content /\ Leftover \in Content
  BY DEF NoFile, Leftover, Content, Whole
<1>2. NotRun \in Runners
  BY RunnerSetup, <1>1 DEF NotRun, Runners, Statuses, Outcomes
<1>3. Group("exited", {}) \in Groups
  BY DEF Group, Groups
<1>4. TypeOK
  BY <1>1, <1>2, <1>3 DEF Init, TypeOK
<1>5. Rounds /\ OneCommandAtATime
  BY RunnerSetup DEF Init, NotRun, Group, Rounds, Underway, OneCommandAtATime
<1> QED
  BY <1>4, <1>5 DEF Ordered

\* A group that Group makes.
LEMMA GroupType ==
  ASSUME NEW state \in {"running", "exited", "failed", "killed"}, NEW stages \in SUBSET DOMAIN Earlier
  PROVE  Group(state, stages) \in Groups /\ Group(state, stages).state = state
BY DEF Group, Groups

LEMMA StagesType ==
  ASSUME NEW command
  PROVE  Stages(command) \in SUBSET DOMAIN Earlier
BY DEF Stages, Earlier

\* A step of a planner is a step of a running group, and changes nothing of
\* the runners.
LEMMA PlannerSteps ==
  ASSUME NEW r \in Runs, Planner(r)
  PROVE  group[r].state = "running" /\ UNCHANGED <<kind, run>>
BY DEF Planner, OpenConsole, TakeLock, RemoveOld, Translate, TestOutput, Solve, StartPrinting,
       EndPrinting, Exit, Fail, Doing

LEMMA PlannerTyped ==
  ASSUME NEW r \in Runs, Ordered, Planner(r)
  PROVE  /\ \E g \in Groups : group' = [group EXCEPT ![r] = g]
         /\ files' \in [Locations -> Content]
         /\ lock' \in Runs \cup {Nobody}
         /\ strays' \subseteq Strays
<1>1. group[r].state = "running" /\ UNCHANGED <<kind, run>>
  BY PlannerSteps
<1>3. group[r] \in Groups /\ Current(r) \in Calls /\ Command(r) \in Calls \X {1, 2}
  BY <1>1, CurrentCall DEF Ordered, TypeOK, Underway
<1>4. /\ group[r].stages \in SUBSET DOMAIN Earlier /\ group[r].input \in Calls \cup {Nobody}
      /\ group[r].todo \in SUBSET FileNames /\ group[r].writing \in FileNames \cup {"nothing"}
  BY <1>3 DEF Groups
<1>6. files \in [Locations -> Content] /\ lock \in Runs \cup {Nobody} /\ strays \subseteq Strays
  BY DEF Ordered, TypeOK
<1>7. Release(r) => lock' \in Runs \cup {Nobody}
  BY <1>6 DEF Release
<1>8. Leaves(r) => strays' \subseteq Strays
  <2> SUFFICES ASSUME NEW f \in group[r].todo
               PROVE  [by |-> Command(r), at |-> At(Current(r), f), of |-> group[r].input] \in Strays
    BY <1>6 DEF Leaves
  <2>1. At(Current(r), f) \in Locations
    BY <1>3, <1>4, AtLocated
  <2> QED
    BY <2>1, <1>3, <1>4 DEF Strays
<1>9. \A stage \in DOMAIN Earlier : Done(r, stage) => \E g \in Groups : group' = [group EXCEPT ![r] = g]
  <2> SUFFICES ASSUME NEW stage \in DOMAIN Earlier, Done(r, stage)
               PROVE  \E g \in Groups : group' = [group EXCEPT ![r] = g]
    OBVIOUS
  <2> DEFINE g == [group[r] EXCEPT !.stages = @ \ {stage}]
  <2>1. g \in Groups
    BY <1>3, <1>4 DEF Groups
  <2>2. group' = [group EXCEPT ![r] = g]
    BY DEF Done
  <2> QED
    BY <2>1, <2>2
<1>10. CASE OpenConsole(r)
  <2>1. Put(At(Current(r), "stdout"), Current(r), "empty") \in [Locations -> Content]
    BY <1>3, <1>6, AtLocated, PutType DEF FileNames, What
  <2> QED
    BY <1>6, <1>9, <1>10, <2>1 DEF OpenConsole, Earlier
<1>11. CASE TakeLock(r)
  BY <1>6, <1>9, <1>11 DEF TakeLock, Earlier
<1>12. CASE RemoveOld(r)
  BY <1>6, <1>9, <1>12, RemovedType DEF RemoveOld, Earlier
<1>13. CASE Translate(r)
  <2>1. Put(At(Current(r), "mid"), Current(r), "junk") \in [Locations -> Content]
    BY <1>3, <1>6, AtLocated, PutType DEF FileNames, What, Whole
  <2> QED
    BY <1>6, <1>9, <1>13, <2>1 DEF Translate, Earlier
<1>14. CASE TestOutput(r)
  <2>1. Group("failed", {}) \in Groups
    BY GroupType
  <2> QED
    BY <1>6, <1>7, <1>9, <1>14, <2>1 DEF TestOutput, Earlier
<1>15. CASE Solve(r)
  <2> DEFINE mid == files[At(Current(r), "mid")]
             direct == kind \in {"CFF", "GCPCES"}
             g == [group[r] EXCEPT !.stages = {}, !.input = IF direct THEN Current(r) ELSE mid.of,
                                   !.todo = IF direct \/ Readable(mid) THEN Printed(run[r].command) ELSE {}]
  <2>1. mid \in Content
    BY <1>3, <1>6, AtLocated DEF FileNames
  <2>2. mid.of \in Calls \cup {Nobody}
    BY <2>1 DEF Content
  <2>3. Printed(run[r].command) \subseteq FileNames
    BY DEF Printed, FileNames
  <2>4. g \in Groups
    BY <1>3, <1>4, <2>2, <2>3 DEF Groups
  <2>5. group' = [group EXCEPT ![r] = g]
    BY <1>15 DEF Solve
  <2> QED
    BY <1>6, <1>15, <2>4, <2>5 DEF Solve
<1>16. CASE StartPrinting(r)
  <2>1. PICK f \in group[r].todo, what \in {"empty", "cut"} :
          /\ group' = [group EXCEPT ![r].writing = f, ![r].todo = @ \ {f}]
          /\ files' = Put(At(Current(r), f), group[r].input, what)
    BY <1>16 DEF StartPrinting
  <2> DEFINE g == [group[r] EXCEPT !.writing = f, !.todo = @ \ {f}]
  <2>2. g \in Groups /\ group' = [group EXCEPT ![r] = g]
    BY <1>3, <1>4, <2>1 DEF Groups
  <2>3. files' \in [Locations -> Content]
    BY <1>3, <1>4, <1>6, <2>1, AtLocated, PutType DEF What
  <2> QED
    BY <1>6, <1>16, <2>2, <2>3 DEF StartPrinting
<1>17. CASE EndPrinting(r)
  <2> DEFINE g == [group[r] EXCEPT !.writing = "nothing"]
  <2>1. g \in Groups /\ group' = [group EXCEPT ![r] = g]
    BY <1>3, <1>4, <1>17 DEF Groups, EndPrinting
  <2>2. Printable \subseteq What
    BY RunnerSetup DEF Printable, What
  <2>3. PICK what \in Printable : files' = Put(At(Current(r), group[r].writing), group[r].input, what)
    BY <1>17 DEF EndPrinting
  <2>4. group[r].writing \in FileNames
    BY <1>4, <1>17 DEF EndPrinting
  <2>5. At(Current(r), group[r].writing) \in Locations
    BY <1>3, <2>4, AtLocated
  <2>6. files' \in [Locations -> Content]
    BY <1>4, <1>6, <2>2, <2>3, <2>5, PutType
  <2> QED
    BY <1>6, <1>17, <2>1, <2>6 DEF EndPrinting
<1>18. CASE Exit(r)
  <2>1. Group("exited", {}) \in Groups
    BY GroupType
  <2> QED
    BY <1>6, <1>7, <1>8, <1>18, <2>1 DEF Exit
<1>19. CASE Fail(r)
  <2>1. Group("failed", {}) \in Groups
    BY GroupType
  <2> QED
    BY <1>6, <1>7, <1>8, <1>19, <2>1 DEF Fail
<1> QED
  BY <1>10, <1>11, <1>12, <1>13, <1>14, <1>15, <1>16, <1>17, <1>18, <1>19 DEF Planner

LEMMA PlannerOrdered ==
  ASSUME NEW r \in Runs, Ordered, Planner(r)
  PROVE  Ordered'
<1>1. group[r].state = "running" /\ UNCHANGED <<kind, run>>
  BY PlannerSteps
<1>2. PICK g \in Groups : group' = [group EXCEPT ![r] = g]
  BY PlannerTyped
<1>3. TypeOK'
  BY <1>1, <1>2, PlannerTyped DEF Ordered, TypeOK
<1>4. \A s \in Runs : group[s]' # group[s] => s = r
  BY <1>2 DEF Ordered, TypeOK
<1>5. Rounds' /\ OneCommandAtATime'
  BY <1>1, <1>4 DEF Ordered, Rounds, Underway, OneCommandAtATime
<1> QED
  BY <1>3, <1>5 DEF Ordered

\* A step that gives the runner of r another state.
Moves(r, x) == x \in Runners /\ run' = [run EXCEPT ![r] = x]

LEMMA MoveRunner ==
  ASSUME NEW r \in Runs, TypeOK, NEW x, Moves(r, x)
  PROVE  /\ run' \in [Runs -> Runners]
         /\ run'[r] = x
         /\ \A s \in Runs \ {r} : run'[s] = run[s]
BY DEF TypeOK, Moves

\* Such a step keeps the order when it changes nothing of the groups, and
\* starts waiting only if it has.
LEMMA QuietMove ==
  ASSUME NEW r \in Runs, Ordered, NEW x, Moves(r, x),
         UNCHANGED <<kind, group, lock>>,
         files' \in [Locations -> Content], strays' \subseteq Strays,
         x.pc = "idle" => x.round < MaxRounds,
         x.pc \notin {"idle", "over"} => x.round # 0,
         group[r].state = "running" => x.pc \in {"wait", "term", "over"} /\ x.round = run[r].round
  PROVE  Ordered'
<1>1. /\ run' \in [Runs -> Runners] /\ run'[r] = x
      /\ \A s \in Runs \ {r} : run'[s] = run[s]
  BY MoveRunner DEF Ordered
<1>2. TypeOK'
  BY <1>1 DEF Ordered, TypeOK
<1>3. Rounds'
  BY <1>1 DEF Ordered, Rounds, Underway
<1>4. OneCommandAtATime'
  BY <1>1 DEF Ordered, OneCommandAtATime
<1> QED
  BY <1>2, <1>3, <1>4 DEF Ordered

LEMMA RunnerOrdered ==
  ASSUME NEW r \in Runs, Ordered, Runner(r) \/ Begin(r) \/ Finish(r) \/ Die(r)
  PROVE  Ordered'
<1>1. run[r] \in Runners /\ run \in [Runs -> Runners] /\ group \in [Runs -> Groups]
  BY DEF Ordered, TypeOK
<1>2. /\ run[r].pc \in {"idle", "fork", "wait", "term", "read", "publish", "returned", "over"}
      /\ run[r].round \in 0..MaxRounds /\ run[r].command \in {1, 2} /\ run[r].late \in BOOLEAN
      /\ run[r].outcome \in Outcomes /\ run[r].status \in Statuses /\ run[r].basis \in Content
  BY <1>1 DEF Runners
<1>3. files \in [Locations -> Content] /\ strays \subseteq Strays /\ lock \in Runs \cup {Nobody}
  BY DEF Ordered, TypeOK
<1>4. /\ run[r].pc = "idle" => run[r].round < MaxRounds
      /\ run[r].pc \notin {"idle", "over"} => run[r].round # 0 /\ Current(r) \in Calls
      /\ group[r].state = "running" => run[r].pc \in {"wait", "term", "over"}
  BY CurrentCall DEF Ordered, Rounds, Underway, OneCommandAtATime
<1>5. /\ {"OK", "PLANNER_FAILED", "IO_ERROR", "PLANNER_TIMEOUT"} \subseteq Outcomes
      /\ Outcomes \subseteq Statuses /\ "INPUT_ERROR" \in Statuses
  BY DEF Outcomes, Statuses
<1>6. MaxRounds \in Nat
  BY RunnerSetup
<1>7. CASE Begin(r)
  <2>1. EarlyErrors \subseteq Statuses
    BY <1>5 DEF EarlyErrors
  <2>2. run[r].pc = "idle" /\ UNCHANGED <<kind, group, lock, strays>>
    BY <1>7 DEF Begin
  <2>3. run[r].round + 1 \in 1..MaxRounds
    BY <1>2, <1>4, <1>6, <2>2
  <2>4. PICK p \in {"fork", "returned"}, e \in Statuses : run' = [run EXCEPT ![r] = NewCall(r, p, e)]
    BY <1>5, <1>7, <2>1 DEF Begin
  <2> DEFINE x == NewCall(r, p, e)
  <2>5. Moves(r, x) /\ x.pc \in {"fork", "returned"} /\ x.round # 0
    BY <1>5, <2>3, <2>4, NoFileType DEF Runners, Moves, NewCall
  <2>6. files' \in [Locations -> Content]
    BY <1>3, <1>7, RemovedType DEF Begin
  <2>7. strays' \subseteq Strays /\ group[r].state # "running"
    BY <1>3, <1>4, <2>2
  <2> HIDE DEF x
  <2> QED
    BY <2>2, <2>5, <2>6, <2>7, QuietMove
<1>8. CASE Fork(r)
  <2>1. CASE group' = [group EXCEPT ![r] = Group("running", Stages(run[r].command))]
             /\ run' = [run EXCEPT ![r].pc = "wait", ![r].late = FALSE]
    <3> DEFINE x == [run[r] EXCEPT !.pc = "wait", !.late = FALSE]
    <3>1. Moves(r, x) /\ x.pc = "wait" /\ x.round = run[r].round
      BY <1>1, <1>2, <2>1 DEF Moves, Runners
    <3>2. /\ run' \in [Runs -> Runners] /\ run'[r] = x
          /\ \A s \in Runs \ {r} : run'[s] = run[s]
      BY <3>1, MoveRunner DEF Ordered
    <3>3. Group("running", Stages(run[r].command)) \in Groups
      BY GroupType, StagesType
    <3>4. TypeOK'
      BY <1>1, <1>8, <2>1, <3>2, <3>3 DEF Ordered, TypeOK, Fork
    <3>5. \A s \in Runs \ {r} : group'[s] = group[s]
      BY <2>1, <1>1
    <3>6. Rounds'
      <4>1. x.round # 0
        BY <1>4, <1>8, <3>1 DEF Fork
      <4> HIDE DEF x
      <4> QED
        BY <3>1, <3>2, <3>5, <4>1 DEF Ordered, Rounds, Underway
    <3>7. OneCommandAtATime'
      BY <3>1, <3>2, <3>5 DEF Ordered, OneCommandAtATime
    <3> QED
      BY <3>4, <3>6, <3>7 DEF Ordered
  <2>2. CASE UNCHANGED group /\ run' = [run EXCEPT ![r].pc = "read", ![r].outcome = "IO_ERROR"]
    <3> DEFINE x == [run[r] EXCEPT !.pc = "read", !.outcome = "IO_ERROR"]
    <3>1. Moves(r, x) /\ x.pc = "read" /\ x.round = run[r].round
      BY <1>1, <1>2, <1>5, <2>2 DEF Moves, Runners
    <3> QED
      BY <1>3, <1>4, <1>8, <2>2, <3>1, QuietMove DEF Fork
  <2> QED
    BY <1>8, <2>1, <2>2 DEF Fork
<1>9. CASE Tick(r)
  <2> DEFINE x == [run[r] EXCEPT !.late = TRUE]
  <2>1. Moves(r, x) /\ x.pc = run[r].pc /\ x.round = run[r].round
    BY <1>1, <1>2, <1>9 DEF Moves, Runners, Tick
  <2> QED
    BY <1>3, <1>4, <1>9, <2>1, QuietMove DEF Tick
<1>10. CASE Poll(r)
  <2> DEFINE x == [run[r] EXCEPT !.pc = "read", !.outcome = IF group[r].state = "exited" THEN "OK" ELSE "PLANNER_FAILED"]
  <2>1. Moves(r, x) /\ x.pc = "read" /\ x.round = run[r].round
    BY <1>1, <1>2, <1>5, <1>10 DEF Moves, Runners, Poll
  <2> QED
    BY <1>3, <1>4, <1>10, <2>1, QuietMove DEF Poll
<1>11. CASE Expire(r)
  <2> DEFINE x == [run[r] EXCEPT !.pc = "term"]
  <2>1. Moves(r, x) /\ x.pc = "term" /\ x.round = run[r].round
    BY <1>1, <1>2, <1>11 DEF Moves, Runners, Expire
  <2> QED
    BY <1>3, <1>4, <1>11, <2>1, QuietMove DEF Expire
<1>12. CASE Kill(r)
  <2> DEFINE x == [run[r] EXCEPT !.pc = "read", !.outcome = "PLANNER_TIMEOUT"]
  <2>1. Moves(r, x) /\ x.pc = "read" /\ x.round = run[r].round
    BY <1>1, <1>2, <1>5, <1>12 DEF Moves, Runners, Kill, TimedOut
  <2>2. /\ run' \in [Runs -> Runners] /\ run'[r] = x
        /\ \A s \in Runs \ {r} : run'[s] = run[s]
    BY <2>1, MoveRunner DEF Ordered
  <2>3. Group("killed", {}) \in Groups /\ Group("killed", {}).state = "killed"
    BY GroupType
  <2>4. /\ group' \in [Runs -> Groups] /\ group'[r].state # "running"
        /\ \A s \in Runs \ {r} : group'[s] = group[s]
    <3> DEFINE g == Group("killed", {})
    <3>1. group' = group \/ group' = [group EXCEPT ![r] = g]
      BY <1>12 DEF Kill, Killed
    <3>2. group[r].state = "running" => group' = [group EXCEPT ![r] = g]
      BY <1>12 DEF Kill, Killed
    <3> HIDE DEF g
    <3> QED
      BY <1>1, <2>3, <3>1, <3>2 DEF g
  <2>5. TypeOK'
    BY <1>3, <1>12, <2>2, <2>4 DEF Ordered, TypeOK, Kill, Killed, Release
  <2>6. Rounds'
    BY <1>4, <1>12, <2>1, <2>2, <2>4 DEF Ordered, Rounds, Underway, Kill
  <2>7. OneCommandAtATime'
    BY <2>2, <2>4 DEF Ordered, OneCommandAtATime
  <2> QED
    BY <2>5, <2>6, <2>7 DEF Ordered
<1>13. CASE Read(r)
  <2>1. PICK a \in {Answer(r)} \cup {Gave(e) : e \in Refusals(r)} :
          IF a.status = "MORE"
            THEN /\ run' = [run EXCEPT ![r].pc = "fork", ![r].command = 2]
                 /\ files' = IF kind \in CpaFamily THEN Removed(Current(r), {"recovered"}) ELSE files
            ELSE /\ run' = [run EXCEPT ![r].pc = IF a.status = "OK" THEN "publish" ELSE "returned",
                                       ![r].status = a.status, ![r].basis = a.basis]
                 /\ UNCHANGED files
    BY <1>13 DEF Read
  <2>2. a.status \in Statuses \cup {"MORE"} /\ a.basis \in Content
    BY <1>4, <1>13, AnswerType, RefusalsType, GaveIsAnswer DEF Read, Ordered, IsAnswer
  <2>3. CASE a.status = "MORE"
    <3> DEFINE x == [run[r] EXCEPT !.pc = "fork", !.command = 2]
    <3>1. Moves(r, x) /\ x.pc = "fork" /\ x.round = run[r].round
      BY <1>1, <1>2, <2>1, <2>3 DEF Moves, Runners
    <3>2. files' \in [Locations -> Content]
      BY <1>3, <2>1, <2>3, RemovedType
    <3> QED
      BY <1>3, <1>4, <1>13, <3>1, <3>2, QuietMove DEF Read
  <2>4. CASE a.status # "MORE"
    <3> DEFINE x == [run[r] EXCEPT !.pc = IF a.status = "OK" THEN "publish" ELSE "returned",
                                   !.status = a.status, !.basis = a.basis]
    <3>1. Moves(r, x) /\ x.pc \in {"publish", "returned"} /\ x.round = run[r].round
      BY <1>1, <1>2, <2>1, <2>2, <2>4 DEF Moves, Runners
    <3> QED
      BY <1>3, <1>4, <1>13, <2>1, <2>4, <3>1, QuietMove DEF Read
  <2> QED
    BY <2>3, <2>4
<1>14. CASE Publish(r)
  <2>1. Result(r) \in Content
    BY <1>2, <1>3, <1>4, <1>14, AtLocated DEF Result, FileNames, Publish
  <2>2. PICK status \in Statuses : run' = [run EXCEPT ![r].pc = "returned", ![r].status = status]
    <3>1. run' = [run EXCEPT ![r].pc = "returned"] => run' = [run EXCEPT ![r].pc = "returned", ![r].status = run[r].status]
      BY <1>1, <1>2 DEF Runners
    <3> QED
      BY <1>2, <1>5, <1>14, <3>1 DEF Publish
  <2> DEFINE x == [run[r] EXCEPT !.pc = "returned", !.status = status]
  <2>3. Moves(r, x) /\ x.pc = "returned" /\ x.round = run[r].round
    BY <1>1, <1>2, <2>2 DEF Moves, Runners
  <2>4. files' \in [Locations -> Content]
    BY <1>3, <1>14, <2>1 DEF Publish
  <2> QED
    BY <1>3, <1>4, <1>14, <2>3, <2>4, QuietMove DEF Publish
<1>15. CASE Finish(r)
  <2> DEFINE x == [run[r] EXCEPT !.pc = IF run[r].status = "OK" /\ run[r].round < MaxRounds THEN "idle" ELSE "over"]
  <2>1. Moves(r, x) /\ x.round = run[r].round /\ x.pc \in {"idle", "over"} /\ (x.pc = "idle" => run[r].round < MaxRounds)
    BY <1>1, <1>2, <1>15 DEF Moves, Runners, Finish
  <2> QED
    BY <1>3, <1>4, <1>15, <2>1, QuietMove DEF Finish
<1>16. CASE Die(r)
  <2> DEFINE x == [run[r] EXCEPT !.pc = "over"]
  <2>1. Moves(r, x) /\ x.round = run[r].round /\ x.pc = "over"
    BY <1>1, <1>2, <1>16 DEF Moves, Runners, Die
  <2> QED
    BY <1>3, <1>4, <1>16, <2>1, QuietMove DEF Die
<1> QED
  BY <1>7, <1>8, <1>9, <1>10, <1>11, <1>12, <1>13, <1>14, <1>15, <1>16 DEF Runner

LEMMA StrayOrdered ==
  ASSUME Ordered, StrayWrites
  PROVE  Ordered'
<1>1. PICK s \in strays, what \in {"cut", "plan"} :
        files' = Put(s.at, s.of, what) /\ strays' = strays \ {s}
  BY DEF StrayWrites
<1>2. s \in Strays
  BY DEF Ordered, TypeOK
<1>3. s.at \in Locations /\ s.of \in Calls \cup {Nobody} /\ what \in What
  BY <1>2 DEF Strays, What, Whole
<1>4. files' \in [Locations -> Content]
  BY <1>1, <1>3, PutType DEF Ordered, TypeOK
<1>5. UNCHANGED <<kind, run, group, lock>>
  BY DEF StrayWrites
<1>6. TypeOK'
  BY <1>1, <1>4, <1>5 DEF Ordered, TypeOK
<1> QED
  BY <1>5, <1>6 DEF Ordered, Rounds, Underway, OneCommandAtATime

LEMMA NextOrdered == Ordered /\ [Next]_vars => Ordered'
<1>1. Ordered /\ UNCHANGED vars => Ordered'
  BY DEF vars, Ordered, TypeOK, Rounds, Underway, OneCommandAtATime
<1>2. Ordered /\ Next => Ordered'
  BY PlannerOrdered, RunnerOrdered, StrayOrdered DEF Next
<1> QED
  BY <1>1, <1>2

THEOREM AlwaysOrdered == Spec => []Ordered
BY InitOrdered, NextOrdered, PTL DEF Spec

\* TypeCorrect: every variable of the runner has its type.
THEOREM TypeCorrect == Spec => []TypeOK
BY AlwaysOrdered, PTL DEF Ordered

\* OneCommand: no process ever has a command running that its runner has
\* stopped waiting for, so that no command and no round meets the one before.
THEOREM OneCommand == Spec => []OneCommandAtATime
BY AlwaysOrdered, PTL DEF Ordered

-----------------------------------------------------------------------------
(* A command that was timed out is silent.                                  *)

LEMMA DifferentCommands ==
  ASSUME NEW r \in Runs, NEW q \in Runs, q # r
  PROVE  Command(q) # Command(r)
BY DEF Command, Current

\* What the steps of a runner other than Kill do to the descendants and to
\* the command that was timed out.
LEMMA OnlyKillTimesOut ==
  ASSUME NEW q \in Runs, Ordered, Runner(q) \/ Begin(q) \/ Finish(q) \/ Die(q), ~Kill(q)
  PROVE  /\ UNCHANGED strays
         /\ \A r \in Runs \ {q} : run'[r] = run[r]
         /\ ~(run'[q].pc = "read" /\ run'[q].outcome = "PLANNER_TIMEOUT")
<1>1. run \in [Runs -> Runners] /\ run[q] \in Runners
  BY DEF Ordered, TypeOK
<1>2. UNCHANGED strays
  BY DEF Runner, Fork, Tick, Poll, Expire, Read, Publish, Begin, Finish, Die
<1>3. \A r \in Runs \ {q} : run'[r] = run[r]
  BY <1>1 DEF Runner, Fork, Tick, Poll, Expire, Read, Publish, Begin, Finish, Die
<1>4. ~(run'[q].pc = "read" /\ run'[q].outcome = "PLANNER_TIMEOUT")
  <2>1. CASE Begin(q)
    BY <1>1, <2>1 DEF Begin, NewCall
  <2>2. CASE Fork(q)
    BY <1>1, <2>2 DEF Fork, Runners
  <2>3. CASE Tick(q)
    BY <1>1, <2>3 DEF Tick, Runners
  <2>4. CASE Poll(q)
    BY <1>1, <2>4 DEF Poll, Runners
  <2>5. CASE Expire(q) \/ Finish(q) \/ Die(q)
    BY <1>1, <2>5 DEF Expire, Finish, Die, Runners
  <2>6. CASE Read(q)
    BY <1>1, <2>6 DEF Read, Runners
  <2>7. CASE Publish(q)
    BY <1>1, <2>7 DEF Publish, Runners
  <2> QED
    BY <2>1, <2>2, <2>3, <2>4, <2>5, <2>6, <2>7 DEF Runner
<1> QED
  BY <1>2, <1>3, <1>4

LEMMA NextSilent == Ordered /\ TimedOutIsSilent /\ [Next]_vars => TimedOutIsSilent'
<1> SUFFICES ASSUME Ordered, TimedOutIsSilent, [Next]_vars,
                    NEW r \in Runs, run'[r].pc = "read" /\ run'[r].outcome = "PLANNER_TIMEOUT",
                    NEW s \in strays'
             PROVE  s.by # Command(r)'
  BY DEF TimedOutIsSilent
<1>1. run \in [Runs -> Runners]
  BY DEF Ordered, TypeOK
<1>2. ASSUME run'[r] = run[r], s \in strays
      PROVE  s.by # Command(r)'
  BY <1>2 DEF TimedOutIsSilent, Command, Current
<1>3. CASE UNCHANGED vars
  BY <1>2, <1>3 DEF vars
<1>4. CASE StrayWrites
  BY <1>2, <1>4 DEF StrayWrites
<1>5. ASSUME NEW q \in Runs, Planner(q)
      PROVE  s.by # Command(r)'
  <2>1. group[q].state = "running" /\ UNCHANGED run
    BY <1>5, PlannerSteps
  <2>2. q # r
    BY <2>1 DEF Ordered, OneCommandAtATime
  <2>3. s \in strays \/ s.by = Command(q)
    BY <1>5 DEF Planner, OpenConsole, TakeLock, RemoveOld, Translate, TestOutput, Solve, StartPrinting,
                EndPrinting, Exit, Fail, Leaves
  <2>4. Command(r)' = Command(r)
    BY <2>1 DEF Command, Current
  <2> QED
    BY <1>2, <2>1, <2>2, <2>3, <2>4, DifferentCommands
<1>6. ASSUME NEW q \in Runs, Kill(q)
      PROVE  s.by # Command(r)'
  <2>1. s \in strays /\ s.by # Command(q)
    BY <1>6 DEF Kill
  <2>2. CASE q # r
    BY <1>1, <1>2, <1>6, <2>1, <2>2 DEF Kill, TimedOut
  <2>3. CASE q = r
    BY <1>1, <1>6, <2>1, <2>3 DEF Kill, TimedOut, Command, Current, Runners
  <2> QED
    BY <2>2, <2>3
<1>7. ASSUME NEW q \in Runs, Runner(q) \/ Begin(q) \/ Finish(q) \/ Die(q), ~Kill(q)
      PROVE  s.by # Command(r)'
  BY <1>2, <1>7, OnlyKillTimesOut
<1> QED
  BY <1>3, <1>4, <1>5, <1>6, <1>7 DEF Next

\* TimedOutSilent: once a command was timed out, neither it nor anything it
\* started writes any more, whatever descendants planners leave behind.
THEOREM TimedOutSilent == Spec => []TimedOutIsSilent
<1>1. Init => TimedOutIsSilent
  BY DEF Init, TimedOutIsSilent
<1> QED
  BY <1>1, NextSilent, AlwaysOrdered, PTL DEF Spec

-----------------------------------------------------------------------------
(* Undisturbed runs.  Three things keep the calls out of each other's       *)
(* files: outside native mode every round has a directory of its own;       *)
(* gCPCES and iCPCES print into the run directory, and what stays in the    *)
(* directory of iCPCES is guarded by its lock; the planners that work in    *)
(* the solver directory are safe there as long as no two processes are at   *)
(* work and none dies before its planner.  In native mode no planner may    *)
(* leave a descendant behind.  There, whatever the planners and the         *)
(* processes do, every answer is the work of the planner of its own call.   *)

Undisturbed ==
  \/ ~Native
  \/ ~Background /\ Kinds \subseteq CpcesFamily
  \/ ~Background /\ ~Parallel /\ ~Killable

Running(r) == group[r].state = "running"

\* The call has removed its files, and its commands go on.
Active(r) == run[r].pc \in {"fork", "wait", "term", "read", "publish"} \/ Running(r)

\* Its files still matter.
Engaged(r) == Active(r) \/ run[r].pc = "returned"

\* The planner of iCPCES has its lock from before it removes the old theory
\* until it ends.
LockHeld ==
  kind = "ICPCES" => \A r \in Runs :
    /\ run[r].command = 1
    /\ Running(r) =>
         /\ "lock" \notin group[r].stages => lock = r
         /\ "lock" \in group[r].stages => "clean" \in group[r].stages

\* Processes that take turns, and live as long as their planners, are never
\* at work at the same time.
TakingTurns ==
  /\ ~Killable => \A r \in Runs : Running(r) => run[r].pc \in {"wait", "term"}
  /\ ~Killable /\ ~Parallel => \A r, q \in Runs : Engaged(r) /\ Engaged(q) => q = r

\* What a call finds in a file is its own work, or nothing.
Mine(c, x) == x.of = c \/ ~Exists(x)
Own(r, f) == Mine(Current(r), files[At(Current(r), f)])

\* The points after which a call no longer sees leftovers in some files: the
\* unlinks of the runner, the opening of the console, the rm of the command,
\* the unlinks before the second command.
Points == {"unlink", "open", "clean", "recover"}

\* When iCPCES has ended, its directory is no longer its own.
Past(r, t) ==
  /\ Active(r)
  /\ t \in {"recover"} => run[r].command = 2
  /\ t \in {"open", "clean"} =>
       \/ Running(r) /\ t \notin group[r].stages
       \/ kind # "ICPCES" /\ \/ run[r].command = 2
                             \/ run[r].pc = "wait" /\ group[r].state = "exited"
                             \/ run[r].pc = "read" /\ run[r].outcome = "OK"
                             \/ run[r].pc = "publish" /\ t = "clean"

Cleared(t) ==
  CASE t = "unlink"  -> Unlinked
    [] t = "open"    -> {"stdout"}
    [] t = "clean"   -> IF "clean" \in Stages(1) THEN RemovedByShell ELSE {}
    [] t = "recover" -> IF kind \in CpaFamily THEN {"recovered"} ELSE {}

CleanFiles == \A r \in Runs, t \in Points : Past(r, t) => \A f \in Cleared(t) : Own(r, f)

\* What is being written is the work of the call.
OwnWork ==
  /\ \A r \in Runs : group[r].todo # {} \/ group[r].writing # "nothing" =>
       Running(r) /\ group[r].stages = {} /\ group[r].input = Current(r)
  /\ \A s \in strays : /\ Background /\ kind # "ICPCES"
                       /\ s.of = s.by[1] /\ \E f \in FileNames : s.at = At(s.by[1], f)

\* What is about to be published is the work of the call.
OwnResult ==
  \A r \in Runs : run[r].pc = "publish" =>
    run[r].status = "OK" /\ run[r].basis.of = Current(r) /\ Result(r).of = Current(r)

Separate == Ordered /\ LockHeld /\ TakingTurns /\ CleanFiles /\ OwnWork /\ OwnResult /\ OwnAnswer

\* Outside native mode only iCPCES has files that its calls share.
LEMMA AtApart ==
  ASSUME ~Native, kind # "ICPCES", NEW c \in Calls, NEW d \in Calls, NEW f, NEW g, At(c, f) = At(d, g)
  PROVE  c = d /\ f = g
<1>1. ~InRoot(f) /\ ~InRoot(g)
  BY DEF InRoot
<1>2. <<IterDir(c), f>> = <<IterDir(d), g>>
  BY <1>1 DEF At
<1>3. IterDir(c) = <<c[1], c[2]>> /\ IterDir(d) = <<d[1], d[2]>>
  BY DEF IterDir
<1>4. f = g /\ IterDir(c) = IterDir(d)
  BY <1>2
<1>5. c[1] = d[1] /\ c[2] = d[2]
  BY <1>3, <1>4
<1> QED
  BY <1>4, <1>5 DEF Calls

\* A file that a call counts on.
Holds(r, f) == Engaged(r) /\ (kind = "ICPCES" /\ f = "mid" => lock = r)

\* When a process may change files of one of its calls.
MayTouch(r, c, names) ==
  /\ c \in Calls /\ c[1] = r /\ names \subseteq FileNames
  /\ Engaged(r) => c = Current(r)
  /\ kind = "ICPCES" /\ "mid" \in names => lock = r
  /\ ~Parallel /\ ~Killable => \A q \in Runs \ {r} : ~Engaged(q)

\* No process touches a file that the call of another counts on.
LEMMA TouchApart ==
  ASSUME Undisturbed, Ordered, NEW r \in Runs, NEW c, NEW names, MayTouch(r, c, names),
         NEW q \in Runs, NEW f \in names, NEW g \in FileNames, Holds(q, g), At(c, f) = At(Current(q), g)
  PROVE  c = Current(q) /\ f = g /\ q = r
<1>1. f = g /\ kind \in Kinds /\ Current(q)[1] = q
  BY DEF At, Ordered, TypeOK, Current
<1>2. c[1] = r /\ (Engaged(r) => c = Current(r)) /\ Engaged(q)
  BY DEF MayTouch, Holds
<1>3. q = r
  <2>1. CASE InRoot(f)
    <3>1. CASE kind = "ICPCES" /\ f = "mid"
      BY <1>1, <3>1 DEF Holds, MayTouch
    <3>2. CASE Native /\ kind \notin CpcesFamily
      <4>1. ~Parallel /\ ~Killable
        BY <1>1, <3>2 DEF Undisturbed
      <4> QED
        BY <1>2, <4>1 DEF MayTouch
    <3> QED
      BY <2>1, <3>1, <3>2 DEF InRoot
  <2>2. CASE ~InRoot(f)
    <3>1. <<IterDir(c), f>> = <<IterDir(Current(q)), g>>
      BY <1>1, <2>2 DEF At
    <3>2. IterDir(c)[1] = r /\ IterDir(Current(q))[1] = q
      BY <1>1, <1>2 DEF IterDir
    <3> QED
      BY <3>1, <3>2
  <2> QED
    BY <2>1, <2>2
<1> QED
  BY <1>1, <1>2, <1>3

\* The ways in which the file at a location of the call c may change: by the
\* work of the call, or by a removal.
Kept(c, f) == files'[At(c, f)] = files[At(c, f)] \/ files'[At(c, f)].of = c
Allowed(c, f) == Kept(c, f) \/ files'[At(c, f)] = NoFile

\* A file of a call is replaced by work of the call.
Works(c, names) == \E f \in names : \E x : x.of = c /\ files' = [files EXCEPT ![At(c, f)] = x]

LEMMA OwnPut ==
  ASSUME Undisturbed, Ordered, NEW r \in Runs, NEW c, NEW names, MayTouch(r, c, names), Works(c, names),
         NEW q \in Runs, NEW g \in FileNames, Holds(q, g)
  PROVE  Kept(Current(q), g)
<1>1. PICK f \in names : \E x : x.of = c /\ files' = [files EXCEPT ![At(c, f)] = x]
  BY DEF Works
<1>2. PICK x : x.of = c /\ files' = [files EXCEPT ![At(c, f)] = x]
  BY <1>1
<1>3. files \in [Locations -> Content] /\ At(Current(q), g) \in Locations
  BY CurrentCall, AtLocated DEF Ordered, TypeOK, Holds, Engaged, Active, Running, Underway
<1>4. CASE At(Current(q), g) = At(c, f)
  <2>1. c = Current(q)
    BY <1>4, TouchApart
  <2>2. files'[At(Current(q), g)] = x
    BY <1>2, <1>3, <1>4
  <2> QED
    BY <1>2, <2>1, <2>2 DEF Kept
<1>5. CASE At(Current(q), g) # At(c, f)
  BY <1>2, <1>3, <1>5 DEF Kept
<1> QED
  BY <1>4, <1>5

\* A descendant touches only the files of its own call.
LEMMA StrayPut ==
  ASSUME ~Native, kind # "ICPCES", Ordered, NEW c \in Calls, Works(c, FileNames),
         NEW q \in Runs, NEW g \in FileNames, Holds(q, g)
  PROVE  Kept(Current(q), g)
<1>1. PICK f \in FileNames : \E x : x.of = c /\ files' = [files EXCEPT ![At(c, f)] = x]
  BY DEF Works
<1>2. PICK x : x.of = c /\ files' = [files EXCEPT ![At(c, f)] = x]
  BY <1>1
<1>3. files \in [Locations -> Content] /\ Current(q) \in Calls /\ At(Current(q), g) \in Locations
  BY CurrentCall, AtLocated DEF Ordered, TypeOK, Holds, Engaged, Active, Running, Underway
<1>4. CASE At(Current(q), g) = At(c, f)
  <2>1. c = Current(q)
    BY <1>3, <1>4, AtApart
  <2>2. files'[At(Current(q), g)] = x
    BY <1>2, <1>3, <1>4
  <2> QED
    BY <1>2, <2>1, <2>2 DEF Kept
<1>5. CASE At(Current(q), g) # At(c, f)
  BY <1>2, <1>3, <1>5 DEF Kept
<1> QED
  BY <1>4, <1>5

LEMMA OwnRemoved ==
  ASSUME Undisturbed, Ordered, NEW r \in Runs, NEW c, NEW names, MayTouch(r, c, names),
         files' = Removed(c, names), NEW q \in Runs, NEW g \in FileNames, Holds(q, g)
  PROVE  Allowed(Current(q), g) /\ (q # r => Kept(Current(q), g))
<1>1. files \in [Locations -> Content] /\ At(Current(q), g) \in Locations
  BY CurrentCall, AtLocated DEF Ordered, TypeOK, Holds, Engaged, Active, Running, Underway
<1>2. files'[At(Current(q), g)] = IF At(Current(q), g) \in {At(c, f) : f \in names} THEN NoFile
                                  ELSE files[At(Current(q), g)]
  BY <1>1 DEF Removed
<1>3. q # r => At(Current(q), g) \notin {At(c, f) : f \in names}
  BY TouchApart
<1> QED
  BY <1>2, <1>3 DEF Allowed, Kept

\* What is removed is gone.
LEMMA RemovedGone ==
  ASSUME TypeOK, NEW c \in Calls, NEW names \in SUBSET FileNames, files' = Removed(c, names)
  PROVE  \A f \in names : ~Exists(files'[At(c, f)])
<1> SUFFICES ASSUME NEW f \in names PROVE ~Exists(files'[At(c, f)])
  OBVIOUS
<1>1. files \in [Locations -> Content] /\ At(c, f) \in Locations
  BY AtLocated DEF TypeOK
<1> QED
  BY <1>1 DEF Removed, NoFile, Exists

LEMMA AllowedOwn ==
  ASSUME NEW c, NEW f, Allowed(c, f), Mine(c, files[At(c, f)])
  PROVE  Mine(c, files'[At(c, f)])
BY DEF Allowed, Kept, Mine, NoFile, Exists

\* The answer of a call that sees only its own files rests on one of them.
LEMMA ReadingMine ==
  ASSUME NEW c, NEW x, Mine(c, x), NEW plans, "absent" \notin plans,
         Reading(plans, x).status \in Verdicts
  PROVE  Reading(plans, x).basis.of = c /\ Reading(plans, x).basis = x
BY DEF Mine, Exists, Reading, Said, Verdicts

LEMMA GaveVerdict ==
  ASSUME NEW e \in Statuses \cup {"MORE"}, e # "OK", e # "PLANNER_NO_PLAN"
  PROVE  Gave(e).status \notin Verdicts /\ Gave(e).status = e
BY DEF Gave, Said, Verdicts

\* The file that Result reads again, or any if it reads none.
CopiedFile(r) == IF kind \in CpaFamily /\ run[r].command = 2 THEN "recovered" ELSE "artifact"
Copies == {"T1", "CPAH"} \cup CpaFamily

LEMMA ResultOf ==
  ASSUME NEW r \in Runs
  PROVE  Result(r) = IF kind \in Copies THEN files[At(Current(r), CopiedFile(r))] ELSE run[r].basis
BY DEF Result, Copies, CopiedFile, CpaFamily

LEMMA AnswerMine ==
  ASSUME NEW r \in Runs, Ordered, CleanFiles, run[r].pc = "read",
         Answer(r).status \in Verdicts
  PROVE  /\ Answer(r).basis.of = Current(r)
         /\ Answer(r).status = "OK" /\ kind \in Copies => Answer(r).basis = files[At(Current(r), CopiedFile(r))]
         /\ "clean" \in Stages(1) /\ kind # "ICPCES" => run[r].outcome = "OK" \/ run[r].command = 2
<1> DEFINE c == Current(r)
           v == View(c)
           st == run[r].outcome
<1>1. kind \in AllKinds /\ run[r] \in Runners
  BY RunnerSetup DEF Ordered, TypeOK
<1>2. st \in Outcomes /\ run[r].command \in {1, 2}
  BY <1>1 DEF Runners
<1>3. st # "OK" => Gave(st).status \notin Verdicts
  BY <1>2, GaveVerdict DEF Statuses, Outcomes
<1>4. Gave("MORE").status \notin Verdicts /\ Gave("PLANNER_PARSE_ERROR").status \notin Verdicts
  BY GaveVerdict DEF Statuses, Outcomes
<1>5. \A f \in FileNames : v[f] = files[At(c, f)]
  BY DEF View
<1>6. \A t \in Points : Past(r, t) => \A f \in Cleared(t) \cap FileNames : Mine(c, v[f])
  BY <1>5 DEF CleanFiles, Own
<1>7. Past(r, "unlink")
  BY DEF Past, Active, Running
<1>8. kind # "ICPCES" /\ (st = "OK" \/ run[r].command = 2) => Past(r, "clean") /\ Past(r, "open")
  BY DEF Past, Active, Running
<1>9. run[r].command = 2 => Past(r, "recover")
  BY DEF Past, Active, Running
<1> HIDE DEF v, st, c
<1>10. \A f \in FileNames : \A plans : Mine(c, v[f]) /\ "absent" \notin plans /\ Reading(plans, v[f]).status \in Verdicts
         => Reading(plans, v[f]).basis.of = c /\ Reading(plans, v[f]).basis = v[f]
  BY ReadingMine
<1>11. CASE kind = "T1"
  <2>1. "artifact" \in Unlinked /\ "clean" \notin Stages(1)
    BY <1>11 DEF Unlinked, Stages, GcFamily, CpcesFamily, CpaFamily
  <2>2. Mine(c, v["artifact"])
    BY <1>6, <1>7, <2>1 DEF Points, Cleared, FileNames
  <2>3. Answer(r) = T1Answer(v, st)
    BY <1>11 DEF Answer, v, st, c, GcFamily, CpcesFamily, CpaFamily
  <2>4. Answer(r) = Unparsed(v["artifact"])
    BY <1>3, <2>3 DEF T1Answer
  <2> QED
    BY <1>5, <1>10, <1>11, <2>1, <2>2, <2>4 DEF Unparsed, CopiedFile, FileNames, CpaFamily, c
<1>12. CASE kind = "CFF"
  <2>1. "stdout" \in Unlinked /\ "clean" \notin Stages(1) /\ kind \notin Copies
    BY <1>12 DEF Unlinked, Stages, Copies, CpaFamily, GcFamily, CpcesFamily
  <2>2. Mine(c, v["stdout"])
    BY <1>6, <1>7, <2>1 DEF Points, Cleared, FileNames
  <2>3. Answer(r) = CffAnswer(v, st)
    BY <1>12 DEF Answer, v, st, c, GcFamily, CpcesFamily, CpaFamily
  <2>4. Answer(r) = Console(v["stdout"])
    BY <1>3, <2>3 DEF CffAnswer
  <2> QED
    BY <1>10, <2>1, <2>2, <2>4 DEF Console, FileNames, c
<1>13. CASE kind \in GcFamily
  <2>1. kind \notin Copies
    BY <1>13 DEF Copies, CpaFamily, GcFamily
  <2>2. run[r].command = 2
    <3>1. run[r].command # 2 => Answer(r) = GcFrontendAnswer(st)
      BY <1>2, <1>13 DEF Answer, GcFamily, st, CpcesFamily, CpaFamily
    <3> QED
      BY <1>3, <1>4, <3>1 DEF GcFrontendAnswer
  <2>3. Cleared("clean") = {"mid", "artifact", "second"} /\ Cleared("open") = {"stdout"}
    BY <1>13 DEF Cleared, Stages, RemovedByShell, GcFamily, CpcesFamily, CpaFamily
  <2>4. Mine(c, v["artifact"]) /\ Mine(c, v["second"]) /\ Mine(c, v["stdout"])
    BY <1>6, <1>8, <1>13, <2>2, <2>3 DEF Points, FileNames, GcFamily
  <2>5. Answer(r) = GcSearchAnswer(v, st)
    BY <1>13, <2>2 DEF Answer, GcFamily, v, st, c, CpcesFamily, CpaFamily
  <2>6. FinalPlan(v).status \in Verdicts => FinalPlan(v).basis.of = c
    <3>1. v["artifact"].what \notin {"absent", "empty"} => FinalPlan(v) = Listed(v["artifact"])
      BY DEF FinalPlan
    <3>2. v["artifact"].what \in {"absent", "empty"} /\ FinalPlan(v).status \in Verdicts
            => FinalPlan(v) = Said("OK", v["stdout"]) /\ v["stdout"].what \in {"plan", "cut"}
      BY <1>4 DEF FinalPlan
    <3>3. v["stdout"].what \in {"plan", "cut"} => v["stdout"].of = c
      BY <2>4 DEF Mine, Exists
    <3> QED
      BY <1>10, <2>4, <3>1, <3>2, <3>3 DEF Listed, Said, FileNames
  <2>7. /\ Counted(v["second"]).status \in Verdicts => Counted(v["second"]).basis.of = c
        /\ Counted(v["stdout"]).status \in Verdicts => Counted(v["stdout"]).basis.of = c
        /\ Console(v["stdout"]).status \in Verdicts => Console(v["stdout"]).basis.of = c
    BY <1>10, <2>4 DEF Counted, Console, FileNames
  <2>8. Answer(r) \in {FinalPlan(v), Counted(v["second"]), Counted(v["stdout"]), Console(v["stdout"])}
    BY <1>3, <2>5 DEF GcSearchAnswer
  <2> QED
    BY <2>1, <2>2, <2>6, <2>7, <2>8 DEF c
<1>14. CASE kind \in CpcesFamily
  <2>1. /\ {"stdout", "artifact"} \subseteq Unlinked /\ kind \notin Copies
        /\ "clean" \notin Stages(1) \/ kind = "ICPCES"
    BY <1>14 DEF Unlinked, Stages, Copies, CpaFamily, GcFamily, CpcesFamily
  <2>2. Mine(c, v["stdout"]) /\ Mine(c, v["artifact"])
    BY <1>6, <1>7, <2>1 DEF Points, Cleared, FileNames
  <2>3. Answer(r) = CpcesAnswer(v, st)
    BY <1>14 DEF Answer, GcFamily, CpcesFamily, v, st, c, CpaFamily
  <2>4. Answer(r) \in {Counted(v["stdout"]), Listed(v["artifact"])}
    BY <1>3, <2>3 DEF CpcesAnswer
  <2> QED
    BY <1>10, <2>1, <2>2, <2>4 DEF Counted, Listed, FileNames, c
<1>15. CASE kind = "CPAH"
  <2>1. Answer(r) = CpahAnswer(v, st)
    BY <1>15 DEF Answer, GcFamily, CpcesFamily, v, st, c, CpaFamily
  <2>2. st = "OK" /\ Answer(r) = Counted(v["artifact"])
    BY <1>3, <2>1 DEF CpahAnswer
  <2>3. "artifact" \in Cleared("clean")
    BY <1>15 DEF Cleared, Stages, RemovedByShell, GcFamily, CpcesFamily, CpaFamily
  <2>4. Mine(c, v["artifact"])
    BY <1>6, <1>8, <1>15, <2>2, <2>3 DEF Points, FileNames
  <2> QED
    BY <1>5, <1>10, <1>15, <2>2, <2>4 DEF Counted, CopiedFile, FileNames, CpaFamily, c, st
<1>16. CASE kind \in CpaFamily /\ run[r].command = 1
  <2>1. Answer(r) = CpaAnswer(v, st)
    BY <1>16 DEF Answer, GcFamily, CpcesFamily, CpaFamily, v, st, c
  <2>2. st = "OK" /\ Answer(r) = Console(v["artifact"])
    BY <1>3, <1>4, <2>1 DEF CpaAnswer
  <2>3. "artifact" \in Cleared("clean")
    BY <1>16 DEF Cleared, Stages, RemovedByShell, GcFamily, CpaFamily, CpcesFamily
  <2>4. Mine(c, v["artifact"])
    BY <1>6, <1>8, <1>16, <2>2, <2>3 DEF Points, FileNames, CpaFamily
  <2> QED
    BY <1>5, <1>10, <1>16, <2>2, <2>4 DEF Console, CopiedFile, FileNames, c, st
<1>17. CASE kind \in CpaFamily /\ run[r].command = 2
  <2>1. Answer(r) = RecoveryAnswer(v, st)
    BY <1>17 DEF Answer, GcFamily, CpcesFamily, CpaFamily, v, st, c
  <2>2. Answer(r) = Console(v["recovered"])
    BY <1>3, <1>4, <2>1 DEF RecoveryAnswer
  <2>3. "recovered" \in Cleared("recover")
    BY <1>17 DEF Cleared
  <2>4. Mine(c, v["recovered"])
    BY <1>6, <1>9, <1>17, <2>3 DEF Points, FileNames
  <2> QED
    BY <1>5, <1>10, <1>17, <2>2, <2>4 DEF Console, CopiedFile, FileNames, c
<1> QED
  BY <1>1, <1>2, <1>11, <1>12, <1>13, <1>14, <1>15, <1>16, <1>17 DEF AllKinds, CpcesFamily

-----------------------------------------------------------------------------
(* The lock, and taking turns.                                              *)

\* A second command is asked for only when the first has succeeded.
LEMMA MoreIsOK ==
  ASSUME NEW r \in Runs, Ordered, run[r].pc = "read", Answer(r).status = "MORE"
  PROVE  run[r].outcome = "OK"
<1> DEFINE v == View(Current(r))
           st == run[r].outcome
<1>1. run[r] \in Runners /\ kind \in AllKinds
  BY RunnerSetup DEF Ordered, TypeOK
<1>2. st \in Outcomes /\ st # "MORE" /\ Gave(st).status = st
  BY <1>1 DEF Runners, Outcomes, Gave, Said
<1>3. \A plans, x : Reading(plans, x).status # "MORE"
  BY DEF Reading, Said
<1>4. Answer(r) \in {T1Answer(v, st), CffAnswer(v, st), GcFrontendAnswer(st), GcSearchAnswer(v, st),
                     CpcesAnswer(v, st), CpahAnswer(v, st), CpaAnswer(v, st), RecoveryAnswer(v, st)}
  BY <1>1 DEF Answer, AllKinds
<1> HIDE DEF v, st
<1> SUFFICES ASSUME st # "OK" PROVE FALSE
  BY DEF st
<1>5. Gave(st).status # "MORE"
  BY <1>2
<1>6. T1Answer(v, st).status # "MORE" /\ CpahAnswer(v, st).status # "MORE"
      /\ CpaAnswer(v, st).status # "MORE" /\ RecoveryAnswer(v, st).status # "MORE"
      /\ GcFrontendAnswer(st).status # "MORE"
  BY <1>5 DEF T1Answer, CpahAnswer, CpaAnswer, RecoveryAnswer, GcFrontendAnswer
<1>7. CffAnswer(v, st).status # "MORE"
  BY <1>3, <1>5 DEF CffAnswer, Console
<1>8. GcSearchAnswer(v, st).status # "MORE" /\ CpcesAnswer(v, st).status # "MORE"
  BY <1>3, <1>5 DEF GcSearchAnswer, CpcesAnswer, Counted
<1> QED
  BY <1>4, <1>6, <1>7, <1>8

\* What Read makes of an answer, or of one of the refusals.
LEMMA ReadAnswers ==
  ASSUME NEW r \in Runs, Ordered, Read(r)
  PROVE  \/ /\ Answer(r).status = "MORE"
            /\ run' = [run EXCEPT ![r].pc = "fork", ![r].command = 2]
            /\ files' = IF kind \in CpaFamily THEN Removed(Current(r), {"recovered"}) ELSE files
         \/ /\ Answer(r).status \in Verdicts
            /\ run' = [run EXCEPT ![r].pc = IF Answer(r).status = "OK" THEN "publish" ELSE "returned",
                                  ![r].status = Answer(r).status, ![r].basis = Answer(r).basis]
            /\ UNCHANGED files
         \/ /\ \E status \in Statuses \ Verdicts, basis \in Content :
                 run' = [run EXCEPT ![r].pc = "returned", ![r].status = status, ![r].basis = basis]
            /\ UNCHANGED files
<1>1. Current(r) \in Calls /\ TypeOK
  BY CurrentCall DEF Ordered, Underway, Read
<1>2. PICK a \in {Answer(r)} \cup {Gave(e) : e \in Refusals(r)} :
        IF a.status = "MORE"
          THEN /\ run' = [run EXCEPT ![r].pc = "fork", ![r].command = 2]
               /\ files' = IF kind \in CpaFamily THEN Removed(Current(r), {"recovered"}) ELSE files
          ELSE /\ run' = [run EXCEPT ![r].pc = IF a.status = "OK" THEN "publish" ELSE "returned",
                                     ![r].status = a.status, ![r].basis = a.basis]
               /\ UNCHANGED files
  BY DEF Read
<1>3. \A e \in Refusals(r) : e \in Statuses /\ e \notin Verdicts /\ Gave(e).status = e
  BY DEF Refusals, Statuses, Outcomes, Verdicts, Gave, Said
<1>4. a = Answer(r) \/ a.status \in Statuses \ Verdicts
  BY <1>3
<1>5. a.status \in Statuses \cup {"MORE"} /\ a.basis \in Content
  <2>1. IsAnswer(Answer(r))
    BY <1>1, AnswerType
  <2>2. \A e \in Refusals(r) : IsAnswer(Gave(e))
    BY <1>3, GaveIsAnswer
  <2> QED
    BY <2>1, <2>2 DEF IsAnswer
<1>6. "MORE" \notin Statuses /\ "OK" \in Verdicts
  BY DEF Statuses, Outcomes, Verdicts
<1>7. CASE a.status = "MORE"
  BY <1>2, <1>4, <1>6, <1>7
<1>8. CASE a.status \in Verdicts
  BY <1>2, <1>4, <1>6, <1>8 DEF Verdicts
<1>9. CASE a.status \in Statuses \ Verdicts
  <2>1. run' = [run EXCEPT ![r].pc = "returned", ![r].status = a.status, ![r].basis = a.basis] /\ UNCHANGED files
    BY <1>2, <1>6, <1>9
  <2> QED
    BY <1>5, <1>9, <2>1
<1> QED
  BY <1>5, <1>7, <1>8, <1>9

\* Nothing asks iCPCES for a second command.
LEMMA NoMore ==
  ASSUME NEW r \in Runs, Ordered, run[r].pc = "read", kind = "ICPCES"
  PROVE  Answer(r).status # "MORE"
<1> DEFINE v == View(Current(r))
           st == run[r].outcome
<1>1. Answer(r) = CpcesAnswer(v, st)
  BY DEF Answer, CpcesFamily, GcFamily, CpaFamily
<1>2. st # "MORE"
  BY DEF Ordered, TypeOK, Runners, Outcomes
<1>3. Gave(st).status # "MORE" /\ \A plans, x : Reading(plans, x).status # "MORE"
  BY <1>2 DEF Gave, Said, Reading
<1> HIDE DEF v, st
<1> QED
  BY <1>1, <1>3 DEF CpcesAnswer, Counted, Listed

LockedBy(r) ==
  /\ run[r].command = 1
  /\ Running(r) =>
       /\ "lock" \notin group[r].stages => lock = r
       /\ "lock" \in group[r].stages => "clean" \in group[r].stages

\* A process that stands still keeps the lock it has.
LEMMA OthersLocked ==
  ASSUME Ordered, NEW q \in Runs, NEW r \in Runs \ {q}, LockedBy(r),
         group'[r] = group[r], run'[r] = run[r],
         UNCHANGED lock \/ Release(q) \/ (lock = Nobody /\ lock' = q)
  PROVE  LockedBy(r)'
BY RunnerSetup DEF LockedBy, Running, Release

LEMMA PlannerLocked ==
  ASSUME Ordered, NEW q \in Runs, LockedBy(q), Planner(q), kind = "ICPCES"
  PROVE  /\ LockedBy(q)'
         /\ UNCHANGED lock \/ Release(q) \/ (lock = Nobody /\ lock' = q)
<1>1. /\ Running(q) /\ UNCHANGED <<kind, run>> /\ run[q].command = 1
      /\ group \in [Runs -> Groups] /\ group[q] \in Groups
  BY PlannerSteps DEF Running, LockedBy, Ordered, TypeOK
<1>2. ASSUME NEW stage, Done(q, stage)
      PROVE  group'[q].stages = group[q].stages \ {stage}
  BY <1>1, <1>2 DEF Done, Groups
<1>3. ASSUME NEW stage, Done(q, stage), Doing(q, stage), stage \in DOMAIN Earlier, stage # "lock", UNCHANGED lock
      PROVE  LockedBy(q)'
  <2>1. stage = "clean" => "lock" \notin group[q].stages
    BY <1>3 DEF Doing, Earlier
  <2> QED
    BY <1>1, <1>2, <1>3, <2>1 DEF LockedBy, Running
<1>4. CASE OpenConsole(q) \/ RemoveOld(q) \/ Translate(q)
  BY <1>3, <1>4 DEF OpenConsole, RemoveOld, Translate, Earlier
<1>5. CASE TakeLock(q)
  BY <1>1, <1>2, <1>5 DEF TakeLock, LockedBy, Running
<1>6. ASSUME NEW state \in {"exited", "failed"}, group' = [group EXCEPT ![q] = Group(state, {})]
      PROVE  LockedBy(q)'
  BY <1>1, <1>6 DEF LockedBy, Running, Group
<1>7. CASE TestOutput(q)
  BY <1>3, <1>6, <1>7 DEF TestOutput, Earlier
<1>8. CASE Solve(q)
  <2>1. "lock" \notin group[q].stages
    BY <1>8 DEF Solve, Doing, Earlier
  <2>2. group'[q].stages = {} /\ UNCHANGED lock
    BY <1>1, <1>8 DEF Solve, Groups
  <2> QED
    BY <1>1, <2>1, <2>2 DEF LockedBy, Running
<1>9. CASE StartPrinting(q)
  <2>1. group'[q].stages = group[q].stages /\ UNCHANGED lock
    BY <1>1, <1>9 DEF StartPrinting, Groups
  <2> QED
    BY <1>1, <2>1 DEF LockedBy, Running
<1>10. CASE EndPrinting(q)
  <2>1. group'[q].stages = group[q].stages /\ UNCHANGED lock
    BY <1>1, <1>10 DEF EndPrinting, Groups
  <2> QED
    BY <1>1, <2>1 DEF LockedBy, Running
<1>11. CASE Exit(q) \/ Fail(q)
  BY <1>6, <1>11 DEF Exit, Fail
<1>12. UNCHANGED lock \/ Release(q) \/ (lock = Nobody /\ lock' = q)
  BY DEF Planner, OpenConsole, TakeLock, RemoveOld, Translate, TestOutput, Solve, StartPrinting,
         EndPrinting, Exit, Fail
<1> QED
  BY <1>4, <1>5, <1>7, <1>8, <1>9, <1>10, <1>11, <1>12 DEF Planner

LEMMA RunnerLocked ==
  ASSUME Ordered, NEW q \in Runs, LockedBy(q), Runner(q) \/ Begin(q) \/ Finish(q) \/ Die(q), kind = "ICPCES"
  PROVE  /\ LockedBy(q)'
         /\ UNCHANGED lock \/ Release(q)
<1>1. /\ run \in [Runs -> Runners] /\ run[q] \in Runners /\ run[q].command = 1
      /\ group \in [Runs -> Groups] /\ group[q] \in Groups
      /\ Running(q) => run[q].pc \in {"wait", "term", "over"}
  BY DEF LockedBy, Running, Ordered, TypeOK, OneCommandAtATime
<1>2. CASE Fork(q)
  <2>1. run'[q].command = 1 /\ UNCHANGED lock
    BY <1>1, <1>2 DEF Fork, Runners
  <2>2. CASE group' = [group EXCEPT ![q] = Group("running", Stages(1))]
    <3>1. group'[q].stages = {"open", "lock", "clean", "translate", "solve"}
      BY <1>1, <2>2 DEF Group, Stages, GcFamily
    <3> QED
      BY <2>1, <3>1 DEF LockedBy
  <2>3. CASE UNCHANGED group
    BY <2>1, <2>3 DEF LockedBy, Running
  <2> QED
    BY <1>1, <1>2, <2>1, <2>2, <2>3 DEF Fork
<1>3. CASE Tick(q) \/ Poll(q) \/ Expire(q) \/ Finish(q) \/ Die(q)
  <2>1. run'[q].command = 1 /\ UNCHANGED <<group, lock>>
    BY <1>1, <1>3 DEF Tick, Poll, Expire, Finish, Die, Runners
  <2> QED
    BY <2>1 DEF LockedBy, Running
<1>4. CASE Kill(q)
  <2>1. run'[q].command = 1 /\ Release(q)
    BY <1>1, <1>4 DEF Kill, Killed, TimedOut, Runners
  <2>2. ~Running(q)'
    BY <1>1, <1>4 DEF Kill, Killed, Group, Running
  <2> QED
    BY <2>1, <2>2 DEF LockedBy
<1>5. CASE Read(q)
  <2>1. Answer(q).status # "MORE" /\ UNCHANGED <<group, lock>>
    BY <1>5, NoMore DEF Read
  <2>2. PICK a \in {Answer(q)} \cup {Gave(e) : e \in Refusals(q)} :
          a.status # "MORE" => run' = [run EXCEPT ![q].pc = IF a.status = "OK" THEN "publish" ELSE "returned",
                                                  ![q].status = a.status, ![q].basis = a.basis]
    BY <1>5 DEF Read
  <2>3. a.status # "MORE"
    <3>1. \A e \in Refusals(q) : Gave(e).status # "MORE"
      BY RefusalsType DEF Gave, Said, Statuses, Outcomes
    <3> QED
      BY <2>1, <3>1
  <2> DEFINE pc == IF a.status = "OK" THEN "publish" ELSE "returned"
             status == a.status
             basis == a.basis
  <2>4. run' = [run EXCEPT ![q].pc = pc, ![q].status = status, ![q].basis = basis]
    BY <2>2, <2>3
  <2> HIDE DEF pc, status, basis
  <2>5. run'[q].command = 1
    BY <1>1, <2>4 DEF Runners
  <2> QED
    BY <2>1, <2>5 DEF LockedBy, Running
<1>6. CASE Publish(q)
  <2>1. run'[q].command = 1 /\ UNCHANGED <<group, lock>>
    BY <1>1, <1>6 DEF Publish, Runners
  <2> QED
    BY <2>1 DEF LockedBy, Running
<1>7. CASE Begin(q)
  <2>1. UNCHANGED <<group, lock>> /\ ~Running(q)
    BY <1>1, <1>7 DEF Begin
  <2>2. run'[q].command = 1
    BY <1>1, <1>7 DEF Begin, NewCall
  <2> QED
    BY <2>1, <2>2 DEF LockedBy, Running
<1> QED
  BY <1>2, <1>3, <1>4, <1>5, <1>6, <1>7 DEF Runner

\* The processes other than the one that takes a step stand still.
LEMMA OneMoves ==
  ASSUME Ordered, Next
  PROVE  \/ StrayWrites
         \/ \E q \in Runs : /\ Planner(q) \/ Runner(q) \/ Begin(q) \/ Finish(q) \/ Die(q)
                            /\ \A r \in Runs \ {q} : group'[r] = group[r] /\ run'[r] = run[r]
<1>1. group \in [Runs -> Groups] /\ run \in [Runs -> Runners]
  BY DEF Ordered, TypeOK
<1>2. ASSUME NEW q \in Runs, Planner(q)
      PROVE  \A r \in Runs \ {q} : group'[r] = group[r] /\ run'[r] = run[r]
  <2>1. UNCHANGED run /\ \E g \in Groups : group' = [group EXCEPT ![q] = g]
    BY <1>2, PlannerSteps, PlannerTyped
  <2> QED
    BY <1>1, <2>1
<1>3. ASSUME NEW q \in Runs, Runner(q) \/ Begin(q) \/ Finish(q) \/ Die(q)
      PROVE  \A r \in Runs \ {q} : group'[r] = group[r] /\ run'[r] = run[r]
  BY <1>1, <1>3 DEF Runner, Fork, Tick, Poll, Expire, Kill, TimedOut, Killed, Read, Publish, Begin, Finish, Die
<1> QED
  BY <1>2, <1>3 DEF Next

\* The planner that is configured stays the same.
LEMMA SameKind ==
  ASSUME Next
  PROVE  UNCHANGED kind
BY PlannerSteps DEF Next, StrayWrites, Runner, Fork, Tick, Poll, Expire, Kill, Read, Publish, Begin, Finish, Die

LEMMA NextLocked ==
  ASSUME Ordered, LockHeld, Next
  PROVE  LockHeld'
<1>1. UNCHANGED kind
  BY SameKind
<1> SUFFICES ASSUME kind = "ICPCES", NEW r \in Runs PROVE LockedBy(r)'
  BY <1>1 DEF LockHeld, LockedBy
<1>2. \A q \in Runs : LockedBy(q)
  BY DEF LockHeld, LockedBy
<1>3. CASE StrayWrites
  BY <1>2, <1>3 DEF StrayWrites, LockedBy, Running
<1>4. ASSUME NEW q \in Runs, Planner(q) \/ Runner(q) \/ Begin(q) \/ Finish(q) \/ Die(q),
             \A s \in Runs \ {q} : group'[s] = group[s] /\ run'[s] = run[s]
      PROVE  LockedBy(r)'
  <2>1. LockedBy(q)' /\ (UNCHANGED lock \/ Release(q) \/ (lock = Nobody /\ lock' = q))
    BY <1>2, <1>4, PlannerLocked, RunnerLocked
  <2> QED
    BY <1>2, <1>4, <2>1, OthersLocked
<1> QED
  BY <1>3, <1>4, OneMoves

\* Only the beginning of a call engages a process.
LEMMA Engages ==
  ASSUME Ordered, NEW r \in Runs, Planner(r) \/ Runner(r) \/ Finish(r) \/ Die(r), Engaged(r)'
  PROVE  Engaged(r)
<1>1. run \in [Runs -> Runners] /\ run[r] \in Runners /\ group \in [Runs -> Groups]
  BY DEF Ordered, TypeOK
<1>2. CASE Planner(r)
  BY <1>2, PlannerSteps DEF Engaged, Active, Running
<1>3. CASE Runner(r)
  BY <1>3 DEF Runner, Fork, Tick, Poll, Expire, Kill, Read, Publish, Engaged, Active
<1>4. CASE Finish(r)
  BY <1>4 DEF Finish, Engaged
<1>5. CASE Die(r)
  <2>1. run'[r].pc = "over" /\ UNCHANGED group
    BY <1>1, <1>5 DEF Die, Runners
  <2> QED
    BY <2>1 DEF Engaged, Active, Running
<1> QED
  BY <1>2, <1>3, <1>4, <1>5

\* A process that has not begun, or is over with its planner, is not at work.
LEMMA NotEngaged ==
  ASSUME Ordered, NEW r \in Runs, run[r].pc = "over" \/ run[r].round = 0,
         Running(r) => run[r].pc \in {"wait", "term"}
  PROVE  ~Engaged(r)
BY DEF Ordered, Rounds, Underway, Engaged, Active, Running

LEMMA NextTurns ==
  ASSUME Ordered, TakingTurns, Next
  PROVE  TakingTurns'
<1>1. run \in [Runs -> Runners] /\ group \in [Runs -> Groups]
  BY DEF Ordered, TypeOK
<1>2. CASE StrayWrites
  BY <1>2 DEF StrayWrites, TakingTurns, Engaged, Active, Running
<1>3. ASSUME NEW q \in Runs, Planner(q) \/ Runner(q) \/ Begin(q) \/ Finish(q) \/ Die(q),
             \A s \in Runs \ {q} : group'[s] = group[s] /\ run'[s] = run[s]
      PROVE  TakingTurns'
  <2>1. ASSUME ~Killable, NEW r \in Runs, Running(r)'
        PROVE  run'[r].pc \in {"wait", "term"}
    <3>1. \A s \in Runs : Running(s) => run[s].pc \in {"wait", "term"}
      BY <2>1 DEF TakingTurns
    <3>2. CASE r # q
      BY <1>3, <2>1, <3>1, <3>2 DEF Running
    <3>3. CASE r = q
      <4>1. CASE Planner(q)
        BY <2>1, <3>1, <3>3, <4>1, PlannerSteps DEF Running
      <4>2. CASE Fork(q)
        BY <1>1, <2>1, <3>1, <3>3, <4>2 DEF Fork, Running, Runners
      <4>3. CASE Tick(q) \/ Poll(q) \/ Expire(q)
        BY <1>1, <2>1, <3>3, <4>3 DEF Tick, Poll, Expire, Running, Runners
      <4>4. CASE Kill(q)
        BY <1>1, <2>1, <3>3, <4>4 DEF Kill, Killed, Group, Running
      <4>5. CASE Read(q) \/ Publish(q) \/ Begin(q) \/ Finish(q)
        BY <2>1, <3>1, <3>3, <4>5 DEF Read, Publish, Begin, Finish, Running
      <4>6. ~Die(q)
        BY <2>1 DEF Die
      <4> QED
        BY <1>3, <4>1, <4>2, <4>3, <4>4, <4>5, <4>6 DEF Runner
    <3> QED
      BY <3>2, <3>3
  <2>2. ASSUME ~Killable, ~Parallel, NEW r \in Runs, NEW s \in Runs, Engaged(r)', Engaged(s)'
        PROVE  s = r
    <3>1. /\ \A x \in Runs : Running(x) => run[x].pc \in {"wait", "term"}
          /\ \A x, y \in Runs : Engaged(x) /\ Engaged(y) => y = x
      BY <2>2 DEF TakingTurns
    <3>2. \A x \in Runs \ {q} : Engaged(x)' <=> Engaged(x)
      BY <1>3 DEF Engaged, Active, Running
    <3>3. CASE Begin(q)
      <4>1. \A x \in Runs \ {q} : ~Engaged(x)
        BY <2>2, <3>1, <3>3, NotEngaged DEF Begin, Alone
      <4> QED
        BY <2>2, <3>2, <4>1
    <3>4. CASE ~Begin(q)
      <4>1. Engaged(q)' => Engaged(q)
        BY <1>3, <3>4, Engages
      <4> QED
        BY <2>2, <3>1, <3>2, <4>1
    <3> QED
      BY <3>3, <3>4
  <2> QED
    BY <2>1, <2>2 DEF TakingTurns
<1> QED
  BY <1>2, <1>3, OneMoves

-----------------------------------------------------------------------------
(* What the steps do to the files.                                          *)

\* A step leaves the files alone, changes files that its process may touch,
\* or is the late work of a descendant.
Removes(r, c, names) == files' = Removed(c, names) /\ run[r].pc \notin {"publish", "returned"}

FileStep ==
  \/ UNCHANGED files
  \/ \E r \in Runs, c \in Calls, names \in SUBSET FileNames :
       MayTouch(r, c, names) /\ (Works(c, names) \/ Removes(r, c, names))
  \/ ~Native /\ kind # "ICPCES" /\ \E c \in Calls : Works(c, FileNames)

LEMMA PutWorks ==
  ASSUME NEW c, NEW names, NEW f \in names, NEW what, files' = Put(At(c, f), c, what)
  PROVE  Works(c, names)
<1> DEFINE x == [of |-> c, what |-> what]
<1>1. x.of = c /\ files' = [files EXCEPT ![At(c, f)] = x]
  BY DEF Put
<1> HIDE DEF x
<1> QED
  BY <1>1 DEF Works

LEMMA ClearedFiles ==
  /\ Unlinked \subseteq FileNames /\ RemovedByShell \subseteq FileNames
  /\ \A t \in Points : Cleared(t) \subseteq FileNames
BY DEF Unlinked, RemovedByShell, FileNames, Cleared, Points

LEMMA Touches ==
  ASSUME NEW r \in Runs, NEW c \in Calls, NEW names \in SUBSET FileNames,
         MayTouch(r, c, names), Works(c, names) \/ Removes(r, c, names)
  PROVE  FileStep
BY DEF FileStep

\* A process at work may touch the files of its call, and what iCPCES leaves
\* in its directory when it has the lock.
LEMMA AtWork ==
  ASSUME Ordered, TakingTurns, NEW r \in Runs, Engaged(r), NEW names \in SUBSET FileNames,
         kind = "ICPCES" /\ "mid" \in names => lock = r
  PROVE  MayTouch(r, Current(r), names) /\ Current(r) \in Calls
<1>1. Current(r) \in Calls /\ Current(r)[1] = r
  BY CurrentCall DEF Ordered, Underway, Engaged, Active, Running, Current
<1> QED
  BY <1>1 DEF MayTouch, TakingTurns

\* A planner that is past its lock has it.
LEMMA HasLock ==
  ASSUME LockHeld, NEW r \in Runs, Running(r), "lock" \notin group[r].stages, kind = "ICPCES"
  PROVE  lock = r
BY DEF LockHeld

LEMMA PlannerFiles ==
  ASSUME NEW r \in Runs, Separate, Planner(r)
  PROVE  FileStep
<1> DEFINE c == Current(r)
<1>1. /\ Running(r) /\ Engaged(r) /\ group[r] \in Groups
      /\ Ordered /\ TakingTurns /\ LockHeld /\ OwnWork
  BY PlannerSteps DEF Separate, Ordered, TypeOK, Running, Engaged, Active
<1>2. c \in Calls
  BY <1>1, CurrentCall DEF Ordered, Underway, Running
<1>3. run[r].pc \in {"wait", "term", "over"}
  BY <1>1 DEF Ordered, OneCommandAtATime, Running
<1>4. ASSUME NEW names \in SUBSET FileNames, "mid" \in names => "lock" \notin group[r].stages,
             Works(c, names) \/ files' = Removed(c, names)
      PROVE  FileStep
  <2>1. MayTouch(r, c, names)
    BY <1>1, <1>4, AtWork, HasLock
  <2> QED
    BY <1>2, <1>3, <1>4, <2>1, Touches DEF Removes
<1>5. CASE OpenConsole(r)
  <2>1. Works(c, {"stdout"})
    BY <1>5, PutWorks DEF OpenConsole
  <2> QED
    BY <1>4, <2>1 DEF FileNames
<1>6. CASE TakeLock(r) \/ TestOutput(r) \/ Solve(r) \/ Exit(r) \/ Fail(r)
  BY <1>6 DEF TakeLock, TestOutput, Solve, Exit, Fail, FileStep
<1>7. CASE RemoveOld(r)
  <2>1. files' = Removed(c, RemovedByShell) /\ "lock" \notin group[r].stages
    BY <1>7 DEF RemoveOld, Doing, Earlier
  <2> QED
    BY <1>4, <2>1, ClearedFiles
<1>8. CASE Translate(r)
  <2>1. UNCHANGED files \/ Works(c, {"mid"})
    BY <1>8, PutWorks DEF Translate
  <2>2. "lock" \notin group[r].stages
    BY <1>8 DEF Translate, Doing, Earlier
  <2> QED
    BY <1>4, <2>1, <2>2 DEF FileNames, FileStep
<1>9. CASE StartPrinting(r)
  <2>1. PICK f \in group[r].todo, what \in {"empty", "cut"} : files' = Put(At(c, f), group[r].input, what)
    BY <1>9 DEF StartPrinting
  <2>2. f \in FileNames /\ group[r].input = c /\ group[r].stages = {}
    BY <1>1 DEF Groups, OwnWork
  <2>3. Works(c, FileNames)
    BY <2>1, <2>2, PutWorks
  <2> QED
    BY <1>4, <2>2, <2>3
<1>10. CASE EndPrinting(r)
  <2>1. PICK what \in Printable : files' = Put(At(c, group[r].writing), group[r].input, what)
    BY <1>10 DEF EndPrinting
  <2>2. group[r].writing \in FileNames /\ group[r].input = c /\ group[r].stages = {}
    BY <1>1, <1>10 DEF Groups, OwnWork, EndPrinting
  <2>3. Works(c, FileNames)
    BY <2>1, <2>2, PutWorks
  <2> QED
    BY <1>4, <2>2, <2>3
<1> QED
  BY <1>5, <1>6, <1>7, <1>8, <1>9, <1>10 DEF Planner

LEMMA StrayFiles ==
  ASSUME Undisturbed, Ordered, OwnWork, StrayWrites
  PROVE  FileStep
<1>1. PICK s \in strays, what \in {"cut", "plan"} : files' = Put(s.at, s.of, what)
  BY DEF StrayWrites
<1>2. s.by[1] \in Calls
  BY DEF Ordered, TypeOK, Strays
<1>3. PICK f \in FileNames : s.of = s.by[1] /\ s.at = At(s.by[1], f)
  BY DEF OwnWork
<1>4. ~Native /\ kind # "ICPCES"
  BY DEF Undisturbed, OwnWork
<1> QED
  BY <1>1, <1>2, <1>3, <1>4, PutWorks DEF FileStep

\* A process that begins may touch the files of the call to come.
LEMMA AtStart ==
  ASSUME Ordered, TakingTurns, NEW r \in Runs, Begin(r), NEW names \in SUBSET FileNames,
         kind # "ICPCES" \/ "mid" \notin names
  PROVE  MayTouch(r, <<r, run[r].round + 1>>, names) /\ <<r, run[r].round + 1>> \in Calls
<1>1. run[r] \in Runners /\ run[r].pc = "idle" /\ ~Engaged(r)
  BY DEF Ordered, TypeOK, Begin, Engaged, Active, Running, OneCommandAtATime
<1>2. run[r].round < MaxRounds /\ run[r].round \in 0..MaxRounds /\ MaxRounds \in Nat
  BY <1>1, RunnerSetup DEF Ordered, Rounds, Runners
<1>3. <<r, run[r].round + 1>> \in Calls
  BY <1>2 DEF Calls
<1>4. ~Parallel /\ ~Killable => \A q \in Runs \ {r} : ~Engaged(q)
  BY NotEngaged DEF Begin, Alone, TakingTurns
<1> QED
  BY <1>1, <1>3, <1>4 DEF MayTouch

LEMMA RunnerFiles ==
  ASSUME NEW r \in Runs, Separate, Runner(r) \/ Begin(r) \/ Finish(r) \/ Die(r)
  PROVE  FileStep
<1> DEFINE c == Current(r)
<1>1. run[r] \in Runners /\ Ordered /\ TakingTurns /\ OwnResult
  BY DEF Separate, Ordered, TypeOK
<1>2. CASE Begin(r)
  <2> DEFINE d == <<r, run[r].round + 1>>
  <2>1. files' = Removed(d, Unlinked) \/ UNCHANGED files
    BY <1>2 DEF Begin
  <2>2. kind # "ICPCES" \/ "mid" \notin Unlinked
    BY DEF Unlinked, CpcesFamily, GcFamily
  <2>3. MayTouch(r, d, Unlinked) /\ d \in Calls
    BY <1>1, <1>2, <2>2, AtStart, ClearedFiles
  <2> QED
    BY <1>2, <2>1, <2>3, ClearedFiles, Touches DEF Removes, FileStep, Begin
<1>3. CASE Fork(r) \/ Tick(r) \/ Poll(r) \/ Expire(r) \/ Kill(r) \/ Finish(r) \/ Die(r)
  BY <1>3 DEF Fork, Tick, Poll, Expire, Kill, Finish, Die, FileStep
<1>4. ASSUME run[r].pc \in {"read", "publish"}, NEW names \in SUBSET FileNames, "mid" \notin names
      PROVE  MayTouch(r, c, names) /\ c \in Calls
  BY <1>1, <1>4, AtWork DEF Engaged, Active
<1>5. CASE Read(r)
  <2>1. UNCHANGED files \/ files' = Removed(c, {"recovered"})
    BY <1>5 DEF Read
  <2>2. run[r].pc = "read"
    BY <1>5 DEF Read
  <2> QED
    BY <1>4, <2>1, <2>2, Touches DEF Removes, FileStep, FileNames
<1>6. CASE Publish(r)
  <2>1. UNCHANGED files \/ files' = [files EXCEPT ![At(c, "stable")] = Result(r)]
    BY <1>6 DEF Publish
  <2>2. run[r].pc = "publish" /\ Result(r).of = c
    BY <1>1, <1>6 DEF Publish, OwnResult
  <2>3. UNCHANGED files \/ Works(c, {"stable"})
    BY <2>1, <2>2 DEF Works
  <2> QED
    BY <1>4, <2>2, <2>3, Touches DEF FileStep, FileNames
<1> QED
  BY <1>2, <1>3, <1>5, <1>6 DEF Runner

\* Every change of a file that a call counts on is one that the call allows,
\* and the files of a call that is about to return are only replaced by work
\* of its own.
LEMMA NextFiles ==
  ASSUME Undisturbed, Separate, Next
  PROVE  /\ UNCHANGED kind
         /\ \A q \in Runs, g \in FileNames : Holds(q, g) =>
              /\ Allowed(Current(q), g)
              /\ run[q].pc \in {"publish", "returned"} => Kept(Current(q), g)
<1>1. UNCHANGED kind
  BY SameKind
<1>2. FileStep /\ Ordered
  BY PlannerFiles, StrayFiles, RunnerFiles DEF Next, Separate
<1> SUFFICES ASSUME NEW q \in Runs, NEW g \in FileNames, Holds(q, g)
             PROVE  /\ Allowed(Current(q), g)
                    /\ run[q].pc \in {"publish", "returned"} => Kept(Current(q), g)
  BY <1>1
<1>3. CASE UNCHANGED files
  BY <1>3 DEF Allowed, Kept
<1>4. ASSUME NEW r \in Runs, NEW c \in Calls, NEW names \in SUBSET FileNames, MayTouch(r, c, names),
             Works(c, names) \/ Removes(r, c, names)
      PROVE  /\ Allowed(Current(q), g)
             /\ run[q].pc \in {"publish", "returned"} => Kept(Current(q), g)
  <2>1. CASE Works(c, names)
    BY <1>2, <1>4, <2>1, OwnPut DEF Allowed
  <2>2. CASE Removes(r, c, names)
    <3>1. Allowed(Current(q), g) /\ (q # r => Kept(Current(q), g))
      BY <1>2, <1>4, <2>2, OwnRemoved DEF Removes
    <3> QED
      BY <2>2, <3>1 DEF Removes
  <2> QED
    BY <1>4, <2>1, <2>2
<1>5. ASSUME ~Native, kind # "ICPCES", NEW c \in Calls, Works(c, FileNames)
      PROVE  Kept(Current(q), g)
  BY <1>2, <1>5, StrayPut
<1> QED
  BY <1>2, <1>3, <1>4, <1>5 DEF FileStep, Allowed

-----------------------------------------------------------------------------
(* The work of the planners.                                                *)

LEMMA AtStays ==
  ASSUME UNCHANGED kind
  PROVE  /\ \A c, f : At(c, f)' = At(c, f)
         /\ \A r \in Runs : \A f : At(Current(r), f)' = At(Current(r)', f)
BY DEF At, InRoot, IterDir

\* A search reads what a stage of its own call has left.
LEMMA SolvesOwn ==
  ASSUME NEW r \in Runs, Ordered, CleanFiles, Doing(r, "solve"),
         kind \notin {"CFF", "GCPCES"}, Readable(files[At(Current(r), "mid")])
  PROVE  files[At(Current(r), "mid")].of = Current(r)
<1> DEFINE x == files[At(Current(r), "mid")]
<1>1. group[r].state = "running" /\ group[r].stages \cap Earlier["solve"] = {}
  BY DEF Doing
<1>2. "clean" \notin group[r].stages
  BY <1>1 DEF Earlier
<1>3. kind \in AllKinds
  BY RunnerSetup DEF Ordered, TypeOK
<1>4. Past(r, "unlink") /\ Past(r, "clean")
  BY <1>1, <1>2 DEF Past, Active, Running
<1>5. "mid" \in Cleared("unlink") \/ "mid" \in Cleared("clean")
  <2>1. kind = "T1" => "mid" \in Cleared("unlink")
    BY DEF Cleared, Unlinked, GcFamily, CpcesFamily
  <2>2. kind \in {"CPAH", "ICPCES"} \cup GcFamily \cup CpaFamily => "clean" \in Stages(1)
    BY DEF Stages, GcFamily, CpaFamily
  <2>3. kind # "T1" => "mid" \in RemovedByShell
    BY DEF RemovedByShell
  <2>4. kind \in {"CPAH", "ICPCES"} \cup GcFamily \cup CpaFamily => "mid" \in Cleared("clean")
    BY <2>2, <2>3 DEF Cleared, GcFamily, CpaFamily
  <2> QED
    BY <1>3, <2>1, <2>4 DEF AllKinds, CpcesFamily
<1>6. Mine(Current(r), x)
  BY <1>4, <1>5 DEF CleanFiles, Own, Points
<1> QED
  BY <1>6 DEF Mine, Exists, Readable

\* The group of a process works for the call of the process.
WorksFor(r) ==
  group[r].todo # {} \/ group[r].writing # "nothing" =>
    group[r].state = "running" /\ group[r].stages = {} /\ group[r].input = Current(r)

StrayOwn(s) == Background /\ kind # "ICPCES" /\ s.of = s.by[1] /\ \E f \in FileNames : s.at = At(s.by[1], f)

LEMMA OwnWorkParts == OwnWork <=> (\A r \in Runs : WorksFor(r)) /\ (\A s \in strays : StrayOwn(s))
BY DEF OwnWork, WorksFor, StrayOwn, Running

LEMMA IdleGroup ==
  ASSUME NEW r \in Runs, NEW state, NEW stages, TypeOK, group' = [group EXCEPT ![r] = Group(state, stages)]
  PROVE  WorksFor(r)'
BY DEF WorksFor, Group, TypeOK

LEMMA PlannerWorks ==
  ASSUME NEW r \in Runs, Undisturbed, Separate, Planner(r)
  PROVE  WorksFor(r)'
<1>1. group[r].state = "running" /\ UNCHANGED <<kind, run>> /\ Current(r)' = Current(r)
  BY PlannerSteps DEF Current
<1>2. group \in [Runs -> Groups] /\ group[r] \in Groups /\ TypeOK
  BY DEF Separate, Ordered, TypeOK
<1>3. WorksFor(r)
  BY OwnWorkParts DEF Separate
<1>4. ASSUME NEW stage \in DOMAIN Earlier, Doing(r, stage), Done(r, stage)
      PROVE  WorksFor(r)'
  <2>1. group[r].todo = {} /\ group[r].writing = "nothing"
    BY <1>3, <1>4 DEF WorksFor, Doing
  <2>2. group'[r].todo = {} /\ group'[r].writing = "nothing"
    BY <1>2, <1>4, <2>1 DEF Done, Groups
  <2> QED
    BY <2>2 DEF WorksFor
<1>5. CASE OpenConsole(r) \/ TakeLock(r) \/ RemoveOld(r) \/ Translate(r)
  BY <1>4, <1>5 DEF OpenConsole, TakeLock, RemoveOld, Translate, Earlier
<1>6. CASE TestOutput(r)
  BY <1>2, <1>4, <1>6, IdleGroup DEF TestOutput, Earlier
<1>7. CASE Solve(r)
  <2> DEFINE mid == files[At(Current(r), "mid")]
             direct == kind \in {"CFF", "GCPCES"}
  <2>1. group[r].writing = "nothing"
    BY <1>3, <1>7 DEF Solve, Doing, WorksFor
  <2>2. direct \/ ~Readable(mid) \/ mid.of = Current(r)
    BY <1>7, SolvesOwn DEF Solve, Separate
  <2>3. /\ group'[r].stages = {} /\ group'[r].state = "running" /\ group'[r].writing = "nothing"
        /\ group'[r].input = IF direct THEN Current(r) ELSE mid.of
        /\ group'[r].todo = IF direct \/ Readable(mid) THEN Printed(run[r].command) ELSE {}
    BY <1>1, <1>2, <1>7, <2>1 DEF Solve, Groups
  <2> QED
    BY <1>1, <2>2, <2>3 DEF WorksFor
<1>8. CASE StartPrinting(r)
  <2>1. PICK f \in group[r].todo : group' = [group EXCEPT ![r].writing = f, ![r].todo = @ \ {f}]
    BY <1>8 DEF StartPrinting
  <2> QED
    BY <1>1, <1>2, <1>3, <2>1 DEF WorksFor, Groups
<1>9. CASE EndPrinting(r)
  BY <1>1, <1>2, <1>3, <1>9 DEF WorksFor, Groups, EndPrinting
<1>10. CASE Exit(r) \/ Fail(r)
  BY <1>2, <1>10, IdleGroup DEF Exit, Fail
<1> QED
  BY <1>5, <1>6, <1>7, <1>8, <1>9, <1>10 DEF Planner

\* What a step changes: one group at most, and only a planner that ends adds
\* a descendant.
LEMMA WorkSteps ==
  ASSUME Ordered, Next
  PROVE  /\ \A s \in strays' : \/ s \in strays
                               \/ \E r \in Runs : /\ Background /\ kind # "ICPCES" /\ group[r].todo # {}
                                                  /\ s.by = Command(r) /\ s.of = group[r].input
                                                  /\ \E f \in group[r].todo : s.at = At(Current(r), f)
         /\ \A r \in Runs : \/ Planner(r)
                            \/ Runner(r) \/ Begin(r) \/ Finish(r) \/ Die(r)
                            \/ group'[r] = group[r] /\ run'[r] = run[r]
<1>1. group \in [Runs -> Groups] /\ run \in [Runs -> Runners]
  BY DEF Ordered, TypeOK
<1>2. CASE StrayWrites
  BY <1>2 DEF StrayWrites
<1>3. ASSUME NEW q \in Runs, Planner(q)
      PROVE  /\ UNCHANGED run /\ \A r \in Runs \ {q} : group'[r] = group[r]
             /\ \A s \in strays' : s \in strays \/ /\ Background /\ kind # "ICPCES" /\ group[q].todo # {}
                                                   /\ s.by = Command(q) /\ s.of = group[q].input
                                                   /\ \E f \in group[q].todo : s.at = At(Current(q), f)
  <2>1. UNCHANGED run /\ \E g \in Groups : group' = [group EXCEPT ![q] = g]
    BY <1>3, PlannerSteps, PlannerTyped
  <2>2. UNCHANGED strays \/ Leaves(q)
    BY <1>3 DEF Planner, OpenConsole, TakeLock, RemoveOld, Translate, TestOutput, Solve, StartPrinting,
                EndPrinting, Exit, Fail
  <2> QED
    BY <1>1, <2>1, <2>2 DEF Leaves
<1>4. ASSUME NEW q \in Runs, Runner(q) \/ Begin(q) \/ Finish(q) \/ Die(q)
      PROVE  /\ strays' \subseteq strays
             /\ \A r \in Runs \ {q} : group'[r] = group[r] /\ run'[r] = run[r]
  BY <1>1, <1>4 DEF Runner, Fork, Tick, Poll, Expire, Kill, TimedOut, Killed, Read, Publish, Begin, Finish, Die
<1> QED
  BY <1>2, <1>3, <1>4 DEF Next, StrayWrites

LEMMA NextWorks ==
  ASSUME Undisturbed, Separate, Next
  PROVE  OwnWork'
<1>1. Ordered /\ UNCHANGED kind /\ (\A r \in Runs : WorksFor(r)) /\ (\A s \in strays : StrayOwn(s))
  BY NextFiles, OwnWorkParts DEF Separate
<1>2. group \in [Runs -> Groups] /\ run \in [Runs -> Runners]
  BY <1>1 DEF Ordered, TypeOK
<1>3. ASSUME NEW s \in strays'
      PROVE  StrayOwn(s)'
  <2>1. StrayOwn(s) => StrayOwn(s)'
    BY <1>1, AtStays DEF StrayOwn
  <2>2. CASE s \notin strays
    <3>1. PICK r \in Runs : /\ Background /\ kind # "ICPCES" /\ group[r].todo # {}
                            /\ s.by = Command(r) /\ s.of = group[r].input
                            /\ \E f \in group[r].todo : s.at = At(Current(r), f)
      BY <1>1, <2>2, WorkSteps
    <3>2. group[r].input = Current(r) /\ s.by[1] = Current(r) /\ group[r].todo \subseteq FileNames
      BY <1>1, <1>2, <3>1 DEF WorksFor, Command, Groups
    <3> QED
      BY <2>1, <3>1, <3>2 DEF StrayOwn
  <2> QED
    BY <1>1, <2>1, <2>2
<1>4. ASSUME NEW r \in Runs
      PROVE  WorksFor(r)'
  <2>1. CASE Planner(r)
    BY <2>1, PlannerWorks
  <2>2. CASE group'[r] = group[r] /\ run'[r] = run[r]
    BY <1>1, <2>2 DEF WorksFor, Current
  <2>3. CASE Fork(r)
    <3>1. CASE \E stages : group' = [group EXCEPT ![r] = Group("running", stages)]
      BY <1>1, <3>1, IdleGroup DEF Ordered
    <3>2. CASE UNCHANGED group /\ run' = [run EXCEPT ![r].pc = "read", ![r].outcome = "IO_ERROR"]
      BY <1>1, <1>2, <3>2 DEF WorksFor, Current, Runners
    <3> QED
      BY <2>3, <3>1, <3>2 DEF Fork
  <2>4. CASE Kill(r)
    <3>1. CASE group[r].state = "running"
      BY <1>1, <2>4, <3>1, IdleGroup DEF Ordered, Kill, Killed
    <3>2. CASE group[r].state # "running"
      BY <1>1, <1>2, <2>4, <3>2 DEF WorksFor, Kill, Killed
    <3> QED
      BY <3>1, <3>2
  <2>5. CASE Begin(r)
    <3>1. group[r].state # "running" /\ UNCHANGED group
      BY <1>1, <2>5 DEF Begin, Ordered, OneCommandAtATime
    <3> QED
      BY <1>1, <3>1 DEF WorksFor
  <2>6. CASE Tick(r) \/ Poll(r) \/ Expire(r) \/ Read(r) \/ Publish(r) \/ Finish(r) \/ Die(r)
    <3>1. run[r] \in Runners
      BY <1>2
    <3>2. Read(r) => run'[r].round = run[r].round
      BY <1>2, <3>1 DEF Read, Runners
    <3>3. Publish(r) => run'[r].round = run[r].round
      BY <1>2, <3>1 DEF Publish, Runners
    <3>4. Tick(r) \/ Poll(r) \/ Expire(r) \/ Finish(r) \/ Die(r) => run'[r].round = run[r].round
      BY <1>2, <3>1 DEF Tick, Poll, Expire, Finish, Die, Runners
    <3>5. UNCHANGED group /\ run'[r].round = run[r].round
      BY <2>6, <3>2, <3>3, <3>4 DEF Tick, Poll, Expire, Read, Publish, Finish, Die
    <3> QED
      BY <1>1, <3>5 DEF WorksFor, Current
  <2> QED
    BY <1>1, <2>1, <2>2, <2>3, <2>4, <2>5, <2>6, WorkSteps DEF Runner
<1> QED
  BY <1>3, <1>4 DEF OwnWork, WorksFor, StrayOwn, Running

-----------------------------------------------------------------------------
(* The files a call no longer shares with leftovers.                        *)

\* A step takes a call past a point only by what clears its files.
ClearedNow(r, t) == \A f \in Cleared(t) : Mine(Current(r)', files'[At(Current(r)', f)])

LEMMA RemovedClears ==
  ASSUME TypeOK, NEW r \in Runs, Current(r)' \in Calls, NEW names \in SUBSET FileNames,
         files' = Removed(Current(r)', names), NEW t, Cleared(t) \subseteq names
  PROVE  ClearedNow(r, t)
<1> DEFINE c == Current(r)'
<1>1. c \in Calls /\ files' = Removed(c, names)
  OBVIOUS
<1> HIDE DEF c
<1>2. \A f \in names : ~Exists(files'[At(c, f)])
  BY <1>1, RemovedGone
<1> QED
  BY <1>2 DEF ClearedNow, Mine, c

LEMMA PlannerPoints ==
  ASSUME Separate, NEW r \in Runs, Planner(r), NEW t \in Points, Past(r, t)'
  PROVE  Current(r)' = Current(r) /\ (Past(r, t) \/ ClearedNow(r, t))
<1>1. group[r].state = "running" /\ UNCHANGED <<kind, run>> /\ Current(r)' = Current(r)
  BY PlannerSteps DEF Current
<1>2. group \in [Runs -> Groups] /\ group[r] \in Groups /\ Ordered /\ TypeOK
  BY DEF Separate, Ordered, TypeOK
<1>3. Current(r)' \in Calls
  BY <1>1, <1>2, CurrentCall DEF Ordered, Underway
<1>4. run[r].pc \in {"wait", "term", "over"}
  BY <1>1, <1>2 DEF Ordered, OneCommandAtATime
<1>5. ASSUME group'[r].state = "running", t \in group[r].stages => t \in group'[r].stages
      PROVE  Past(r, t)
  BY <1>1, <1>4, <1>5 DEF Past, Active, Running
<1>6. ASSUME group'[r].state = "failed" \/ group[r].stages \cap {"open", "clean"} = {}
      PROVE  Past(r, t)
  BY <1>1, <1>4, <1>6 DEF Past, Active, Running
<1>7. ASSUME NEW stage \in DOMAIN Earlier, Done(r, stage), t # stage
      PROVE  Past(r, t)
  BY <1>1, <1>2, <1>5, <1>7 DEF Done, Groups
<1>8. CASE OpenConsole(r)
  <2>1. CASE t = "open"
    <3>1. files' = Put(At(Current(r), "stdout"), Current(r), "empty") /\ At(Current(r), "stdout") \in Locations
      BY <1>1, <1>3, <1>8, AtLocated DEF OpenConsole, FileNames
    <3>2. files'[At(Current(r), "stdout")].of = Current(r)
      BY <1>2, <3>1 DEF Put, TypeOK
    <3> QED
      BY <1>1, <2>1, <3>2 DEF ClearedNow, Cleared, Mine
  <2> QED
    BY <1>1, <1>7, <1>8, <2>1 DEF OpenConsole, Earlier
<1>9. CASE TakeLock(r) \/ Translate(r)
  BY <1>1, <1>7, <1>9 DEF TakeLock, Translate, Earlier, Points
<1>10. CASE RemoveOld(r)
  <2>1. CASE t = "clean"
    <3>1. Cleared("clean") \subseteq RemovedByShell
      BY DEF Cleared
    <3> QED
      BY <1>1, <1>2, <1>3, <1>10, <2>1, <3>1, RemovedClears, ClearedFiles DEF RemoveOld
  <2> QED
    BY <1>1, <1>7, <1>10, <2>1 DEF RemoveOld, Earlier
<1>11. CASE TestOutput(r)
  <2>1. Group("failed", {}).state = "failed"
    BY DEF Group
  <2> QED
    BY <1>1, <1>2, <1>6, <1>7, <1>11, <2>1 DEF TestOutput, Earlier, Points
<1>12. CASE Solve(r)
  BY <1>1, <1>6, <1>12 DEF Solve, Doing, Earlier
<1>13. CASE StartPrinting(r)
  BY <1>1, <1>2, <1>5, <1>13 DEF StartPrinting, Groups
<1>14. CASE EndPrinting(r)
  BY <1>1, <1>2, <1>5, <1>14 DEF EndPrinting, Groups
<1>15. CASE Exit(r)
  BY <1>1, <1>6, <1>15 DEF Exit
<1>16. CASE Fail(r)
  <2>1. Group("failed", {}).state = "failed"
    BY DEF Group
  <2> QED
    BY <1>1, <1>2, <1>6, <1>16, <2>1 DEF Fail
<1> QED
  BY <1>8, <1>9, <1>10, <1>11, <1>12, <1>13, <1>14, <1>15, <1>16 DEF Planner

LEMMA RunnerPoints ==
  ASSUME Separate, NEW r \in Runs, Runner(r) \/ Begin(r) \/ Finish(r) \/ Die(r),
         NEW t \in Points, Past(r, t)'
  PROVE  (Current(r)' = Current(r) /\ Past(r, t)) \/ ClearedNow(r, t)
<1>1. /\ group \in [Runs -> Groups] /\ run \in [Runs -> Runners] /\ run[r] \in Runners
      /\ Ordered /\ TypeOK /\ CleanFiles
  BY DEF Separate, Ordered, TypeOK
<1>2. group[r].state = "running" => run[r].pc \in {"wait", "term", "over"}
  BY <1>1 DEF Ordered, OneCommandAtATime
<1>3. /\ kind' = kind
      /\ t \in {"open", "clean"} /\ ~Running(r)' => kind # "ICPCES"
  <2>1. UNCHANGED kind
    BY DEF Runner, Fork, Tick, Poll, Expire, Kill, Read, Publish, Begin, Finish, Die
  <2> QED
    BY <2>1 DEF Past
<1>4. CASE Begin(r)
  <2>1. group' = group /\ group[r].state # "running" /\ run[r].pc = "idle"
    BY <1>2, <1>4 DEF Begin
  <2>2. PICK p \in {"fork", "returned"}, e \in {"OK"} \cup EarlyErrors : run' = [run EXCEPT ![r] = NewCall(r, p, e)]
    BY <1>4 DEF Begin
  <2>3. run'[r].pc = p /\ run'[r].command = 1 /\ run'[r].round = run[r].round + 1
    BY <1>1, <2>2 DEF NewCall
  <2>4. p = "fork" /\ t = "unlink"
    BY <2>1, <2>3 DEF Past, Active, Running, Points
  <2>5. files' = Removed(<<r, run[r].round + 1>>, Unlinked)
    <3>1. ~\E e2 \in EarlyErrors : run' = [run EXCEPT ![r] = NewCall(r, "returned", e2)]
      BY <1>1, <2>3, <2>4 DEF NewCall
    <3> QED
      BY <1>4, <3>1 DEF Begin
  <2>6. Current(r)' = <<r, run[r].round + 1>>
    BY <2>3 DEF Current
  <2>7. run[r].round + 1 \in 1..MaxRounds
    BY <1>1, <2>1, RunnerSetup DEF Ordered, Rounds, Runners
  <2>8. Current(r)' \in Calls
    BY <2>6, <2>7 DEF Calls
  <2> QED
    BY <1>1, <2>4, <2>5, <2>6, <2>8, RemovedClears, ClearedFiles DEF Cleared
<1>5. ASSUME ~Begin(r)
      PROVE  Current(r)' = Current(r)
  <2>1. Read(r) => run'[r].round = run[r].round
    BY <1>1 DEF Read, Runners
  <2>2. Publish(r) => run'[r].round = run[r].round
    BY <1>1 DEF Publish, Runners
  <2>3. Fork(r) => run'[r].round = run[r].round
    BY <1>1 DEF Fork, Runners
  <2>4. Tick(r) \/ Poll(r) \/ Expire(r) \/ Kill(r) \/ Finish(r) \/ Die(r) => run'[r].round = run[r].round
    BY <1>1 DEF Tick, Poll, Expire, Kill, TimedOut, Finish, Die, Runners
  <2> QED
    BY <1>5, <2>1, <2>2, <2>3, <2>4 DEF Runner, Current
<1>6. CASE Fork(r)
  <2>1. run[r].pc = "fork" /\ run'[r].command = run[r].command
    BY <1>1, <1>6 DEF Fork, Runners
  <2>2. run[r].command = 2 \/ t = "unlink" => Past(r, t)
    <3>1. run[r].command = 2 => kind # "ICPCES"
      BY DEF Separate, LockHeld
    <3> QED
      BY <1>3, <2>1, <3>1 DEF Past, Active, Running, Points
  <2>3. CASE run[r].command # 2 /\ t # "unlink"
    <3>1. run[r].command = 1 /\ t \in {"open", "clean"}
      BY <1>1, <2>1, <2>3 DEF Runners, Past, Points
    <3>2. \/ group' = [group EXCEPT ![r] = Group("running", Stages(1))]
          \/ UNCHANGED group /\ run' = [run EXCEPT ![r].pc = "read", ![r].outcome = "IO_ERROR"]
      BY <1>6, <3>1 DEF Fork
    <3>3. ~(UNCHANGED group /\ run' = [run EXCEPT ![r].pc = "read", ![r].outcome = "IO_ERROR"])
      BY <1>1, <1>2, <2>1, <2>3, <3>1 DEF Past, Running, Runners
    <3>4. group'[r].state = "running" /\ group'[r].stages = Stages(1)
      BY <1>1, <3>2, <3>3 DEF Group
    <3>5. run'[r].pc = "wait"
      BY <1>1, <1>6, <3>3 DEF Fork, Runners
    <3>6. t \notin Stages(1)
      BY <2>1, <2>3, <3>1, <3>4, <3>5 DEF Past
    <3>7. "open" \in Stages(1)
      BY DEF Stages
    <3> QED
      BY <3>1, <3>6, <3>7 DEF ClearedNow, Cleared
  <2> QED
    BY <1>5, <1>6, <2>1, <2>2, <2>3 DEF Begin
<1>7. CASE Tick(r) \/ Expire(r)
  <2>1. group' = group /\ run[r].pc = "wait" /\ run'[r].pc \in {"wait", "term"} /\ run'[r].command = run[r].command
    BY <1>1, <1>7 DEF Tick, Expire, Runners
  <2>2. Past(r, t)
    BY <1>3, <2>1 DEF Past, Active, Running
  <2> QED
    BY <1>5, <2>1, <2>2 DEF Begin
<1>8. CASE Poll(r)
  <2>1. /\ group' = group /\ run[r].pc = "wait" /\ run'[r].pc = "read" /\ run'[r].command = run[r].command
        /\ run'[r].outcome = "OK" => group[r].state = "exited"
    BY <1>1, <1>8 DEF Poll, Runners
  <2>2. Past(r, t)
    BY <1>3, <2>1 DEF Past, Active, Running
  <2> QED
    BY <1>5, <2>1, <2>2 DEF Begin
<1>9. CASE Kill(r)
  <2>1. /\ run[r].pc = "term" /\ run'[r].pc = "read" /\ run'[r].command = run[r].command
        /\ run'[r].outcome = "PLANNER_TIMEOUT"
    BY <1>1, <1>9 DEF Kill, TimedOut, Runners
  <2>2. group'[r].state # "running"
    BY <1>1, <1>9 DEF Kill, Killed, Group
  <2>3. Past(r, t)
    BY <1>3, <2>1, <2>2 DEF Past, Active, Running
  <2> QED
    BY <1>5, <2>1, <2>3 DEF Begin
<1>10. CASE Read(r)
  <2>1. run[r].pc = "read" /\ group' = group /\ group[r].state # "running"
    BY <1>2, <1>10 DEF Read
  <2>2. t = "unlink" => Past(r, t)
    BY <2>1 DEF Past, Active, Running
  <2>3. CASE /\ Answer(r).status = "MORE"
             /\ files' = IF kind \in CpaFamily THEN Removed(Current(r), {"recovered"}) ELSE files
    <3>1. t \in {"open", "clean"} => Past(r, t)
      BY <1>1, <1>3, <2>1, <2>3, MoreIsOK DEF Past, Active, Running
    <3>2. Current(r)' \in Calls /\ Current(r)' = Current(r)
      BY <1>1, <1>5, <2>1, CurrentCall DEF Ordered, Underway, Begin
    <3>3. Cleared("recover") = IF kind \in CpaFamily THEN {"recovered"} ELSE {}
      BY DEF Cleared
    <3>4. CASE t = "recover" /\ kind \in CpaFamily
      BY <1>1, <2>3, <3>2, <3>3, <3>4, RemovedClears DEF FileNames
    <3>5. CASE t = "recover" /\ kind \notin CpaFamily
      BY <3>3, <3>5 DEF ClearedNow
    <3> QED
      BY <2>2, <3>1, <3>2, <3>4, <3>5 DEF Points
  <2>4. CASE /\ Answer(r).status \in Verdicts
             /\ run' = [run EXCEPT ![r].pc = IF Answer(r).status = "OK" THEN "publish" ELSE "returned",
                                   ![r].status = Answer(r).status, ![r].basis = Answer(r).basis]
    <3>1. run'[r].pc \in {"publish", "returned"} /\ run'[r].command = run[r].command
      BY <1>1, <2>4 DEF Runners
    <3>2. run'[r].pc = "publish"
      BY <2>1, <3>1 DEF Past, Active, Running
    <3>3. run[r].command = 2 => Past(r, t)
      BY <1>3, <2>1 DEF Past, Active, Running
    <3>4. CASE run[r].command # 2 /\ t # "unlink"
      <4>1. t = "clean"
        BY <2>1, <3>1, <3>2, <3>4 DEF Past, Running, Points
      <4>2. "clean" \in Stages(1) => run[r].outcome = "OK"
        BY <1>1, <1>3, <2>1, <2>4, <3>4, <4>1, AnswerMine DEF Running
      <4>3. "clean" \notin Stages(1) => Cleared("clean") = {}
        BY DEF Cleared
      <4>4. run[r].outcome = "OK" => Past(r, t)
        BY <1>3, <2>1, <4>1 DEF Past, Active, Running
      <4>5. Current(r)' = Current(r)
        BY <1>5, <2>1 DEF Begin
      <4> QED
        BY <4>1, <4>2, <4>3, <4>4, <4>5 DEF ClearedNow
    <3> QED
      BY <1>5, <2>1, <2>2, <3>3, <3>4 DEF Begin
  <2>5. ASSUME NEW status, NEW basis,
               run' = [run EXCEPT ![r].pc = "returned", ![r].status = status, ![r].basis = basis]
        PROVE  FALSE
    <3>1. run'[r].pc = "returned"
      BY <1>1, <2>5 DEF Runners
    <3> QED
      BY <2>1, <3>1 DEF Past, Active, Running
  <2> QED
    BY <1>1, <1>10, <2>3, <2>4, <2>5, ReadAnswers
<1>11. CASE Publish(r) \/ Finish(r)
  <2>1. group' = group /\ group[r].state # "running"
    BY <1>2, <1>11 DEF Publish, Finish
  <2>2. run'[r].pc \in {"returned", "idle", "over"}
    <3>1. Publish(r) => run'[r].pc = "returned"
      BY <1>1 DEF Publish, Runners
    <3>2. Finish(r) => run'[r].pc \in {"idle", "over"}
      BY <1>1 DEF Finish, Runners
    <3> QED
      BY <1>11, <3>1, <3>2
  <2> QED
    BY <2>1, <2>2 DEF Past, Active, Running
<1>12. CASE Die(r)
  <2>1. group' = group /\ run'[r].pc = "over" /\ run'[r].command = run[r].command /\ run[r].pc # "over"
    BY <1>1, <1>12 DEF Die, Runners
  <2>2. Past(r, t)
    BY <1>3, <2>1 DEF Past, Active, Running
  <2>3. group[r].state = "running"
    BY <2>1 DEF Past, Active, Running
  <2> QED
    BY <1>2, <1>5, <2>2, <2>3 DEF Begin
<1> QED
  BY <1>4, <1>6, <1>7, <1>8, <1>9, <1>10, <1>11, <1>12 DEF Runner

\* The runners and the groups of the other processes stand still.
LEMMA OthersStand ==
  ASSUME Ordered, Next, NEW r \in Runs, ~Planner(r), ~(Runner(r) \/ Begin(r) \/ Finish(r) \/ Die(r))
  PROVE  group'[r] = group[r] /\ run'[r] = run[r]
BY WorkSteps

\* What a call has cleared, it counts on.
LEMMA ClearedHeld ==
  ASSUME Ordered, LockHeld, NEW r \in Runs, NEW t \in Points, Past(r, t), NEW f \in Cleared(t)
  PROVE  Holds(r, f)
<1>1. Engaged(r)
  BY DEF Past, Engaged
<1>2. ASSUME kind = "ICPCES", f = "mid"
      PROVE  lock = r
  <2>1. "mid" \notin Unlinked /\ kind \notin CpaFamily
    BY <1>2 DEF Unlinked, CpcesFamily, GcFamily, CpaFamily
  <2>2. t = "clean"
    BY <1>2, <2>1 DEF Cleared, Points
  <2>3. Running(r) /\ "clean" \notin group[r].stages
    BY <1>2, <2>2 DEF Past
  <2> QED
    BY <1>2, <2>3 DEF LockHeld
<1> QED
  BY <1>1, <1>2 DEF Holds

LEMMA NextClean ==
  ASSUME Undisturbed, Separate, Next
  PROVE  CleanFiles'
<1>1. /\ Ordered /\ LockHeld /\ CleanFiles /\ UNCHANGED kind
      /\ \A q \in Runs, g \in FileNames : Holds(q, g) => Allowed(Current(q), g)
  BY NextFiles DEF Separate
<1>2. \A t : Cleared(t)' = Cleared(t)
  BY <1>1 DEF Cleared, Unlinked, Stages, RemovedByShell
<1> SUFFICES ASSUME NEW r \in Runs, NEW t \in Points, Past(r, t)', NEW f \in Cleared(t)
             PROVE  Mine(Current(r)', files'[At(Current(r)', f)])
  BY <1>1, <1>2, AtStays DEF CleanFiles, Own, Mine, Exists
<1>3. ASSUME Past(r, t), Current(r)' = Current(r)
      PROVE  Mine(Current(r)', files'[At(Current(r)', f)])
  <2>1. Holds(r, f) /\ f \in FileNames
    BY <1>1, <1>3, ClearedHeld, ClearedFiles
  <2>2. Mine(Current(r), files[At(Current(r), f)])
    BY <1>1, <1>3 DEF CleanFiles, Own
  <2> QED
    BY <1>1, <1>3, <2>1, <2>2, AllowedOwn
<1>4. CASE Planner(r)
  BY <1>3, <1>4, PlannerPoints DEF ClearedNow
<1>5. CASE Runner(r) \/ Begin(r) \/ Finish(r) \/ Die(r)
  BY <1>3, <1>5, RunnerPoints DEF ClearedNow
<1>6. CASE group'[r] = group[r] /\ run'[r] = run[r]
  BY <1>1, <1>3, <1>6 DEF Past, Active, Running, Current
<1> QED
  BY <1>1, <1>4, <1>5, <1>6, OthersStand

-----------------------------------------------------------------------------
(* Results and answers.                                                     *)

ResultOwn(r) ==
  run[r].pc = "publish" =>
    run[r].status = "OK" /\ run[r].basis.of = Current(r) /\ Result(r).of = Current(r)

AnswerOwn(r) ==
  run[r].pc = "returned" /\ run[r].status \in Verdicts =>
    /\ run[r].basis.of = Current(r)
    /\ run[r].status = "OK" => files[At(Current(r), ResultFile)].of = Current(r)

LEMMA OwnParts ==
  /\ OwnResult <=> \A r \in Runs : ResultOwn(r)
  /\ OwnAnswer <=> \A r \in Runs : AnswerOwn(r)
BY DEF OwnResult, OwnAnswer, ResultOwn, AnswerOwn

\* A runner that stands still keeps its result and its answer.
LEMMA OwnKept ==
  ASSUME Undisturbed, Separate, Next, NEW r \in Runs, run'[r] = run[r]
  PROVE  ResultOwn(r)' /\ AnswerOwn(r)'
<1>1. /\ UNCHANGED kind /\ Current(r)' = Current(r)
      /\ run[r].pc \in {"publish", "returned"} => \A f \in FileNames \ {"mid"} : Kept(Current(r), f)
  BY NextFiles DEF Current, Holds, Engaged, Active
<1>2. ResultOwn(r) /\ AnswerOwn(r)
  BY OwnParts DEF Separate
<1>3. /\ ResultFile' = ResultFile /\ ResultFile \in FileNames \ {"mid"}
      /\ CopiedFile(r)' = CopiedFile(r) /\ CopiedFile(r) \in FileNames \ {"mid"}
  BY <1>1 DEF ResultFile, CopiedFile, FileNames
<1>4. \A f \in FileNames \ {"mid"} : run[r].pc \in {"publish", "returned"} /\ files[At(Current(r), f)].of = Current(r)
                             => files'[At(Current(r), f)].of = Current(r)
  BY <1>1 DEF Kept
<1>5. At(Current(r), ResultFile)' = At(Current(r), ResultFile)
  BY <1>1, <1>3, AtStays DEF At, InRoot, IterDir
<1>6. At(Current(r), CopiedFile(r))' = At(Current(r), CopiedFile(r))
  BY <1>1, <1>3 DEF At, InRoot, IterDir
<1>7. AnswerOwn(r)'
  BY <1>1, <1>2, <1>3, <1>4, <1>5 DEF AnswerOwn
<1>8. ResultOwn(r)'
  <2>1. Result(r) = IF kind \in Copies THEN files[At(Current(r), CopiedFile(r))] ELSE run[r].basis
    BY ResultOf
  <2>2. Result(r)' = IF kind \in Copies THEN files'[At(Current(r), CopiedFile(r))] ELSE run[r].basis
    BY <1>1, <1>6 DEF Result, Copies, CopiedFile, CpaFamily
  <2> QED
    BY <1>1, <1>2, <1>3, <1>4, <2>1, <2>2 DEF ResultOwn
<1> QED
  BY <1>7, <1>8

\* Reading makes a result or an answer that is the work of the call.
LEMMA ReadOwn ==
  ASSUME Separate, NEW r \in Runs, Read(r)
  PROVE  ResultOwn(r)' /\ AnswerOwn(r)'
<1>1. run \in [Runs -> Runners] /\ run[r] \in Runners /\ Ordered /\ CleanFiles
  BY DEF Separate, Ordered, TypeOK
<1>2. run[r].pc = "read" /\ UNCHANGED kind
  BY DEF Read
<1>3. CASE Answer(r).status = "MORE" /\ run' = [run EXCEPT ![r].pc = "fork", ![r].command = 2]
  <2>1. run'[r].pc = "fork"
    BY <1>1, <1>3 DEF Runners
  <2> QED
    BY <2>1 DEF ResultOwn, AnswerOwn
<1>4. ASSUME NEW status \in Statuses \ Verdicts, NEW basis,
             run' = [run EXCEPT ![r].pc = "returned", ![r].status = status, ![r].basis = basis]
      PROVE  ResultOwn(r)' /\ AnswerOwn(r)'
  <2>1. run'[r].pc = "returned" /\ run'[r].status = status
    BY <1>1, <1>4 DEF Runners
  <2> QED
    BY <1>4, <2>1 DEF ResultOwn, AnswerOwn, Verdicts
<1>5. CASE /\ Answer(r).status \in Verdicts
           /\ run' = [run EXCEPT ![r].pc = IF Answer(r).status = "OK" THEN "publish" ELSE "returned",
                                 ![r].status = Answer(r).status, ![r].basis = Answer(r).basis]
           /\ UNCHANGED files
  <2> DEFINE a == Answer(r)
  <2>1. /\ a.basis.of = Current(r)
        /\ a.status = "OK" /\ kind \in Copies => a.basis = files[At(Current(r), CopiedFile(r))]
    BY <1>1, <1>2, <1>5, AnswerMine
  <2> HIDE DEF a
  <2>2. /\ run'[r].pc = IF a.status = "OK" THEN "publish" ELSE "returned"
        /\ run'[r].status = a.status /\ run'[r].basis = a.basis
        /\ run'[r].round = run[r].round /\ run'[r].command = run[r].command
    BY <1>1, <1>5 DEF Runners, a
  <2>3. Current(r)' = Current(r)
    BY <2>2 DEF Current
  <2>4. AnswerOwn(r)'
    BY <2>1, <2>2, <2>3 DEF AnswerOwn
  <2>5. Result(r)' = IF kind \in Copies THEN files[At(Current(r), CopiedFile(r))] ELSE a.basis
    BY <1>2, <1>5, <2>2, <2>3 DEF Result, Copies, CopiedFile, CpaFamily, At, InRoot, IterDir
  <2>6. ResultOwn(r)'
    BY <2>1, <2>2, <2>3, <2>5 DEF ResultOwn
  <2> QED
    BY <2>4, <2>6
<1> QED
  BY <1>1, <1>3, <1>4, <1>5, ReadAnswers

\* Publishing returns it.
LEMMA PublishOwn ==
  ASSUME Separate, NEW r \in Runs, Publish(r)
  PROVE  ResultOwn(r)' /\ AnswerOwn(r)'
<1>1. /\ run \in [Runs -> Runners] /\ run[r] \in Runners /\ files \in [Locations -> Content]
      /\ run[r].pc = "publish" /\ UNCHANGED kind
  BY DEF Separate, Ordered, TypeOK, Publish
<1>2. ResultOwn(r)
  BY OwnParts DEF Separate
<1>3. run[r].status = "OK" /\ run[r].basis.of = Current(r) /\ Result(r).of = Current(r)
  BY <1>1, <1>2 DEF ResultOwn
<1>4. Current(r) \in Calls
  BY <1>1, CurrentCall DEF Separate, Ordered, Underway
<1>5. run'[r].pc = "returned" /\ run'[r].round = run[r].round /\ run'[r].basis = run[r].basis
  BY <1>1 DEF Publish, Runners
<1>6. Current(r)' = Current(r)
  BY <1>5 DEF Current
<1>7. ResultFile' = ResultFile
  BY <1>1 DEF ResultFile
<1>8. At(Current(r), ResultFile)' = At(Current(r), ResultFile)
  BY <1>1, <1>6, <1>7 DEF At, InRoot, IterDir
<1>9. CASE run' = [run EXCEPT ![r].pc = "returned", ![r].status = "IO_ERROR"]
  <2>1. run'[r].status = "IO_ERROR"
    BY <1>1, <1>9 DEF Runners
  <2> QED
    BY <1>5, <2>1 DEF ResultOwn, AnswerOwn, Verdicts
<1>10. CASE files' = IF ResultFile = "artifact" THEN files
                     ELSE [files EXCEPT ![At(Current(r), "stable")] = Result(r)]
  <2>1. files'[At(Current(r), ResultFile)].of = Current(r)
    <3>1. CASE ResultFile = "artifact"
      <4>1. kind = "T1"
        BY <3>1 DEF ResultFile
      <4>2. Result(r) = files[At(Current(r), "artifact")]
        BY <4>1 DEF Result, CpaFamily
      <4> QED
        BY <1>3, <1>10, <3>1, <4>2
    <3>2. CASE ResultFile # "artifact"
      <4> DEFINE l == At(Current(r), "stable")
                 x == Result(r)
      <4>1. ResultFile = "stable" /\ l \in Locations
        BY <1>4, <3>2, AtLocated DEF ResultFile, FileNames
      <4>2. files' = [files EXCEPT ![l] = x]
        BY <1>10, <3>2
      <4>3. x.of = Current(r) /\ files \in [Locations -> Content]
        BY <1>1, <1>3
      <4> HIDE DEF l, x
      <4>4. files'[l] = x
        BY <4>1, <4>2, <4>3
      <4> QED
        BY <4>1, <4>3, <4>4 DEF l
    <3> QED
      BY <3>1, <3>2
  <2>2. AnswerOwn(r)'
    BY <1>3, <1>5, <1>6, <1>8, <2>1 DEF AnswerOwn
  <2> QED
    BY <1>5, <2>2 DEF ResultOwn
<1> QED
  BY <1>9, <1>10 DEF Publish

LEMMA NextOwn ==
  ASSUME Undisturbed, Separate, Next
  PROVE  OwnResult' /\ OwnAnswer'
<1> SUFFICES ASSUME NEW r \in Runs PROVE ResultOwn(r)' /\ AnswerOwn(r)'
  BY DEF OwnResult, OwnAnswer, ResultOwn, AnswerOwn
<1>1. /\ run \in [Runs -> Runners] /\ run[r] \in Runners /\ Ordered
  BY DEF Separate, Ordered, TypeOK
<1>2. CASE run'[r] = run[r]
  BY <1>2, OwnKept
<1>3. ASSUME run'[r].pc \notin {"publish", "returned"}
      PROVE  ResultOwn(r)' /\ AnswerOwn(r)'
  BY <1>3 DEF ResultOwn, AnswerOwn
<1>4. CASE Planner(r)
  BY <1>2, <1>4, PlannerSteps
<1>5. CASE Begin(r)
  <2>1. CASE \E e : run' = [run EXCEPT ![r] = NewCall(r, "fork", e)]
    BY <1>1, <1>3, <2>1 DEF NewCall
  <2>2. CASE \E e \in EarlyErrors : run' = [run EXCEPT ![r] = NewCall(r, "returned", e)]
    <3>1. run'[r].pc = "returned" /\ run'[r].status \in EarlyErrors
      BY <1>1, <2>2 DEF NewCall
    <3>2. run'[r].status \notin Verdicts
      BY <3>1 DEF EarlyErrors, Verdicts
    <3> QED
      BY <3>1, <3>2 DEF ResultOwn, AnswerOwn
  <2> QED
    BY <1>5, <2>1, <2>2 DEF Begin
<1>6. CASE Fork(r) \/ Tick(r) \/ Poll(r) \/ Expire(r) \/ Kill(r)
  <2>1. run'[r].pc \in {"wait", "read", "term"}
    BY <1>1, <1>6 DEF Fork, Tick, Poll, Expire, Kill, TimedOut, Runners
  <2> QED
    BY <1>3, <2>1
<1>7. CASE Finish(r) \/ Die(r)
  <2>1. run'[r].pc \in {"idle", "over"}
    BY <1>1, <1>7 DEF Finish, Die, Runners
  <2> QED
    BY <1>3, <2>1
<1> QED
  BY <1>1, <1>2, <1>4, <1>5, <1>6, <1>7, ReadOwn, PublishOwn, OthersStand DEF Runner

LEMMA InitSeparate == Init => Separate
<1> SUFFICES ASSUME Init PROVE Separate
  OBVIOUS
<1>1. \A r \in Runs : /\ run[r].pc = "idle" /\ group[r].state = "exited"
                      /\ group[r].todo = {} /\ group[r].writing = "nothing"
  BY DEF Init, NotRun, Group
<1>2. strays = {}
  BY DEF Init
<1>3. CleanFiles /\ LockHeld /\ TakingTurns
  <2>1. \A r \in Runs : ~Engaged(r) /\ ~Running(r)
    BY <1>1 DEF Engaged, Active, Running
  <2>2. \A r \in Runs : run[r].command = 1
    BY DEF Init, NotRun
  <2> QED
    BY <2>1, <2>2 DEF CleanFiles, Past, Engaged, LockHeld, TakingTurns
<1>4. OwnWork /\ OwnResult /\ OwnAnswer
  BY <1>1, <1>2 DEF OwnWork, OwnResult, OwnAnswer
<1> QED
  BY <1>3, <1>4, InitOrdered DEF Separate

LEMMA StutterSeparate ==
  ASSUME Separate, UNCHANGED vars
  PROVE  Separate'
<1>1. Ordered'
  BY NextOrdered DEF Separate
<1>2. UNCHANGED <<kind, run, group, files, lock, strays>>
  BY DEF vars
<1>3. CleanFiles'
  <2>1. \A t : Cleared(t)' = Cleared(t)
    BY <1>2 DEF Cleared, Unlinked, Stages, RemovedByShell
  <2>2. \A r, t : Past(r, t)' <=> Past(r, t)
    BY <1>2 DEF Past, Active, Running
  <2>3. \A r, f : At(Current(r), f)' = At(Current(r), f)
    BY <1>2 DEF Current, At, InRoot, IterDir
  <2>4. \A r, f : Own(r, f)' <=> Own(r, f)
    BY <1>2, <2>3 DEF Own, Mine, Exists, Current
  <2> QED
    BY <2>1, <2>2, <2>4 DEF Separate, CleanFiles
<1>4. OwnWork'
  BY <1>2 DEF Separate, OwnWork, Running, Current, At, InRoot, IterDir
<1>5. OwnResult'
  BY <1>2 DEF Separate, OwnResult, Result, Current, At, InRoot, IterDir
<1>6. OwnAnswer'
  BY <1>2 DEF Separate, OwnAnswer, ResultFile, Current, At, InRoot, IterDir
<1>7. LockHeld' /\ TakingTurns'
  BY <1>2 DEF Separate, LockHeld, TakingTurns, Engaged, Active, Running
<1> QED
  BY <1>1, <1>3, <1>4, <1>5, <1>6, <1>7 DEF Separate

LEMMA NextSeparate ==
  ASSUME Undisturbed, Separate, [Next]_vars
  PROVE  Separate'
<1>1. CASE Next
  <2>1. Ordered'
    BY NextOrdered DEF Separate
  <2> QED
    BY <1>1, <2>1, NextClean, NextWorks, NextOwn, NextLocked, NextTurns DEF Separate
<1>2. CASE UNCHANGED vars
  BY <1>2, StutterSeparate
<1> QED
  BY <1>1, <1>2

\* AnswersAreOwn: in undisturbed runs every plan, and every claim that there
\* is none, is the work of the planner of the call that reports it, and so is
\* the file that is returned, whatever earlier rounds, other processes,
\* interrupted planners and their descendants have left or still write.
THEOREM AnswersAreOwn == Undisturbed => (Spec => []OwnAnswer)
<1> SUFFICES ASSUME Undisturbed PROVE Spec => []OwnAnswer
  OBVIOUS
<1>1. Init => Separate
  BY InitSeparate
<1>2. Separate /\ [Next]_vars => Separate'
  BY NextSeparate
<1>3. Separate => OwnAnswer
  BY DEF Separate
<1> QED
  BY <1>1, <1>2, <1>3, PTL DEF Spec

-----------------------------------------------------------------------------
(* Whole plans.  A planner that exits has closed its files, and what is     *)
(* read without CFF's console is read only after such an exit.              *)

\* The planner of r is in the middle of the file at l, or did not end as it should.
Half(r, l) ==
  Running(r) /\ group[r].writing \in FileNames /\ l = At(Current(r), group[r].writing)
Broken(r) == group[r].state \in {"failed", "killed"}

\* An interrupted file is the work of an earlier round, is being written, or was left by a
\* planner that did not end as it should.
CutIsOpen(l, c) ==
  files[l].what = "cut" /\ files[l].of = c =>
    c[2] < run[c[1]].round \/ (c = Current(c[1]) /\ (Half(c[1], l) \/ Broken(c[1])))

Uncut == \A l \in Locations, c \in Calls : CutIsOpen(l, c)

\* Where the runner goes on only because its planner exited.
Settled(r) ==
  \/ run[r].pc \in {"idle", "fork", "publish"}
  \/ run[r].pc = "read" /\ run[r].outcome = "OK"
  \/ run[r].pc = "returned" /\ run[r].status = "OK"

Ended == \A r \in Runs : Settled(r) => group[r].state = "exited"

BasisWhole == \A r \in Runs : run[r].pc = "publish" => run[r].basis.what # "cut"

WholeInv == Separate /\ (kind # "CFF" => Uncut /\ Ended /\ BasisWhole)

LEMMA InitWhole == Init => WholeInv
<1> SUFFICES ASSUME Init PROVE WholeInv
  OBVIOUS
<1>1. Separate
  BY InitSeparate
<1>2. \A l \in Locations : files[l].what # "cut"
  BY DEF Init, NoFile, Leftover
<1>3. Uncut
  BY <1>2 DEF Uncut, CutIsOpen
<1>4. \A r \in Runs : run[r].pc = "idle" /\ group[r].state = "exited"
  BY DEF Init, NotRun, Group
<1>5. Ended /\ BasisWhole
  BY <1>4 DEF Ended, BasisWhole
<1> QED
  BY <1>1, <1>3, <1>5 DEF WholeInv

\* When the planner has exited, all its work is whole.
LEMMA ExitedIsWhole ==
  ASSUME Uncut, NEW r \in Runs, Current(r) \in Calls, run[r].round \in Nat, group[r].state = "exited",
         NEW l \in Locations, files[l].of = Current(r)
  PROVE  files[l].what # "cut"
<1>1. CutIsOpen(l, Current(r))
  BY DEF Uncut
<1>2. Current(r)[1] = r /\ Current(r)[2] = run[r].round
  BY DEF Current
<1>3. ~Half(r, l) /\ ~Broken(r)
  BY DEF Half, Broken, Running
<1> QED
  BY <1>1, <1>2, <1>3 DEF CutIsOpen

\* A step that puts something whole into a file, or removes files, cuts nothing.
CutsNothing == \A l \in Locations : files'[l] = files[l] \/ files'[l].what # "cut"

LEMMA PutCuts ==
  ASSUME TypeOK, NEW k \in Locations, NEW a, NEW what, files' = Put(k, a, what)
  PROVE  /\ files'[k] = [of |-> a, what |-> what]
         /\ \A l \in Locations \ {k} : files'[l] = files[l]
         /\ what # "cut" => CutsNothing
BY DEF TypeOK, Put, CutsNothing

LEMMA RemovedCuts ==
  ASSUME TypeOK, NEW c, NEW names, files' = Removed(c, names)
  PROVE  CutsNothing
<1>1. \A l \in Locations : files'[l] \in {NoFile, files[l]}
  BY DEF TypeOK, Removed
<1> QED
  BY <1>1 DEF CutsNothing, NoFile

\* What is cut after a step of a planner is again of one of these three kinds.
StillOpen(l, c) ==
  c[2] < run[c[1]].round \/ (c = Current(c[1]) /\ (Half(c[1], l)' \/ Broken(c[1])'))

LEMMA PlannerCuts ==
  ASSUME WholeInv, kind # "CFF", NEW r \in Runs, Planner(r),
         NEW l \in Locations, NEW c \in Calls, files'[l].what = "cut", files'[l].of = c
  PROVE  StillOpen(l, c)
<1>1. /\ Running(r) /\ UNCHANGED <<kind, run>> /\ Ordered /\ OwnWork /\ Uncut /\ TypeOK
      /\ group \in [Runs -> Groups] /\ group[r] \in Groups
  BY PlannerSteps DEF WholeInv, Separate, Ordered, TypeOK, Running
<1>2. Current(r) \in Calls /\ c[1] \in Runs
  BY <1>1, CurrentCall DEF Underway, Ordered, Calls, Running
<1>3. Current(r)[1] = r
  BY DEF Current
<1>4. CutIsOpen(l, c)
  BY <1>1 DEF Uncut
<1>5. \A q \in Runs : \A f : At(Current(q), f)' = At(Current(q), f)
  BY <1>1 DEF At, InRoot, IterDir, Current
\* It was cut before, and the group still writes it or has broken off.
<1>6. ASSUME files'[l] = files[l],
             c[1] = r => \/ ~Half(r, l) /\ ~Broken(r)
                         \/ group'[r].state = "running" /\ group'[r].writing = group[r].writing
                         \/ group'[r].state = "failed",
             c[1] # r => group'[c[1]] = group[c[1]]
      PROVE  StillOpen(l, c)
  <2>1. CASE c[1] = r
    <3>1. ~Broken(r)
      BY <1>1 DEF Broken, Running
    <3> QED
      BY <1>1, <1>2, <1>4, <1>5, <1>6, <2>1, <3>1 DEF CutIsOpen, Half, Broken, StillOpen, Running
  <2>2. CASE c[1] # r
    BY <1>2, <1>4, <1>5, <1>6, <2>2 DEF CutIsOpen, Half, Broken, StillOpen, Running
  <2> QED
    BY <2>1, <2>2
<1>7. ASSUME CutsNothing, NEW stage, Done(r, stage) PROVE StillOpen(l, c)
  <2>1. group' = [group EXCEPT ![r].stages = @ \ {stage}]
    BY <1>7 DEF Done
  <2>2. group'[r].state = "running" /\ group'[r].writing = group[r].writing
    BY <1>1, <2>1 DEF Groups, Running
  <2>3. c[1] # r => group'[c[1]] = group[c[1]]
    BY <1>1, <1>2, <2>1
  <2> QED
    BY <1>6, <1>7, <2>2, <2>3 DEF CutsNothing
<1>8. UNCHANGED files => CutsNothing
  BY DEF CutsNothing
\* What the planner writes.
<1>9. ASSUME NEW f \in FileNames, NEW what, files' = Put(At(Current(r), f), Current(r), what)
       PROVE  /\ l = At(Current(r), f) => files'[l].of = Current(r) /\ files'[l].what = what
              /\ l # At(Current(r), f) => files'[l] = files[l]
              /\ what # "cut" => CutsNothing
  <2> DEFINE k == At(Current(r), f)
             a == Current(r)
  <2>1. k \in Locations
    BY <1>2, <1>9, AtLocated
  <2>2. files' = Put(k, a, what)
    BY <1>9
  <2> HIDE DEF k, a
  <2>3. /\ files'[k] = [of |-> a, what |-> what]
        /\ \A m \in Locations \ {k} : files'[m] = files[m]
        /\ what # "cut" => CutsNothing
    BY <1>1, <2>1, <2>2, PutCuts
  <2> QED
    BY <2>3 DEF k, a
<1>10. CASE OpenConsole(r)
  <2>1. CutsNothing
    <3>1. files' = Put(At(Current(r), "stdout"), Current(r), "empty") /\ "stdout" \in FileNames
      BY <1>10 DEF OpenConsole, FileNames
    <3> QED
      BY <1>9, <3>1
  <2> QED
    BY <1>7, <1>10, <2>1 DEF OpenConsole
<1>11. CASE TakeLock(r)
  BY <1>7, <1>8, <1>11 DEF TakeLock
<1>12. CASE RemoveOld(r)
  BY <1>1, <1>7, <1>12, RemovedCuts DEF RemoveOld
<1>13. CASE Translate(r)
  <2>1. CutsNothing
    <3>1. files' = files \/ files' = Put(At(Current(r), "mid"), Current(r), "junk")
      BY <1>13 DEF Translate
    <3>2. "mid" \in FileNames
      BY DEF FileNames
    <3>3. CASE files' = Put(At(Current(r), "mid"), Current(r), "junk")
      BY <1>9, <3>2, <3>3
    <3> QED
      BY <1>8, <3>1, <3>3
  <2> QED
    BY <1>7, <1>13, <2>1 DEF Translate
\* The group ends broken, whatever it was writing.
<1>14. ASSUME UNCHANGED files, group' = [group EXCEPT ![r] = Group("failed", {})]
       PROVE  StillOpen(l, c)
  <2>1. group'[r].state = "failed" /\ (c[1] # r => group'[c[1]] = group[c[1]])
    BY <1>1, <1>2, <1>14 DEF Group
  <2> QED
    BY <1>6, <1>14, <2>1
<1>15. CASE TestOutput(r)
  BY <1>7, <1>8, <1>14, <1>15 DEF TestOutput
<1>16. CASE Solve(r)
  <2>1. group'[r].state = "running" /\ group'[r].writing = group[r].writing /\ UNCHANGED files
    BY <1>1, <1>16 DEF Solve, Groups, Running
  <2>2. c[1] # r => group'[c[1]] = group[c[1]]
    BY <1>1, <1>2, <1>16 DEF Solve
  <2> QED
    BY <1>6, <2>1, <2>2
<1>17. CASE StartPrinting(r)
  <2>1. PICK g \in group[r].todo, what \in {"empty", "cut"} :
          /\ group' = [group EXCEPT ![r].writing = g, ![r].todo = @ \ {g}]
          /\ files' = Put(At(Current(r), g), group[r].input, what)
    BY <1>17 DEF StartPrinting
  <2>2. group'[r].state = "running" /\ group'[r].writing = g /\ group[r].writing = "nothing"
    BY <1>1, <1>17, <2>1 DEF Groups, StartPrinting, Running
  <2>3. c[1] # r => group'[c[1]] = group[c[1]]
    BY <1>1, <1>2, <2>1
  <2>4. g \in FileNames /\ group[r].input = Current(r) /\ At(Current(r), g) \in Locations
    BY <1>1, <1>2, <2>1, AtLocated DEF Groups, OwnWork
  <2>5. CASE l = At(Current(r), g)
    <3>1. c = Current(r)
      BY <1>9, <2>1, <2>4, <2>5
    <3>2. Half(r, l)'
      BY <1>5, <2>2, <2>4, <2>5 DEF Half, Running
    <3> QED
      BY <1>3, <3>1, <3>2 DEF StillOpen
  <2>6. CASE l # At(Current(r), g)
    <3>1. files'[l] = files[l]
      BY <1>9, <2>1, <2>4, <2>6
    <3>2. ~Half(r, l) /\ ~Broken(r)
      BY <1>1, <2>2 DEF Half, Broken, Running, FileNames
    <3> QED
      BY <1>6, <2>3, <3>1, <3>2
  <2> QED
    BY <2>5, <2>6
<1>18. CASE EndPrinting(r)
  <2> DEFINE g == group[r].writing
  <2>1. PICK what \in Printable : files' = Put(At(Current(r), g), group[r].input, what)
    BY <1>18 DEF EndPrinting
  <2>2. group' = [group EXCEPT ![r].writing = "nothing"] /\ g # "nothing"
    BY <1>18 DEF EndPrinting
  <2>3. g \in FileNames /\ what # "cut" /\ group[r].input = Current(r)
    BY <1>1, <2>1, <2>2, RunnerSetup DEF Groups, Printable, Whole, OwnWork
  <2>4. l # At(Current(r), g) /\ files'[l] = files[l]
    <3> HIDE DEF g
    <3> QED
      BY <1>9, <2>1, <2>3
  <2>5. ~Half(r, l) /\ ~Broken(r)
    BY <1>1, <2>4 DEF Half, Broken, Running
  <2>6. c[1] # r => group'[c[1]] = group[c[1]]
    BY <1>1, <1>2, <2>2
  <2> QED
    BY <1>6, <2>4, <2>5, <2>6
<1>19. CASE Exit(r)
  <2>1. group' = [group EXCEPT ![r] = Group("exited", {})] /\ UNCHANGED files /\ group[r].writing = "nothing"
    BY <1>19 DEF Exit
  <2>2. c[1] # r => group'[c[1]] = group[c[1]]
    BY <1>1, <1>2, <2>1
  <2>3. ~Half(r, l) /\ ~Broken(r)
    BY <1>1, <2>1 DEF Half, Broken, Running, FileNames
  <2> QED
    BY <1>6, <2>1, <2>2, <2>3
<1>20. CASE Fail(r)
  BY <1>14, <1>20 DEF Fail
<1> QED
  BY <1>10, <1>11, <1>12, <1>13, <1>15, <1>16, <1>17, <1>18, <1>19, <1>20 DEF Planner

LEMMA UncutNext ==
  ASSUME \A l \in Locations, c \in Calls : files'[l].what = "cut" /\ files'[l].of = c =>
           c[2] < run'[c[1]].round \/ (c = Current(c[1])' /\ (Half(c[1], l)' \/ Broken(c[1])'))
  PROVE  Uncut'
BY DEF Uncut, CutIsOpen, Locations, IterDir, Half, Broken, Current

\* A step of a runner that writes nothing unfinished and leaves the groups alone.
LEMMA QuietUncut ==
  ASSUME Uncut, Ordered, CutsNothing, UNCHANGED <<kind, group>>,
         \A q \in Runs : run'[q].round \in {run[q].round, run[q].round + 1}
  PROVE  Uncut'
<1> SUFFICES ASSUME NEW l \in Locations, NEW c \in Calls, files'[l].what = "cut", files'[l].of = c
             PROVE  c[2] < run'[c[1]].round \/ (c = Current(c[1])' /\ (Half(c[1], l)' \/ Broken(c[1])'))
  BY UncutNext
<1>1. CutIsOpen(l, c) /\ files[l].what = "cut" /\ files[l].of = c /\ c[1] \in Runs /\ c[2] \in Nat
  BY DEF Uncut, CutsNothing, Calls
<1>2. run[c[1]].round \in Nat
  BY <1>1 DEF Ordered, TypeOK, Runners
<1>3. c = Current(c[1]) => c[2] = run[c[1]].round
  <2>1. Current(c[1])[2] = run[c[1]].round
    BY DEF Current
  <2> QED
    BY <2>1
<1>4. CASE c[2] < run[c[1]].round
  BY <1>1, <1>2, <1>4
<1>5. CASE c = Current(c[1]) /\ (Half(c[1], l) \/ Broken(c[1]))
  <2>1. CASE run'[c[1]].round = run[c[1]].round
    BY <1>1, <1>5, <2>1 DEF Current, Half, Broken, Running, At, InRoot, IterDir
  <2>2. CASE run'[c[1]].round = run[c[1]].round + 1
    BY <1>1, <1>2, <1>3, <1>5, <2>2
  <2> QED
    BY <1>1, <2>1, <2>2
<1> QED
  BY <1>1, <1>4, <1>5 DEF CutIsOpen

\* An answer rests on a file of the call, or on none.
Rests(v, a) == a.basis = NoFile \/ \E f \in FileNames : a.basis = v[f]

LEMMA AnswerRests ==
  ASSUME NEW r \in Runs, TypeOK
  PROVE  Rests(View(Current(r)), Answer(r))
<1> DEFINE v == View(Current(r))
           st == run[r].outcome
<1>1. \A e : Rests(v, Gave(e))
  BY DEF Rests, Gave, Said
<1>2. \A plans : \A f \in FileNames : Rests(v, Reading(plans, v[f])) /\ Rests(v, Said("OK", v[f]))
  BY DEF Rests, Reading, Said
<1>3. kind \in AllKinds
  BY RunnerSetup DEF TypeOK
<1>4. Answer(r) \in {T1Answer(v, st), CffAnswer(v, st), GcFrontendAnswer(st), GcSearchAnswer(v, st),
                     CpcesAnswer(v, st), CpahAnswer(v, st), CpaAnswer(v, st), RecoveryAnswer(v, st)}
  BY <1>3 DEF Answer, AllKinds
<1> HIDE DEF v, st
<1>5. {"mid", "artifact", "second", "stdout", "recovered", "stable"} = FileNames
  BY DEF FileNames
<1>6. Rests(v, T1Answer(v, st)) /\ Rests(v, CpahAnswer(v, st))
  BY <1>1, <1>2, <1>5 DEF T1Answer, CpahAnswer, Unparsed, Counted
<1>7. Rests(v, CffAnswer(v, st)) /\ Rests(v, RecoveryAnswer(v, st))
  BY <1>1, <1>2, <1>5 DEF CffAnswer, RecoveryAnswer, Console
<1>8. Rests(v, GcFrontendAnswer(st)) /\ Rests(v, CpaAnswer(v, st))
  BY <1>1, <1>2, <1>5 DEF GcFrontendAnswer, CpaAnswer, Console
<1>9. Rests(v, FinalPlan(v))
  BY <1>1, <1>2, <1>5 DEF FinalPlan, Listed
<1>10. Rests(v, CpcesAnswer(v, st))
  <2>1. CASE st # "OK"
    BY <1>1, <1>2, <1>5, <2>1 DEF CpcesAnswer, Counted
  <2>2. CASE st = "OK"
    BY <1>1, <1>2, <1>5, <2>2 DEF CpcesAnswer, Counted, Listed
  <2> QED
    BY <2>1, <2>2
<1>11. Rests(v, GcSearchAnswer(v, st))
  <2>1. CASE st # "OK"
    BY <1>1, <1>2, <1>5, <2>1 DEF GcSearchAnswer, Counted
  <2>2. CASE st = "OK"
    BY <1>2, <1>5, <1>9, <2>2 DEF GcSearchAnswer, Counted, Console
  <2> QED
    BY <2>1, <2>2
<1> QED
  BY <1>4, <1>6, <1>7, <1>8, <1>10, <1>11 DEF v

\* Only CFF's answer can be a plan when its planner did not exit with status 0.
LEMMA PlanNeedsExit ==
  ASSUME NEW r \in Runs, TypeOK, kind # "CFF", Answer(r).status = "OK"
  PROVE  run[r].outcome = "OK"
<1> DEFINE v == View(Current(r))
           st == run[r].outcome
<1>1. kind \in AllKinds \ {"CFF"}
  BY RunnerSetup DEF TypeOK
<1>2. Answer(r) \in {T1Answer(v, st), GcFrontendAnswer(st), GcSearchAnswer(v, st),
                     CpcesAnswer(v, st), CpahAnswer(v, st), CpaAnswer(v, st), RecoveryAnswer(v, st)}
  BY <1>1 DEF Answer, AllKinds, GcFamily, CpcesFamily, CpaFamily
<1> HIDE DEF v, st
<1> SUFFICES ASSUME st # "OK" PROVE FALSE
  BY DEF st
<1>3. Gave(st).status # "OK"
  BY DEF Gave, Said
<1>4. \A x : x.what = "noplan" => Counted(x).status # "OK"
  BY DEF Counted, Reading, Said
<1>5. T1Answer(v, st).status # "OK" /\ CpahAnswer(v, st).status # "OK" /\ RecoveryAnswer(v, st).status # "OK"
      /\ GcFrontendAnswer(st).status # "OK" /\ CpaAnswer(v, st).status # "OK"
  BY <1>3 DEF T1Answer, CpahAnswer, CpaAnswer, RecoveryAnswer, GcFrontendAnswer
<1>6. CpcesAnswer(v, st).status # "OK" /\ GcSearchAnswer(v, st).status # "OK"
  BY <1>3, <1>4 DEF CpcesAnswer, GcSearchAnswer
<1> QED
  BY <1>2, <1>5, <1>6

\* The part of the invariant that is about one runner.
EndsWhole(r) ==
  /\ Settled(r) => group[r].state = "exited"
  /\ run[r].pc = "publish" => run[r].basis.what # "cut"

LEMMA PlannerWhole ==
  ASSUME WholeInv, kind # "CFF", NEW r \in Runs, Planner(r)
  PROVE  Uncut' /\ Ended' /\ BasisWhole'
<1>1. Running(r) /\ UNCHANGED <<kind, run>> /\ Ordered /\ TypeOK /\ Ended /\ BasisWhole
  BY PlannerSteps DEF WholeInv, Separate, Ordered, Running
<1>2. Uncut'
  <2> SUFFICES ASSUME NEW l \in Locations, NEW c \in Calls, files'[l].what = "cut", files'[l].of = c
               PROVE  c[2] < run'[c[1]].round \/ (c = Current(c[1])' /\ (Half(c[1], l)' \/ Broken(c[1])'))
    BY UncutNext
  <2>1. StillOpen(l, c)
    BY PlannerCuts
  <2> QED
    BY <1>1, <2>1 DEF StillOpen, Current
<1>3. \A q \in Runs \ {r} : group'[q] = group[q]
  <2>1. \E g \in Groups : group' = [group EXCEPT ![r] = g]
    BY <1>1, PlannerTyped
  <2> QED
    BY <1>1, <2>1 DEF TypeOK
<1>4. ~Settled(r)
  BY <1>1 DEF Ended, Running
<1>5. Ended' /\ BasisWhole'
  BY <1>1, <1>3, <1>4 DEF Ended, BasisWhole, Settled
<1> QED
  BY <1>2, <1>5

\* A planner that the runner leaves behind, or takes up, is not one that is in the middle of a file.
LEMMA GroupUncut ==
  ASSUME Uncut, Ordered, NEW r \in Runs, NEW g, group' = [group EXCEPT ![r] = g],
         g.state = "killed" \/ (group[r].state = "exited" /\ g.state # "exited"),
         UNCHANGED <<kind, files>>, \A q \in Runs : run'[q].round = run[q].round
  PROVE  Uncut'
<1> SUFFICES ASSUME NEW l \in Locations, NEW c \in Calls, files'[l].what = "cut", files'[l].of = c
             PROVE  c[2] < run'[c[1]].round \/ (c = Current(c[1])' /\ (Half(c[1], l)' \/ Broken(c[1])'))
  BY UncutNext
<1>1. CutIsOpen(l, c) /\ c[1] \in Runs /\ group \in [Runs -> Groups]
  BY DEF Uncut, Calls, Ordered, TypeOK
<1>2. c[1] # r => group'[c[1]] = group[c[1]]
  BY <1>1
<1>3. group'[r] = g
  BY <1>1
<1> QED
  BY <1>1, <1>2, <1>3 DEF CutIsOpen, Half, Broken, Current, Running, At, InRoot, IterDir

LEMMA ReadWhole ==
  ASSUME WholeInv, kind # "CFF", NEW r \in Runs, Read(r)
  PROVE  /\ CutsNothing /\ group' = group
         /\ run'[r].round = run[r].round /\ EndsWhole(r)'
<1>1. /\ run[r].pc = "read" /\ Ordered /\ CleanFiles /\ TypeOK /\ Uncut /\ Ended /\ UNCHANGED <<kind, group>>
      /\ run \in [Runs -> Runners] /\ run[r] \in Runners
  BY DEF WholeInv, Separate, Ordered, TypeOK, Read
<1>2. run[r].outcome = "OK" => group[r].state = "exited"
  BY <1>1 DEF Ended, Settled
<1>3. Current(r) \in Calls /\ run[r].round \in Nat
  BY <1>1, CurrentCall DEF Underway, Ordered, Runners
<1>4. CASE /\ Answer(r).status = "MORE"
           /\ run' = [run EXCEPT ![r].pc = "fork", ![r].command = 2]
           /\ files' = IF kind \in CpaFamily THEN Removed(Current(r), {"recovered"}) ELSE files
  <2>1. group[r].state = "exited"
    BY <1>1, <1>2, <1>4, MoreIsOK
  <2>2. run'[r].pc = "fork" /\ run'[r].round = run[r].round
    BY <1>1, <1>4 DEF Runners
  <2>3. CutsNothing
    <3>1. files' = files => CutsNothing
      BY DEF CutsNothing
    <3> QED
      BY <1>1, <1>4, <3>1, RemovedCuts
  <2> QED
    BY <1>1, <2>1, <2>2, <2>3 DEF EndsWhole, Settled
<1>5. CASE /\ Answer(r).status \in Verdicts
           /\ run' = [run EXCEPT ![r].pc = IF Answer(r).status = "OK" THEN "publish" ELSE "returned",
                                 ![r].status = Answer(r).status, ![r].basis = Answer(r).basis]
           /\ UNCHANGED files
  <2> DEFINE a == Answer(r)
  <2>1. a.status = "OK" => group[r].state = "exited"
    BY <1>1, <1>2, PlanNeedsExit
  <2>2. a.status = "OK" => a.basis.what # "cut"
    <3>1. Rests(View(Current(r)), a)
      BY <1>1, AnswerRests
    <3>2. a.status = "OK" => \A l \in Locations : files[l].of = Current(r) => files[l].what # "cut"
      BY <1>1, <1>3, <2>1, ExitedIsWhole
    <3>3. \A f \in FileNames : View(Current(r))[f] = files[At(Current(r), f)] /\ At(Current(r), f) \in Locations
      BY <1>3, AtLocated DEF View
    <3>4. a.status = "OK" => a.basis.of = Current(r)
      BY <1>1, AnswerMine DEF Verdicts
    <3> HIDE DEF a
    <3> QED
      BY <3>1, <3>2, <3>3, <3>4 DEF Rests, NoFile
  <2> HIDE DEF a
  <2>3. /\ run'[r].pc = IF a.status = "OK" THEN "publish" ELSE "returned"
        /\ run'[r].status = a.status /\ run'[r].basis = a.basis /\ run'[r].round = run[r].round
    BY <1>1, <1>5 DEF Runners, a
  <2>4. CutsNothing
    BY <1>5 DEF CutsNothing
  <2> QED
    BY <1>1, <2>1, <2>2, <2>3, <2>4 DEF EndsWhole, Settled
<1>6. CASE /\ \E status \in Statuses \ Verdicts, basis \in Content :
                run' = [run EXCEPT ![r].pc = "returned", ![r].status = status, ![r].basis = basis]
           /\ UNCHANGED files
  <2>1. PICK status \in Statuses \ Verdicts, basis \in Content :
          run' = [run EXCEPT ![r].pc = "returned", ![r].status = status, ![r].basis = basis]
    BY <1>6
  <2>2. run'[r].pc = "returned" /\ run'[r].status = status /\ run'[r].round = run[r].round /\ status # "OK"
    BY <1>1, <2>1 DEF Runners, Verdicts
  <2>3. CutsNothing
    BY <1>6 DEF CutsNothing
  <2> QED
    BY <1>1, <2>2, <2>3 DEF EndsWhole, Settled
<1> QED
  BY <1>1, <1>4, <1>5, <1>6, ReadAnswers

LEMMA PublishWhole ==
  ASSUME WholeInv, kind # "CFF", NEW r \in Runs, Publish(r)
  PROVE  /\ CutsNothing /\ group' = group
         /\ run'[r].round = run[r].round /\ EndsWhole(r)'
<1>1. /\ run[r].pc = "publish" /\ Ordered /\ OwnResult /\ TypeOK /\ Uncut /\ Ended /\ BasisWhole /\ UNCHANGED <<kind, group>>
      /\ run \in [Runs -> Runners] /\ run[r] \in Runners /\ files \in [Locations -> Content]
  BY DEF WholeInv, Separate, Ordered, TypeOK, Publish
<1>2. group[r].state = "exited" /\ run[r].basis.what # "cut"
  BY <1>1 DEF Ended, Settled, BasisWhole
<1>3. Current(r) \in Calls /\ run[r].round \in Nat
  BY <1>1, CurrentCall DEF Underway, Ordered, Runners
<1>4. Result(r).what # "cut" /\ Result(r) \in Content
  <2>1. Result(r) = IF kind \in Copies THEN files[At(Current(r), CopiedFile(r))] ELSE run[r].basis
    BY ResultOf
  <2>2. At(Current(r), CopiedFile(r)) \in Locations
    BY <1>3, AtLocated DEF CopiedFile, FileNames
  <2>3. Result(r).of = Current(r)
    BY <1>1 DEF OwnResult
  <2>4. kind \in Copies => files[At(Current(r), CopiedFile(r))].what # "cut"
    BY <1>1, <1>2, <1>3, <2>1, <2>2, <2>3, ExitedIsWhole
  <2>5. run[r].basis \in Content
    BY <1>1 DEF Runners
  <2> QED
    BY <1>1, <1>2, <2>1, <2>2, <2>4, <2>5
<1>5. CutsNothing
  <2> DEFINE x == Result(r)
  <2>1. files' = files \/ files' = [files EXCEPT ![At(Current(r), "stable")] = x]
    BY DEF Publish
  <2>2. x = [of |-> x.of, what |-> x.what]
    BY <1>4 DEF Content
  <2>3. x.what # "cut" /\ "stable" \in FileNames
    BY <1>4 DEF FileNames
  <2> HIDE DEF x
  <2>4. files' = files => CutsNothing
    BY DEF CutsNothing
  <2>5. ASSUME files' = [files EXCEPT ![At(Current(r), "stable")] = x] PROVE CutsNothing
    <3> DEFINE l == At(Current(r), "stable")
    <3>1. l \in Locations /\ TypeOK
      BY <1>1, <1>3, <2>3, AtLocated
    <3>2. files' = Put(l, x.of, x.what)
      BY <2>2, <2>5 DEF Put
    <3> HIDE DEF l
    <3> QED
      BY <2>3, <3>1, <3>2, PutCuts
  <2> QED
    BY <2>1, <2>4, <2>5
<1>6. run'[r].pc = "returned" /\ run'[r].round = run[r].round
  BY <1>1 DEF Publish, Runners
<1> QED
  BY <1>1, <1>2, <1>5, <1>6 DEF EndsWhole, Settled

LEMMA RunnerWhole ==
  ASSUME WholeInv, kind # "CFF", NEW r \in Runs, Runner(r) \/ Begin(r) \/ Finish(r) \/ Die(r)
  PROVE  Uncut' /\ EndsWhole(r)'
<1>1. /\ Ordered /\ TypeOK /\ Uncut /\ Ended /\ BasisWhole
      /\ run \in [Runs -> Runners] /\ run[r] \in Runners /\ group \in [Runs -> Groups]
  BY DEF WholeInv, Separate, Ordered, TypeOK
<1>2. Settled(r) => group[r].state = "exited"
  BY <1>1 DEF Ended
<1>3. UNCHANGED kind
  BY DEF Runner, Fork, Tick, Poll, Expire, Kill, Read, Publish, Begin, Finish, Die
<1>4. UNCHANGED files => CutsNothing
  BY DEF CutsNothing
\* Nothing is left unfinished and no group changes.
<1>5. ASSUME CutsNothing, group' = group, run'[r].round \in {run[r].round, run[r].round + 1}
      PROVE  Uncut'
  <2>1. \A q \in Runs : run'[q].round \in {run[q].round, run[q].round + 1}
    <3>1. \A q \in Runs \ {r} : run'[q] = run[q]
      BY <1>1 DEF Runner, Fork, Tick, Poll, Expire, Kill, Read, Publish, Begin, Finish, Die, TimedOut
    <3> QED
      BY <1>5, <3>1
  <2> QED
    BY <1>1, <1>3, <1>5, <2>1, QuietUncut
<1>6. CASE Fork(r)
  <2>1. run[r].pc = "fork" /\ group[r].state = "exited" /\ UNCHANGED files
    BY <1>2, <1>6 DEF Fork, Settled
  <2>2. CASE /\ run' = [run EXCEPT ![r].pc = "wait", ![r].late = FALSE]
             /\ group' = [group EXCEPT ![r] = Group("running", Stages(run[r].command))]
    <3>1. run'[r].pc = "wait" /\ \A q \in Runs : run'[q].round = run[q].round
      BY <1>1, <2>2 DEF Runners
    <3>2. Group("running", Stages(run[r].command)).state = "running"
      BY DEF Group
    <3>3. Uncut'
      BY <1>1, <1>3, <2>1, <2>2, <3>1, <3>2, GroupUncut
    <3> QED
      BY <3>1, <3>3 DEF EndsWhole, Settled
  <2>3. CASE run' = [run EXCEPT ![r].pc = "read", ![r].outcome = "IO_ERROR"] /\ UNCHANGED group
    <3>1. run'[r].pc = "read" /\ run'[r].outcome = "IO_ERROR" /\ run'[r].round = run[r].round
      BY <1>1, <2>3 DEF Runners
    <3> QED
      BY <1>4, <1>5, <2>1, <2>3, <3>1 DEF EndsWhole, Settled
  <2> QED
    BY <1>6, <2>2, <2>3 DEF Fork
<1>7. CASE Tick(r) \/ Expire(r)
  <2>1. run'[r].pc \in {"wait", "term"} /\ run'[r].round = run[r].round /\ group' = group /\ UNCHANGED files
    BY <1>1, <1>7 DEF Tick, Expire, Runners
  <2> QED
    BY <1>4, <1>5, <2>1 DEF EndsWhole, Settled
<1>8. CASE Poll(r)
  <2>1. run'[r].pc = "read" /\ run'[r].round = run[r].round /\ group' = group /\ UNCHANGED files
    BY <1>1, <1>8 DEF Poll, Runners
  <2>2. run'[r].outcome = "OK" => group[r].state = "exited"
    BY <1>1, <1>8 DEF Poll, Runners
  <2> QED
    BY <1>4, <1>5, <2>1, <2>2 DEF EndsWhole, Settled
<1>9. CASE Kill(r)
  <2>1. run'[r].pc = "read" /\ run'[r].outcome = "PLANNER_TIMEOUT" /\ UNCHANGED files
    BY <1>1, <1>9 DEF Kill, TimedOut, Runners
  <2>2. \A q \in Runs : run'[q].round = run[q].round
    BY <1>1, <1>9 DEF Kill, TimedOut, Runners
  <2>3. Uncut'
    <3>1. CASE group' = [group EXCEPT ![r] = Group("killed", {})]
      <4>1. Group("killed", {}).state = "killed"
        BY DEF Group
      <4> QED
        BY <1>1, <1>3, <2>1, <2>2, <3>1, <4>1, GroupUncut
    <3>2. CASE group' = group
      BY <1>4, <1>5, <2>1, <2>2, <3>2
    <3> QED
      BY <1>9, <3>1, <3>2 DEF Kill, Killed
  <2> QED
    BY <2>1, <2>3 DEF EndsWhole, Settled
<1>10. CASE Read(r)
  BY <1>5, <1>10, ReadWhole
<1>11. CASE Publish(r)
  BY <1>5, <1>11, PublishWhole
<1>12. CASE Begin(r)
  <2>1. group[r].state = "exited" /\ group' = group
    BY <1>2, <1>12 DEF Begin, Settled
  <2>2. CASE run' = [run EXCEPT ![r] = NewCall(r, "fork", "OK")] /\ files' = Removed(<<r, run[r].round + 1>>, Unlinked)
    <3>1. run'[r].pc = "fork" /\ run'[r].round = run[r].round + 1
      BY <1>1, <2>2 DEF NewCall
    <3>2. CutsNothing
      BY <1>1, <2>2, RemovedCuts
    <3> QED
      BY <1>5, <2>1, <3>1, <3>2 DEF EndsWhole, Settled
  <2>3. CASE (\E e \in EarlyErrors : run' = [run EXCEPT ![r] = NewCall(r, "returned", e)]) /\ UNCHANGED files
    <3>1. run'[r].pc = "returned" /\ run'[r].round = run[r].round + 1 /\ run'[r].status \in EarlyErrors
      BY <1>1, <2>3 DEF NewCall
    <3>2. run'[r].status # "OK"
      BY <3>1 DEF EarlyErrors
    <3> QED
      BY <1>4, <1>5, <2>1, <2>3, <3>1, <3>2 DEF EndsWhole, Settled
  <2> QED
    BY <1>12, <2>2, <2>3 DEF Begin
<1>13. CASE Finish(r)
  <2>1. /\ run[r].pc = "returned" /\ group' = group /\ UNCHANGED files
        /\ run'[r].pc = IF run[r].status = "OK" /\ run[r].round < MaxRounds THEN "idle" ELSE "over"
        /\ run'[r].round = run[r].round
    BY <1>1, <1>13 DEF Finish, Runners
  <2> QED
    BY <1>2, <1>4, <1>5, <2>1 DEF EndsWhole, Settled
<1>14. CASE Die(r)
  <2>1. group' = group /\ UNCHANGED files /\ run'[r].pc = "over" /\ run'[r].round = run[r].round
    BY <1>1, <1>14 DEF Die, Runners
  <2> QED
    BY <1>4, <1>5, <2>1 DEF EndsWhole, Settled
<1> QED
  BY <1>6, <1>7, <1>8, <1>9, <1>10, <1>11, <1>12, <1>13, <1>14 DEF Runner

LEMMA NextWhole ==
  ASSUME Undisturbed, ~Background, WholeInv, [Next]_vars
  PROVE  WholeInv'
<1>1. Separate'
  BY NextSeparate DEF WholeInv
<1>2. CASE UNCHANGED vars
  <2>1. UNCHANGED <<kind, run, group, files>>
    BY <1>2 DEF vars
  <2>2. \A c, f : At(c, f)' = At(c, f)
    BY <2>1 DEF At, InRoot, IterDir
  <2>3. ASSUME Uncut, Ended, BasisWhole PROVE Uncut' /\ Ended' /\ BasisWhole'
    BY <2>1, <2>2, <2>3 DEF Uncut, CutIsOpen, Ended, BasisWhole, Settled, Half, Broken, Running, Current,
                            Locations, IterDir
  <2> QED
    BY <1>1, <2>1, <2>3 DEF WholeInv
\* Nobody is left to write late.
<1>3. CASE StrayWrites
  BY <1>3 DEF StrayWrites, WholeInv, Separate, OwnWork
<1>4. ASSUME NEW r \in Runs, Planner(r) PROVE WholeInv'
  <2>1. UNCHANGED kind
    BY <1>4, PlannerSteps
  <2> QED
    BY <1>1, <1>4, <2>1, PlannerWhole DEF WholeInv
<1>5. ASSUME NEW r \in Runs, Runner(r) \/ Begin(r) \/ Finish(r) \/ Die(r) PROVE WholeInv'
  <2>1. UNCHANGED kind
    BY <1>5 DEF Runner, Fork, Tick, Poll, Expire, Kill, Read, Publish, Begin, Finish, Die
  <2>2. ASSUME kind # "CFF" PROVE Uncut' /\ Ended' /\ BasisWhole'
    <3>1. Uncut' /\ EndsWhole(r)'
      BY <1>5, <2>2, RunnerWhole
    <3>2. \A q \in Runs \ {r} : run'[q] = run[q] /\ group'[q] = group[q]
      <4>1. run \in [Runs -> Runners] /\ group \in [Runs -> Groups]
        BY DEF WholeInv, Separate, Ordered, TypeOK
      <4> QED
        BY <1>5, <4>1 DEF Runner, Fork, Tick, Poll, Expire, Kill, Killed, Read, Publish, Begin, Finish, Die, TimedOut
    <3>3. Ended' /\ BasisWhole'
      BY <2>2, <3>1, <3>2 DEF EndsWhole, Ended, BasisWhole, Settled, WholeInv
    <3> QED
      BY <3>1, <3>3
  <2> QED
    BY <1>1, <2>1, <2>2 DEF WholeInv
<1> QED
  BY <1>2, <1>3, <1>4, <1>5 DEF Next

LEMMA WholeImplies == WholeInv => WholePlan
<1> SUFFICES ASSUME WholeInv, NEW r \in Runs, run[r].pc = "returned", run[r].status = "OK", kind # "CFF"
             PROVE  files[At(Current(r), ResultFile)].what # "cut"
  BY DEF WholePlan
<1>1. Ordered /\ OwnAnswer /\ Uncut /\ group[r].state = "exited"
  BY DEF WholeInv, Separate, Ended, Settled
<1>2. Current(r) \in Calls /\ run[r].round \in Nat
  BY <1>1, CurrentCall DEF Underway, Ordered, TypeOK, Runners
<1>3. At(Current(r), ResultFile) \in Locations
  BY <1>2, AtLocated DEF ResultFile, FileNames
<1>4. files[At(Current(r), ResultFile)].of = Current(r)
  BY <1>1 DEF OwnAnswer, Verdicts
<1> QED
  BY <1>1, <1>2, <1>3, <1>4, ExitedIsWhole

\* PlansAreWhole: in undisturbed runs whose planners leave no descendants behind, a plan that
\* is returned was written to its end, at whatever point planners and runners are killed: it is
\* the work of its own call, only a planner that exited with status 0 is read, and that planner
\* has closed its files.  CFF is the exception, and a descendant may cut what was whole.
THEOREM PlansAreWhole == Undisturbed /\ ~Background => (Spec => []WholePlan)
<1> SUFFICES ASSUME Undisturbed, ~Background PROVE Spec => []WholePlan
  OBVIOUS
<1>1. Init => WholeInv
  BY InitWhole
<1>2. WholeInv /\ [Next]_vars => WholeInv'
  BY NextWhole
<1> QED
  BY <1>1, <1>2, WholeImplies, PTL DEF Spec
====
