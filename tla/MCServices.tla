------------------------------- MODULE MCServices -------------------------------
(***************************************************************************)
(* What the two loops rest on, one at a time: the writer of refined        *)
(* problems, to which the CEGIS loop owes its planner's plans, and the     *)
(* search of the legacy loop (MCRobot).                                    *)
(*                                                                         *)
(* The writer's problem is an OR file (type 3) with a negative disjunct.   *)
(* Variable 1 is a location with the values 0, 1 and "none of those" (2);   *)
(* the others are propositions, 0 for true and 1 for "none of those";       *)
(* variable 4 is known.                                                    *)
(***************************************************************************)
EXTENDS RefinedWriter, MCRobot

VARIABLES   (* BestFirstSearch *)
  start, goal, current, closed, open, priority, best, relaxed, estimate, solved, solution, calls, phase

MCVars == 1..4
MCStates == {s \in [1..4 -> 0..2] : \A v \in 2..4 : s[v] # 2}
MCOriginal == [v \in 1..4 |-> IF v = 4 THEN 0 ELSE IF v = 1 THEN 2 ELSE 1]
MCLast == [v \in 1..4 |-> IF v = 1 THEN 2 ELSE 1]

MCGroups ==
  << Group("OR", Singles(<< <<2, 0>>, <<3, 0>> >>)),
     Group("OR", << {SasLiteral(1, 0, TRUE)}, {SasLiteral(2, 0, FALSE)} >>),
     Group("ONEOF", Singles(<< <<1, 0>>, <<1, 1>> >>)) >>

MCMapped == { <<1, 0>>, <<1, 1>>, <<2, 0>>, <<3, 0>>, <<4, 0>> }

Engine == INSTANCE SearchPromise WITH
  Vars <- RobotVars, Dom <- RobotDom, Op <- RobotOp, Rules <- RobotRules, Layer <- RobotLayer,
  Default <- RobotDefault, Tasks <- RobotTasks, Boost <- 2, MaxCalls <- 2

\* The robot's task is one of those that SearchKeepsPromise (SearchProofs) is about.
ASSUME RobotIsEngineInput == Engine!TaskShape /\ Engine!EngineInput

searchVars == <<start, goal, current, closed, open, priority, best, relaxed, estimate, solved, solution, calls, phase>>

NoSearch ==
  /\ start = << >> /\ goal = {} /\ current = << >> /\ closed = << >> /\ open = << >> /\ priority = << >>
  /\ best = -1 /\ relaxed = << >> /\ estimate = << >> /\ solved = FALSE /\ solution = << >> /\ calls = 0 /\ phase = "idle"

MCInit == InitWriter /\ (NoSearch \/ Engine!InitSearch)

MCNext ==
  \/ start = << >> /\ NextWriter /\ UNCHANGED searchVars
  \/ start # << >> /\ Engine!NextSearch /\ UNCHANGED writerVars

MCSpec == MCInit /\ [][MCNext]_<<writerVars, searchVars>> /\ Engine!Fairness

\* The search keeps what its callers rely on: every plan works, a later one leads to
\* another goal state, and it gives up only when there is none left.
KeepsPromise == Engine!KeepsPromise
==============================================================================
