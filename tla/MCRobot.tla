------------------------------- MODULE MCRobot -------------------------------
(***************************************************************************)
(* A small task for BestFirstSearch.  A robot (variable 1) is at 0, 1 or 2 *)
(* or, where it gets with the key (2), at 3, from where no way leads back. *)
(* It grabs the key at 1, may drop it, and opens the door (3) when it is   *)
(* ready (4), which axioms derive in both values as the translator turns   *)
(* them round for a reader of the negation; another layer derives that all *)
(* is safe (5).                                                            *)
(***************************************************************************)
EXTENDS Integers, Sequences

Change(cond, var, pre, post) == [cond |-> cond, var |-> var, pre |-> pre, post |-> post]
Oper(prevail, effects) == [prevail |-> prevail, effects |-> effects]
At(x) == <<1, x>>
Key(x) == <<2, x>>
Door(x) == <<3, x>>
Ready(x) == <<4, x>>
Safe(x) == <<5, x>>

RobotVars == 1..5
RobotDom == << 4, 2, 2, 2, 2 >>
RobotLayer == << -1, -1, -1, 0, 1 >>
RobotDefault == << 0, 1, 1, 1, 1 >>

RobotRules ==
  {[cond |-> {At(0), Key(0)}, head |-> Ready(0)],
   [cond |-> {Key(1)}, head |-> Ready(1)]}
  \cup {[cond |-> {At(x)}, head |-> Ready(1)] : x \in 1..3}
  \cup {[cond |-> {Ready(1), Door(0)}, head |-> Safe(0)]}

RobotOp ==
  [right |-> Oper({}, << Change({At(0)}, 1, -1, 1), Change({At(1)}, 1, -1, 2), Change({At(2), Key(0)}, 1, -1, 3) >>),
   left  |-> Oper({}, << Change({At(1)}, 1, -1, 0), Change({At(2)}, 1, -1, 1) >>),
   grab  |-> Oper({At(1)}, << Change({}, 2, -1, 0) >>),
   drop  |-> Oper({Ready(1)}, << Change({}, 2, 0, 1) >>),
   open  |-> Oper({Ready(0)}, << Change({}, 3, 1, 0), Change({}, 1, -1, 1) >>)]

Robot == INSTANCE SasTask WITH
  Vars <- RobotVars, Dom <- RobotDom, Op <- RobotOp, Rules <- RobotRules, Layer <- RobotLayer, Default <- RobotDefault

\* Where the robot is and whether it has the key (0) or not (1); the door is closed.
World(x, k) == Robot!Closure([v \in RobotVars |-> CASE v = 1 -> x [] v = 2 -> k [] OTHER -> 1])

\* Goals that are derived, that several states reach, that need the door opened on the
\* way; from the far side nothing can be reached.
RobotTasks ==
  ({World(x, 0) : x \in {0, 2, 3}} \X {{Door(0)}, {Safe(0)}, {Ready(0), Door(0)}})
  \cup ({World(0, 1), World(2, 1), World(3, 1)} \X {{Safe(0)}})
  \cup ({World(2, 0), World(3, 0)} \X {{At(3), Key(1)}})
==============================================================================
