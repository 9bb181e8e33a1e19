----------------------------- MODULE MCCegisLoop -----------------------------
(***************************************************************************)
(* A small conformant problem for CegisLoop.  Variable 1 is a position on  *)
(* a line (0, 1, 2), unknown; variable 2 says whether a door is open (0)   *)
(* or not (1), constrained by an OR; the goal is position 0.  "left" moves *)
(* one to the left and does nothing at 0; "jump" moves from 2 to 0, does   *)
(* nothing at 0 and at 1 bounces to 2, and needs the door open.            *)
(***************************************************************************)
EXTENDS CegisLoop

MCVars == 1..2
MCStates == {s \in [1..2 -> 0..2] : s[2] # 2}
MCOriginal == <<2, 1>>
MCLast == <<2, 1>>
MCGroups == << Group("OR", Singles(<< <<2, 0>>, <<1, 2>> >>)),
               Group("ONEOF", Singles(<< <<1, 0>>, <<1, 1>>, <<1, 2>> >>)) >>
MCMapped == { <<1, 0>>, <<1, 1>>, <<1, 2>>, <<2, 0>> }

MCOperators == {"left", "jump"}

\* The position an operator leads to, 3 when its precondition fails.
Step(op, s, position) ==
  IF position = 3 \/ (op = "jump" /\ s[2] # 0) THEN 3
  ELSE IF position = 0 THEN 0
  ELSE IF op = "left" THEN position - 1
  ELSE IF position = 2 THEN 0 ELSE 2

MCSolves(plan, s) ==
  LET position[n \in 0..Len(plan)] ==
        IF n = 0 THEN s[1] ELSE Step(plan[n], s, position[n - 1])
  IN  position[Len(plan)] = 0

\* Names as planners print them: one in the original spelling, one only its
\* relaxed form matches, one the relaxed form of two operators, one of none.
MCNames == {"left", "JUMP_", "le-ft", "unknown"}
MCExact == [name \in MCNames |-> IF name = "left" THEN {"left"} ELSE {}]
MCRelaxed == [name \in MCNames |-> CASE name = "left"  -> {"left"}
                                     [] name = "JUMP_" -> {"jump"}
                                     [] name = "le-ft" -> {"left", "jump"}
                                     [] OTHER          -> {}]

MCRawPlans == { <<>>, <<"left">>, <<"JUMP_">>, <<"left", "left">>,
                <<"left", "JUMP_", "left">>, <<"left", "le-ft">>, <<"left", "unknown">> }
==============================================================================
