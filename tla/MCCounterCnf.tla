----------------------------- MODULE MCCounterCnf -----------------------------
(***************************************************************************)
(* A small task for CounterCnf.  A proposition has the values 0 (true) and *)
(* 1 (false).  A robot somewhere at 0 or 1 (variable 1; 2 is the exit) may *)
(* carry a key (2); a door (3) and a lamp (4).  Operators with conditional *)
(* effects, competing adds and deletes, unconditional effects, and one     *)
(* that rings a bell (8) nothing depends on.                               *)
(* Part of the goal is derived, through two layers and a positive cycle.   *)
(***************************************************************************)
EXTENDS CounterCnf

Eff(cond, var, pre, post) == [cond |-> cond, var |-> var, pre |-> pre, post |-> post]
Oper(prevail, effects) == [prevail |-> prevail, effects |-> effects]
Robot(x) == <<1, x>>
Key(x) == <<2, x>>
Door(x) == <<3, x>>
Lamp(x) == <<4, x>>

MCVars == 1..8
MCDom == [v \in MCVars |-> IF v = 1 THEN 3 ELSE 2]
MCLayer == [v \in MCVars |-> CASE v \in {5, 6} -> 0 [] v = 7 -> 1 [] OTHER -> -1]
MCDefault == [v \in MCVars |-> 1]

\* 5 and 6 support one another; 7 reads one of them, or the lamp and the door.
MCRules ==
  {[cond |-> {<<6, 0>>, Door(0)}, head |-> <<5, 0>>],
   [cond |-> {<<5, 0>>}, head |-> <<6, 0>>],
   [cond |-> {Robot(2)}, head |-> <<6, 0>>],
   [cond |-> {<<6, 0>>, Key(1)}, head |-> <<7, 0>>],
   [cond |-> {Lamp(0), Door(0)}, head |-> <<7, 0>>]}

MCOp ==
  [right |-> Oper({}, << Eff({Robot(0)}, 1, -1, 1), Eff({Robot(1)}, 1, -1, 2) >>),
   grab  |-> Oper({}, << Eff({Robot(1)}, 2, -1, 0), Eff({Robot(2), Lamp(1)}, 2, -1, 1) >>),
   open  |-> Oper({Key(0), Door(1)}, << Eff({}, 3, 1, 0), Eff({}, 2, 0, 1) >>),
   shut  |-> Oper({Door(0)}, << Eff({}, 3, 0, 1), Eff({Lamp(0)}, 1, -1, 0) >>),
   ring  |-> Oper({Door(0)}, << Eff({}, 8, -1, 0) >>),
   blink |-> Oper({Door(0)}, << Eff({}, 4, -1, 0) >>),
   home  |-> Oper({}, << Eff({}, 1, -1, 0) >>),
   flip  |-> Oper({}, << Eff({Robot(1)}, 3, -1, 0), Eff({Key(0)}, 3, -1, 0) >>)]

MCGoal == {Door(0), Key(1), <<7, 0>>}

MCBelief ==
  {s \in [MCVars -> 0..2] :
     /\ s[1] \in {0, 1} /\ s[2] \in {0, 1} /\ s[3] = 1 /\ s[4] \in {0, 1}
     /\ s[2] = 0 => s[4] = 1
     /\ \A v \in MCVars : v > 4 => s[v] = 1}

MCPlans ==
  { << "open" >>, << "right", "grab", "open" >>, << "grab", "right", "open" >>,
    << "right", "grab", "right", "open" >>, << "blink", "grab", "right", "open" >>,
    << "flip", "right", "grab", "open" >>, << "grab", "right", "grab", "open" >>,
    << "grab", "open", "blink", "shut", "flip" >>, << "right", "grab", "flip", "open" >>,
    << "home", "right", "grab", "open" >>, << "home", "right", "grab", "blink", "open" >>,
    << "right", "home", "right", "grab", "open" >>,
    << "grab", "open", "right", "right" >>, << "right", "right", "grab" >>,
    << "right", "grab", "open", "right" >>, << "right", "grab", "open", "blink" >>,
    << "home", "right", "grab", "open", "right" >>, << "home", "right", "grab", "open", "blink" >>,
    << "home", "ring", "right", "grab", "open", "right" >> }

MCBans == {{}, {[v \in MCVars |-> IF v = 2 \/ v = 1 THEN 0 ELSE 1]}}
==============================================================================
