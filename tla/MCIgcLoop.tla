------------------------------ MODULE MCIgcLoop ------------------------------
(***************************************************************************)
(* A small task for IgcLoop: a robot at 0, 1 or 2 (variable 1) is to take  *)
(* a parcel (variable 2; 0 is taken), which it can do at 2, or at 0 when   *)
(* the lift (variable 3) works.  One step too far and it is stuck at 3.    *)
(***************************************************************************)
EXTENDS IgcLoop

Eff(cond, var, post) == [cond |-> cond, var |-> var, pre |-> -1, post |-> post]
Oper(prevail, effects) == [prevail |-> prevail, effects |-> effects]
At(x) == <<1, x>>

MCVars == 1..3
MCDom == <<4, 2, 2>>
MCNone == [v \in MCVars |-> -1]
MCDefault == [v \in MCVars |-> 0]

MCOp ==
  [right |-> Oper({<<3, 0>>}, << Eff({At(0)}, 1, 1), Eff({At(1)}, 1, 2), Eff({At(2)}, 1, 3) >>),
   swap  |-> Oper({}, << Eff({At(0)}, 1, 1), Eff({At(1)}, 1, 0) >>),
   grab  |-> Oper({At(2)}, << Eff({}, 2, 0) >>),
   lift  |-> Oper({At(0)}, << Eff({<<3, 0>>}, 2, 0), Eff({<<3, 1>>}, 1, 2) >>)]

MCGoal == {<<2, 0>>}
World(x, l) == <<x, 1, l>>
Setting(a, o, x, f, g) == [avoid |-> a, optimize |-> o, relax |-> x, reference |-> f, original |-> g]
Plain == Setting(TRUE, FALSE, FALSE, "dynamic", FALSE)
Static == Setting(TRUE, TRUE, FALSE, "static", FALSE)
Landmark == Setting(TRUE, TRUE, TRUE, "landmark", FALSE)
Original == Setting(TRUE, FALSE, TRUE, "dynamic", TRUE)
StaticOriginal == Setting(TRUE, FALSE, FALSE, "static", TRUE)
Unguarded == Setting(FALSE, TRUE, TRUE, "dynamic", FALSE)

\* Two worlds that need care with each other; two that need different plans; one that
\* is lost; three worlds for a run without loop avoidance.
MCStarts ==
  ({{World(0, 0), World(1, 0)}, {World(1, 1), World(0, 0)}} \X {Plain, StaticOriginal, Unguarded})
  \cup ({{World(0, 1), World(2, 0)}} \X {Plain, Static, Landmark, Original, Unguarded})
  \cup ({{World(0, 0), World(3, 0)}} \X {Plain, Static, Landmark})
  \cup ({{World(0, 0), World(1, 0), World(2, 1)}} \X {Unguarded})
MCUndecided == {}
==============================================================================
