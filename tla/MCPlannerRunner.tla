--------------------------- MODULE MCPlannerRunner ---------------------------
(***************************************************************************)
(* Native mode in two settings, one at a time: two processes that run      *)
(* iCPCES in its one directory at the same time, either of which may be    *)
(* killed while its planner lives on (the constants themselves), and one   *)
(* process that calls any other planner twice (Rounds).                    *)
(***************************************************************************)
EXTENDS PlannerRunner

CONSTANT r1

VARIABLE setting   (* "shared" or "rounds" *)

Rounds == INSTANCE PlannerRunner WITH
  Kinds <- AllKinds \ {"ICPCES"}, Outputs <- Whole, MaxRounds <- 2,
  Parallel <- FALSE, Killable <- FALSE

settingVars == <<setting, vars>>

MCInit ==
  \/ setting = "shared" /\ Init
  \/ setting = "rounds" /\ Rounds!Init

\* In the second setting nobody but r1 ever begins.
MCNext ==
  /\ UNCHANGED setting
  /\ \/ setting = "rounds" /\ Rounds!Next /\ \A r \in Runs \ {r1} : run'[r] = run[r]
     \/ setting = "shared" /\ Next

Turn(r) ==
  /\ UNCHANGED setting
  /\ \/ setting = "shared" /\ Runner(r)
     \/ setting = "rounds" /\ r = r1 /\ Rounds!Runner(r)

MCSpec == MCInit /\ [][MCNext]_settingVars /\ \A r \in Runs : WF_settingVars(Turn(r))
==============================================================================
