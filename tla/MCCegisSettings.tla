--------------------------- MODULE MCCegisSettings ---------------------------
(***************************************************************************)
(* The problem of MCCegisLoop in two settings, one at a time: a planner    *)
(* that may print anything and calls that fail (the constants themselves), *)
(* and a planner that solves what it is given, in a loop without faults    *)
(* that may not see a counterexample twice (Sound).                        *)
(***************************************************************************)
EXTENDS MCCegisLoop

VARIABLE setting   (* "untrusted" or "sound" *)

Sound == INSTANCE CegisProgress WITH
  Profile <- "T1", Mode <- "structured", BasicValidation <- FALSE, DuplicateLimit <- 1,
  SoundPlanner <- TRUE, Faults <- FALSE

settingVars == <<setting, vars>>

MCInit ==
  \/ setting = "untrusted" /\ Init
  \/ setting = "sound" /\ Sound!Init

SoundStep == setting = "sound" /\ Sound!Next /\ UNCHANGED setting

MCNext == (setting = "untrusted" /\ Next /\ UNCHANGED setting) \/ SoundStep

MCSpec == MCInit /\ [][MCNext]_settingVars /\ WF_settingVars(SoundStep)

\* A planner that solves every world it is given is never shown the same counterexample
\* twice (run_cegis_loop inserts, then writes the problem anew).
SoundRunNeverRepeats == setting = "sound" => Sound!SoundRunNeverRepeats

\* With a sound planner, no faults and room for every initial state, the loop returns
\* VALID, even if it may not see any counterexample twice.
SoundRunAccepts == setting = "sound" => Sound!SoundRunAccepts
==============================================================================
