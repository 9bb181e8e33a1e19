---------------------------- MODULE CegisProgress ----------------------------
(***************************************************************************)
(* What the CEGIS loop owes to a planner that solves every world it is     *)
(* given (SoundPlanner), in a mode that gives it all of them: progress     *)
(* with every round, and in the end a plan.                                *)
(***************************************************************************)
EXTENDS CegisLoop

\* A sound planner is never shown the same counterexample twice (run_cegis_loop
\* inserts, then writes the problem anew), so the loop neither stagnates nor
\* needs more iterations than there are initial states.
SoundRunNeverRepeats ==
  SoundPlanner /\ Mode # "single" =>
    /\ \A i \in DOMAIN store : store[i].freq = 1
    /\ streak = 0
    /\ status # "STAGNATION"
    /\ Len(store) <= Cardinality(Worlds)

\* With a sound planner, no faults and room for every initial state, the
\* loop returns VALID: it cannot stagnate or run into the iteration limit.
SoundRunAccepts == <>(status = "VALID")
==============================================================================
