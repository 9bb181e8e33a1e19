------------------------------ MODULE PlanSearch ------------------------------
(***************************************************************************)
(* What the caller of a search may expect (planner.cc, main and            *)
(* search_subplan): asked for a plan from start to goal, the search        *)
(* answers with one that works, and asked again with one that leads to     *)
(* another goal state, as long as there is a goal state that no earlier    *)
(* plan leads to or through; it says that there is none only then.         *)
(***************************************************************************)
EXTENDS Integers, Sequences, FiniteSets

CONSTANTS
  Operators,      (* their names                                            *)
  Through(_, _),  (* where an operator leads from a state: nowhere if it    *)
                  (* cannot be applied                                      *)
  Meets(_, _),    (* a state meets a goal                                   *)
  States          (* all the states there are                               *)

VARIABLES
  start, goal,  (* what is to be planned                                    *)
  pending,      (* somebody waits for an answer                             *)
  answer,       (* the last plan, in a sequence that is empty if there is none *)
  ended         (* where the plans have led                                 *)

vars == <<start, goal, pending, answer, ended>>

\* Everything that can be reached without going through a goal state.
Widened(R) == R \cup UNION {Through(a, s) : a \in Operators, s \in {t \in R : ~Meets(t, goal)}}
Reachable ==
  LET grown[n \in 0..Cardinality(States)] ==
        [R \in SUBSET States |-> LET W == Widened(R) IN IF n = 0 \/ W = R THEN R ELSE grown[n - 1][W]]
  IN  grown[Cardinality(States)][{start}]

\* p can be carried out from start and ends in s.
Leads(p, s) ==
  LET at[k \in 0..Len(p)] == IF k = 0 THEN {start} ELSE UNION {Through(p[k], t) : t \in at[k - 1]}
  IN  at[Len(p)] = {s}

Init == ~pending /\ answer = << >> /\ ended = {}

Ask == ~pending /\ pending' = TRUE /\ answer' = << >> /\ UNCHANGED <<start, goal, ended>>

Answer ==
  /\ pending /\ pending' = FALSE
  /\ LET left == {s \in Reachable : Meets(s, goal)} \ ended
     IN  IF left = {} THEN answer' = << >> /\ UNCHANGED ended
         ELSE /\ Len(answer') = 1
              /\ \E s \in left : Leads(answer'[1], s) /\ ended' = ended \cup {s}
  /\ UNCHANGED <<start, goal>>

Safety == Init /\ [][Ask \/ Answer]_vars

\* Every question is answered.
Spec == Safety /\ (pending ~> ~pending)
==============================================================================
