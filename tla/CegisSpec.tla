------------------------------ MODULE CegisSpec ------------------------------
(***************************************************************************)
(* What the CEGIS loop promises, without files, solvers or planners: it    *)
(* learns possible initial states on which some plan fails, until it       *)
(* accepts one plan that works on all of them or gives up.                 *)
(***************************************************************************)
EXTENDS Naturals

CONSTANTS
  Worlds,        (* the possible initial states                              *)
  Plans,         (* the plans the loop may come to try                       *)
  Solves(_, _),  (* whether a plan works from an initial state               *)
  Trusted        (* whether every plan tried works on all that is known      *)

VARIABLES
  known,      (* the initial states learnt so far            *)
  accepted,   (* the accepted plan: a set of at most one     *)
  over        (* whether the loop has returned               *)

vars == <<known, accepted, over>>

Conformant(p) == \A w \in Worlds : Solves(p, w)

Init == known = {} /\ accepted = {} /\ over = FALSE

\* A plan is refuted by an initial state that is not known yet; the round may
\* have been the last one allowed.
Learn == \E p \in Plans, w \in Worlds \ known :
           /\ ~over
           /\ ~Solves(p, w)
           /\ Trusted => \A v \in known : Solves(p, v)
           /\ known' = known \cup {w}
           /\ over' \in BOOLEAN
           /\ UNCHANGED accepted

Accept == \E p \in Plans :
            /\ ~over
            /\ Conformant(p)
            /\ accepted' = {p} /\ over' = TRUE
            /\ UNCHANGED known

GiveUp == ~over /\ over' = TRUE /\ UNCHANGED <<known, accepted>>

Next == Learn \/ Accept \/ GiveUp

Spec == Init /\ [][Next]_vars
==============================================================================
