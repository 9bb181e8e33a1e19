--------------------------- MODULE BestFirstSearch ---------------------------
(***************************************************************************)
(* The search engine (lama/search/best_first_search.cc): a closed list,    *)
(* which is also the tree of the paths, and two open lists ordered by      *)
(* estimate and depth, one for all successors and one for those by         *)
(* preferred operators, which is favoured for a while whenever the         *)
(* estimate improves.  The engine trusts its heuristic for the dead ends   *)
(* and for the goal, and it can be asked again after an answer.            *)
(***************************************************************************)
EXTENDS FFHeuristic

CONSTANTS
  Tasks,      (* what is to be planned: pairs of a state, its derived       *)
              (* variables evaluated, and a goal                            *)
  Boost,      (* what progress is worth to the second list: 1000            *)
  MaxCalls    (* a bound on the calls of search()                           *)

VARIABLES
  start, goal,
  current,    (* the next state to look at, from <<parent, operator>>       *)
  closed,     (* a function on states: [from, g]                            *)
  open,       (* the open lists: entries <<estimate, depth, parent, operator>> *)
  priority,   (* of the open lists; low comes first                         *)
  best,       (* the best estimate, -1 before the first                     *)
  relaxed,    (* the exploration of the heuristic                           *)
  estimate,   (* what the heuristic says of the last state closed           *)
  solved, solution,
  calls, phase

searchVars == <<start, goal, current, closed, open, priority, best, relaxed, estimate, solved, solution, calls, phase>>

InitSearch ==
  /\ \E t \in Tasks : start = t[1] /\ goal = t[2]
  /\ current = [state |-> start, from |-> << >>] /\ closed = << >>
  /\ open = [all |-> {}, preferred |-> {}] /\ priority = [all |-> 0, preferred |-> 0]
  /\ best = -1 /\ relaxed = << >> /\ estimate = << >> /\ solved = FALSE /\ solution = << >> /\ calls = 0 /\ phase = "idle"

\* SearchEngine::search: a search after an answer goes on where that one stopped.
Search ==
  /\ phase \in {"idle", "done"} /\ calls < MaxCalls
  /\ calls' = calls + 1 /\ solved' = FALSE /\ phase' = "step"
  /\ UNCHANGED <<start, goal, current, closed, open, priority, best, relaxed, estimate, solution>>

\* The state is closed already.
Known ==
  /\ phase = "step" /\ current.state \in DOMAIN closed
  /\ phase' = "fetch"
  /\ UNCHANGED <<start, goal, current, closed, open, priority, best, relaxed, estimate, solved, solution, calls>>

\* ClosedList::insert; the heuristic is told to look anew.
Close ==
  /\ phase = "step" /\ current.state \notin DOMAIN closed
  /\ LET g == IF current.from = << >> THEN 0 ELSE closed[current.from[1]].g + 1
     IN  closed' = [s \in DOMAIN closed \cup {current.state} |->
                      IF s \in DOMAIN closed THEN closed[s] ELSE [from |-> current.from, g |-> g]]
  /\ relaxed' = Setup(current.state, goal)
  /\ phase' = "explore"
  /\ UNCHANGED <<start, goal, current, open, priority, best, estimate, solved, solution, calls>>

Explore ==
  /\ phase = "explore" /\ ~Explored(relaxed)
  /\ relaxed' = Popped(relaxed, goal)
  /\ UNCHANGED <<start, goal, current, closed, open, priority, best, estimate, solved, solution, calls, phase>>

EvaluateHeuristic ==
  /\ phase = "explore" /\ Explored(relaxed)
  /\ estimate' = Estimate(relaxed, goal) /\ relaxed' = << >> /\ phase' = "evaluated"
  /\ UNCHANGED <<start, goal, current, closed, open, priority, best, solved, solution, calls>>

\* A reliable heuristic is trusted.
Prune ==
  /\ phase = "evaluated" /\ estimate.dead
  /\ phase' = "fetch"
  /\ UNCHANGED <<start, goal, current, closed, open, priority, best, relaxed, estimate, solved, solution, calls>>

\* ClosedList::trace_path.
Path(s) ==
  LET path[t \in DOMAIN closed] ==
        IF closed[t].from = << >> THEN << >> ELSE Append(path[closed[t].from[1]], closed[t].from[2])
  IN  path[s]

\* check_goal: an estimate of 0 is a goal state.
CheckGoal ==
  /\ phase = "evaluated" /\ ~estimate.dead /\ estimate.h = 0
  /\ solved' = TRUE /\ solution' = Path(current.state) /\ phase' = "done"
  /\ UNCHANGED <<start, goal, current, closed, open, priority, best, relaxed, estimate, calls>>

Entries(ops, h) == {<<h, closed[current.state].g + 1, current.state, a>> : a \in ops}

\* check_progress, reward_progress, generate_successors.
Expand ==
  /\ phase = "evaluated" /\ ~estimate.dead /\ estimate.h # 0
  /\ LET h == estimate.h
         applicable == {a \in DOMAIN Op : FullyApplicable(Op[a], current.state)}
         progress == best = -1 \/ h < best
     IN  /\ best' = IF progress THEN h ELSE best
         /\ priority' = IF progress THEN [priority EXCEPT !.preferred = @ - Boost] ELSE priority
         /\ open' = [all |-> open.all \cup Entries(applicable, h),
                     preferred |-> open.preferred \cup Entries(estimate.preferred, h)]
  /\ phase' = "fetch"
  /\ UNCHANGED <<start, goal, current, closed, relaxed, estimate, solved, solution, calls>>

\* select_open_queue, with the first list when both are worth the same.
Selected(l) ==
  /\ open[l] # {}
  /\ l = "all" => open.preferred = {} \/ priority.all <= priority.preferred
  /\ l = "preferred" => open.all = {} \/ priority.preferred < priority.all

\* OpenList::IsWorse: a low estimate first, and of equal ones the deeper entry, although
\* the tie breaker is called breadth-first (best_first_search.cc:263).
Before(e, d) == e[1] < d[1] \/ (e[1] = d[1] /\ e[2] >= d[2])

Fetch ==
  /\ phase = "fetch"
  /\ \E l \in DOMAIN open : \E e \in open[l] :
       /\ Selected(l) /\ \A d \in open[l] : Before(e, d)
       /\ open' = [open EXCEPT ![l] = @ \ {e}]
       /\ priority' = [priority EXCEPT ![l] = @ + 1]
       /\ current' = [state |-> Apply(Op[e[4]], e[3]), from |-> <<e[3], e[4]>>]
  /\ phase' = "step"
  /\ UNCHANGED <<start, goal, closed, best, relaxed, estimate, solved, solution, calls>>

\* Completely explored state space -- no solution!
Exhausted ==
  /\ phase = "fetch" /\ \A l \in DOMAIN open : open[l] = {}
  /\ phase' = "done"
  /\ UNCHANGED <<start, goal, current, closed, open, priority, best, relaxed, estimate, solved, solution, calls>>

Step == Known \/ Close \/ Explore \/ EvaluateHeuristic \/ Prune \/ CheckGoal \/ Expand \/ Fetch \/ Exhausted

NextSearch == Search \/ Step

Running == phase \notin {"idle", "done"}

\* search() is a loop in one thread: it does not stop before a step says so.  Running
\* is what enables Step, and only Search starts without; this is WF_searchVars(Step) in terms
\* that are cheap to evaluate.
Fairness == <>[]~Running \/ []<><<Running>>_searchVars

SearchSpec == InitSearch /\ [][NextSearch]_searchVars /\ Fairness
==============================================================================
