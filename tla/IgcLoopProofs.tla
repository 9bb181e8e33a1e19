---------------------------- MODULE IgcLoopProofs ----------------------------
(***************************************************************************)
(* What holds of IgcLoop for every task, every set of initial states and   *)
(* settings, and every bound.                                              *)
(***************************************************************************)
EXTENDS IgcLoop, TLAPS

\* A search from scratch returns a plan that leads there, or says that there is none.
LEMMA SearchesTrue ==
  ASSUME NEW s, NEW sub, NEW r \in Searches(s, sub, {})
  PROVE  IF r.found THEN r.plan \in Ways(s, sub, {}) ELSE Ways(s, sub, {}) = {}
<1> DEFINE ways == Ways(s, sub, {})
<1>1. CASE ways = {}
  BY <1>1 DEF Searches, NoPlan
<1>2. CASE ways # {}
  BY <1>2 DEF Searches, Found
<1> QED
  BY <1>1, <1>2

LEMMA RememberingTrue ==
  ASSUME CacheIsTrue, NEW s, NEW sub, NEW r \in Subplans(s, sub),
         cache' = Remembering(s, sub, r)
  PROVE  CacheIsTrue'
<1>1. CASE cache' = cache
  BY <1>1 DEF CacheIsTrue
<1>2. CASE cache' # cache
  <2>1. /\ <<s, sub>> \notin DOMAIN cache
        /\ cache' = [k \in DOMAIN cache \cup {<<s, sub>>} |-> IF k = <<s, sub>> THEN r ELSE cache[k]]
    BY <1>2 DEF Remembering, Keeping
  <2>2. /\ DOMAIN cache' = DOMAIN cache \cup {<<s, sub>>} /\ cache'[<<s, sub>>] = r
        /\ \A key \in DOMAIN cache : cache'[key] = cache[key]
    BY <2>1
  <2>3. IF r.found THEN r.plan \in Ways(s, sub, {}) ELSE Ways(s, sub, {}) = {}
    BY <2>1, SearchesTrue DEF Subplans, Cached
  <2> QED
    BY <2>2, <2>3 DEF CacheIsTrue
<1> QED
  BY <1>1, <1>2

LEMMA UsableIsAnswer ==
  ASSUME NEW p, NEW banned, NEW r \in CnfResults(p, banned), r.usable
  PROVE  r.ce \in Answers(p, banned)
<1>1. CASE r \in [usable : {TRUE}, ce : Answers(p, banned)]
  BY <1>1
<1>2. CASE r = [usable |-> FALSE, ce |-> {}]
  BY <1>2
<1> QED
  BY <1>1, <1>2 DEF CnfResults

\* An answer without a counterexample is right, whichever solver gave it, when the
\* SMT solver always answers.
LEMMA SilenceIsTrue ==
  ASSUME Undecided = {}, NEW p, NEW banned, {} \in Verdicts(p, banned)
  PROVE  \A s \in belief \ banned : Works(p, s)
<1>1. {} \in Answers(p, banned)
  <2>1. PICK r \in CnfResults(p, banned) : {} \in (IF r.usable THEN {r.ce} ELSE Answers(p, banned))
    BY DEF Verdicts
  <2>2. r.usable => r.ce \in Answers(p, banned)
    BY UsableIsAnswer
  <2> QED
    BY <2>1, <2>2
<1> QED
  BY <1>1 DEF Answers

\* A counterexample is one of the states that were asked about.
LEMMA CounterexampleAsked ==
  ASSUME NEW p, NEW banned, NEW ce \in Verdicts(p, banned), NEW s \in ce
  PROVE  s \in belief \ banned
<1>1. ce \in Answers(p, banned)
  <2>1. PICK r \in CnfResults(p, banned) :
          ce \in (IF r.usable THEN {r.ce} ELSE Answers(p, banned) \cup Undecided)
    BY DEF Verdicts
  <2>2. r.usable => r.ce \in Answers(p, banned)
    BY UsableIsAnswer
  <2> QED
    BY <2>1, <2>2, SilenceIsNoCounterexample
<1> QED
  BY <1>1 DEF Answers

-----------------------------------------------------------------------------
(* The strengthening: the flag that ends solve_belief_state_ite is up only  *)
(* when the loop has ended, another s0 is selected with loop avoidance only.*)

CounterShape ==
  /\ DOMAIN counter = {"isfind", "findvalidplan", "appear", "recent", "firststate", "landmark"}
  /\ counter.findvalidplan \in BOOLEAN

Guarded ==
  /\ opt.avoid \in BOOLEAN
  /\ pc # "done" => ~counter.findvalidplan
  /\ pc = "restart" => opt.avoid

IInv == CounterShape /\ Guarded /\ CacheIsTrue

LEMMA LearntKeeps ==
  ASSUME NEW c, NEW s, DOMAIN c = DOMAIN counter
  PROVE  /\ DOMAIN Learnt(c, s) = DOMAIN counter /\ DOMAIN Recorded(c, s) = DOMAIN counter
         /\ CounterShape => /\ Learnt(c, s).findvalidplan = c.findvalidplan
                            /\ Recorded(c, s).findvalidplan = c.findvalidplan
BY DEF Learnt, Recorded, CounterShape

THEOREM InitGuarded == Init => IInv
BY SwitchesAssumption DEF Init, IInv, CounterShape, Guarded, CacheIsTrue, NoCounter

-----------------------------------------------------------------------------
(* The cache.                                                               *)

LEMMA NextCacheTrue ==
  ASSUME CacheIsTrue, [Next]_vars
  PROVE  CacheIsTrue'
<1>0. CASE cache' = cache
  BY <1>0 DEF CacheIsTrue
<1>1. CASE Restart
  <2>1. CASE cache' # cache
    <3>1. PICK s : \E r \in Subplans(s, Goal) : cache' = Remembering(s, Goal, r)
      BY <1>1, <2>1 DEF Restart
    <3> QED
      BY <3>1, RememberingTrue
  <2> QED
    BY <1>0, <2>1
<1>2. CASE KeepEffects
  <2>1. CASE cache' # cache
    <3>1. PICK sub : \E r \in Subplans(fix.cur, sub) : cache' = Remembering(fix.cur, sub, r)
      BY <1>2, <2>1 DEF KeepEffects
    <3> QED
      BY <3>1, RememberingTrue
  <2> QED
    BY <1>0, <2>1
<1>3. CASE ReachCondition
  BY <1>3, RememberingTrue DEF ReachCondition
<1>4. CASE ReachGoal
  BY <1>4, RememberingTrue DEF ReachGoal
<1>5. CASE SelectInitial \/ Search \/ Failed \/ Solve \/ Round \/ Verify \/ Resolve \/ UNCHANGED vars
  <2>1. cache' = cache
    BY <1>5 DEF SelectInitial, Search, Failed, Solve, Round, Verify, Resolve, vars
  <2> QED
    BY <1>0, <2>1
<1> QED
  BY <1>1, <1>2, <1>3, <1>4, <1>5 DEF Next

-----------------------------------------------------------------------------
(* The flags.                                                               *)

\* A counterexample leaves the flag down.
LEMMA AppliedKeeps ==
  ASSUME CounterShape, NEW ce
  PROVE  /\ DOMAIN Applied(counter, ce) = DOMAIN counter
         /\ Applied(counter, ce).findvalidplan \in BOOLEAN
         /\ ce # {} => Applied(counter, ce).findvalidplan = counter.findvalidplan
<1>1. CASE ce # {}
  BY <1>1 DEF Applied, Learnt, CounterShape
<1>2. CASE ce = {} /\ counter.isfind
  BY <1>2 DEF Applied, CounterShape
<1>3. CASE ce = {} /\ ~counter.isfind
  <2> DEFINE up == counter.findvalidplan \/ ~opt.avoid \/ Repeated(counter) = {}
  <2>1. Applied(counter, ce) = [counter EXCEPT !.isfind = TRUE, !.findvalidplan = up]
    BY <1>3 DEF Applied
  <2>2. up \in BOOLEAN
    OBVIOUS
  <2> HIDE DEF up
  <2> QED
    BY <1>3, <2>1, <2>2 DEF CounterShape
<1> QED
  BY <1>1, <1>2, <1>3

LEMMA RestartGuarded ==
  ASSUME CounterShape, Guarded, Restart
  PROVE  CounterShape' /\ Guarded'
<1>1. opt' = opt
  BY DEF Restart
<1>2. PICK ce :
        \/ ce = {} /\ counter' = Applied(counter, ce) /\ pc' = "done"
        \/ /\ ce # {} /\ pc' = "solve"
           /\ \E s : counter' = Recorded([Applied(counter, ce) EXCEPT !.firststate = @ \cup {s}], s)
  BY DEF Restart
<1>3. CASE ce = {}
  BY <1>1, <1>2, <1>3, AppliedKeeps DEF CounterShape, Guarded
<1>4. CASE ce # {}
  <2>1. PICK s : counter' = Recorded([Applied(counter, ce) EXCEPT !.firststate = @ \cup {s}], s)
    BY <1>2, <1>4
  <2>2. DOMAIN counter' = DOMAIN counter /\ counter'.findvalidplan = counter.findvalidplan
    BY <2>1, <1>4, AppliedKeeps DEF Recorded, CounterShape
  <2> QED
    BY <1>1, <1>2, <1>4, <2>2 DEF CounterShape, Guarded, Restart
<1> QED
  BY <1>3, <1>4

LEMMA VerifyGuarded ==
  ASSUME CounterShape, Guarded, Verify
  PROVE  CounterShape' /\ Guarded'
<1>1. opt' = opt /\ pc = "verify"
  BY DEF Verify
<1>2. PICK ce :
        /\ counter' = Applied(counter, ce)
        /\ pc' \in {"done", "resolve", "failed", "repair"}
        /\ ce = {} => pc' = IF Applied(counter, ce).findvalidplan THEN "done" ELSE "resolve"
  BY DEF Verify
<1>3. CounterShape'
  BY <1>2, AppliedKeeps DEF CounterShape
<1>4. pc' # "done" => ~counter'.findvalidplan
  BY <1>1, <1>2, AppliedKeeps DEF Guarded
<1> QED
  BY <1>1, <1>2, <1>3, <1>4 DEF Guarded

LEMMA NextGuarded ==
  ASSUME CounterShape, Guarded, [Next]_vars
  PROVE  CounterShape' /\ Guarded'
<1>1. CASE SelectInitial
  <2>1. opt' = opt /\ pc = "select" /\ pc' = "search"
    BY <1>1 DEF SelectInitial
  <2>2. DOMAIN counter' = DOMAIN counter /\ counter'.findvalidplan = counter.findvalidplan
    BY <1>1 DEF SelectInitial, CounterShape
  <2> QED
    BY <2>1, <2>2 DEF CounterShape, Guarded
<1>2. CASE Search
  <2>1. /\ opt' = opt /\ pc = "search"
        /\ pc' \in {"solve", "restart", "done"} /\ pc' = "restart" => opt.avoid
        /\ counter' = counter \/ counter' = Recorded(counter, s0)
    BY <1>2 DEF Search
  <2>2. DOMAIN counter' = DOMAIN counter /\ counter'.findvalidplan = counter.findvalidplan
    BY <2>1, LearntKeeps DEF CounterShape
  <2> QED
    BY <2>1, <2>2 DEF CounterShape, Guarded
<1>3. CASE Restart
  BY <1>3, RestartGuarded
<1>4. CASE Failed
  BY <1>4 DEF Failed, CounterShape, Guarded
<1>5. CASE Verify
  BY <1>5, VerifyGuarded
<1>6. CASE Solve \/ Round \/ KeepEffects \/ ReachCondition \/ ReachGoal \/ Resolve \/ UNCHANGED vars
  <2>1. counter' = counter /\ opt' = opt
    BY <1>6 DEF Solve, Round, KeepEffects, ReachCondition, ReachGoal, Resolve, vars
  <2>2. pc' = pc \/ (pc \in {"solve", "round", "repair", "resolve"} /\ pc' \notin {"done", "restart"})
    <3>1. CASE Solve \/ Round
      BY <3>1 DEF Solve, Round
    <3>2. CASE KeepEffects
      BY <3>2 DEF KeepEffects
    <3>3. CASE ReachCondition
      BY <3>3 DEF ReachCondition, AtOperator, GiveUp
    <3>4. CASE ReachGoal
      BY <3>4 DEF ReachGoal, GiveUp
    <3>5. CASE Resolve
      BY <3>5 DEF Resolve
    <3>6. CASE UNCHANGED vars
      BY <3>6 DEF vars
    <3> QED
      BY <1>6, <3>1, <3>2, <3>3, <3>4, <3>5, <3>6
  <2> QED
    BY <2>1, <2>2 DEF CounterShape, Guarded
<1> QED
  BY <1>1, <1>2, <1>3, <1>4, <1>5, <1>6 DEF Next

THEOREM InvariantHolds == Spec => []IInv
<1>1. IInv /\ [Next]_vars => IInv'
  BY NextGuarded, NextCacheTrue DEF IInv
<1> QED
  BY InitGuarded, <1>1, PTL DEF Spec

-----------------------------------------------------------------------------

\* What search_subplan remembers for a state and a subgoal stays true for the whole
\* run, whatever was the initial state when it was searched (planner.cc:2698).
THEOREM CacheCorrect == Spec => []CacheIsTrue
<1>1. IInv => CacheIsTrue
  BY DEF IInv
<1> QED
  BY InvariantHolds, <1>1, PTL

\* A verification that ends the loop leaves nothing out.
LEMMA NothingLeftOut ==
  ASSUME CounterShape, Guarded, pc = "verify", Applied(counter, {}).findvalidplan
  PROVE  Banned(FALSE) = {}
<1>1. ~counter.findvalidplan
  BY DEF Guarded
<1>2. CASE counter.isfind \/ ~opt.avoid
  BY <1>2 DEF Banned
<1>3. CASE ~counter.isfind /\ opt.avoid
  <2> DEFINE up == counter.findvalidplan \/ ~opt.avoid \/ Repeated(counter) = {}
  <2>1. Applied(counter, {}) = [counter EXCEPT !.isfind = TRUE, !.findvalidplan = up]
    BY <1>3 DEF Applied
  <2>2. Applied(counter, {}).findvalidplan = up
    <3> HIDE DEF up
    <3> QED
      BY <2>1 DEF CounterShape
  <2>3. Repeated(counter) = {}
    BY <1>1, <1>3, <2>2
  <2> QED
    BY <1>3, <2>3 DEF Banned
<1> QED
  BY <1>2, <1>3

LEMMA VerifyAccepts ==
  ASSUME Undecided = {}, CounterShape, Guarded, AcceptedIsConformant, Verify
  PROVE  AcceptedIsConformant'
<1>1. pc = "verify" /\ belief' = belief
  BY DEF Verify
<1>2. CASE final' = final
  BY <1>1, <1>2 DEF AcceptedIsConformant
<1>3. CASE final' # final
  <2>1. /\ {} \in Verdicts(fix.plan, Banned(FALSE)) /\ Applied(counter, {}).findvalidplan
        /\ final' = {fix.plan}
    BY <1>3 DEF Verify
  <2>2. \A s \in belief : Works(fix.plan, s)
    BY <1>1, <2>1, NothingLeftOut, SilenceIsTrue
  <2> QED
    BY <1>1, <2>1, <2>2 DEF AcceptedIsConformant
<1> QED
  BY <1>2, <1>3

\* When the SMT solver always decides, no plan that fails from a possible initial state
\* gets into finalplan: not with repeated counterexamples left out of verifications,
\* not with the plan of a repair nobody noticed to have failed, in no setting.
THEOREM AcceptedCorrect ==
  ASSUME Undecided = {}
  PROVE  Spec => []AcceptedIsConformant
<1>1. Init => AcceptedIsConformant
  BY DEF Init, AcceptedIsConformant
<1>2. ASSUME IInv, AcceptedIsConformant, [Next]_vars
      PROVE  AcceptedIsConformant'
  <2>1. CASE Verify
    BY <1>2, <2>1, VerifyAccepts DEF IInv
  <2>2. CASE final' = final /\ belief' = belief
    BY <1>2, <2>2 DEF AcceptedIsConformant
  <2>3. Verify \/ (final' = final /\ belief' = belief)
    BY <1>2 DEF Next, SelectInitial, Search, Restart, Failed, Solve, Round, KeepEffects, ReachCondition,
                ReachGoal, Resolve, vars
  <2> QED
    BY <2>1, <2>2, <2>3
<1> QED
  BY <1>1, <1>2, InvariantHolds, PTL DEF Spec

\* A failed s0 is not selected again (planner.cc:1012): the ban of every s0 so far
\* reaches the verifier, since main selects another one with loop avoidance only.
THEOREM StartsAreNew == Spec => EachStartIsNew
<1>1. ASSUME IInv, [Next]_vars
      PROVE  [pc = "restart" /\ pc' = "solve" => s0' \notin counter.firststate]_vars
  <2>1. SUFFICES ASSUME Next, pc = "restart", pc' = "solve"
                 PROVE  s0' \notin counter.firststate
    BY <1>1
  <2>2. Restart
    BY <2>1 DEF Next, SelectInitial, Search, Failed, Solve, Round, Verify, KeepEffects, ReachCondition,
                ReachGoal, Resolve, AtOperator
  <2>3. PICK ce \in Verdicts(<< >>, Banned(TRUE)), s \in belief : s \in ce /\ s0' = s
    <3>1. PICK ce \in Verdicts(<< >>, Banned(TRUE)) : \E s \in ce : s0' = s
      BY <2>1, <2>2 DEF Restart
    <3> QED
      BY <3>1, CounterexampleAsked
  <2>4. Banned(TRUE) = counter.firststate
    BY <1>1, <2>1 DEF IInv, Guarded, Banned
  <2> QED
    BY <2>3, <2>4, CounterexampleAsked
<1> QED
  BY <1>1, InvariantHolds, PTL DEF Spec, EachStartIsNew

=============================================================================
