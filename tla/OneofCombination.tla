--------------------------- MODULE OneofCombination ---------------------------
(***************************************************************************)
(* When the translator may pair the ONEOFs of a problem: instead of every  *)
(* combination of their alternatives it writes the n-th alternatives of    *)
(* all of them as the n-th possible initial state (translate/translate.py, *)
(* detect_combinable and the ORS file of write_oneof_file).  The verifier  *)
(* then sees a diagonal of the combinations and nothing else.              *)
(*                                                                         *)
(* A literal is a pair <<atom, sign>>.  A plan is carried out in every     *)
(* combination at once; what an operator does after it was found           *)
(* inapplicable does not matter, so the run goes on as though it applied.  *)
(***************************************************************************)
EXTENDS StripsTask, SequencesExt

CONSTANT
  Tasks    (* problems without ORs and axioms: [oneofs, actions, goal,     *)
           (* certain], where a part of a ONEOF is a set of literals that  *)
           (* hold together, one of the goal a set of which one is to hold *)

ASSUME TasksAreProblems ==
  \A t \in Tasks :
    /\ t.oneofs \in Seq(Seq(SUBSET Literals)) /\ t.oneofs # << >>
    /\ \A g \in DOMAIN t.oneofs : t.oneofs[g] # << >>
    /\ t.actions \in Seq(Actions) /\ t.goal \subseteq SUBSET Literals /\ t.certain \subseteq Atoms

VARIABLES
  task,      (* the problem                                                *)
  now,       (* the state each combination of alternatives is in           *)
  failed,    (* the combinations the plan has failed in                    *)
  finished   (* whether the plan is over and the goal was looked at        *)

vars == <<task, now, failed, finished>>

-----------------------------------------------------------------------------
(* detect_combinable.  Every ONEOF has a tag, its number; an atom that its  *)
(* alternatives can influence takes the tag over, and an atom with two tags *)
(* means that the ONEOFs interact.  There is one pass over the actions.     *)

Untagged == [clash |-> {}, tag |-> << >>]

With(tag, p, t) == [q \in DOMAIN tag \cup {p} |-> IF q = p THEN t ELSE tag[q]]

\* Mutant: the tag an atom has is kept and nothing is said.
TaggedSilently(r, p, t) == IF p \in DOMAIN r.tag THEN r ELSE [r EXCEPT !.tag = With(@, p, t)]

Tagged(r, p, t) ==
  IF r.clash # {} \/ (p \in DOMAIN r.tag /\ r.tag[p] = t) THEN r
  ELSE IF p \in DOMAIN r.tag THEN [r EXCEPT !.clash = {p}]
  ELSE [r EXCEPT !.tag = With(@, p, t)]

\* An alternative <<part, g>> of the ONEOF g: only a positive literal is tagged.
Seed(r, alt) ==
  LET atoms == {l[1] : l \in {x \in alt[1] : x[2]}}
  IN  IF atoms = {} THEN r ELSE Tagged(r, CHOOSE p \in atoms : TRUE, alt[2])

\* A link <<literal, atom>> from a condition to an effect.
Follow(r, link) ==
  IF link[1][2] /\ link[1][1] \in DOMAIN r.tag THEN Tagged(r, link[2], r.tag[link[1][1]]) ELSE r

\* The links of an action in the order of the loops: from the preconditions to all
\* effects, then from the conditions of the adds and of the deletes.
Pairs(lits, facts) ==
  FlattenSeq([i \in DOMAIN lits |-> [j \in DOMAIN facts |-> <<lits[i], facts[j]>>]])
FactsOf(effs) == [i \in DOMAIN effs |-> effs[i].fact]
CondLinks(effs) == FlattenSeq([i \in DOMAIN effs |-> Pairs(effs[i].cond, << effs[i].fact >>)])

Links(act) ==
  Pairs(act.pre, FactsOf(act.add) \o FactsOf(act.del)) \o CondLinks(act.add) \o CondLinks(act.del)

Alternatives(t) ==
  FlattenSeq([g \in DOMAIN t.oneofs |-> [k \in DOMAIN t.oneofs[g] |-> <<t.oneofs[g][k], g>>]])

Detected(t) ==
  FoldLeft(Follow, FoldLeft(Seed, Untagged, Alternatives(t)),
           FlattenSeq([i \in DOMAIN t.actions |-> Links(t.actions[i])]))

Tags(t) == Detected(t).tag

IsLiteral(part) == \E l \in part : part = {l}

Combinable(t) ==
  /\ \A g \in DOMAIN t.oneofs : \A k \in DOMAIN t.oneofs[g] : IsLiteral(t.oneofs[g][k])
  /\ \A part \in t.goal : IsLiteral(part)
  /\ Detected(t).clash = {}

-----------------------------------------------------------------------------
(* The combinations of alternatives, and those of them that the ORS file    *)
(* lists: an index past the end stands for the first alternative.           *)

Indices(t) == UNION {DOMAIN t.oneofs[g] : g \in DOMAIN t.oneofs}

Combinations(t) ==
  {c \in [DOMAIN t.oneofs -> Indices(t)] : \A g \in DOMAIN t.oneofs : c[g] \in DOMAIN t.oneofs[g]}

Diagonal(t, n) == [g \in DOMAIN t.oneofs |-> IF n \in DOMAIN t.oneofs[g] THEN n ELSE 1]

Listed(t) == {Diagonal(t, n) : n \in Indices(t)}

Chosen(t, c) == UNION {t.oneofs[g][c[g]] : g \in DOMAIN t.oneofs}
Begin(t, c) == t.certain \cup {p \in Atoms : <<p, TRUE>> \in Chosen(t, c)}

-----------------------------------------------------------------------------
(* The plan: in each combination its operators are applied in turn.         *)

Init ==
  /\ task \in Tasks
  /\ now = [c \in Combinations(task) |-> Begin(task, c)]
  /\ failed = {} /\ finished = FALSE

Do(i) ==
  LET act == task.actions[i] IN
  /\ ~finished
  /\ failed' = failed \cup {c \in Combinations(task) : ~HoldsIn(now[c], act.pre)}
  /\ now' = [c \in Combinations(task) |-> Applied(act, now[c])]
  /\ UNCHANGED <<task, finished>>

Finish ==
  /\ ~finished /\ finished' = TRUE
  /\ failed' = failed \cup {c \in Combinations(task) :
                              \E part \in task.goal : \A l \in part : ~Satisfies(now[c], l)}
  /\ UNCHANGED <<task, now>>

Next == (\E i \in DOMAIN task.actions : Do(i)) \/ Finish

Spec == Init /\ [][Next]_vars

-----------------------------------------------------------------------------
(* What the pass of detect_combinable takes for granted.                    *)

EffectsOf(act) ==
  {act.add[i] : i \in DOMAIN act.add} \cup {act.del[i] : i \in DOMAIN act.del}

\* Going over the ONEOFs and the actions once more would change nothing: no atom got
\* its tag after an action that passes it on.
Settled(t) ==
  LET r == [clash |-> {}, tag |-> Tags(t)] IN
  /\ \A g \in DOMAIN t.oneofs : \A k \in DOMAIN t.oneofs[g] : Seed(r, <<t.oneofs[g][k], g>>) = r
  /\ \A i \in DOMAIN t.actions : \A e \in EffectsOf(t.actions[i]) : \A j \in DOMAIN e.cond :
       Follow(r, <<e.cond[j], e.fact>>) = r

\* Negative literals, which get no tag, neither begin nor pass on an influence.
Positive(t) ==
  /\ \A g \in DOMAIN t.oneofs : \A k \in DOMAIN t.oneofs[g] : \A l \in t.oneofs[g][k] : l[2]
  /\ \A i \in DOMAIN t.actions : \A e \in EffectsOf(t.actions[i]) : \A j \in DOMAIN e.cond : e.cond[j][2]

\* A plan that fails in some combination of the alternatives fails in one of those
\* the ORS file lists, so that a verifier who sees only these misses nothing
\* (translate.py:472, print_atom in pddl/conditions.py).
DiagonalSuffices ==
  failed # {} /\ Combinable(task) /\ Settled(task) /\ Positive(task) => failed \cap Listed(task) # {}
==============================================================================
