------------------------------ MODULE CnfBuilder ------------------------------
(***************************************************************************)
(* The clause builder and the table of SAT variables (cnf_builder.cc,      *)
(* sat_var_manager.cc) as the verifier uses them through several rounds:   *)
(* a static base is built once and saved, every round starts from it, and  *)
(* gates are shared through caches that hold ids of the round.             *)
(***************************************************************************)
EXTENDS Cnf, Sequences

CONSTANTS
  Static,     (* the facts of the static base, all at time 0               *)
  Later,      (* facts that rounds introduce                                *)
  MaxRounds,  (* bound on the number of rounds                              *)
  MaxGates    (* bound on the gates asked for in a round                    *)

\* The gate type and the kind of auxiliary variable, which is AUX_AND of an and and
\* AUX_OR of an or, or AUX_AXIOM of either.
Kinds == {"and", "or"} \X {"plain", "axiom"}
PlainAnd == <<"and", "plain">>
IsAnd(kind) == kind[1] = "and"

VARIABLES
  round,      (* 0 while the static base is built                          *)
  ids,        (* fact_to_id_: the variable of each known fact               *)
  next,       (* next_var_id_                                              *)
  built,      (* clauses_                                                  *)
  gates,      (* gate_cache_: a set of [kind, ins, out]                     *)
  terms,      (* instantiated_term_cache_: a set of [facts, out]            *)
  trueVar,    (* round_true_var_, 0 when there is none yet                  *)
  base,       (* static_init_base_: ids, next and clauses                   *)
  asked,      (* history: the gates handed out in this round, with inputs   *)
  laid        (* history: the clauses of this round that are not of gates   *)

builderVars == <<round, ids, next, built, gates, terms, trueVar, base, asked, laid>>

Gate(kind, ins, out) == [kind |-> kind, ins |-> ins, out |-> out]

-----------------------------------------------------------------------------
(* get_fact_var on several facts: those without a variable get one each.    *)

Number(fs) ==
  LET new == fs \ DOMAIN ids
      order == CHOOSE o \in [new -> 1..Cardinality(new)] : \A f, g \in new : o[f] = o[g] => f = g
  IN  [f \in DOMAIN ids \cup fs |-> IF f \in new THEN next + order[f] - 1 ELSE ids[f]]

\* make_and_gate and make_or_gate: complementary inputs and no inputs give a
\* constant, a single input stands for itself, a known gate of the same kind is shared,
\* and any other gate is a new variable with its defining clauses.
Neutral(kind, out) == IF IsAnd(kind) THEN {out} ELSE {-out}
Constant(kind, ins, out) == IF ins = {} THEN {Neutral(kind, out)} ELSE {Negated(Neutral(kind, out))}
Clauses(kind, out, ins) == IF IsAnd(kind) THEN AndClauses(out, ins) ELSE OrClauses(out, ins)

Cached(kind, ins) == {g \in gates : g.kind = kind /\ g.ins = ins}

\* What is handed out for the gate, the next free id n being given.
Output(kind, ins, n) ==
  IF ins \cap Negated(ins) # {} \/ ins = {} THEN n
  ELSE IF Cardinality(ins) = 1 THEN CHOOSE l \in ins : TRUE
  ELSE IF Cached(kind, ins) # {} THEN (CHOOSE g \in Cached(kind, ins) : TRUE).out
  ELSE n

IsConstant(ins) == ins = {} \/ ins \cap Negated(ins) # {}

\* The gate is asked for: the clauses and cache entries it adds.
Make(kind, ins, n) ==
  LET out == Output(kind, ins, n)
      new == out = n
  IN  /\ next' = IF new THEN n + 1 ELSE n
      /\ built' = built \cup (IF ~new THEN {} ELSE IF IsConstant(ins) THEN Constant(kind, ins, n)
                                  ELSE Clauses(kind, n, ins))
      /\ gates' = gates \cup (IF new /\ ~IsConstant(ins) THEN {Gate(kind, ins, n)} ELSE {})
      /\ asked' = asked \cup {Gate(kind, ins, out)}

\* The literals a caller may pass to a gate.
Handed == {g.out : g \in asked}
FactVars == {ids[f] : f \in DOMAIN ids}
CanAsk == Cardinality(asked) < MaxGates

-----------------------------------------------------------------------------
InitBuilder ==
  /\ round = 0 /\ ids = << >> /\ next = 1 /\ built = {} /\ gates = {} /\ terms = {} /\ trueVar = 0
  /\ base = << >> /\ asked = {} /\ laid = {}

\* build_time0_exactly_one and the terms of the complete states.
BuildStatic ==
  /\ round = 0 /\ DOMAIN ids = {}
  /\ ids' = Number(Static) /\ next' = Cardinality(Static) + 1
  /\ built' = ExactlyOne({ids'[f] : f \in Static}) /\ laid' = built'
  /\ UNCHANGED <<round, gates, terms, trueVar, base, asked>>

\* Mutant: the gate cache outlives the round.
KeptGates == gates

\* CnfBuilder::import_snapshot begins with clear, which empties the cache.
NoGates == {}

\* clear_round_dynamic_state forgets the terms of the round.
NoTerms == {}

\* Mutant: ids are given out anew although the snapshot uses some.
FirstId == 1

SavedNext == base'.next

\* clear_round_dynamic_state, then restore_round_base_from_static_cache; the
\* first round saves the base that was just built.
BeginRound ==
  /\ round < MaxRounds /\ (round = 0 => DOMAIN ids # {})
  /\ round' = round + 1
  /\ base' = IF round = 0 THEN [ids |-> ids, next |-> next, built |-> built, asked |-> asked] ELSE base
  /\ ids' = base'.ids /\ next' = SavedNext /\ built' = base'.built
  /\ gates' = NoGates /\ terms' = NoTerms /\ trueVar' = 0
  /\ asked' = base'.asked
  /\ laid' = ExactlyOne({ids'[f] : f \in Static})

\* instantiate_term_from_id: the conjunction of some facts, shared by the
\* facts and their time; the empty one is the true variable of the round.
Term(fs) ==
  LET known == {t \in terms : t.facts = fs}
  IN  /\ round > 0 /\ CanAsk
      /\ IF known # {} THEN
           /\ asked' = asked \cup {Gate(PlainAnd, {ids[f] : f \in fs}, (CHOOSE t \in known : TRUE).out)}
           /\ UNCHANGED <<ids, next, built, gates, terms, trueVar>>
         ELSE IF fs = {} THEN
           LET out == IF trueVar = 0 THEN next ELSE trueVar
           IN  /\ trueVar' = out /\ next' = IF trueVar = 0 THEN next + 1 ELSE next
               /\ built' = built \cup {{out}}
               /\ asked' = asked \cup {Gate(PlainAnd, {}, out)}
               /\ terms' = terms \cup {[facts |-> fs, out |-> out]}
               /\ UNCHANGED <<ids, gates>>
         ELSE
           /\ ids' = Number(fs)
           /\ LET n == next + Cardinality(fs \ DOMAIN ids)
                  ins == {ids'[f] : f \in fs}
              IN  /\ Make(PlainAnd, ins, n)
                  /\ terms' = terms \cup {[facts |-> fs, out |-> Output(PlainAnd, ins, n)]}
           /\ UNCHANGED trueVar
      /\ UNCHANGED <<round, base, laid>>

\* A gate over literals of the round: the deletes or adds of a fact, the
\* supports of an axiom, or the complete states of the static base.
AskGate(kind, ins) ==
  /\ CanAsk /\ DOMAIN ids # {}
  /\ Make(kind, ins, next)
  /\ UNCHANGED <<round, ids, terms, trueVar, base, laid>>

\* A fact of this round is defined by a literal handed out.
DefineFact(f, l) ==
  /\ round > 0 /\ f \notin DOMAIN ids
  /\ ids' = Number({f}) /\ next' = next + 1
  /\ built' = built \cup Defined(ids'[f], {l}, 0)
  /\ laid' = laid \cup Defined(ids'[f], {l}, 0)
  /\ UNCHANGED <<round, gates, terms, trueVar, base, asked>>

SmallSets(S) == {T \in SUBSET S : Cardinality(T) <= 2}
Inputs == FactVars \cup Handed \cup Negated(FactVars)

NextBuilder ==
  \/ BuildStatic
  \/ BeginRound
  \/ \E fs \in SmallSets(Static \cup Later) : Term(fs)
  \/ \E kind \in Kinds, ins \in SmallSets(Inputs) : AskGate(kind, ins)
  \/ \E f \in Later, l \in Handed : DefineFact(f, l)

BuilderSpec == InitBuilder /\ [][NextBuilder]_builderVars

-----------------------------------------------------------------------------
BuilderTypeOK ==
  /\ round \in 0..MaxRounds /\ next \in Nat \ {0} /\ trueVar \in 0..(next - 1)
  /\ DOMAIN ids \subseteq Static \cup Later /\ \A f \in DOMAIN ids : ids[f] \in 1..(next - 1)
  /\ VarsIn(built) \subseteq 1..(next - 1)
  /\ \A g \in gates \cup asked : g.kind \in Kinds /\ VarsIn({g.ins \cup {g.out}}) \subseteq 1..(next - 1)

Value(m, g) == IF IsAnd(g.kind) THEN \A l \in g.ins : LitTrue(m, l) ELSE \E l \in g.ins : LitTrue(m, l)

\* Whatever a caller was handed for a gate of this round has, in every model
\* of the clauses, the value of that gate on its inputs.
GatesMean ==
  \A m \in Models(built, 1..(next - 1)) : \A g \in asked : LitTrue(m, g.out) = Value(m, g)

\* Gates constrain nothing: a model of the other clauses extends to the gates.
GatesConserve ==
  {n \cap FactVars : n \in Models(built, 1..(next - 1))}
    = {m \cap FactVars : m \in {n \in Models(laid, 1..(next - 1)) :
         \A g \in asked : LitTrue(n, g.out) = Value(n, g)}}

\* The value a shared gate or term has in every model of the round's clauses
\* is that of the gate it was handed out for, and gates and terms take no model
\* away from the other clauses (cnf_builder.cc:301, counter_cnf.cc:1351).
GatesExact == GatesMean /\ GatesConserve

\* No two facts, and no fact and gate, share a variable, in any round.
IdsApart ==
  /\ \A f, g \in DOMAIN ids : ids[f] = ids[g] => f = g
  /\ \A g \in gates : g.out \notin FactVars
==============================================================================
