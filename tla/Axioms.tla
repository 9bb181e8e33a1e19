-------------------------------- MODULE Axioms --------------------------------
(***************************************************************************)
(* Derived propositions, from the translator to the search.  The           *)
(* translator (translate/axiom_rules.py) keeps the axioms that somebody    *)
(* reads, simplifies them, turns them round for the atoms that are read    *)
(* negatively, and puts the atoms into layers; the evaluator               *)
(* (search/axioms.cc) deduces in every state what holds, with a queue of   *)
(* literals, counters of unsatisfied conditions, and negation by failure   *)
(* at the end of a layer.  A literal is a pair <<atom, sign>>, an axiom a  *)
(* record [cond, effect].  Orders that the containers of the code leave    *)
(* open are left open here.                                                *)
(***************************************************************************)
EXTENDS Integers, SequencesExt

CONSTANTS
  Base,       (* the atoms that operators change                           *)
  Derived,    (* the atoms that axioms define                              *)
  Programs,   (* the axioms to translate: a set of sequences               *)
  Readers     (* the literals that goal and operators read: a set of sets  *)

AxiomLiterals == (Base \cup Derived) \X BOOLEAN
Axiom == [cond : SUBSET AxiomLiterals, effect : Derived \X {TRUE}]
Defined(prog) == {prog[i].effect[1] : i \in DOMAIN prog}

\* Grounding leaves no condition on a derived atom without an axiom.
ASSUME Grounded ==
  /\ IsFiniteSet(Base) /\ IsFiniteSet(Derived) /\ Base \cap Derived = {}
  /\ Readers \subseteq SUBSET AxiomLiterals
  /\ Programs \subseteq Seq(Axiom)
  /\ \A prog \in Programs : \A i \in DOMAIN prog : \A l \in prog[i].cond : l[1] \in Base \cup Defined(prog)

VARIABLES
  program,    (* the axioms of the task                                    *)
  readers,    (* what goal and operators read                              *)
  rules,      (* the translated axioms                                     *)
  default,    (* the atoms that hold unless deduced otherwise              *)
  layers,     (* the layer of every atom that can be deduced               *)
  frames,     (* the calls of find_level that have not returned            *)
  world,      (* the base atoms that hold in the state to evaluate         *)
  true,       (* the atoms that hold as far as deduced                     *)
  unsatisfied,(* of each rule, how many conditions have not come           *)
  ready,      (* the rules all of whose conditions have come just now      *)
  queue,      (* the literals whose rules have not been looked at          *)
  layer,      (* the layer the evaluator is in                             *)
  step        (* "translate", "refused", "level", "translated" or "evaluate" *)

axiomVars == <<program, readers, rules, default, layers, frames, world, true, unsatisfied, ready, queue, layer, step>>

Not(l) == <<l[1], ~l[2]>>

-----------------------------------------------------------------------------
(* handle_axioms.                                                           *)

\* get_axioms_by_atom.
AxiomsOf(prog, a) == [i \in {j \in DOMAIN prog : prog[j].effect[1] = a} |-> prog[i]]

\* compute_necessary_axiom_literals: what is read directly or through axioms, an axiom's
\* conditions with the sign it is needed with.
Needs(x, l) == IF l[2] THEN x.cond ELSE {Not(c) : c \in x.cond}

NeedsMet(prog, lits, L) ==
  /\ {l \in lits : l[1] \in Defined(prog)} \subseteq L
  /\ \A l \in L, i \in DOMAIN prog :
       prog[i].effect[1] = l[1] => {c \in Needs(prog[i], l) : c[1] \in Defined(prog)} \subseteq L

Necessary(prog, lits) ==
  {l \in Defined(prog) \X BOOLEAN :
     \A L \in SUBSET (Defined(prog) \X BOOLEAN) : NeedsMet(prog, lits, L) => l \in L}

\* get_axiom_init: an atom that is only needed negatively holds to begin with.
AxiomInit(needed) == {l[1] : l \in {k \in needed : ~k[2] /\ Not(k) \notin needed}}

\* The condition that the sort puts first.
First(cond) == CHOOSE l \in cond : TRUE

\* simplify: an axiom dominates those with all of its conditions.  They are looked up
\* by condition in sets, and the set of its first condition is cut down in place, so an
\* axiom can miss some that it dominates.
Simplified(axs) ==
  LET dominated[i \in DOMAIN axs] ==
        LET seen == {j \in DOMAIN axs : j < i /\ \A k \in DOMAIN axs : k < j => j \notin dominated[k]}
        IN  IF \E j \in seen : i \in dominated[j] THEN {}
            ELSE {k \in DOMAIN axs :
                    /\ axs[i].cond \subseteq axs[k].cond
                    /\ \A j \in seen : First(axs[j].cond) \in axs[i].cond => k \in dominated[j]}
      empty == {i \in DOMAIN axs : axs[i].cond = {}}
  IN  IF empty # {} THEN {axs[CHOOSE i \in empty : \A j \in empty : i <= j]}
      ELSE {axs[i] : i \in {j \in DOMAIN axs : \A k \in DOMAIN axs \ {j} : j \notin dominated[k]}}

\* negate: the atom does not hold when of every axiom some condition fails.
Turned(axs, l) ==
  LET picks == {p \in [axs -> UNION {x.cond : x \in axs}] : \A x \in axs : p[x] \in x.cond}
      conds == SetToSeq({{Not(p[x]) : x \in axs} : p \in picks})
  IN  Simplified([i \in DOMAIN conds |-> [cond |-> conds[i], effect |-> l]])

\* simplify_axioms and compute_negative_axioms.
RulesFor(prog, l) ==
  LET simple == Simplified(AxiomsOf(prog, l[1])) IN IF l[2] THEN simple ELSE Turned(simple, l)

\* An axiom without a condition cannot be turned round: the translator stops.
Impossible(prog, l) == ~l[2] /\ \E x \in Simplified(AxiomsOf(prog, l[1])) : x.cond = {}

-----------------------------------------------------------------------------
(* compute_axiom_layers.                                                    *)

UnknownLayer == -2
FirstMarker == -3

\* The rules that deduce what is not the default.
Deducing(axs, init) == {x \in axs : x.effect[2] # (x.effect[1] \in init)}

\* What they depend on; 1 for what has its own default value, and so has to wait for
\* the end of that layer.
DependsOn(axs, init, a) ==
  {<<c[1], IF c[2] = (c[1] \in init) THEN 1 ELSE 0>> :
     c \in UNION {x.cond : x \in {y \in Deducing(axs, init) : y.effect[1] = a}}}

Larger(x, y) == IF x > y THEN x ELSE y

\* A call of find_level: its arguments, the dependencies it has not looked at, and the
\* level so far.
Frame(a, marker) == [atom |-> a, marker |-> marker, left |-> DependsOn(rules, default, a), level |-> 0]
-----------------------------------------------------------------------------

InitAxioms ==
  /\ program \in Programs /\ readers \in Readers
  /\ rules = {} /\ default = {} /\ layers = << >> /\ frames = << >> /\ world = {} /\ true = {}
  /\ unsatisfied = << >> /\ ready = {} /\ queue = << >> /\ layer = 0 /\ step = "translate"

evaluatorVars == <<world, true, unsatisfied, ready, queue, layer>>

Translate ==
  /\ step = "translate"
  /\ LET needed == Necessary(program, readers)
         axs == UNION {RulesFor(program, l) : l \in needed}
     IN  IF \E l \in needed : Impossible(program, l)
         THEN step' = "refused" /\ UNCHANGED <<rules, default, layers>>
         ELSE /\ rules' = axs /\ default' = AxiomInit(needed)
              /\ layers' = [a \in {x.effect[1] : x \in Deducing(axs, AxiomInit(needed))} |-> UnknownLayer]
              /\ step' = "level"
  /\ UNCHANGED <<program, readers, frames, evaluatorVars>>

\* find_level is called for every atom; it marks the atoms it is busy with.
Enter(a, marker) == layers[a] = UnknownLayer /\ layers' = [layers EXCEPT ![a] = marker]

FindLevel ==
  /\ step = "level" /\ frames = << >>
  /\ \E a \in DOMAIN layers : Enter(a, FirstMarker) /\ frames' = << Frame(a, FirstMarker) >>
  /\ UNCHANGED <<program, readers, rules, default, step, evaluatorVars>>

Known(f, d, level) == [f EXCEPT !.left = @ \ {d}, !.level = Larger(@, level + d[2])]

\* A dependency has a level at once if nothing deduces it, if its level is known, or if
\* the way to it came from itself without a negation in between.
LookUp ==
  /\ step = "level" /\ frames # << >>
  /\ LET f == Head(frames)
         known(d, level) == frames' = << Known(f, d, level) >> \o Tail(frames)
     IN  \E d \in f.left :
           \/ d[1] \notin DOMAIN layers /\ known(d, 0)
           \/ d[1] \in DOMAIN layers /\ layers[d[1]] = f.marker - d[2] /\ known(d, 0)
           \/ d[1] \in DOMAIN layers /\ layers[d[1]] >= 0 /\ known(d, layers[d[1]])
  /\ UNCHANGED <<program, readers, rules, default, layers, step, evaluatorVars>>

Call ==
  /\ step = "level" /\ frames # << >>
  /\ LET f == Head(frames)
     IN  \E d \in f.left :
           /\ d[1] \in DOMAIN layers /\ Enter(d[1], f.marker - d[2])
           /\ frames' = << Frame(d[1], f.marker - d[2]), [f EXCEPT !.left = @ \ {d}] >> \o Tail(frames)
  /\ UNCHANGED <<program, readers, rules, default, step, evaluatorVars>>

\* Cyclic dependencies in axioms; cannot stratify.
Cycle ==
  /\ step = "level" /\ frames # << >>
  /\ LET f == Head(frames)
     IN  \E d \in f.left : d[1] \in DOMAIN layers /\ layers[d[1]] <= FirstMarker /\ layers[d[1]] # f.marker - d[2]
  /\ step' = "refused"
  /\ UNCHANGED <<program, readers, rules, default, layers, frames, evaluatorVars>>

\* The level goes to the caller, whose marker says whether through a negation.
Return ==
  /\ step = "level" /\ frames # << >>
  /\ LET f == Head(frames)
         callers == Tail(frames)
         caller == Head(callers)
     IN  /\ f.left = {}
         /\ layers' = [layers EXCEPT ![f.atom] = f.level]
         /\ frames' = IF callers = << >> THEN << >>
                      ELSE << [caller EXCEPT !.level = Larger(@, f.level + (caller.marker - f.marker))] >> \o Tail(callers)
  /\ UNCHANGED <<program, readers, rules, default, step, evaluatorVars>>

Layered ==
  /\ step = "level" /\ frames = << >> /\ \A a \in DOMAIN layers : layers[a] # UnknownLayer
  /\ step' = "translated"
  /\ UNCHANGED <<program, readers, rules, default, layers, frames, evaluatorVars>>

-----------------------------------------------------------------------------
(* AxiomEvaluator::evaluate.                                                *)

\* No atom has layer n or a later one.
Over(n) == \A a \in DOMAIN layers : layers[a] < n

Evaluated == step = "evaluate" /\ ready = {} /\ Over(layer)

\* Every derived atom gets its default, the literals of the base variables go into the
\* queue, the counters start from the number of conditions.
Evaluate ==
  /\ step = "translated" \/ Evaluated
  /\ \E w \in SUBSET Base :
       /\ world' = w /\ true' = w \cup default
       /\ queue' = SetToSeq({<<a, a \in w>> : a \in Base})
  /\ unsatisfied' = [r \in rules |-> Cardinality(r.cond)]
  /\ ready' = {r \in rules : r.cond = {}}
  /\ layer' = 0 /\ step' = "evaluate"
  /\ UNCHANGED <<program, readers, rules, default, layers, frames>>

\* A rule whose conditions have all come changes the value of its atom.
Fire ==
  /\ step = "evaluate"
  /\ \E r \in ready :
       /\ ready' = ready \ {r}
       /\ LET a == r.effect[1]
          IN  IF (a \in true) = r.effect[2] THEN UNCHANGED <<true, queue>>
              ELSE true' = (IF r.effect[2] THEN true \cup {a} ELSE true \ {a}) /\ queue' = Append(queue, r.effect)
  /\ UNCHANGED <<program, readers, rules, default, layers, frames, world, unsatisfied, layer, step>>

Deduce ==
  /\ step = "evaluate" /\ ready = {} /\ queue # << >> /\ ~Over(layer)
  /\ queue' = Tail(queue)
  /\ unsatisfied' = [r \in rules |-> unsatisfied[r] - (IF Head(queue) \in r.cond THEN 1 ELSE 0)]
  /\ ready' = {r \in rules : Head(queue) \in r.cond /\ unsatisfied[r] = 1}
  /\ UNCHANGED <<program, readers, rules, default, layers, frames, world, true, layer, step>>

\* A mutant: the value an atom has by now is not looked at.
FailingAnyway(n) == {<<a, a \in default>> : a \in {b \in DOMAIN layers : layers[b] = n}}

\* At the end of a layer what has kept its default is known to have it.
Failing(n) == {<<a, a \in default>> : a \in {b \in DOMAIN layers : layers[b] = n /\ (b \in true) = (b \in default)}}

\* Nobody reads the last layer.
FailLayer ==
  /\ step = "evaluate" /\ ready = {} /\ queue = << >> /\ ~Over(layer)
  /\ queue' = IF Over(layer + 1) THEN << >> ELSE SetToSeq(Failing(layer))
  /\ layer' = layer + 1
  /\ UNCHANGED <<program, readers, rules, default, layers, frames, world, true, unsatisfied, ready, step>>

NextAxioms ==
  \/ Translate \/ FindLevel \/ LookUp \/ Call \/ Cycle \/ Return \/ Layered
  \/ Evaluate \/ Fire \/ Deduce \/ FailLayer

AxiomSpec == InitAxioms /\ [][NextAxioms]_axiomVars

-----------------------------------------------------------------------------
(* What the axioms mean.                                                    *)

NeededAtoms == {l[1] : l \in Necessary(program, readers)}

\* The needed atoms that follow, when of the derived ones those in D hold.
Following(D) ==
  {a \in NeededAtoms : \E i \in DOMAIN program :
     program[i].effect[1] = a /\ \A l \in program[i].cond : (l[1] \in world \cup D) = l[2]}

\* No atom depends on itself.
Acyclic ==
  \E rank \in [Defined(program) -> 0..Cardinality(Derived)] :
    \A i \in DOMAIN program : \A l \in program[i].cond :
      l[1] \in Defined(program) => rank[l[1]] < rank[program[i].effect[1]]

\* Of a task whose axioms have no cycle, or whose derived atoms are read positively
\* only, the evaluator finds exactly what the axioms mean, in every state and however
\* often it is asked (axioms.cc:72): the least set of atoms from which these same atoms
\* follow.  Simplification, the axioms turned round (axiom_rules.py:162), the defaults
\* and the layers change nothing.
AxiomsMean ==
  Evaluated /\ (Acyclic \/ \A l \in Necessary(program, readers) : l[2]) =>
    LET found == true \cap NeededAtoms
    IN  /\ Following(found) = found
        /\ \A D \in SUBSET NeededAtoms : Following(D) = D => found \subseteq D
===============================================================================
