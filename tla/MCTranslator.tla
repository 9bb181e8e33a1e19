----------------------------- MODULE MCTranslator -----------------------------
(***************************************************************************)
(* Three parts of the translator, one at a time.                           *)
(*                                                                         *)
(* pairing: tiny problems for OneofCombination, two ONEOFs over a1, a2 and *)
(* over b1, b2, b3 and two or three of nine actions in any order.          *)
(*                                                                         *)
(* operators: the same atoms for StripsToSas; a1 and a2 share a variable,  *)
(* and so do the bs, and y excludes a1 without sharing one with it.        *)
(*                                                                         *)
(* axioms: small programs for Axioms, three derived atoms over two others, *)
(* every set of up to four axioms out of twelve.                           *)
(***************************************************************************)
EXTENDS OneofCombination, StripsToSas, Axioms

VARIABLE part   (* "pairing", "operators" or "axioms" *)

Yes(p) == <<p, TRUE>>
No(p) == <<p, FALSE>>
Eff(cond, fact) == [cond |-> cond, fact |-> fact]
Adding(cond, fact) == PropositionalAction(<< >>, << Eff(cond, fact) >>, << >>)
Deleting(cond, fact) == PropositionalAction(<< >>, << >>, << Eff(cond, fact) >>)

MCAtoms == {"a1", "a2", "b1", "b2", "b3", "x", "y"}

-----------------------------------------------------------------------------
Pool ==
  {Adding(<< Yes("a1") >>, "x"), Adding(<< Yes("a2") >>, "x"), Adding(<< No("a1") >>, "x"),
   Adding(<< Yes("x") >>, "y"), Deleting(<< Yes("x") >>, "y"),
   PropositionalAction(<< >>, << Eff(<< Yes("b2") >>, "y"), Eff(<< Yes("b3") >>, "y") >>, << >>),
   Deleting(<< Yes("a1"), Yes("b2") >>, "x"),
   PropositionalAction(<< Yes("y") >>, << Eff(<< >>, "x") >>, << >>),
   PropositionalAction(<< No("b2") >>, << Eff(<< Yes("a1") >>, "a2") >>, << Eff(<< Yes("a1") >>, "a1") >>)}

AtomsOf(ps) == [k \in DOMAIN ps |-> {Yes(ps[k])}]

MCTasks ==
  {[oneofs |-> << AtomsOf(<< "a1", "a2" >>), AtomsOf(<< "b1", "b2", "b3" >>) >>,
    actions |-> as, goal |-> g, certain |-> certain] :
     as \in UNION {SetToSeqs(X) : X \in UNION {kSubset(n, Pool) : n \in 2..3}},
     g \in {{{Yes("y")}}, {{Yes("x")}, {Yes("y")}}, {{Yes("x"), Yes("b1")}}, {{No("a2")}, {Yes("y")}}},
     certain \in {{}, {"y"}}}

-----------------------------------------------------------------------------
MCGroups == << << "a1", "a2" >>, << "b1", "b2", "b3" >>, << "x" >>, << "y" >> >>
MCMutexGroups == {{"a1", "a2"}, {"b1", "b2", "b3"}, {"x"}, {"a1", "y"}}

Conds == {<< >>, << Yes("x") >>, << No("x") >>, << Yes("a1") >>, << Yes("a2"), Yes("x") >>}
OneEffect == {Eff(c, p) : c \in Conds, p \in {"a1", "a2", "x", "y"}}
Pres == {<< >>, << Yes("a1") >>, << No("x") >>, << Yes("y") >>, << Yes("a1"), Yes("a2") >>}

\* Every action with one or two effects, and moves between the bs.
MCActs ==
  UNION {{PropositionalAction(pre, << e >>, << >>), PropositionalAction(pre, << >>, << e >>)}
           \cup {PropositionalAction(pre, << e >>, << d >>) : d \in OneEffect}
           \cup {PropositionalAction(pre, << e, d >>, << >>) : d \in OneEffect} : 
         pre \in Pres, e \in OneEffect}
    \cup {PropositionalAction(<< Yes(b) >>, << Eff(<< >>, c) >>, << Eff(<< >>, b) >>) :
            b \in {"b1", "b2"}, c \in {"b2", "b3"}}
    \cup {PropositionalAction(<< >>, << Eff(<< Yes("b2") >>, "b3") >>, << Eff(<< Yes("b2") >>, "b2") >>)}

MCStarts == {s \in SUBSET {"a1", "a2", "b1", "x", "y"} : "b1" \in s /\ Exclusive(s)}

-----------------------------------------------------------------------------
Ax(a, c) == [cond |-> c, effect |-> <<a, TRUE>>]
AxiomPool ==
  {Ax("p", {Yes("x")}), Ax("p", {Yes("x"), Yes("y")}), Ax("p", {No("y")}), Ax("p", {Yes("q")}),
   Ax("q", {Yes("p")}), Ax("q", {No("p"), Yes("x")}), Ax("q", {No("x"), Yes("y")}), Ax("q", {}),
   Ax("r", {No("q")}), Ax("r", {Yes("p"), Yes("q")}), Ax("r", {No("p"), Yes("q")}), Ax("r", {Yes("y")})}

\* Grounding leaves no condition on a derived atom without an axiom.
Closed(X) == \A x \in X : \A l \in x.cond : l[1] \in {"x", "y"} \/ \E y \in X : y.effect[1] = l[1]

MCBase == {"x", "y"}
MCDerived == {"p", "q", "r"}
MCPrograms == {SetToSeq(X) : X \in {T \in UNION {kSubset(n, AxiomPool) : n \in 1..4} : Closed(T)}}
MCReaders == {{Yes("r")}, {No("r")}, {Yes("r"), No("q")}}

-----------------------------------------------------------------------------
NoTask == task = CHOOSE t \in Tasks : TRUE
NoPairing == NoTask /\ now = << >> /\ failed = {} /\ finished = TRUE
NoOperators == facts = {} /\ values = Encoded({}) /\ regular = FALSE
NoAxioms ==
  /\ program = << >> /\ readers = {} /\ rules = {} /\ default = {} /\ layers = << >> /\ frames = << >>
  /\ world = {} /\ true = {} /\ unsatisfied = << >> /\ ready = {} /\ queue = << >> /\ layer = 0 /\ step = "off"

MCInit ==
  \/ part = "pairing" /\ Init /\ NoOperators /\ NoAxioms
  \/ part = "operators" /\ NoPairing /\ InitSas /\ NoAxioms
  \/ part = "axioms" /\ NoPairing /\ NoOperators /\ InitAxioms

MCNext ==
  /\ UNCHANGED part
  /\ \/ part = "pairing" /\ Next /\ UNCHANGED <<sasVars, axiomVars>>
     \/ part = "operators" /\ NextSas /\ UNCHANGED <<vars, axiomVars>>
     \/ part = "axioms" /\ NextAxioms /\ UNCHANGED <<vars, sasVars>>

MCSpec == MCInit /\ [][MCNext]_<<part, vars, sasVars, axiomVars>>
==============================================================================
