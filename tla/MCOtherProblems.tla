---------------------------- MODULE MCOtherProblems ----------------------------
(***************************************************************************)
(* Two more problems for RefinedWriter, over four variables.               *)
(*                                                                         *)
(* conjunctions: a ONEOF file (type 2) whose alternatives are conjunctions *)
(* over several variables, beside a ONEOF over two atoms that the fact     *)
(* groups do not name, so that two states can look alike to the planner.   *)
(* combined: two ONEOFs of different length that the translator combined.  *)
(***************************************************************************)
EXTENDS Naturals, Sequences

CONSTANT MaxEntries   \* bound of the model: the distinct counterexamples stored

VARIABLES
  shape,     (* which of the problems this behaviour is about              *)
  samples,   (* the variables of RefinedWriter                             *)
  lastWrite

Vars == 1..4
States == {s \in [1..4 -> 0..2] : \A v \in 2..4 : s[v] # 2}
Original == [v \in 1..4 |-> IF v = 4 THEN 0 ELSE IF v = 1 THEN 2 ELSE 1]
Last == [v \in 1..4 |-> IF v = 1 THEN 2 ELSE 1]

Fact(v, x) == [var |-> v, val |-> x, positive |-> TRUE]
Group(kind, alts) == [kind |-> kind, alts |-> alts]
Singles(facts) == [k \in DOMAIN facts |-> {Fact(facts[k][1], facts[k][2])}]

ConjunctionsGroups ==
  << Group("ONEOF", << {Fact(1, 0), Fact(2, 0)},
                       {Fact(1, 0), Fact(2, 1)},
                       {Fact(1, 1)} >>),
     Group("ONEOF", Singles(<< <<3, 0>>, <<3, 1>> >>)) >>

CombinedGroups ==
  << Group("ONEOF", Singles(<< <<1, 0>>, <<1, 1>>, <<1, 2>> >>)),
     Group("ONEOF", Singles(<< <<2, 0>>, <<3, 0>> >>)) >>

Conjunctions == INSTANCE RefinedWriter WITH
  Groups <- ConjunctionsGroups, Mapped <- { <<1, 0>>, <<1, 1>>, <<2, 0>>, <<4, 0>> }, Combined <- FALSE

Combination == INSTANCE RefinedWriter WITH
  Groups <- CombinedGroups, Mapped <- { <<1, 0>>, <<1, 1>>, <<1, 2>>, <<2, 0>>, <<3, 0>>, <<4, 0>> },
  Combined <- TRUE

Init == Conjunctions!InitWriter /\ shape \in {"conjunctions", "combined"}

Next ==
  /\ UNCHANGED shape
  /\ \/ shape = "conjunctions" /\ Conjunctions!NextWriter
     \/ shape = "combined" /\ Combination!NextWriter

\* The properties of RefinedWriter: what is written denotes what it should, and nothing
\* that the verifier found is refused.
WrittenAlike ==
  /\ shape = "conjunctions" => /\ Conjunctions!ExactSampleSet
                               /\ Conjunctions!StructuredStaysInBelief
                               /\ Conjunctions!NeverRefusesItsOwnSamples
  /\ shape = "combined" => /\ Combination!ExactSampleSet
                           /\ Combination!StructuredStaysInBelief
                           /\ Combination!NeverRefusesItsOwnSamples
==============================================================================
