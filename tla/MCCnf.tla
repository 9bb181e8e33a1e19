-------------------------------- MODULE MCCnf --------------------------------
(***************************************************************************)
(* The two users of clauses around the regression encoding, one at a time: *)
(* part "builder" is CnfBuilder, part "preprocessor" CnfPreprocessor.      *)
(*                                                                         *)
(* The preprocessor's inputs are formulas of the shape the verifier builds *)
(* for one action and two two-valued variables A and B: the time-0 facts   *)
(* A=0, A=1, B=0, B=1 are the variables 1 to 4; 5 and 6 are two facts      *)
(* after the action, 7 and 8 gates over their conditions.  A is unknown, B *)
(* may be known.                                                           *)
(***************************************************************************)
EXTENDS CnfPreprocessor, CnfBuilder

VARIABLE part   (* which of the two *)

A0 == 1
B0 == 3
First == 5
Second == 6
Both == 7
Either == 8

Start(known) == ExactlyOne({1, 2}) \cup (IF known THEN {{-3}, {4}} ELSE ExactlyOne({3, 4}))

\* With an OR group over both variables or without.
Groups == {{}, {{A0, B0}}, {{2, 4}}}

\* What an action does to the first fact, and to the second.
FirstForms ==
  {Defined(First, {A0, B0}, 0), Defined(First, {B0}, A0), Spared(First, A0)}
    \cup {Defined(First, {B0, Both}, 0) \cup AndClauses(Both, {2, 4}),
          Defined(First, {A0, B0}, Both) \cup AndClauses(Both, {2, 4})}

SecondForms ==
  {Defined(Second, {A0, B0}, 0), {{-Second}},
   Defined(Second, {A0, B0}, 2), Defined(Second, {Either, B0}, 0) \cup OrClauses(Either, {First, A0})}

Roots == {{First}, {First, Second}, {First, A0}, {Second, B0, A0}}

InitialFacts == [x \in 1..4 |-> CASE x = 1 -> <<"A", 0>> [] x = 2 -> <<"A", 1>>
                                  [] x = 3 -> <<"B", 0>> [] OTHER -> <<"B", 1>>]

MCFormulas ==
  {[clauses |-> Start(k) \cup g \cup e \cup f \cup {Negated(r)}, aux |-> {7, 8},
    initial |-> InitialFacts, base |-> [v \in {"A", "B"} |-> IF v = "A" THEN 0 ELSE 1]] :
     k \in BOOLEAN, g \in Groups, e \in FirstForms, f \in SecondForms, r \in Roots}

-----------------------------------------------------------------------------
NoFormula == [clauses |-> {{1}}, aux |-> {}, initial |-> [x \in {} |-> 0], base |-> << >>]

MCInit ==
  /\ InitBuilder
  /\ \/ part = "preprocessor" /\ Init
     \/ /\ part = "builder" /\ pc = "off" /\ formula = NoFormula /\ clauses = {} /\ pass = 1
        /\ changed = FALSE /\ fixed = {} /\ mutual = FALSE /\ sample = << >>

MCNext ==
  /\ UNCHANGED part
  /\ \/ part = "builder" /\ NextBuilder /\ UNCHANGED vars
     \/ part = "preprocessor" /\ Next /\ UNCHANGED builderVars

MCSpec == MCInit /\ [][MCNext]_<<part, vars, builderVars>>

==============================================================================
