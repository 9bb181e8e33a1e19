--------------------------------- MODULE Cnf ---------------------------------
(***************************************************************************)
(* Clauses as the verifier builds them (lama/search/cnf_builder.cc and     *)
(* counter_cnf.cc): a literal is a nonzero integer, a clause a set of      *)
(* literals, a formula a set of clauses.  An assignment is the set of the  *)
(* variables it makes true.                                                *)
(***************************************************************************)
EXTENDS Integers, FiniteSets

VarOf(l) == IF l > 0 THEN l ELSE -l
Negated(c) == {-l : l \in c}
VarsIn(F) == {VarOf(l) : l \in UNION F}

LitTrue(m, l) == IF l > 0 THEN l \in m ELSE -l \notin m
ClauseTrue(m, c) == \E l \in c : LitTrue(m, l)
Models(F, V) == {m \in SUBSET V : \A c \in F : ClauseTrue(m, c)}

\* add_clause: an empty clause and a tautology are not added.
Kept(F) == {c \in F : c # {} /\ c \cap Negated(c) = {}}

\* The clauses of an AND gate, of an OR gate and of an exactly-one group.
AndClauses(out, ins) == Kept({{-out, l} : l \in ins} \cup {{out} \cup Negated(ins)})
OrClauses(out, ins) == Kept({{out, -l} : l \in ins} \cup {{-out} \cup ins})
ExactlyOne(vs) == Kept({vs} \cup {{-p[1], -p[2]} : p \in {q \in vs \X vs : q[1] # q[2]}})

\* The defining clauses of a fact: it is true iff no del holds and some of
\* given (adds, the previous value) does; or iff del does not hold, when an
\* effect adds it in any case.  del = 0: nothing deletes it.
Defined(cur, given, del) ==
  LET spoil == IF del = 0 THEN {} ELSE {del}
  IN  Kept({{-cur, -d} : d \in spoil} \cup {{-cur} \cup given} \cup {{cur, -g} \cup spoil : g \in given})

Spared(cur, del) == {{-cur, -del}, {cur, del}}
==============================================================================
