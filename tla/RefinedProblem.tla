---------------------------- MODULE RefinedProblem ----------------------------
(***************************************************************************)
(* The refined problem handed to the candidate planner: what the classes   *)
(* InitialConstraintIR and RefinedProblemWriter and the function           *)
(* validate_refined of lama/search/cegis_framework.cc compute from the     *)
(* stored counterexamples.  A refined :init is abstracted to the set of    *)
(* its unit literals, its UNKNOWN atoms, its ONEOF groups and its OR       *)
(* clauses; spelling, order and indentation are left out.                  *)
(***************************************************************************)
EXTENDS CounterexampleStore, FiniteSets

CONSTANTS
  Vars,      (* the SAS variables; a state of States is a function on Vars  *)
  Mapped,    (* the facts <<var, val>> that name a PDDL atom                *)
  Groups,    (* the OR/ONEOF groups of oneof_initial, in file order         *)
  Original,  (* the state g_initial_state holds when the search starts      *)
  Last,      (* the state that gives every variable its last domain value   *)
  Combined   (* whether the translator found the ONEOFs combinable          *)

ASSUME StatesAreFunctions == \A s \in States : DOMAIN s = Vars
ASSUME StatesAreIndependent ==
  \A s, t \in States : \A V \in SUBSET Vars : [v \in Vars |-> IF v \in V THEN s[v] ELSE t[v]] \in States
ASSUME OriginalAndLastAreStates == {Original, Last} \subseteq States
ASSUME MappedAreFacts == IsFiniteSet(Mapped) /\ \A f \in Mapped : f[1] \in Vars
ASSUME GroupsAreConstraints ==
  Groups \in Seq([kind : {"OR", "ONEOF"},
                  alts : Seq(SUBSET [var : Vars, val : Nat, positive : BOOLEAN])])
ASSUME AlternativesAreFinite ==
  \A i \in DOMAIN Groups : \A k \in DOMAIN Groups[i].alts : IsFiniteSet(Groups[i].alts[k])
ASSUME OnlyOneofsCombine == Combined \in BOOLEAN /\ (Combined => \A i \in DOMAIN Groups : Groups[i].kind = "ONEOF")

Profiles == {"T1", "CPA", "CPAH", "GC", "GCPCES", "ICPCES"}
Modes == {"single", "structured", "exact"}

-----------------------------------------------------------------------------
(* The initial constraints.  A group has a kind and a sequence of           *)
(* alternatives; an alternative is a set of SAS literals.                   *)

SasLiteral(v, x, pos) == [var |-> v, val |-> x, positive |-> pos]
Group(kind, alts) == [kind |-> kind, alts |-> alts]
Singles(facts) == [k \in DOMAIN facts |-> {SasLiteral(facts[k][1], facts[k][2], TRUE)}]

VarsOf(alt) == {lit.var : lit \in alt}
Mentions(g) == UNION {VarsOf(g.alts[k]) : k \in DOMAIN g.alts}
Mentioned == UNION {Mentions(Groups[i]) : i \in DOMAIN Groups}

AlternativeHolds(alt, s) == \A lit \in alt : (s[lit.var] = lit.val) = lit.positive

\* One alternative of an OR, exactly one of a ONEOF.
Chosen(kind, ks) == ks # {} /\ (kind = "ONEOF" => \A j, k \in ks : j = k)

\* What validate_refined demands of a state.
GroupHolds(g, s) == Chosen(g.kind, {k \in DOMAIN g.alts : AlternativeHolds(g.alts[k], s)})

-----------------------------------------------------------------------------
(* The initial belief, as the time-0 clauses of the verifier admit it.  The  *)
(* verifier reads its own file, "oneof": beside ORs (type 3) every group is  *)
(* read as it stands; without any (type 2) an alternative of a group over    *)
(* several variables also fixes the group's other variables to their last    *)
(* value; and when the translator found the ONEOFs combinable it wrote the   *)
(* n-th alternatives of all of them as one complete state (type 1, ORS).  A  *)
(* variable no group mentions keeps its original value.                      *)

OneofsOnly == \A i \in DOMAIN Groups : Groups[i].kind = "ONEOF"

Completed(g, k, s) ==
  /\ AlternativeHolds(g.alts[k], s)
  /\ OneofsOnly => \A v \in Mentions(g) \ VarsOf(g.alts[k]) : s[v] = Last[v]

Admits(g, s) == Chosen(g.kind, {k \in DOMAIN g.alts : Completed(g, k, s)})

\* print_atom: an index past the end stands for the first alternative.
Nth(g, n) == IF n \in DOMAIN g.alts THEN g.alts[n] ELSE g.alts[1]

\* The n-th complete state of an ORS file; the later group wins a variable.
IsNthState(n, s) ==
  \A v \in Mentioned :
    LET is == {i \in DOMAIN Groups : v \in VarsOf(Nth(Groups[i], n))}
    IN  IF is = {} THEN s[v] = Last[v]
        ELSE \E i \in is : /\ \A j \in is : j <= i
                           /\ AlternativeHolds({lit \in Nth(Groups[i], n) : lit.var = v}, s)

Certain(s) == \A v \in Vars \ Mentioned : s[v] = Original[v]

Worlds ==
  {s \in States :
     /\ Certain(s)
     /\ IF Combined
        THEN Chosen("ONEOF", {n \in UNION {DOMAIN Groups[i].alts : i \in DOMAIN Groups} :
                                IsNthState(n, s)})
        ELSE \A i \in DOMAIN Groups : Admits(Groups[i], s)}

\* The initial belief as oneof_initial states it.
Belief == {s \in States : Certain(s) /\ \A i \in DOMAIN Groups : GroupHolds(Groups[i], s)}

-----------------------------------------------------------------------------
(* What the planner can see of a state, and of a set of states.             *)

View(s) == {f \in Mapped : s[f[1]] = f[2]}
VisibleWorlds(store) == {View(s) : s \in Stored(store)}

CommonTrue(W) == {f \in Mapped : \A w \in W : f \in w}
CommonFalse(W) == {f \in Mapped : \A w \in W : f \notin w}
Varying(W) == Mapped \ (CommonTrue(W) \cup CommonFalse(W))

\* The atoms the original :init states outright, and so does the refined one.
TemplateTrue == {f \in Mapped : f[1] \notin Mentioned /\ Original[f[1]] = f[2]}

-----------------------------------------------------------------------------
(* The forms of a refined :init.  A literal is a symbol and a sign; a symbol *)
(* is a mapped atom, a selector of a visible world or, for iCPCES, the       *)
(* complement of a varying atom.                                             *)

Atom(f) == <<"atom", f>>
Sel(w) == <<"sel", w>>
Complement(f) == <<"not-p", f>>
Pos(sym) == <<sym, TRUE>>
Neg(sym) == <<sym, FALSE>>

Units(W, explicitFalse) ==
  {Pos(Atom(f)) : f \in TemplateTrue \cup CommonTrue(W)}
    \cup (IF explicitFalse THEN {Neg(Atom(f)) : f \in CommonFalse(W)} ELSE {})

Forms(units, unknown, oneofs, ors) ==
  [units |-> units, unknown |-> unknown, oneofs |-> oneofs, ors |-> ors]

SelectorOneof(W) == {{Pos(Sel(w))} : w \in W}
SelectorClauses(W) == {{Neg(Sel(w)), <<Atom(f), f \in w>>} : w \in W, f \in Varying(W)}

\* The literals of the varying atoms true in w, and of all varying atoms.
TrueIn(w, W) == {Pos(Atom(f)) : f \in w \cap Varying(W)}
SignedIn(w, W) == {<<Atom(f), f \in w>> : f \in Varying(W)}

\* One world: complete unit assignments (emit_single_world, and the early
\* return of every other emitter when one world is visible).
SingleWorldForms(W, profile) == Forms(Units(W, profile \notin {"T1", "GC"}), {}, {}, {})

\* Mutant: the alternatives of GCPCES.
GcFormsSigned(W) == Forms(Units(W, FALSE), {}, {{SignedIn(w, W) : w \in W}}, {})

\* emit_gc_exact_sample_set: an alternative lists the positive varying atoms
\* of its world, the others are false by omission.
GcForms(W) == Forms(Units(W, FALSE), {}, {{TrueIn(w, W) : w \in W}}, {})

\* emit_gcpces_exact_sample_set: every varying atom, signed, in every alternative.
GcpcesForms(W) == Forms(Units(W, TRUE), {}, {{SignedIn(w, W) : w \in W}}, {})

\* emit_icpces_exact_sample_set: selectors, their implications, and a binary
\* ONEOF of each varying atom with a fresh complement.
IcpcesForms(W) ==
  Forms(Units(W, TRUE), {},
        {SelectorOneof(W)} \cup {{{Pos(Atom(f))}, {Pos(Complement(f))}} : f \in Varying(W)},
        SelectorClauses(W))

CpaNeverUnknown(W, declareUnknown) ==
  Forms(Units(W, TRUE), {}, {SelectorOneof(W)}, SelectorClauses(W))

\* emit_cpa_exact_sample_set: selectors and implications; CPA(H) also wants
\* the varying atoms declared unknown.
CpaForms(W, declareUnknown) ==
  Forms(Units(W, TRUE), IF declareUnknown THEN {Atom(f) : f \in Varying(W)} ELSE {},
        {SelectorOneof(W)}, SelectorClauses(W))

-----------------------------------------------------------------------------
(* emit_t1_structured: the original groups, partially evaluated under the   *)
(* assignment all stored worlds share.                                      *)

Fact(lit) == <<lit.var, lit.val>>
Only(alt) == CHOOSE lit \in alt : TRUE

AlternativeStatus(alt, needPositive) ==
  IF Cardinality(alt) # 1 \/ (needPositive /\ ~Only(alt).positive) THEN "UNSUPPORTED_INPUT"
  ELSE IF Fact(Only(alt)) \notin Mapped THEN "MAPPING_ERROR" ELSE "OK"

Least(S) == CHOOSE i \in S : \A j \in S : i <= j
FirstError(sts) ==
  LET bad == {i \in DOMAIN sts : sts[i] # "OK"} IN IF bad = {} THEN "OK" ELSE sts[Least(bad)]

VaryingAlts(g, W) == {k \in DOMAIN g.alts : \E lit \in g.alts[k] : Fact(lit) \in Varying(W)}
FixedTrueUnsigned(g, W) == {k \in DOMAIN g.alts : \E lit \in g.alts[k] : Fact(lit) \in CommonTrue(W)}
FixedTrueAlts(g, W) == {k \in DOMAIN g.alts :
  \E lit \in g.alts[k] : Fact(lit) \in IF lit.positive THEN CommonTrue(W) ELSE CommonFalse(W)}

OneofStatus(g, W) ==
  LET sts == [k \in DOMAIN g.alts |-> AlternativeStatus(g.alts[k], TRUE)]
      ones == FixedTrueAlts(g, W)
      open == VaryingAlts(g, W)
  IN  IF FirstError(sts) # "OK" THEN FirstError(sts)
      ELSE IF \/ Cardinality(ones) > 1
              \/ Cardinality(ones) = 1 /\ open # {}
              \/ ones = {} /\ Cardinality(open) < 2
           THEN "BACKEND_ERROR" ELSE "OK"

\* The scan of an OR stops at the first alternative the common assignment
\* satisfies, and leaves the later ones unread.
OrStatus(g, W) ==
  LET ones == FixedTrueAlts(g, W)
      read == IF ones = {} THEN DOMAIN g.alts ELSE 1..Least(ones)
      sts == [k \in read |-> AlternativeStatus(g.alts[k], FALSE)]
  IN  IF FirstError(sts) # "OK" THEN FirstError(sts)
      ELSE IF ones = {} /\ Cardinality(VaryingAlts(g, W)) < 2 THEN "BACKEND_ERROR" ELSE "OK"

GroupStatus(g, W) == IF g.kind = "ONEOF" THEN OneofStatus(g, W) ELSE OrStatus(g, W)
StructuredStatus(W) == FirstError([i \in DOMAIN Groups |-> GroupStatus(Groups[i], W)])

\* The groups of one kind that no fixed atom settles, varying literals only.
Open(kind, W) == {i \in DOMAIN Groups : Groups[i].kind = kind /\ FixedTrueAlts(Groups[i], W) = {}}
OpenLiterals(i, W) ==
  {<<Atom(Fact(lit)), lit.positive>> :
     lit \in UNION {Groups[i].alts[k] : k \in VaryingAlts(Groups[i], W)}}

T1DropsOrs(W) ==
  Forms(Units(W, FALSE), {Atom(f) : f \in Varying(W)},
        {{{l} : l \in OpenLiterals(i, W)} : i \in Open("ONEOF", W)}, {})

T1Forms(W) ==
  Forms(Units(W, FALSE), {Atom(f) : f \in Varying(W)},
        {{{l} : l \in OpenLiterals(i, W)} : i \in Open("ONEOF", W)},
        {OpenLiterals(i, W) : i \in Open("OR", W)})

-----------------------------------------------------------------------------
(* RefinedProblemWriter::write, its renderers and their statuses.           *)

NoForms == Forms({}, {}, {}, {})

ExactForms(W, profile) ==
  IF Cardinality(W) = 1 THEN SingleWorldForms(W, profile)
  ELSE CASE profile = "GC"     -> GcForms(W)
         [] profile = "GCPCES" -> GcpcesForms(W)
         [] profile = "ICPCES" -> IcpcesForms(W)
         [] OTHER              -> CpaForms(W, profile = "CPAH")

EncodedBeforeNewest(mode, store) ==
  {View(store[i].state) : i \in {j \in DOMAIN store : j = 1 \/ (mode # "single" /\ j < Len(store))}}

\* The worlds a mode encodes: the first stored one, or all of them.
Encoded(mode, store) == IF mode = "single" THEN {View(store[1].state)} ELSE VisibleWorlds(store)

RenderStatus(profile, mode, store) ==
  LET W == Encoded(mode, store)
  IN  IF Len(store) = 0 THEN "INPUT_ERROR"
      ELSE IF \/ mode = "exact" /\ profile = "T1"
              \/ mode = "structured" /\ profile # "T1" THEN "UNSUPPORTED_INPUT"
      ELSE IF Mapped = {} THEN "MAPPING_ERROR"
      ELSE IF CommonFalse(W) \cap TemplateTrue # {} THEN "BACKEND_ERROR"
      ELSE IF mode = "structured" THEN StructuredStatus(W)
      ELSE "OK"

RenderForms(profile, mode, store) ==
  IF RenderStatus(profile, mode, store) # "OK" THEN NoForms
  ELSE LET W == Encoded(mode, store)
       IN  CASE mode = "single"     -> SingleWorldForms(W, profile)
             [] mode = "structured" -> T1Forms(W)
             [] OTHER               -> ExactForms(W, profile)

-----------------------------------------------------------------------------
(* validate_refined: the accounting of each profile, then the stored states *)
(* against the original groups.                                             *)

AccountsFor(profile, mode, W, forms) ==
  LET none == forms.unknown = {} /\ forms.oneofs = {} /\ forms.ors = {}
      selectors == Cardinality(forms.ors) = Cardinality(W) * Cardinality(Varying(W))
  IN  IF Cardinality(W) = 1
      THEN (profile = "T1" /\ mode = "single") \/ none
      ELSE CASE profile = "T1" -> TRUE
             [] profile \in {"GC", "GCPCES"} ->
                  forms.unknown = {} /\ forms.ors = {} /\ Cardinality(forms.oneofs) = 1
             [] profile = "CPA" ->
                  forms.unknown = {} /\ selectors /\ Cardinality(forms.oneofs) = 1
             [] profile = "CPAH" ->
                  /\ Cardinality(forms.unknown) = Cardinality(Varying(W))
                  /\ selectors /\ Cardinality(forms.oneofs) = 1
             [] OTHER ->
                  /\ forms.unknown = {} /\ selectors
                  /\ Cardinality(forms.oneofs) = Cardinality(Varying(W)) + 1

ValidateStatus(profile, mode, forms, store) ==
  LET checked == IF mode = "single" THEN {store[1].state} ELSE Stored(store)
  IN  IF profile \in {"CPA", "GC", "GCPCES"} /\ forms.unknown # {} THEN "UNSUPPORTED_INPUT"
      ELSE IF /\ AccountsFor(profile, mode, Encoded(mode, store), forms)
              /\ \A s \in checked : \A i \in DOMAIN Groups : GroupHolds(Groups[i], s)
      THEN "OK" ELSE "BACKEND_ERROR"

-----------------------------------------------------------------------------
(* What a planner front-end reads in a refined :init, as the writer's       *)
(* comments describe each front-end: the symbols it treats as uncertain     *)
(* (every other symbol not stated is false), and the truth assignments that *)
(* satisfy the ONEOF groups and the OR clauses.                             *)

Members(alts) == {l[1] : l \in UNION alts}
OneofMembers(forms) == UNION {Members(g) : g \in forms.oneofs}
OrMembers(forms) == {l[1] : l \in UNION forms.ors}

Uncertain(profile, forms) ==
  CASE profile = "T1"   -> forms.unknown
    [] profile = "CPAH" -> forms.unknown \cup OneofMembers(forms)
    [] profile = "CPA"  -> OneofMembers(forms) \cup OrMembers(forms)
    [] OTHER            -> OneofMembers(forms)

LiteralTrue(l, M) == (l[1] \in M) = l[2]

\* GC-LAMA resets what an alternative omits; the others read a conjunction.
ReadsAlternative(profile, alts, alt, M) ==
  IF profile = "GC" THEN {l[1] : l \in alt} = M \cap Members(alts)
                    ELSE \A l \in alt : LiteralTrue(l, M)

ReadsOneof(profile, alts, M) ==
  Cardinality({alt \in alts : ReadsAlternative(profile, alts, alt, M)}) = 1

Stated(forms) == {l[1] : l \in {u \in forms.units : u[2]}}

InitialStates(profile, forms) ==
  {M \in {Stated(forms) \cup U : U \in SUBSET (Uncertain(profile, forms) \ Stated(forms))} :
     /\ \A l \in forms.units : LiteralTrue(l, M)
     /\ \A alts \in forms.oneofs : ReadsOneof(profile, alts, M)
     /\ \A clause \in forms.ors : \E l \in clause : LiteralTrue(l, M)}

\* The initial states, with the selectors and complements projected away.
Projected(profile, forms) ==
  {{f \in Mapped : Atom(f) \in M} : M \in InitialStates(profile, forms)}
==============================================================================
