------------------------ MODULE RefinedProblemProofs ------------------------
(***************************************************************************)
(* What Insert does to the store of counterexamples, and what the writer   *)
(* and the validator of the refined problem return: for every problem,     *)
(* every store, every profile and every mode.  The main results are        *)
(* ProfilesAreExact (a refined problem of an exact profile denotes the     *)
(* stored worlds), StructuredContains and StructuredWithin (what the T1    *)
(* product denotes), and NeverContradicts and ValidateOk (the writer and   *)
(* its validator accept every set of initial states).  The last section    *)
(* says the same of RefinedWriter, whatever is stored and asked for: the   *)
(* last write that stands is always one of the present store, all of whose *)
(* states the verifier admits.                                             *)
(***************************************************************************)
EXTENDS RefinedWriter, FiniteSetTheorems, WellFoundedInduction, TLAPS

(* The store: what Insert does, for every store and every state.           *)

\* The states of a store are pairwise different.
Distinct(store) ==
  \A i, j \in DOMAIN store : store[i].state = store[j].state => i = j

\* insert() of a known state keeps the length, of a new one adds one entry
\* at the end; every old entry keeps its state and its date.
LEMMA InsertEntries ==
  ASSUME NEW store \in Store, NEW s \in States, NEW round \in Nat,
         NEW new, new = Insert(store, s, round)
  PROVE  /\ new \in Store
         /\ DOMAIN store = 1..Len(store) /\ DOMAIN new = 1..Len(new)
         /\ Len(store) \in Nat
         /\ Len(new) = IF s \in Stored(store) THEN Len(store) ELSE Len(store) + 1
         /\ \A i \in 1..Len(store) :
              /\ new[i].state = store[i].state
              /\ new[i].first = store[i].first
              /\ new[i].freq = IF store[i].state = s THEN store[i].freq + 1
                                                     ELSE store[i].freq
         /\ s \notin Stored(store) => new[Len(store) + 1] = NewEntry(s, round)
<1>e. \A i \in 1..Len(store) : store[i] \in Entry
  BY DEF Store
<1>n. NewEntry(s, round) \in Entry
  BY DEF NewEntry, Entry
<1>1. CASE s \in Stored(store)
  <2> DEFINE bump(i) == IF store[i].state = s THEN [store[i] EXCEPT !.freq = @ + 1]
                                              ELSE store[i]
  <2>1. new = [i \in 1..Len(store) |-> bump(i)]
    BY <1>1 DEF Insert, Store
  <2>2. \A i \in 1..Len(store) :
          /\ bump(i) \in Entry
          /\ bump(i).state = store[i].state
          /\ bump(i).first = store[i].first
          /\ bump(i).freq = IF store[i].state = s THEN store[i].freq + 1 ELSE store[i].freq
    BY <1>e DEF Entry
  <2> HIDE DEF bump
  <2>3. Len(store) \in Nat
    BY DEF Store
  <2>4. new \in Seq(Entry) /\ Len(new) = Len(store)
    BY <2>1, <2>2, <2>3
  <2> QED
    BY <1>1, <2>1, <2>2, <2>4 DEF Store
<1>2. CASE s \notin Stored(store)
  <2>1. new = Append(store, NewEntry(s, round))
    BY <1>2 DEF Insert
  <2>2. \A i \in 1..Len(store) : store[i].state # s
    BY <1>2 DEF Stored, Store
  <2> QED
    BY <1>2, <1>e, <1>n, <2>1, <2>2 DEF Store
<1> QED
  BY <1>1, <1>2

\* Inserting adds the state, and nothing else, to the stored states.
LEMMA InsertStored ==
  ASSUME NEW store \in Store, NEW s \in States, NEW round \in Nat,
         NEW new, new = Insert(store, s, round)
  PROVE  Stored(new) = Stored(store) \cup {s}
<1>1. /\ DOMAIN store = 1..Len(store) /\ DOMAIN new = 1..Len(new)
      /\ Len(store) \in Nat
      /\ Len(new) = IF s \in Stored(store) THEN Len(store) ELSE Len(store) + 1
      /\ \A i \in 1..Len(store) : new[i].state = store[i].state
      /\ s \notin Stored(store) => new[Len(store) + 1] = NewEntry(s, round)
  BY InsertEntries
<1>2. s \notin Stored(store) => new[Len(store) + 1].state = s
  BY <1>1 DEF NewEntry
<1>3. CASE s \in Stored(store)
  BY <1>1, <1>3 DEF Stored
<1>4. CASE s \notin Stored(store)
  <2>1. DOMAIN new = DOMAIN store \cup {Len(store) + 1}
    BY <1>1, <1>4
  <2> QED
    BY <1>1, <1>2, <1>4, <2>1 DEF Stored
<1> QED
  BY <1>3, <1>4

\* insert() never lets a state in twice: this is what the index of
\* CounterexampleStore is for.
THEOREM InsertKeepsDistinct ==
  ASSUME NEW store \in Store, NEW s \in States, NEW round \in Nat,
         NEW new, new = Insert(store, s, round), Distinct(store)
  PROVE  Distinct(new)
<1>1. /\ DOMAIN store = 1..Len(store) /\ DOMAIN new = 1..Len(new)
      /\ Len(store) \in Nat
      /\ Len(new) = IF s \in Stored(store) THEN Len(store) ELSE Len(store) + 1
      /\ \A i \in 1..Len(store) : new[i].state = store[i].state
      /\ s \notin Stored(store) => new[Len(store) + 1] = NewEntry(s, round)
  BY InsertEntries
<1>2. s \notin Stored(store) => new[Len(store) + 1].state = s
  BY <1>1 DEF NewEntry
<1>3. s \notin Stored(store) => \A i \in 1..Len(store) : store[i].state # s
  BY <1>1 DEF Stored
<1>4. SUFFICES ASSUME NEW i \in 1..Len(new), NEW j \in 1..Len(new),
                      new[i].state = new[j].state
               PROVE  i = j
  BY <1>1 DEF Distinct
<1>5. \A k, l \in 1..Len(store) : store[k].state = store[l].state => k = l
  BY <1>1 DEF Distinct
<1>6. CASE s \in Stored(store)
  BY <1>1, <1>4, <1>5, <1>6
<1>7. CASE s \notin Stored(store)
  BY <1>1, <1>2, <1>3, <1>4, <1>5, <1>7
<1> QED
  BY <1>6, <1>7

-----------------------------------------------------------------------------
(* The writer and the validator.                                           *)


\* Least picks a least element of every non-empty set of naturals.
LEMMA LeastIsLeast ==
  ASSUME NEW S, S \subseteq Nat, S # {}
  PROVE  /\ Least(S) \in S
         /\ \A j \in S : Least(S) <= j
<1>1. PICK i \in S : \A j \in S : ~(<<j, i>> \in OpToRel(<, Nat))
  BY NatLessThanWellFounded, WFMin
<1>2. OpToRel(<, Nat) = {ss \in Nat \X Nat : ss[1] < ss[2]}
  BY DEF OpToRel
<1>3. \A j \in S : <<j, i>> \in Nat \X Nat
  OBVIOUS
<1>4. \A j \in S : ~(j < i)
  BY <1>1, <1>2, <1>3
<1>5. \A j \in S : i <= j
  BY <1>4
<1> QED
  BY <1>5 DEF Least

\* The first status that is not "OK" is one of the statuses, if there is one.
LEMMA FirstErrorIsAStatus ==
  ASSUME NEW D, D \subseteq Nat, NEW T, NEW sts \in [D -> T], "OK" \in T
  PROVE  FirstError(sts) \in T
<1> DEFINE bad == {i \in DOMAIN sts : sts[i] # "OK"}
<1>1. CASE bad = {}
  BY <1>1 DEF FirstError
<1>2. CASE bad # {}
  <2>1. bad \subseteq Nat
    OBVIOUS
  <2>2. Least(bad) \in bad
    BY <1>2, <2>1, LeastIsLeast
  <2>3. FirstError(sts) = sts[Least(bad)]
    BY <1>2 DEF FirstError
  <2> QED
    BY <2>2, <2>3
<1> QED
  BY <1>1, <1>2

WriterStatuses == {"OK", "INPUT_ERROR", "UNSUPPORTED_INPUT", "MAPPING_ERROR", "BACKEND_ERROR"}

LEMMA OneofStatusType ==
  ASSUME NEW g, NEW W, DOMAIN g.alts \subseteq Nat
  PROVE  OneofStatus(g, W) \in WriterStatuses
<1> DEFINE sts == [k \in DOMAIN g.alts |-> AlternativeStatus(g.alts[k], TRUE)]
<1>1. sts \in [DOMAIN g.alts -> WriterStatuses]
  BY DEF AlternativeStatus, WriterStatuses
<1>2. FirstError(sts) \in WriterStatuses
  <2> HIDE DEF sts
  <2> QED
    BY <1>1, FirstErrorIsAStatus DEF WriterStatuses
<1> QED
  BY <1>2 DEF OneofStatus, WriterStatuses

LEMMA OrStatusType ==
  ASSUME NEW g, NEW W, DOMAIN g.alts \subseteq Nat
  PROVE  OrStatus(g, W) \in WriterStatuses
<1> DEFINE ones == FixedTrueAlts(g, W)
           read == IF ones = {} THEN DOMAIN g.alts ELSE 1..Least(ones)
           sts == [k \in read |-> AlternativeStatus(g.alts[k], FALSE)]
<1>1. read \subseteq Nat
  <2>1. ones \subseteq Nat
    BY DEF FixedTrueAlts
  <2>2. ones # {} => Least(ones) \in Nat
    BY <2>1, LeastIsLeast
  <2> QED
    BY <2>2
<1>2. sts \in [read -> WriterStatuses]
  BY DEF AlternativeStatus, WriterStatuses
<1>3. FirstError(sts) \in WriterStatuses
  <2> HIDE DEF sts, read
  <2> QED
    BY <1>1, <1>2, FirstErrorIsAStatus DEF WriterStatuses
<1> QED
  BY <1>3 DEF OrStatus, WriterStatuses

LEMMA StructuredStatusType ==
  ASSUME NEW W
  PROVE  StructuredStatus(W) \in WriterStatuses
<1>1. \A i \in DOMAIN Groups : DOMAIN Groups[i].alts \subseteq Nat
  <2> DEFINE Alternatives == Seq(SUBSET [var : Vars, val : Nat, positive : BOOLEAN])
         AnyGroup == [kind : {"OR", "ONEOF"}, alts : Alternatives]
  <2>1. Groups \in Seq(AnyGroup)
    BY GroupsAreConstraints DEF GroupsAreConstraints
  <2>2. ASSUME NEW i \in DOMAIN Groups PROVE Groups[i] \in AnyGroup
    <3> HIDE DEF AnyGroup
    <3> QED
      BY <2>1
  <2>3. ASSUME NEW g \in AnyGroup PROVE DOMAIN g.alts \subseteq Nat
    <3>1. g.alts \in Alternatives
      OBVIOUS
    <3> QED
      BY <3>1
  <2> QED
    BY <2>2, <2>3
<1>2. \A i \in DOMAIN Groups : GroupStatus(Groups[i], W) \in WriterStatuses
  BY <1>1, OneofStatusType, OrStatusType DEF GroupStatus
<1>3. DOMAIN Groups \subseteq Nat
  BY GroupsAreConstraints DEF GroupsAreConstraints
<1> DEFINE sts == [i \in DOMAIN Groups |-> GroupStatus(Groups[i], W)]
<1>4. sts \in [DOMAIN Groups -> WriterStatuses]
  BY <1>2
<1>5. FirstError(sts) \in WriterStatuses
  <2> HIDE DEF sts
  <2> QED
    BY <1>3, <1>4, FirstErrorIsAStatus DEF WriterStatuses
<1> QED
  BY <1>5 DEF StructuredStatus

\* write() returns one of five statuses, whatever it reads.
LEMMA RenderStatusType ==
  ASSUME NEW profile, NEW mode, NEW entries
  PROVE  RenderStatus(profile, mode, entries) \in WriterStatuses
BY StructuredStatusType DEF RenderStatus, WriterStatuses

\* What a planner reads in a refined problem is a set of views.
LEMMA ProjectedType ==
  ASSUME NEW profile, NEW forms
  PROVE  Projected(profile, forms) \in SUBSET (SUBSET Mapped)
BY DEF Projected

-----------------------------------------------------------------------------
(* What a refined :init denotes: the literals, the worlds, and a criterion.*)

\* A ONEOF is read as satisfied if exactly one of its alternatives is.
LEMMA OneRead ==
  ASSUME NEW profile, NEW alts, IsFiniteSet(alts), NEW M
  PROVE  ReadsOneof(profile, alts, M) <=>
           \E a \in alts : /\ ReadsAlternative(profile, alts, a, M)
                           /\ \A b \in alts : ReadsAlternative(profile, alts, b, M) => b = a
<1> DEFINE R == {alt \in alts : ReadsAlternative(profile, alts, alt, M)}
<1>1. IsFiniteSet(R)
  <2>1. R \in SUBSET alts
    OBVIOUS
  <2> QED
    BY <2>1, FS_Subset
<1>2. ReadsOneof(profile, alts, M) <=> \E x : R = {x}
  BY <1>1, FS_Singleton DEF ReadsOneof
<1>3. (\E x : R = {x}) <=>
        \E a \in alts : /\ ReadsAlternative(profile, alts, a, M)
                        /\ \A b \in alts : ReadsAlternative(profile, alts, b, M) => b = a
  OBVIOUS
<1> QED
  BY <1>2, <1>3

\* The symbols of a refined :init do not clash.
LEMMA Symbols ==
  /\ \A f, g : Atom(f) = Atom(g) => f = g
  /\ \A v, w : Sel(v) = Sel(w) => v = w
  /\ \A f, g : Complement(f) = Complement(g) => f = g
  /\ \A f, w : Atom(f) # Sel(w)
  /\ \A f, g : Atom(f) # Complement(g)
  /\ \A w, g : Sel(w) # Complement(g)
BY DEF Atom, Sel, Complement

\* What a literal is and when it holds.
LEMMA Literals ==
  /\ \A x : Pos(x)[1] = x /\ Pos(x)[2] = TRUE
  /\ \A x : Neg(x)[1] = x /\ Neg(x)[2] = FALSE
  /\ \A x, y : Pos(x) = Pos(y) => x = y
  /\ \A x, M : LiteralTrue(Pos(x), M) <=> x \in M
  /\ \A x, M : LiteralTrue(Neg(x), M) <=> x \notin M
  /\ \A x, M : \A b \in BOOLEAN : LiteralTrue(<<x, b>>, M) <=> ((x \in M) <=> b)
<1>1. \A x : Pos(x)[1] = x
  BY DEF Pos
<1>2. \A x : Pos(x)[2] = TRUE
  BY DEF Pos
<1>3. \A x : Neg(x)[1] = x
  BY DEF Neg
<1>4. \A x : Neg(x)[2] = FALSE
  BY DEF Neg
<1>5. \A x, M : LiteralTrue(Pos(x), M) <=> x \in M
  BY <1>1, <1>2 DEF LiteralTrue
<1>6. \A x, M : LiteralTrue(Neg(x), M) <=> x \notin M
  <2> SUFFICES ASSUME NEW x, NEW M PROVE LiteralTrue(Neg(x), M) <=> x \notin M
    OBVIOUS
  <2>1. LiteralTrue(Neg(x), M) <=> ((x \in M) = FALSE)
    BY DEF LiteralTrue, Neg
  <2> QED
    BY <2>1
<1>7. \A x, M : \A b \in BOOLEAN : LiteralTrue(<<x, b>>, M) <=> ((x \in M) <=> b)
  BY DEF LiteralTrue
<1> QED
  BY <1>1, <1>2, <1>3, <1>4, <1>5, <1>6, <1>7

\* A set of visible worlds, with the facts split into common and varying ones.
LEMMA Split ==
  ASSUME NEW W \in SUBSET (SUBSET Mapped), W # {}
  PROVE  /\ CommonTrue(W) \cap CommonFalse(W) = {}
         /\ Varying(W) \cap (CommonTrue(W) \cup CommonFalse(W)) = {}
         /\ Mapped = CommonTrue(W) \cup CommonFalse(W) \cup Varying(W)
         /\ \A w \in W : w = CommonTrue(W) \cup (w \cap Varying(W))
         /\ \A f \in Varying(W) : (\E w \in W : f \in w) /\ (\E w \in W : f \notin w)
BY DEF CommonTrue, CommonFalse, Varying

\* The atoms the units state.
LEMMA StatedUnits ==
  ASSUME NEW W \in SUBSET (SUBSET Mapped), TemplateTrue \subseteq CommonTrue(W),
         NEW ef, NEW forms, forms.units = Units(W, ef)
  PROVE  Stated(forms) = {Atom(f) : f \in CommonTrue(W)}
<1>1. TemplateTrue \cup CommonTrue(W) = CommonTrue(W)
  OBVIOUS
<1>2. forms.units = {Pos(Atom(f)) : f \in CommonTrue(W)}
         \cup (IF ef THEN {Neg(Atom(f)) : f \in CommonFalse(W)} ELSE {})
  BY <1>1 DEF Units
<1> QED
  BY <1>2, Literals DEF Stated

\* What the units leave to be decided: if every reading of the groups and
\* clauses gives the varying atoms the values of some world, and every world has
\* a reading, then the forms denote the worlds.
LEMMA Denotes ==
  ASSUME NEW W \in SUBSET (SUBSET Mapped), W # {}, TemplateTrue \subseteq CommonTrue(W),
         NEW profile, NEW forms, NEW ef, forms.units = Units(W, ef),
         \A f \in CommonFalse(W) : Atom(f) \notin Uncertain(profile, forms),
         \A M : /\ \A alts \in forms.oneofs : ReadsOneof(profile, alts, M)
                /\ \A clause \in forms.ors : \E l \in clause : LiteralTrue(l, M)
                => \E w \in W : \A f \in Varying(W) : Atom(f) \in M <=> f \in w,
         \A w \in W : \E U \in SUBSET Uncertain(profile, forms) :
                /\ \A f \in Varying(W) : Atom(f) \in U <=> f \in w
                /\ \A alts \in forms.oneofs : ReadsOneof(profile, alts, Stated(forms) \cup U)
                /\ \A clause \in forms.ors : \E l \in clause : LiteralTrue(l, Stated(forms) \cup U)
  PROVE  Projected(profile, forms) = W
<1>1. Stated(forms) = {Atom(f) : f \in CommonTrue(W)}
  BY StatedUnits
<1>2. ASSUME NEW M \in InitialStates(profile, forms)
      PROVE  {f \in Mapped : Atom(f) \in M} \in W
  <2>1. PICK U \in SUBSET (Uncertain(profile, forms) \ Stated(forms)) : M = Stated(forms) \cup U
    BY DEF InitialStates
  <2>2. PICK w \in W : \A f \in Varying(W) : Atom(f) \in M <=> f \in w
    BY DEF InitialStates
  <2>3. \A f \in CommonTrue(W) : Atom(f) \in M
    BY <1>1, <2>1
  <2>4. \A f \in CommonFalse(W) : Atom(f) \notin M
    BY <1>1, <2>1, Split, Symbols
  <2>5. {f \in Mapped : Atom(f) \in M} = CommonTrue(W) \cup (w \cap Varying(W))
    BY <2>2, <2>3, <2>4, Split
  <2>6. w = CommonTrue(W) \cup (w \cap Varying(W))
    BY Split
  <2> QED
    BY <2>5, <2>6
<1>3. ASSUME NEW w \in W
      PROVE  \E M \in InitialStates(profile, forms) : {f \in Mapped : Atom(f) \in M} = w
  <2>1. PICK U \in SUBSET Uncertain(profile, forms) :
          /\ \A f \in Varying(W) : Atom(f) \in U <=> f \in w
          /\ \A alts \in forms.oneofs : ReadsOneof(profile, alts, Stated(forms) \cup U)
          /\ \A clause \in forms.ors : \E l \in clause : LiteralTrue(l, Stated(forms) \cup U)
    OBVIOUS
  <2> DEFINE M == Stated(forms) \cup U
             V == U \ Stated(forms)
  <2>2. M = Stated(forms) \cup V /\ V \in SUBSET (Uncertain(profile, forms) \ Stated(forms))
    OBVIOUS
  <2>3. \A f \in CommonTrue(W) : Atom(f) \in M
    BY <1>1
  <2>4. \A f \in CommonFalse(W) : Atom(f) \notin M
    BY <1>1, Split, Symbols
  <2>5. \A l \in forms.units : LiteralTrue(l, M)
    <3>1. forms.units \subseteq {Pos(Atom(f)) : f \in CommonTrue(W)}
                                 \cup {Neg(Atom(f)) : f \in CommonFalse(W)}
      BY DEF Units
    <3> HIDE DEF M
    <3> QED
      BY <2>3, <2>4, <3>1, Literals
  <2>6. \A f \in Varying(W) : Atom(f) \in M <=> f \in w
    BY <1>1, <2>1, Split, Symbols
  <2>7. {f \in Mapped : Atom(f) \in M} = CommonTrue(W) \cup (w \cap Varying(W))
    <3> HIDE DEF M
    <3> QED
      BY <2>3, <2>4, <2>6, Split
  <2>8. M \in InitialStates(profile, forms)
    <3> HIDE DEF V
    <3> QED
      BY <2>1, <2>2, <2>5 DEF InitialStates
  <2> QED
    BY <2>7, <2>8, Split
<1> QED
  BY <1>2, <1>3 DEF Projected

-----------------------------------------------------------------------------
(* The emitters of the exact profiles.                                     *)

\* One world: the units say everything.
LEMMA SingleExact ==
  ASSUME NEW W \in SUBSET (SUBSET Mapped), NEW w, W = {w}, TemplateTrue \subseteq CommonTrue(W),
         NEW profile
  PROVE  Projected(profile, SingleWorldForms(W, profile)) = W
<1> DEFINE forms == SingleWorldForms(W, profile)
           ef == profile \notin {"T1", "GC"}
<1>1. /\ forms.units = Units(W, ef) /\ forms.unknown = {}
      /\ forms.oneofs = {} /\ forms.ors = {}
  BY DEF SingleWorldForms, Forms
<1>2. Uncertain(profile, forms) = {}
  BY <1>1 DEF Uncertain, OneofMembers, OrMembers
<1>3. Varying(W) = {}
  BY DEF Varying, CommonTrue, CommonFalse
<1> HIDE DEF forms, ef
<1>4. W # {}
  OBVIOUS
<1>5. Projected(profile, forms) = W
  BY <1>1, <1>2, <1>3, <1>4, Denotes
<1> QED
  BY <1>5 DEF forms

\* GC: an alternative lists the varying atoms true in its world, and the
\* front-end reads what it omits as false.
LEMMA GcExact ==
  ASSUME NEW W \in SUBSET (SUBSET Mapped), W # {}, IsFiniteSet(W), TemplateTrue \subseteq CommonTrue(W)
  PROVE  Projected("GC", GcForms(W)) = W
<1> DEFINE forms == GcForms(W)
           alts == {TrueIn(w, W) : w \in W}
           atoms(w) == {Atom(f) : f \in w \cap Varying(W)}
<1>1. /\ forms.units = Units(W, FALSE) /\ forms.unknown = {}
      /\ forms.oneofs = {alts} /\ forms.ors = {}
  BY DEF GcForms, Forms
<1>2. \A w : {l[1] : l \in TrueIn(w, W)} = atoms(w)
  <2> SUFFICES ASSUME NEW w PROVE {l[1] : l \in TrueIn(w, W)} = atoms(w)
    OBVIOUS
  <2>1. TrueIn(w, W) = {Pos(Atom(f)) : f \in w \cap Varying(W)}
    BY DEF TrueIn
  <2>2. \A f : Pos(Atom(f))[1] = Atom(f)
    BY Literals
  <2> QED
    BY <2>1, <2>2
<1>3. Members(alts) = {Atom(f) : f \in Varying(W)}
  <2>1. Members(alts) = UNION {atoms(w) : w \in W}
    <3>1. Members(alts) = UNION {{l[1] : l \in TrueIn(w, W)} : w \in W}
      BY DEF Members
    <3> QED
      BY <1>2, <3>1
  <2>2. \A f \in Varying(W) : \E w \in W : f \in w \cap Varying(W)
    BY Split
  <2> QED
    BY <2>1, <2>2
<1>4. Uncertain("GC", forms) = {Atom(f) : f \in Varying(W)}
  BY <1>1, <1>3 DEF Uncertain, OneofMembers
<1>5. \A w, M : ReadsAlternative("GC", alts, TrueIn(w, W), M) <=>
                  atoms(w) = M \cap {Atom(f) : f \in Varying(W)}
  BY <1>2, <1>3 DEF ReadsAlternative
<1>6. IsFiniteSet(alts)
  <2> DEFINE image == [w \in W |-> TrueIn(w, W)]
  <2>1. image \in Surjection(W, alts)
    BY DEF Surjection
  <2> HIDE DEF image, alts
  <2> QED
    BY <2>1, FS_Surjection
<1> HIDE DEF forms, alts
<1>7. ASSUME NEW M, \A a \in forms.oneofs : ReadsOneof("GC", a, M)
      PROVE  \E w \in W : \A f \in Varying(W) : Atom(f) \in M <=> f \in w
  <2>1. PICK a \in alts : ReadsAlternative("GC", alts, a, M)
    BY <1>1, <1>6, <1>7, OneRead
  <2>2. PICK w \in W : a = TrueIn(w, W)
    BY DEF alts
  <2>3. atoms(w) = M \cap {Atom(f) : f \in Varying(W)}
    BY <1>5, <2>1, <2>2
  <2> QED
    BY <2>3, Symbols
<1>8. ASSUME NEW w \in W
      PROVE  \E U \in SUBSET Uncertain("GC", forms) :
               /\ \A f \in Varying(W) : Atom(f) \in U <=> f \in w
               /\ \A a \in forms.oneofs : ReadsOneof("GC", a, Stated(forms) \cup U)
  <2>1. atoms(w) \in SUBSET Uncertain("GC", forms)
    BY <1>4
  <2>2. \A f \in Varying(W) : Atom(f) \in atoms(w) <=> f \in w
    BY Symbols
  <2> DEFINE M == Stated(forms) \cup atoms(w)
  <2>3. M \cap {Atom(f) : f \in Varying(W)} = atoms(w)
    <3>1. Stated(forms) = {Atom(f) : f \in CommonTrue(W)}
      BY <1>1, StatedUnits
    <3>2. Stated(forms) \cap {Atom(f) : f \in Varying(W)} = {}
      BY <3>1, Split, Symbols
    <3> QED
      BY <3>2
  <2>4. ReadsAlternative("GC", alts, TrueIn(w, W), M)
    <3> HIDE DEF M
    <3> QED
      BY <1>5, <2>3
  <2>5. ASSUME NEW v \in W, ReadsAlternative("GC", alts, TrueIn(v, W), M)
        PROVE  TrueIn(v, W) = TrueIn(w, W)
    <3>1. atoms(v) = atoms(w)
      <4> HIDE DEF M
      <4> QED
        BY <1>5, <2>3, <2>5
    <3>2. v \cap Varying(W) = w \cap Varying(W)
      BY <3>1, Symbols
    <3> QED
      BY <3>2 DEF TrueIn
  <2>6. ReadsOneof("GC", alts, M)
    <3> HIDE DEF M
    <3>1. \A b \in alts : ReadsAlternative("GC", alts, b, M) => b = TrueIn(w, W)
      BY <2>5 DEF alts
    <3>2. TrueIn(w, W) \in alts
      BY DEF alts
    <3> QED
      BY <1>6, <2>4, <3>1, <3>2, OneRead
  <2> QED
    BY <1>1, <2>1, <2>2, <2>6
<1>9. \A f \in CommonFalse(W) : Atom(f) \notin Uncertain("GC", forms)
  BY <1>4, Split, Symbols
<1>10. Projected("GC", forms) = W
  <2>1. \A M : /\ \A a \in forms.oneofs : ReadsOneof("GC", a, M)
               /\ \A clause \in forms.ors : \E l \in clause : LiteralTrue(l, M)
               => \E w \in W : \A f \in Varying(W) : Atom(f) \in M <=> f \in w
    BY <1>7
  <2>2. \A w \in W : \E U \in SUBSET Uncertain("GC", forms) :
          /\ \A f \in Varying(W) : Atom(f) \in U <=> f \in w
          /\ \A a \in forms.oneofs : ReadsOneof("GC", a, Stated(forms) \cup U)
          /\ \A clause \in forms.ors : \E l \in clause : LiteralTrue(l, Stated(forms) \cup U)
    BY <1>1, <1>8
  <2> QED
    BY <1>1, <1>9, <2>1, <2>2, Denotes
<1> QED
  BY <1>10 DEF forms

\* The literal that gives an atom its value in a world.
Sign(x, f, w) == IF f \in w THEN Pos(x) ELSE Neg(x)

\* The emitters write it as a symbol and a truth value.
LEMMA Signed ==
  ASSUME NEW x, NEW f, NEW w
  PROVE  <<x, f \in w>> = Sign(x, f, w)
<1>1. CASE f \in w
  <2>1. (f \in w) = TRUE
   BY <1>1
  <2> QED
    BY <1>1, <2>1 DEF Pos, Sign
<1>2. CASE f \notin w
  <2>1. (f \in w) = FALSE
   BY <1>2
  <2> QED
    BY <1>2, <2>1 DEF Neg, Sign
<1> QED BY <1>1, <1>2

\* A signed literal is about its atom and holds when the atom has its value.
LEMMA SignTrue ==
  /\ \A x, f, w : Sign(x, f, w)[1] = x
  /\ \A x, f, w, M : LiteralTrue(Sign(x, f, w), M) <=> (x \in M <=> f \in w)
BY Literals DEF Sign

\* An alternative of GCPCES signs every varying atom.
LEMMA SignedInIs ==
  ASSUME NEW W, NEW w
  PROVE  SignedIn(w, W) = {Sign(Atom(f), f, w) : f \in Varying(W)}
<1> DEFINE lit(f) == <<Atom(f), f \in w>>
<1>1. SignedIn(w, W) = {lit(f) : f \in Varying(W)}
  BY Zenon DEF SignedIn
<1>2. \A f : lit(f) = Sign(Atom(f), f, w)
  BY Signed, Zenon
<1> HIDE DEF lit
<1> QED BY <1>1, <1>2

\* The clauses: a selector implies the value its world gives a varying atom.
LEMMA SelectorClausesAre ==
  ASSUME NEW W, NEW clause
  PROVE  clause \in SelectorClauses(W) <=>
           \E w \in W, f \in Varying(W) : clause = {Neg(Sel(w)), Sign(Atom(f), f, w)}
<1> DEFINE lit(f, w) == <<Atom(f), f \in w>>
<1>1. clause \in SelectorClauses(W) <=>
        \E w \in W, f \in Varying(W) : clause = {Neg(Sel(w)), lit(f, w)}
  BY DEF SelectorClauses
<1>2. \A f, w : lit(f, w) = Sign(Atom(f), f, w)
  BY Signed, Zenon
<1> HIDE DEF lit
<1> QED
  BY <1>1, <1>2

\* A front-end other than GC's reads an alternative of one literal as that literal.
LEMMA ReadsUnit ==
  ASSUME NEW profile, profile # "GC", NEW alts, NEW x, NEW M
  PROVE  ReadsAlternative(profile, alts, {Pos(x)}, M) <=> x \in M
<1>1. ReadsAlternative(profile, alts, {Pos(x)}, M) <=> LiteralTrue(Pos(x), M)
  BY DEF ReadsAlternative
<1> QED
  BY <1>1, Literals

\* GCPCES: every alternative decides every varying atom.
LEMMA GcpcesExact ==
  ASSUME NEW W \in SUBSET (SUBSET Mapped), W # {}, IsFiniteSet(W), TemplateTrue \subseteq CommonTrue(W)
  PROVE  Projected("GCPCES", GcpcesForms(W)) = W
<1> DEFINE forms == GcpcesForms(W)
           alts == {SignedIn(w, W) : w \in W}
           varying == {Atom(f) : f \in Varying(W)}
<1>1. /\ forms.units = Units(W, TRUE) /\ forms.unknown = {}
      /\ forms.oneofs = {alts} /\ forms.ors = {}
  BY DEF GcpcesForms, Forms
<1>2. \A w : SignedIn(w, W) = {Sign(Atom(f), f, w) : f \in Varying(W)}
  BY SignedInIs
<1>3. Members(alts) = varying
  <2>1. ASSUME NEW x \in Members(alts) PROVE x \in varying
    <3>1. PICK w \in W : \E l \in SignedIn(w, W) : x = l[1]
      BY DEF Members
    <3>2. PICK f \in Varying(W) : x = Sign(Atom(f), f, w)[1]
      BY <1>2, <3>1
    <3> QED
      BY <3>2, SignTrue
  <2>2. ASSUME NEW f \in Varying(W) PROVE Atom(f) \in Members(alts)
    <3>1. PICK w \in W : TRUE
      OBVIOUS
    <3>2. Sign(Atom(f), f, w) \in UNION alts
      BY <1>2
    <3>3. Sign(Atom(f), f, w)[1] = Atom(f)
      BY SignTrue
    <3> QED
      BY <3>2, <3>3 DEF Members
  <2> QED
    BY <2>1, <2>2
<1>4. Uncertain("GCPCES", forms) = varying
  BY <1>1, <1>3 DEF Uncertain, OneofMembers
<1>5. \A w, M : ReadsAlternative("GCPCES", alts, SignedIn(w, W), M) <=>
                  \A f \in Varying(W) : Atom(f) \in M <=> f \in w
  <2> SUFFICES ASSUME NEW w, NEW M
               PROVE  ReadsAlternative("GCPCES", alts, SignedIn(w, W), M) <=>
                        \A f \in Varying(W) : Atom(f) \in M <=> f \in w
    OBVIOUS
  <2>1. ReadsAlternative("GCPCES", alts, SignedIn(w, W), M) <=>
          \A l \in SignedIn(w, W) : LiteralTrue(l, M)
    BY DEF ReadsAlternative
  <2>2. \A f : LiteralTrue(Sign(Atom(f), f, w), M) <=> (Atom(f) \in M <=> f \in w)
    BY SignTrue
  <2> QED
    BY <1>2, <2>1, <2>2
<1>6. IsFiniteSet(alts)
  <2> DEFINE image == [w \in W |-> SignedIn(w, W)]
  <2>1. image \in Surjection(W, alts)
    BY DEF Surjection
  <2> HIDE DEF image, alts
  <2> QED
    BY <2>1, FS_Surjection
<1> HIDE DEF forms, alts, varying
<1>7. ASSUME NEW M, \A a \in forms.oneofs : ReadsOneof("GCPCES", a, M)
      PROVE  \E w \in W : \A f \in Varying(W) : Atom(f) \in M <=> f \in w
  <2>1. PICK a \in alts : ReadsAlternative("GCPCES", alts, a, M)
    BY <1>1, <1>6, <1>7, OneRead
  <2>2. PICK w \in W : a = SignedIn(w, W)
    BY DEF alts
  <2> QED
    BY <1>5, <2>1, <2>2
<1>8. ASSUME NEW w \in W
      PROVE  \E U \in SUBSET Uncertain("GCPCES", forms) :
               /\ \A f \in Varying(W) : Atom(f) \in U <=> f \in w
               /\ \A a \in forms.oneofs : ReadsOneof("GCPCES", a, Stated(forms) \cup U)
  <2> DEFINE U == {Atom(f) : f \in w \cap Varying(W)}
             M == Stated(forms) \cup U
  <2>1. U \in SUBSET Uncertain("GCPCES", forms)
    BY <1>4 DEF varying
  <2>2. \A f \in Varying(W) : Atom(f) \in U <=> f \in w
    BY Symbols
  <2>3. \A f \in Varying(W) : Atom(f) \in M <=> f \in w
    <3>1. Stated(forms) = {Atom(f) : f \in CommonTrue(W)}
      BY <1>1, StatedUnits
    <3> QED
      BY <2>2, <3>1, Split, Symbols
  <2> HIDE DEF U, M
  <2>4. ReadsAlternative("GCPCES", alts, SignedIn(w, W), M)
    BY <1>5, <2>3
  <2>5. ASSUME NEW v \in W, ReadsAlternative("GCPCES", alts, SignedIn(v, W), M)
        PROVE  SignedIn(v, W) = SignedIn(w, W)
    <3>1. \A f \in Varying(W) : (f \in v) = (f \in w)
      BY <1>5, <2>3, <2>5
    <3>2. \A f \in Varying(W) : Sign(Atom(f), f, v) = Sign(Atom(f), f, w)
      BY <3>1 DEF Sign
    <3> QED
      BY <1>2, <3>2
  <2>6. ReadsOneof("GCPCES", alts, M)
    <3>1. \A b \in alts : ReadsAlternative("GCPCES", alts, b, M) => b = SignedIn(w, W)
      BY <2>5 DEF alts
    <3>2. SignedIn(w, W) \in alts
      BY DEF alts
    <3> QED
      BY <1>6, <2>4, <3>1, <3>2, OneRead
  <2> QED
    BY <1>1, <2>1, <2>2, <2>6 DEF M
<1>9. \A f \in CommonFalse(W) : Atom(f) \notin Uncertain("GCPCES", forms)
  BY <1>4, Split, Symbols DEF varying
<1>10. Projected("GCPCES", forms) = W
  <2>1. \A M : /\ \A a \in forms.oneofs : ReadsOneof("GCPCES", a, M)
               /\ \A clause \in forms.ors : \E l \in clause : LiteralTrue(l, M)
               => \E w \in W : \A f \in Varying(W) : Atom(f) \in M <=> f \in w
    BY <1>7
  <2>2. \A w \in W : \E U \in SUBSET Uncertain("GCPCES", forms) :
          /\ \A f \in Varying(W) : Atom(f) \in U <=> f \in w
          /\ \A a \in forms.oneofs : ReadsOneof("GCPCES", a, Stated(forms) \cup U)
          /\ \A clause \in forms.ors : \E l \in clause : LiteralTrue(l, Stated(forms) \cup U)
    BY <1>1, <1>8
  <2> QED
    BY <1>1, <1>9, <2>1, <2>2, Denotes
<1> QED
  BY <1>10 DEF forms

\* The selectors: exactly one is true, and its world is what the clauses decide.
LEMMA SelectorsSound ==
  ASSUME NEW W \in SUBSET (SUBSET Mapped), IsFiniteSet(W), NEW profile, profile # "GC", NEW M,
         ReadsOneof(profile, SelectorOneof(W), M),
         \A clause \in SelectorClauses(W) : \E l \in clause : LiteralTrue(l, M)
  PROVE  \E w \in W : \A f \in Varying(W) : Atom(f) \in M <=> f \in w
<1>1. IsFiniteSet(SelectorOneof(W))
  <2> DEFINE image == [w \in W |-> {Pos(Sel(w))}]
  <2>1. image \in Surjection(W, SelectorOneof(W))
    BY DEF Surjection, SelectorOneof
  <2> HIDE DEF image
  <2> QED
    BY <2>1, FS_Surjection
<1>2. PICK a \in SelectorOneof(W) : ReadsAlternative(profile, SelectorOneof(W), a, M)
  BY <1>1, OneRead
<1>3. PICK w \in W : a = {Pos(Sel(w))}
  BY DEF SelectorOneof
<1>4. Sel(w) \in M
  BY <1>2, <1>3, ReadsUnit
<1>5. ASSUME NEW f \in Varying(W) PROVE Atom(f) \in M <=> f \in w
  <2>1. {Neg(Sel(w)), Sign(Atom(f), f, w)} \in SelectorClauses(W)
    BY SelectorClausesAre
  <2>2. LiteralTrue(Neg(Sel(w)), M) \/ LiteralTrue(Sign(Atom(f), f, w), M)
    BY <2>1
  <2> QED
    BY <1>4, <2>2, Literals, SignTrue
<1> QED
  BY <1>5

\* The selector of a world, with the atoms true in it, satisfies them all.
LEMMA SelectorsComplete ==
  ASSUME NEW W \in SUBSET (SUBSET Mapped), IsFiniteSet(W), NEW profile, profile # "GC", NEW w \in W, NEW M,
         \A v \in W : Sel(v) \in M <=> v = w,
         \A f \in Varying(W) : Atom(f) \in M <=> f \in w
  PROVE  /\ ReadsOneof(profile, SelectorOneof(W), M)
         /\ \A clause \in SelectorClauses(W) : \E l \in clause : LiteralTrue(l, M)
<1>1. IsFiniteSet(SelectorOneof(W))
  <2> DEFINE image == [v \in W |-> {Pos(Sel(v))}]
  <2>1. image \in Surjection(W, SelectorOneof(W))
    BY DEF Surjection, SelectorOneof
  <2> HIDE DEF image
  <2> QED
    BY <2>1, FS_Surjection
<1>2. ReadsOneof(profile, SelectorOneof(W), M)
  <2>1. \A v \in W : ReadsAlternative(profile, SelectorOneof(W), {Pos(Sel(v))}, M) <=> v = w
    BY ReadsUnit
  <2>2. {Pos(Sel(w))} \in SelectorOneof(W)
    BY DEF SelectorOneof
  <2>3. \A b \in SelectorOneof(W) :
          ReadsAlternative(profile, SelectorOneof(W), b, M) => b = {Pos(Sel(w))}
    BY <2>1 DEF SelectorOneof
  <2>4. ReadsAlternative(profile, SelectorOneof(W), {Pos(Sel(w))}, M)
    BY <2>1
  <2> QED
    BY <1>1, <2>2, <2>3, <2>4, OneRead
<1>3. ASSUME NEW clause \in SelectorClauses(W) PROVE \E l \in clause : LiteralTrue(l, M)
  <2>1. PICK v \in W, f \in Varying(W) : clause = {Neg(Sel(v)), Sign(Atom(f), f, v)}
    BY SelectorClausesAre
  <2>2. CASE v = w
    <3>1. LiteralTrue(Sign(Atom(f), f, v), M)
      BY <2>2, SignTrue
    <3> QED
      BY <2>1, <3>1
  <2>3. CASE v # w
    <3>1. LiteralTrue(Neg(Sel(v)), M)
      BY <2>3, Literals
    <3> QED
      BY <2>1, <3>1
  <2> QED
    BY <2>2, <2>3
<1> QED
  BY <1>2, <1>3

\* A set of two things is finite.
LEMMA PairFinite ==
  ASSUME NEW a, NEW b
  PROVE  IsFiniteSet({a, b})
<1> DEFINE S == {a}
<1>1. IsFiniteSet(S)
  BY FS_Singleton
<1>2. {a, b} = S \cup {b}
  OBVIOUS
<1> HIDE DEF S
<1>3. IsFiniteSet(S \cup {b})
  BY <1>1, FS_AddElement
<1> QED
  BY <1>2, <1>3

\* The symbols of the selector oneof.
LEMMA SelectorMembers ==
  ASSUME NEW W
  PROVE  Members(SelectorOneof(W)) = {Sel(w) : w \in W}
<1>1. ASSUME NEW x \in Members(SelectorOneof(W)) PROVE \E w \in W : x = Sel(w)
  <2>1. PICK w \in W : x = Pos(Sel(w))[1]
    BY DEF Members, SelectorOneof
  <2> QED
    BY <2>1, Literals
<1>2. ASSUME NEW w \in W PROVE Sel(w) \in Members(SelectorOneof(W))
  <2>1. Pos(Sel(w)) \in UNION SelectorOneof(W)
    BY DEF SelectorOneof
  <2> QED
    BY <2>1, Literals DEF Members
<1> QED
  BY <1>1, <1>2

\* The symbols of the clauses: the selectors and the varying atoms.
LEMMA ClauseMembers ==
  ASSUME NEW W, W # {}
  PROVE  /\ \A l \in UNION SelectorClauses(W) :
              l[1] \in {Sel(w) : w \in W} \cup {Atom(f) : f \in Varying(W)}
         /\ \A f \in Varying(W) : \E l \in UNION SelectorClauses(W) : l[1] = Atom(f)
<1>1. ASSUME NEW l \in UNION SelectorClauses(W)
      PROVE  l[1] \in {Sel(w) : w \in W} \cup {Atom(f) : f \in Varying(W)}
  <2>1. PICK clause \in SelectorClauses(W) : l \in clause
    OBVIOUS
  <2>2. PICK w \in W, f \in Varying(W) : clause = {Neg(Sel(w)), Sign(Atom(f), f, w)}
    BY SelectorClausesAre
  <2> QED
    BY <2>1, <2>2, Literals, SignTrue
<1>2. ASSUME NEW f \in Varying(W)
      PROVE  \E l \in UNION SelectorClauses(W) : l[1] = Atom(f)
  <2>1. PICK w \in W : TRUE
    OBVIOUS
  <2>2. {Neg(Sel(w)), Sign(Atom(f), f, w)} \in SelectorClauses(W)
    BY SelectorClausesAre
  <2>3. Sign(Atom(f), f, w) \in UNION SelectorClauses(W)
    BY <2>2
  <2> QED
    BY <2>3, SignTrue
<1> QED
  BY <1>1, <1>2

\* CPA and CPA(H): selectors and clauses.
LEMMA CpaExact ==
  ASSUME NEW W \in SUBSET (SUBSET Mapped), W # {}, IsFiniteSet(W), TemplateTrue \subseteq CommonTrue(W),
         NEW profile \in {"CPA", "CPAH"}
  PROVE  Projected(profile, CpaForms(W, profile = "CPAH")) = W
<1> DEFINE forms == CpaForms(W, profile = "CPAH")
           sels == {Sel(w) : w \in W}
           varying == {Atom(f) : f \in Varying(W)}
<1>1. /\ forms.units = Units(W, TRUE)
      /\ forms.unknown = IF profile = "CPAH" THEN varying ELSE {}
      /\ forms.oneofs = {SelectorOneof(W)} /\ forms.ors = SelectorClauses(W)
  BY DEF CpaForms, Forms
<1> HIDE DEF forms
<1>2. Uncertain(profile, forms) = sels \cup varying
  <2>1. OneofMembers(forms) = sels
    BY <1>1, SelectorMembers DEF OneofMembers
  <2>2. OrMembers(forms) \subseteq sels \cup varying /\ varying \subseteq OrMembers(forms)
    <3>1. OrMembers(forms) = {l[1] : l \in UNION SelectorClauses(W)}
      BY <1>1 DEF OrMembers
    <3> QED
      BY <3>1, ClauseMembers
  <2> QED
    BY <1>1, <2>1, <2>2 DEF Uncertain
<1>3. \A f \in CommonFalse(W) : Atom(f) \notin Uncertain(profile, forms)
  BY <1>2, Split, Symbols
<1>4. \A M : /\ \A a \in forms.oneofs : ReadsOneof(profile, a, M)
             /\ \A clause \in forms.ors : \E l \in clause : LiteralTrue(l, M)
             => \E w \in W : \A f \in Varying(W) : Atom(f) \in M <=> f \in w
  <2>1. profile # "GC"
    OBVIOUS
  <2> QED
    BY <1>1, <2>1, SelectorsSound
<1>5. ASSUME NEW w \in W
      PROVE  \E U \in SUBSET Uncertain(profile, forms) :
               /\ \A f \in Varying(W) : Atom(f) \in U <=> f \in w
               /\ \A a \in forms.oneofs : ReadsOneof(profile, a, Stated(forms) \cup U)
               /\ \A clause \in forms.ors : \E l \in clause : LiteralTrue(l, Stated(forms) \cup U)
  <2> DEFINE U == {Sel(w)} \cup {Atom(f) : f \in w \cap Varying(W)}
             M == Stated(forms) \cup U
  <2>1. U \in SUBSET Uncertain(profile, forms)
    BY <1>2
  <2>2. \A f \in Varying(W) : Atom(f) \in U <=> f \in w
    BY Symbols
  <2>3. Stated(forms) = {Atom(f) : f \in CommonTrue(W)}
    BY <1>1, StatedUnits
  <2>4. \A f \in Varying(W) : Atom(f) \in M <=> f \in w
    BY <2>2, <2>3, Split, Symbols
  <2>5. \A v \in W : Sel(v) \in M <=> v = w
    BY <2>3, Symbols
  <2>6. profile # "GC"
    OBVIOUS
  <2> HIDE DEF U, M
  <2>7. /\ ReadsOneof(profile, SelectorOneof(W), M)
        /\ \A clause \in SelectorClauses(W) : \E l \in clause : LiteralTrue(l, M)
    BY <2>4, <2>5, <2>6, SelectorsComplete
  <2> QED
    BY <1>1, <2>1, <2>2, <2>7 DEF M
<1>6. Projected(profile, forms) = W
  BY <1>1, <1>3, <1>4, <1>5, Denotes
<1> QED
  BY <1>6 DEF forms

\* iCPCES: selectors and clauses, and a complement for every varying atom.
LEMMA IcpcesExact ==
  ASSUME NEW W \in SUBSET (SUBSET Mapped), W # {}, IsFiniteSet(W), TemplateTrue \subseteq CommonTrue(W)
  PROVE  Projected("ICPCES", IcpcesForms(W)) = W
<1> DEFINE forms == IcpcesForms(W)
           sels == {Sel(w) : w \in W}
           varying == {Atom(f) : f \in Varying(W)}
           complements == {Complement(f) : f \in Varying(W)}
           binary(f) == {{Pos(Atom(f))}, {Pos(Complement(f))}}
<1>1. /\ forms.units = Units(W, TRUE) /\ forms.unknown = {}
      /\ forms.oneofs = {SelectorOneof(W)} \cup {binary(f) : f \in Varying(W)}
      /\ forms.ors = SelectorClauses(W)
  BY DEF IcpcesForms, Forms
<1> HIDE DEF forms
<1>2. Uncertain("ICPCES", forms) = sels \cup varying \cup complements
  <2>1. Members(SelectorOneof(W)) = sels
    BY SelectorMembers
  <2>2. \A f : Members(binary(f)) = {Atom(f), Complement(f)}
    <3> SUFFICES ASSUME NEW f PROVE Members(binary(f)) = {Atom(f), Complement(f)}
      OBVIOUS
    <3>1. UNION binary(f) = {Pos(Atom(f)), Pos(Complement(f))}
      OBVIOUS
    <3> QED
      BY <3>1, Literals DEF Members
  <2> HIDE DEF binary
  <2>3. OneofMembers(forms) = sels \cup UNION {Members(binary(f)) : f \in Varying(W)}
    BY <1>1, <2>1 DEF OneofMembers
  <2>4. OneofMembers(forms) = sels \cup varying \cup complements
    BY <2>2, <2>3
  <2> QED
    BY <2>4 DEF Uncertain
<1>3. \A f \in CommonFalse(W) : Atom(f) \notin Uncertain("ICPCES", forms)
  BY <1>2, Split, Symbols
<1>4. \A M : /\ \A a \in forms.oneofs : ReadsOneof("ICPCES", a, M)
             /\ \A clause \in forms.ors : \E l \in clause : LiteralTrue(l, M)
             => \E w \in W : \A f \in Varying(W) : Atom(f) \in M <=> f \in w
  <2>1. SelectorOneof(W) \in forms.oneofs
    BY <1>1
  <2> QED
    BY <1>1, <2>1, SelectorsSound
<1>5. ASSUME NEW w \in W
      PROVE  \E U \in SUBSET Uncertain("ICPCES", forms) :
               /\ \A f \in Varying(W) : Atom(f) \in U <=> f \in w
               /\ \A a \in forms.oneofs : ReadsOneof("ICPCES", a, Stated(forms) \cup U)
               /\ \A clause \in forms.ors : \E l \in clause : LiteralTrue(l, Stated(forms) \cup U)
  <2> DEFINE U == {Sel(w)} \cup {Atom(f) : f \in w \cap Varying(W)}
                           \cup {Complement(f) : f \in Varying(W) \ w}
             M == Stated(forms) \cup U
  <2>1. U \in SUBSET Uncertain("ICPCES", forms)
    BY <1>2
  <2>2. \A f \in Varying(W) : Atom(f) \in U <=> f \in w
    BY Symbols
  <2>3. Stated(forms) = {Atom(f) : f \in CommonTrue(W)}
    BY <1>1, StatedUnits
  <2>4. \A f \in Varying(W) : Atom(f) \in M <=> f \in w
    BY <2>2, <2>3, Split, Symbols
  <2>5. \A v \in W : Sel(v) \in M <=> v = w
    BY <2>3, Symbols
  <2>6. \A f \in Varying(W) : Complement(f) \in M <=> f \notin w
    BY <2>3, Symbols
  <2> HIDE DEF U, M
  <2>7. /\ ReadsOneof("ICPCES", SelectorOneof(W), M)
        /\ \A clause \in SelectorClauses(W) : \E l \in clause : LiteralTrue(l, M)
    <3>1. "ICPCES" # "GC"
      OBVIOUS
    <3> HIDE DEF binary
    <3> QED
      BY <2>4, <2>5, <3>1, SelectorsComplete
  <2>8. ASSUME NEW f \in Varying(W) PROVE ReadsOneof("ICPCES", binary(f), M)
    <3>1. IsFiniteSet(binary(f))
      BY PairFinite
    <3>2. /\ ReadsAlternative("ICPCES", binary(f), {Pos(Atom(f))}, M) <=> f \in w
          /\ ReadsAlternative("ICPCES", binary(f), {Pos(Complement(f))}, M) <=> f \notin w
      BY <2>4, <2>6, ReadsUnit
    <3> QED
      BY <3>1, <3>2, OneRead
  <2>9. /\ \A a \in forms.oneofs : ReadsOneof("ICPCES", a, M)
        /\ \A clause \in forms.ors : \E l \in clause : LiteralTrue(l, M)
    <3> HIDE DEF binary
    <3> QED
      BY <1>1, <2>7, <2>8
  <2> QED
    BY <2>1, <2>2, <2>9 DEF M
<1>6. Projected("ICPCES", forms) = W
  BY <1>1, <1>3, <1>4, <1>5, Denotes
<1> QED
  BY <1>6 DEF forms

\* The states of a store and their worlds are finitely many.
LEMMA StoredFinite ==
  ASSUME NEW st \in Store
  PROVE  /\ IsFiniteSet(Stored(st)) /\ Stored(st) \subseteq States
         /\ IsFiniteSet(VisibleWorlds(st)) /\ VisibleWorlds(st) \in SUBSET (SUBSET Mapped)
         /\ st # <<>> => st[1].state \in Stored(st)
<1>1. Len(st) \in Nat /\ DOMAIN st = 1..Len(st)
  BY DEF Store
<1>2. IsFiniteSet(Stored(st))
  <2> DEFINE image == [i \in 1..Len(st) |-> st[i].state]
  <2>1. image \in Surjection(1..Len(st), Stored(st))
    BY <1>1 DEF Surjection, Stored
  <2>2. IsFiniteSet(1..Len(st))
    BY <1>1, FS_Interval
  <2> HIDE DEF image
  <2> QED
    BY <2>1, <2>2, FS_Surjection
<1>3. IsFiniteSet(VisibleWorlds(st))
  <2> DEFINE image == [s \in Stored(st) |-> View(s)]
  <2>1. image \in Surjection(Stored(st), VisibleWorlds(st))
    BY DEF Surjection, VisibleWorlds
  <2> HIDE DEF image
  <2> QED
    BY <1>2, <2>1, FS_Surjection
<1>4. VisibleWorlds(st) \in SUBSET (SUBSET Mapped)
  BY DEF VisibleWorlds, View
<1>5. Stored(st) \subseteq States
  <2>1. \A i \in 1..Len(st) : st[i] \in Entry
    BY DEF Store
  <2> QED
    BY <1>1, <2>1 DEF Stored, Entry
<1>6. st # <<>> => st[1].state \in Stored(st)
  BY DEF Stored, Store
<1> QED
  BY <1>2, <1>3, <1>4, <1>5, <1>6

\* The template's atoms are true in every stored state.
LEMMA TemplateHolds ==
  ASSUME NEW s, Certain(s)
  PROVE  TemplateTrue \subseteq View(s)
BY MappedAreFacts DEF MappedAreFacts, TemplateTrue, View, Certain

\* The worlds a mode encodes.
LEMMA EncodedWorlds ==
  ASSUME NEW st \in Store, st # <<>>, \A s \in Stored(st) : Certain(s), NEW mode
  PROVE  LET W == Encoded(mode, st)
         IN  /\ W \in SUBSET (SUBSET Mapped) /\ W # {} /\ IsFiniteSet(W)
             /\ TemplateTrue \subseteq CommonTrue(W)
             /\ W \subseteq VisibleWorlds(st)
<1> DEFINE W == Encoded(mode, st)
<1>1. st[1].state \in Stored(st) /\ VisibleWorlds(st) \in SUBSET (SUBSET Mapped)
      /\ IsFiniteSet(VisibleWorlds(st))
  BY StoredFinite
<1>2. View(st[1].state) \in VisibleWorlds(st)
  BY <1>1 DEF VisibleWorlds
<1>3. W \subseteq VisibleWorlds(st) /\ W # {}
  BY <1>2 DEF Encoded
<1>4. IsFiniteSet(W)
  BY <1>1, <1>3, FS_Subset
<1>5. \A w \in VisibleWorlds(st) : TemplateTrue \subseteq w
  BY TemplateHolds DEF VisibleWorlds
<1>6. TemplateTrue \subseteq CommonTrue(W)
  <2>1. TemplateTrue \subseteq Mapped
    BY DEF TemplateTrue
  <2> HIDE DEF W
  <2> QED
    BY <1>3, <1>5, <2>1 DEF CommonTrue
<1> QED
  BY <1>1, <1>3, <1>4, <1>6

\* Whatever convention a profile works around (closed world, declared unknowns,
\* omission, selectors, complements), what its front-end reads in the refined
\* problem is exactly the set of stored worlds it can see, in single mode the
\* first of them (RefinedProblemWriter::write and its emitters).
THEOREM ProfilesAreExact ==
  ASSUME NEW st \in Store, \A s \in Stored(st) : Certain(s),
         NEW profile \in Profiles, NEW mode \in {"single", "exact"},
         RenderStatus(profile, mode, st) = "OK"
  PROVE  Projected(profile, RenderForms(profile, mode, st)) = Encoded(mode, st)
<1> DEFINE W == Encoded(mode, st)
<1>1. st # <<>>
  BY DEF RenderStatus
<1>2. /\ W \in SUBSET (SUBSET Mapped) /\ W # {} /\ IsFiniteSet(W)
      /\ TemplateTrue \subseteq CommonTrue(W)
  BY <1>1, EncodedWorlds
<1>3. mode = "exact" => profile # "T1"
  BY DEF RenderStatus
<1>4. RenderForms(profile, mode, st) =
        IF mode = "single" THEN SingleWorldForms(W, profile) ELSE ExactForms(W, profile)
  BY DEF RenderForms
<1>5. mode = "single" => \E w : W = {w}
  BY DEF Encoded
<1> HIDE DEF W
<1>6. CASE \E w : W = {w}
  <2>1. Projected(profile, SingleWorldForms(W, profile)) = W
    BY <1>2, <1>6, SingleExact
  <2>2. Cardinality(W) = 1
    BY <1>2, <1>6, FS_Singleton
  <2>3. ExactForms(W, profile) = SingleWorldForms(W, profile)
    BY <2>2 DEF ExactForms
  <2> QED
    BY <1>4, <2>1, <2>3 DEF W
<1>7. CASE ~(\E w : W = {w})
  <2>1. Cardinality(W) # 1
    BY <1>2, <1>7, FS_Singleton
  <2>2. profile \in {"GC", "GCPCES", "ICPCES", "CPA", "CPAH"} /\ mode = "exact"
    BY <1>3, <1>5, <1>7 DEF Profiles
  <2>3. RenderForms(profile, mode, st) = ExactForms(W, profile)
    BY <1>4, <2>2
  <2>4. CASE profile = "GC"
    <3>1. ExactForms(W, profile) = GcForms(W)
      BY <2>1, <2>4 DEF ExactForms
    <3> QED
      BY <1>2, <2>3, <2>4, <3>1, GcExact DEF W
  <2>5. CASE profile = "GCPCES"
    <3>1. ExactForms(W, profile) = GcpcesForms(W)
      BY <2>1, <2>5 DEF ExactForms
    <3> QED
      BY <1>2, <2>3, <2>5, <3>1, GcpcesExact DEF W
  <2>6. CASE profile = "ICPCES"
    <3>1. ExactForms(W, profile) = IcpcesForms(W)
      BY <2>1, <2>6 DEF ExactForms
    <3> QED
      BY <1>2, <2>3, <2>6, <3>1, IcpcesExact DEF W
  <2>7. CASE profile \in {"CPA", "CPAH"}
    <3>1. ExactForms(W, profile) = CpaForms(W, profile = "CPAH")
      BY <2>1, <2>7 DEF ExactForms
    <3>2. Projected(profile, CpaForms(W, profile = "CPAH")) = W
      BY <1>2, <2>7, CpaExact
    <3> QED
      BY <2>3, <3>1, <3>2 DEF W
  <2> QED
    BY <2>2, <2>4, <2>5, <2>6, <2>7
<1> QED
  BY <1>6, <1>7

-----------------------------------------------------------------------------
(* The T1 product.                                                         *)

\* The literals of the groups.
SasLiterals == [var : Vars, val : Nat, positive : BOOLEAN]

\* The groups are sequences of finite alternatives.
LEMMA GroupShape ==
  ASSUME NEW i \in DOMAIN Groups
  PROVE  /\ Groups[i].kind \in {"OR", "ONEOF"}
         /\ DOMAIN Groups[i].alts \subseteq Nat /\ IsFiniteSet(DOMAIN Groups[i].alts)
         /\ \E n \in Nat : DOMAIN Groups[i].alts = 1..n
         /\ \A k \in DOMAIN Groups[i].alts :
              IsFiniteSet(Groups[i].alts[k]) /\ Groups[i].alts[k] \subseteq SasLiterals
<1> DEFINE AnyGroup == [kind : {"OR", "ONEOF"}, alts : Seq(SUBSET SasLiterals)]
<1>1. Groups \in Seq(AnyGroup)
  BY GroupsAreConstraints DEF GroupsAreConstraints, SasLiterals
<1>2. Groups[i] \in AnyGroup
  <2> HIDE DEF AnyGroup
  <2> QED
    BY <1>1
<1>3. Groups[i].kind \in {"OR", "ONEOF"} /\ Groups[i].alts \in Seq(SUBSET SasLiterals)
  BY <1>2
<1> DEFINE alts == Groups[i].alts
<1> HIDE DEF AnyGroup
<1>4. PICK n \in Nat : DOMAIN alts = 1..n
  <2>1. Len(alts) \in Nat /\ DOMAIN alts = 1..Len(alts)
    BY <1>3
  <2> QED
    BY <2>1
<1>5. IsFiniteSet(1..n)
  BY FS_Interval
<1>6. \A k \in DOMAIN alts : alts[k] \in SUBSET SasLiterals
  BY <1>3
<1>7. \A k \in DOMAIN alts : IsFiniteSet(alts[k])
  BY AlternativesAreFinite DEF AlternativesAreFinite
<1> QED
  BY <1>3, <1>4, <1>5, <1>6, <1>7

\* No error means that every status is "OK".
LEMMA FirstErrorOk ==
  ASSUME NEW D, D \subseteq Nat, NEW T, NEW sts \in [D -> T], FirstError(sts) = "OK"
  PROVE  \A i \in D : sts[i] = "OK"
<1> DEFINE bad == {i \in DOMAIN sts : sts[i] # "OK"}
<1>1. CASE bad = {}
  BY <1>1
<1>2. CASE bad # {}
  <2>1. bad \subseteq Nat
    OBVIOUS
  <2>2. Least(bad) \in bad
    BY <1>2, <2>1, LeastIsLeast
  <2>3. FirstError(sts) = sts[Least(bad)]
    BY <1>2 DEF FirstError
  <2> QED
    BY <2>2, <2>3
<1> QED
  BY <1>1, <1>2

\* An alternative the T1 emitter can read is one literal of a mapped fact.
LEMMA AlternativeOk ==
  ASSUME NEW alt, IsFiniteSet(alt), NEW needPositive \in BOOLEAN,
         AlternativeStatus(alt, needPositive) = "OK"
  PROVE  \E lit : /\ alt = {lit} /\ Fact(lit) \in Mapped
                  /\ needPositive => lit.positive
<1>1. Cardinality(alt) = 1
  BY DEF AlternativeStatus
<1>2. PICK lit : alt = {lit}
  BY <1>1, FS_Singleton
<1>3. Only(alt) = lit
  BY <1>2 DEF Only
<1> QED
  BY <1>2, <1>3 DEF AlternativeStatus

\* Whether a mapped literal holds in a state can be seen.
LEMMA LiteralSeen ==
  ASSUME NEW lit \in SasLiterals, Fact(lit) \in Mapped
  PROVE  \A s : AlternativeHolds({lit}, s) <=> (Fact(lit) \in View(s) <=> lit.positive)
<1> SUFFICES ASSUME NEW s
             PROVE  AlternativeHolds({lit}, s) <=> (Fact(lit) \in View(s) <=> lit.positive)
  OBVIOUS
<1>1. Fact(lit)[1] = lit.var /\ Fact(lit)[2] = lit.val
  BY DEF Fact
<1>2. Fact(lit) \in View(s) <=> s[lit.var] = lit.val
  BY <1>1 DEF View
<1>3. lit.positive \in BOOLEAN
  BY DEF SasLiterals
<1> QED
  BY <1>2, <1>3 DEF AlternativeHolds

\* A ONEOF of a structured problem.
LEMMA OneofOk ==
  ASSUME NEW W \in SUBSET (SUBSET Mapped), NEW i \in DOMAIN Groups, Groups[i].kind = "ONEOF",
         OneofStatus(Groups[i], W) = "OK"
  PROVE  /\ \A k \in DOMAIN Groups[i].alts :
              \E lit \in SasLiterals : /\ Groups[i].alts[k] = {lit} /\ Fact(lit) \in Mapped
                                     /\ lit.positive
         /\ \/ FixedTrueAlts(Groups[i], W) = {}
            \/ /\ \E k \in DOMAIN Groups[i].alts : FixedTrueAlts(Groups[i], W) = {k}
               /\ VaryingAlts(Groups[i], W) = {}
<1> DEFINE g == Groups[i]
           sts == [k \in DOMAIN g.alts |-> AlternativeStatus(g.alts[k], TRUE)]
           ones == FixedTrueAlts(g, W)
           open == VaryingAlts(g, W)
<1>1. DOMAIN g.alts \subseteq Nat /\ IsFiniteSet(DOMAIN g.alts)
  BY GroupShape
<1>2. FirstError(sts) = "OK"
  BY DEF OneofStatus
<1>3. \A k \in DOMAIN g.alts : AlternativeStatus(g.alts[k], TRUE) = "OK"
  <2>1. sts \in [DOMAIN g.alts -> WriterStatuses]
    BY DEF AlternativeStatus, WriterStatuses
  <2>2. \A k \in DOMAIN g.alts : sts[k] = "OK"
    <3> HIDE DEF sts, g
    <3> QED
      BY <1>1, <1>2, <2>1, FirstErrorOk
  <2> QED
    BY <2>2
<1>4. \A k \in DOMAIN g.alts :
        \E lit \in SasLiterals : /\ g.alts[k] = {lit} /\ Fact(lit) \in Mapped /\ lit.positive
  <2> SUFFICES ASSUME NEW k \in DOMAIN g.alts
               PROVE  \E lit \in SasLiterals : g.alts[k] = {lit} /\ Fact(lit) \in Mapped /\ lit.positive
    OBVIOUS
  <2>1. PICK lit : g.alts[k] = {lit} /\ Fact(lit) \in Mapped /\ lit.positive
    BY <1>3, GroupShape, AlternativeOk
  <2>2. lit \in SasLiterals
    BY <2>1, GroupShape
  <2> QED
    BY <2>1, <2>2
<1>5. ~(Cardinality(ones) > 1) /\ ~(Cardinality(ones) = 1 /\ open # {})
  BY <1>2 DEF OneofStatus
<1>6. IsFiniteSet(ones) /\ Cardinality(ones) \in Nat
  <2>1. ones \in SUBSET (DOMAIN g.alts)
    BY DEF FixedTrueAlts
  <2> QED
    BY <1>1, <2>1, FS_Subset, FS_CardinalityType
<1>7. CASE Cardinality(ones) = 0
  BY <1>4, <1>6, <1>7, FS_EmptySet
<1>8. CASE Cardinality(ones) = 1
  <2>1. \E k : ones = {k}
    BY <1>6, <1>8, FS_Singleton
  <2>2. \E k \in DOMAIN g.alts : ones = {k}
    BY <2>1 DEF FixedTrueAlts
  <2> QED
    BY <1>4, <1>5, <1>8, <2>2
<1> QED
  BY <1>5, <1>6, <1>7, <1>8

\* An OR of a structured problem: either one alternative is settled by a fact all
\* worlds share, or all of them are single mapped literals.
LEMMA OrOk ==
  ASSUME NEW W \in SUBSET (SUBSET Mapped), NEW i \in DOMAIN Groups,
         OrStatus(Groups[i], W) = "OK"
  PROVE  /\ FixedTrueAlts(Groups[i], W) # {} =>
              \E k \in FixedTrueAlts(Groups[i], W), lit \in SasLiterals :
                 Groups[i].alts[k] = {lit} /\ Fact(lit) \in Mapped
         /\ FixedTrueAlts(Groups[i], W) = {} =>
              \A k \in DOMAIN Groups[i].alts : \E lit \in SasLiterals :
                 Groups[i].alts[k] = {lit} /\ Fact(lit) \in Mapped
<1> DEFINE g == Groups[i]
           ones == FixedTrueAlts(g, W)
           read == IF ones = {} THEN DOMAIN g.alts ELSE 1..Least(ones)
           sts == [k \in read |-> AlternativeStatus(g.alts[k], FALSE)]
<1>1. FirstError(sts) = "OK"
  BY DEF OrStatus
<1>2. ones \subseteq DOMAIN g.alts /\ DOMAIN g.alts \subseteq Nat
  BY GroupShape DEF FixedTrueAlts
<1>3. ones # {} => Least(ones) \in ones
  BY <1>2, LeastIsLeast
<1>4. read \subseteq Nat
  BY <1>2, <1>3
<1>5. \A k \in read : AlternativeStatus(g.alts[k], FALSE) = "OK"
  <2>1. sts \in [read -> WriterStatuses]
    BY DEF AlternativeStatus, WriterStatuses
  <2>2. \A k \in read : sts[k] = "OK"
    <3> HIDE DEF sts, read
    <3> QED
      BY <1>1, <1>4, <2>1, FirstErrorOk
  <2> QED
    BY <2>2
<1>6. \A k \in DOMAIN g.alts : AlternativeStatus(g.alts[k], FALSE) = "OK" =>
        \E lit \in SasLiterals : g.alts[k] = {lit} /\ Fact(lit) \in Mapped
  <2> SUFFICES ASSUME NEW k \in DOMAIN g.alts, AlternativeStatus(g.alts[k], FALSE) = "OK"
               PROVE  \E lit \in SasLiterals : g.alts[k] = {lit} /\ Fact(lit) \in Mapped
    OBVIOUS
  <2>1. PICK lit : g.alts[k] = {lit} /\ Fact(lit) \in Mapped
    <3>1. IsFiniteSet(g.alts[k])
      BY GroupShape
    <3> QED
      BY <3>1, AlternativeOk, Zenon
  <2>2. lit \in SasLiterals
    BY <2>1, GroupShape
  <2> QED
    BY <2>1, <2>2
<1>7. ones # {} => Least(ones) \in read
  <2>1. PICK n \in Nat : DOMAIN g.alts = 1..n
    BY GroupShape
  <2> QED
    BY <1>2, <1>3, <2>1
<1> QED
  BY <1>2, <1>3, <1>5, <1>6, <1>7

\* The literal of an alternative that has only one, its fact and its sign.
AltFact(i, k) == Fact(Only(Groups[i].alts[k]))
AltSign(i, k) == Only(Groups[i].alts[k]).positive

\* One alternative of one mapped literal.
LEMMA SingleAlternative ==
  ASSUME NEW W \in SUBSET (SUBSET Mapped), W # {}, NEW i \in DOMAIN Groups, NEW k \in DOMAIN Groups[i].alts,
         NEW lit \in SasLiterals, Groups[i].alts[k] = {lit}, Fact(lit) \in Mapped
  PROVE  /\ Only(Groups[i].alts[k]) = lit /\ AltFact(i, k) = Fact(lit)
         /\ AltSign(i, k) = lit.positive /\ AltSign(i, k) \in BOOLEAN
         /\ \A s : AlternativeHolds(Groups[i].alts[k], s) <=> (AltFact(i, k) \in View(s) <=> AltSign(i, k))
         /\ k \in VaryingAlts(Groups[i], W) <=> AltFact(i, k) \in Varying(W)
         /\ k \in FixedTrueAlts(Groups[i], W) <=>
              AltFact(i, k) \in IF AltSign(i, k) THEN CommonTrue(W) ELSE CommonFalse(W)
<1>1. Only(Groups[i].alts[k]) = lit
  BY DEF Only
<1>2. AltFact(i, k) = Fact(lit) /\ AltSign(i, k) = lit.positive
  BY <1>1 DEF AltFact, AltSign
<1>3. lit.positive \in BOOLEAN
  BY DEF SasLiterals
<1>4. \A s : AlternativeHolds(Groups[i].alts[k], s) <=> (AltFact(i, k) \in View(s) <=> AltSign(i, k))
  BY <1>2, LiteralSeen
<1>5. k \in VaryingAlts(Groups[i], W) <=> AltFact(i, k) \in Varying(W)
  BY <1>2 DEF VaryingAlts
<1>6. k \in FixedTrueAlts(Groups[i], W) <=>
        AltFact(i, k) \in IF AltSign(i, k) THEN CommonTrue(W) ELSE CommonFalse(W)
  BY <1>2 DEF FixedTrueAlts
<1> QED
  BY <1>1, <1>2, <1>3, <1>4, <1>5, <1>6

\* A ONEOF of a structured problem, in terms of the facts of its alternatives.
LEMMA OneofFacts ==
  ASSUME NEW W \in SUBSET (SUBSET Mapped), W # {}, NEW i \in DOMAIN Groups, Groups[i].kind = "ONEOF",
         OneofStatus(Groups[i], W) = "OK"
  PROVE  /\ \A k \in DOMAIN Groups[i].alts :
              /\ AltFact(i, k) \in Mapped
              /\ \A s : AlternativeHolds(Groups[i].alts[k], s) <=> AltFact(i, k) \in View(s)
              /\ k \in VaryingAlts(Groups[i], W) <=> AltFact(i, k) \in Varying(W)
              /\ k \in FixedTrueAlts(Groups[i], W) <=> AltFact(i, k) \in CommonTrue(W)
         /\ {{l} : l \in OpenLiterals(i, W)} =
              {{Pos(Atom(AltFact(i, k)))} : k \in VaryingAlts(Groups[i], W)}
         /\ IsFiniteSet({{l} : l \in OpenLiterals(i, W)})
<1> DEFINE g == Groups[i]
           open == VaryingAlts(g, W)
           alts == {{l} : l \in OpenLiterals(i, W)}
<1>1. ASSUME NEW k \in DOMAIN g.alts
      PROVE  /\ AltFact(i, k) \in Mapped
             /\ g.alts[k] = {Only(g.alts[k])} /\ AltSign(i, k) = TRUE
             /\ \A s : AlternativeHolds(g.alts[k], s) <=> AltFact(i, k) \in View(s)
             /\ k \in open <=> AltFact(i, k) \in Varying(W)
             /\ k \in FixedTrueAlts(g, W) <=> AltFact(i, k) \in CommonTrue(W)
  <2>1. PICK lit \in SasLiterals : g.alts[k] = {lit} /\ Fact(lit) \in Mapped /\ lit.positive
    BY OneofOk
  <2>2. lit.positive = TRUE
    BY <2>1 DEF SasLiterals
  <2>3. /\ Only(g.alts[k]) = lit /\ AltFact(i, k) = Fact(lit) /\ AltSign(i, k) = lit.positive
        /\ \A s : AlternativeHolds(g.alts[k], s) <=> (AltFact(i, k) \in View(s) <=> AltSign(i, k))
        /\ k \in open <=> AltFact(i, k) \in Varying(W)
        /\ k \in FixedTrueAlts(g, W) <=>
             AltFact(i, k) \in IF AltSign(i, k) THEN CommonTrue(W) ELSE CommonFalse(W)
    <3>1. g.alts[k] = {lit} /\ Fact(lit) \in Mapped
      BY <2>1
    <3>2. Only(g.alts[k]) = lit /\ AltFact(i, k) = Fact(lit) /\ AltSign(i, k) = lit.positive
      BY <3>1 DEF Only, AltFact, AltSign
    <3>3. /\ \A s : AlternativeHolds(g.alts[k], s) <=> (AltFact(i, k) \in View(s) <=> AltSign(i, k))
          /\ k \in open <=> AltFact(i, k) \in Varying(W)
      BY <3>1, SingleAlternative
    <3>4. k \in FixedTrueAlts(g, W) <=>
            AltFact(i, k) \in IF AltSign(i, k) THEN CommonTrue(W) ELSE CommonFalse(W)
      BY <3>1, SingleAlternative
    <3> QED
      BY <3>2, <3>3, <3>4
  <2>4. AltSign(i, k) = TRUE
    BY <2>2, <2>3
  <2> HIDE DEF open, g
  <2> QED
    BY <2>1, <2>3, <2>4
<1>2. open \subseteq DOMAIN g.alts
  BY DEF VaryingAlts
<1>3. OpenLiterals(i, W) = {Pos(Atom(AltFact(i, k))) : k \in open}
  <2>1. ASSUME NEW l \in OpenLiterals(i, W) PROVE \E k \in open : l = Pos(Atom(AltFact(i, k)))
    <3>1. PICK k \in open : \E lit \in g.alts[k] : l = <<Atom(Fact(lit)), lit.positive>>
      BY DEF OpenLiterals
    <3>2. l = <<Atom(AltFact(i, k)), AltSign(i, k)>>
      BY <1>1, <1>2, <3>1 DEF AltFact, AltSign
    <3> QED
      BY <1>1, <1>2, <3>2 DEF Pos
  <2>2. ASSUME NEW k \in open PROVE Pos(Atom(AltFact(i, k))) \in OpenLiterals(i, W)
    <3>1. Only(g.alts[k]) \in g.alts[k]
      <4>1. g.alts[k] = {Only(g.alts[k])}
        BY <1>1, <1>2, Zenon
      <4> QED
        BY <4>1
    <3>2. <<Atom(AltFact(i, k)), AltSign(i, k)>> \in OpenLiterals(i, W)
      BY <3>1 DEF OpenLiterals, AltFact, AltSign, VaryingAlts
    <3> QED
      BY <1>1, <1>2, <3>2 DEF Pos
  <2> QED
    BY <2>1, <2>2
<1>4. alts = {{Pos(Atom(AltFact(i, k)))} : k \in open}
  BY <1>3
<1>5. IsFiniteSet(alts)
  <2> DEFINE image == [k \in open |-> {Pos(Atom(AltFact(i, k)))}]
  <2>1. image \in Surjection(open, alts)
    BY <1>4 DEF Surjection
  <2>2. IsFiniteSet(open)
    BY <1>2, GroupShape, FS_Subset
  <2> HIDE DEF image, alts, open
  <2> QED
    BY <2>1, <2>2, FS_Surjection
<1> QED
  BY <1>1, <1>4, <1>5

\* An OR of a structured problem that no fact settles.
LEMMA OrFacts ==
  ASSUME NEW W \in SUBSET (SUBSET Mapped), W # {}, NEW i \in DOMAIN Groups,
         OrStatus(Groups[i], W) = "OK", FixedTrueAlts(Groups[i], W) = {}
  PROVE  /\ \A k \in DOMAIN Groups[i].alts :
              /\ AltFact(i, k) \in Mapped /\ AltSign(i, k) \in BOOLEAN
              /\ \A s : AlternativeHolds(Groups[i].alts[k], s) <=> (AltFact(i, k) \in View(s) <=> AltSign(i, k))
              /\ k \in VaryingAlts(Groups[i], W) <=> AltFact(i, k) \in Varying(W)
              /\ AltFact(i, k) \notin IF AltSign(i, k) THEN CommonTrue(W) ELSE CommonFalse(W)
         /\ \A l : l \in OpenLiterals(i, W) <=>
              \E k \in VaryingAlts(Groups[i], W) : l = <<Atom(AltFact(i, k)), AltSign(i, k)>>
<1> DEFINE g == Groups[i]
           open == VaryingAlts(g, W)
<1>1. ASSUME NEW k \in DOMAIN g.alts
      PROVE  /\ AltFact(i, k) \in Mapped /\ AltSign(i, k) \in BOOLEAN
             /\ g.alts[k] = {Only(g.alts[k])}
             /\ \A s : AlternativeHolds(g.alts[k], s) <=> (AltFact(i, k) \in View(s) <=> AltSign(i, k))
             /\ k \in open <=> AltFact(i, k) \in Varying(W)
             /\ AltFact(i, k) \notin IF AltSign(i, k) THEN CommonTrue(W) ELSE CommonFalse(W)
  <2>1. PICK lit \in SasLiterals : g.alts[k] = {lit} /\ Fact(lit) \in Mapped
    BY OrOk
  <2> QED
    BY <2>1, SingleAlternative
<1>2. open \subseteq DOMAIN g.alts
  BY DEF VaryingAlts
<1>3. ASSUME NEW l \in OpenLiterals(i, W)
      PROVE  \E k \in open : l = <<Atom(AltFact(i, k)), AltSign(i, k)>>
  <2>1. PICK k \in open : \E lit \in g.alts[k] : l = <<Atom(Fact(lit)), lit.positive>>
    BY DEF OpenLiterals
  <2> QED
    BY <1>1, <1>2, <2>1 DEF AltFact, AltSign
<1>4. ASSUME NEW k \in open
      PROVE  <<Atom(AltFact(i, k)), AltSign(i, k)>> \in OpenLiterals(i, W)
  <2>1. Only(g.alts[k]) \in UNION {g.alts[j] : j \in open}
    BY <1>1, <1>2
  <2> QED
    BY <2>1 DEF OpenLiterals, AltFact, AltSign
<1> QED
  BY <1>1, <1>3, <1>4

\* When the T1 emitter succeeds, every group has been read without an error.
LEMMA GroupsOk ==
  ASSUME NEW W, StructuredStatus(W) = "OK", NEW i \in DOMAIN Groups
  PROVE  GroupStatus(Groups[i], W) = "OK"
<1> DEFINE sts == [j \in DOMAIN Groups |-> GroupStatus(Groups[j], W)]
<1>1. DOMAIN Groups \subseteq Nat
  BY GroupsAreConstraints DEF GroupsAreConstraints
<1>2. \A j \in DOMAIN Groups : GroupStatus(Groups[j], W) \in WriterStatuses
  BY GroupShape, OneofStatusType, OrStatusType DEF GroupStatus
<1>3. sts \in [DOMAIN Groups -> WriterStatuses]
  BY <1>2
<1>4. FirstError(sts) = "OK"
  BY DEF StructuredStatus
<1>5. \A j \in DOMAIN Groups : sts[j] = "OK"
  <2> HIDE DEF sts
  <2> QED
    BY <1>1, <1>3, <1>4, FirstErrorOk
<1> QED
  BY <1>5

\* How a front-end reads the groups that are still open, given the true atoms.
LEMMA OpenOneofRead ==
  ASSUME NEW W \in SUBSET (SUBSET Mapped), W # {}, StructuredStatus(W) = "OK",
         NEW i \in Open("ONEOF", W), NEW v \in SUBSET Mapped, v \cap CommonFalse(W) = {}
  PROVE  ReadsOneof("T1", {{l} : l \in OpenLiterals(i, W)}, {Atom(f) : f \in v}) <=>
           \E k \in DOMAIN Groups[i].alts :
             /\ AltFact(i, k) \in v
             /\ \A j \in DOMAIN Groups[i].alts : AltFact(i, j) \in v => AltFact(i, j) = AltFact(i, k)
<1> DEFINE open == VaryingAlts(Groups[i], W)
           alts == {{l} : l \in OpenLiterals(i, W)}
           M == {Atom(f) : f \in v}
<1>1. i \in DOMAIN Groups /\ Groups[i].kind = "ONEOF" /\ FixedTrueAlts(Groups[i], W) = {}
  BY DEF Open
<1>2. OneofStatus(Groups[i], W) = "OK"
  BY <1>1, GroupsOk DEF GroupStatus
<1>3. /\ \A k \in DOMAIN Groups[i].alts :
           /\ AltFact(i, k) \in Mapped
           /\ k \in open <=> AltFact(i, k) \in Varying(W)
           /\ AltFact(i, k) \notin CommonTrue(W)
      /\ alts = {{Pos(Atom(AltFact(i, k)))} : k \in open}
      /\ IsFiniteSet(alts)
      /\ open \subseteq DOMAIN Groups[i].alts
  BY <1>1, <1>2, OneofFacts DEF VaryingAlts
<1>4. \A k \in DOMAIN Groups[i].alts : AltFact(i, k) \in v => k \in open
  BY <1>3, Split
<1> HIDE DEF alts, open
<1>5. \A f : Atom(f) \in M <=> f \in v
  BY Symbols
<1> HIDE DEF M
<1>6. \A k : ReadsAlternative("T1", alts, {Pos(Atom(AltFact(i, k)))}, M) <=> AltFact(i, k) \in v
  BY <1>5, ReadsUnit
<1>7. \A k, j : {Pos(Atom(AltFact(i, k)))} = {Pos(Atom(AltFact(i, j)))} <=> AltFact(i, k) = AltFact(i, j)
  <2> DEFINE p(k) == Pos(Atom(AltFact(i, k)))
  <2>1. \A k, j : p(k) = p(j) => AltFact(i, k) = AltFact(i, j)
    BY Symbols, Literals
  <2>2. \A k, j : AltFact(i, k) = AltFact(i, j) => p(k) = p(j)
    OBVIOUS
  <2> HIDE DEF p
  <2>3. \A k, j : {p(k)} = {p(j)} <=> AltFact(i, k) = AltFact(i, j)
    BY <2>1, <2>2
  <2> QED
    BY <2>3 DEF p
<1>8. ReadsOneof("T1", alts, M) <=>
        \E a \in alts : /\ ReadsAlternative("T1", alts, a, M)
                        /\ \A b \in alts : ReadsAlternative("T1", alts, b, M) => b = a
  <2>1. IsFiniteSet(alts)
    BY <1>3
  <2> QED
    BY <2>1, OneRead, Zenon
<1>9. ReadsOneof("T1", alts, M) <=>
        \E k \in open : /\ AltFact(i, k) \in v
                        /\ \A j \in open : AltFact(i, j) \in v => AltFact(i, j) = AltFact(i, k)
  <2>1. ASSUME ReadsOneof("T1", alts, M)
        PROVE  \E k \in open : /\ AltFact(i, k) \in v
                               /\ \A j \in open : AltFact(i, j) \in v => AltFact(i, j) = AltFact(i, k)
    <3>1. PICK a \in alts : /\ ReadsAlternative("T1", alts, a, M)
                            /\ \A b \in alts : ReadsAlternative("T1", alts, b, M) => b = a
      BY <1>8, <2>1
    <3>2. PICK k \in open : a = {Pos(Atom(AltFact(i, k)))}
      BY <1>3
    <3>3. \A j \in open : {Pos(Atom(AltFact(i, j)))} \in alts
      BY <1>3
    <3> QED
      BY <1>6, <1>7, <3>1, <3>2, <3>3
  <2>2. ASSUME NEW k \in open, AltFact(i, k) \in v,
               \A j \in open : AltFact(i, j) \in v => AltFact(i, j) = AltFact(i, k)
        PROVE  ReadsOneof("T1", alts, M)
    <3>1. {Pos(Atom(AltFact(i, k)))} \in alts
      BY <1>3
    <3>2. \A b \in alts : ReadsAlternative("T1", alts, b, M) => b = {Pos(Atom(AltFact(i, k)))}
      BY <1>3, <1>6, <1>7, <2>2
    <3> QED
      BY <1>6, <1>8, <2>2, <3>1, <3>2
  <2> QED
    BY <2>1, <2>2
<1> QED
  BY <1>3, <1>4, <1>9 DEF alts, M

\* How it reads an open OR: some literal holds.
LEMMA OpenOrRead ==
  ASSUME NEW W \in SUBSET (SUBSET Mapped), W # {}, StructuredStatus(W) = "OK",
         NEW i \in Open("OR", W), NEW v \in SUBSET Mapped,
         CommonTrue(W) \subseteq v, v \cap CommonFalse(W) = {}
  PROVE  (\E l \in OpenLiterals(i, W) : LiteralTrue(l, {Atom(f) : f \in v})) <=>
           \E k \in DOMAIN Groups[i].alts : AltFact(i, k) \in v <=> AltSign(i, k)
<1> DEFINE open == VaryingAlts(Groups[i], W)
           M == {Atom(f) : f \in v}
<1>1. i \in DOMAIN Groups /\ Groups[i].kind = "OR" /\ FixedTrueAlts(Groups[i], W) = {}
  BY DEF Open
<1>2. OrStatus(Groups[i], W) = "OK"
  BY <1>1, GroupsOk DEF GroupStatus
<1>3. /\ \A k \in DOMAIN Groups[i].alts :
           /\ AltFact(i, k) \in Mapped /\ AltSign(i, k) \in BOOLEAN
           /\ k \in open <=> AltFact(i, k) \in Varying(W)
           /\ AltFact(i, k) \notin IF AltSign(i, k) THEN CommonTrue(W) ELSE CommonFalse(W)
      /\ \A l : l \in OpenLiterals(i, W) <=> \E k \in open : l = <<Atom(AltFact(i, k)), AltSign(i, k)>>
      /\ open \subseteq DOMAIN Groups[i].alts
  BY <1>1, <1>2, OrFacts DEF VaryingAlts
<1> HIDE DEF open
<1>4. \A k \in DOMAIN Groups[i].alts : (AltFact(i, k) \in v <=> AltSign(i, k)) => k \in open
  BY <1>3, Split
<1>5. \A f : Atom(f) \in M <=> f \in v
  BY Symbols
<1> HIDE DEF M
<1>6. \A k \in DOMAIN Groups[i].alts :
        LiteralTrue(<<Atom(AltFact(i, k)), AltSign(i, k)>>, M) <=> (AltFact(i, k) \in v <=> AltSign(i, k))
  BY <1>3, <1>5, Literals
<1> QED
  BY <1>3, <1>4, <1>6 DEF M

\* What the T1 product denotes, group by group.
LEMMA StructuredDenotes ==
  ASSUME NEW W \in SUBSET (SUBSET Mapped), W # {}, TemplateTrue \subseteq CommonTrue(W), NEW v
  PROVE  v \in Projected("T1", T1Forms(W)) <=>
           /\ v \in SUBSET Mapped /\ CommonTrue(W) \subseteq v /\ v \cap CommonFalse(W) = {}
           /\ \A i \in Open("ONEOF", W) :
                ReadsOneof("T1", {{l} : l \in OpenLiterals(i, W)}, {Atom(f) : f \in v})
           /\ \A i \in Open("OR", W) :
                \E l \in OpenLiterals(i, W) : LiteralTrue(l, {Atom(f) : f \in v})
<1> DEFINE forms == T1Forms(W)
           unknown == {Atom(f) : f \in Varying(W)}
           stated == {Atom(f) : f \in CommonTrue(W)}
           oneof(i) == {{l} : l \in OpenLiterals(i, W)}
<1>1. /\ forms.units = Units(W, FALSE)
      /\ forms.oneofs = {oneof(i) : i \in Open("ONEOF", W)}
      /\ forms.ors = {OpenLiterals(i, W) : i \in Open("OR", W)}
      /\ Uncertain("T1", forms) = unknown
  BY DEF T1Forms, Forms, Uncertain
<1>2. Stated(forms) = stated
  BY <1>1, StatedUnits
<1>3. forms.units = {Pos(Atom(f)) : f \in CommonTrue(W)}
  <2>1. TemplateTrue \cup CommonTrue(W) = CommonTrue(W)
    OBVIOUS
  <2> QED
    BY <1>1, <2>1 DEF Units
<1> HIDE DEF forms
<1> DEFINE Reads(M) == /\ \A i \in Open("ONEOF", W) : ReadsOneof("T1", oneof(i), M)
                       /\ \A i \in Open("OR", W) : \E l \in OpenLiterals(i, W) : LiteralTrue(l, M)
<1>4. \A M : /\ \A alts \in forms.oneofs : ReadsOneof("T1", alts, M)
             /\ \A clause \in forms.ors : \E l \in clause : LiteralTrue(l, M)
             <=> Reads(M)
  BY <1>1
<1>5. stated \cap unknown = {}
  BY Split, Symbols
<1>6. ASSUME NEW U \in SUBSET unknown
      PROVE  /\ \A l \in forms.units : LiteralTrue(l, stated \cup U)
             /\ \A u : u = {f \in Mapped : Atom(f) \in stated \cup U} =>
                  /\ stated \cup U = {Atom(f) : f \in u}
                  /\ CommonTrue(W) \subseteq u /\ u \cap CommonFalse(W) = {}
  <2> DEFINE u == {f \in Mapped : Atom(f) \in stated \cup U}
  <2>1. \A l \in forms.units : LiteralTrue(l, stated \cup U)
    BY <1>3, Literals
  <2>2. CommonTrue(W) \subseteq Mapped /\ Varying(W) \subseteq Mapped
    BY DEF CommonTrue, Varying
  <2>3. CommonTrue(W) \subseteq u
    BY <2>2
  <2>4. u \cap CommonFalse(W) = {}
    BY Split, Symbols
  <2>5. stated \cup U = {Atom(f) : f \in u}
    BY <2>2
  <2> QED
    BY <2>1, <2>3, <2>4, <2>5
<1>7. ASSUME v \in Projected("T1", forms)
      PROVE  /\ v \in SUBSET Mapped /\ CommonTrue(W) \subseteq v /\ v \cap CommonFalse(W) = {}
             /\ Reads({Atom(f) : f \in v})
  <2>1. PICK M \in InitialStates("T1", forms) : v = {f \in Mapped : Atom(f) \in M}
    BY <1>7 DEF Projected
  <2>2. PICK U \in SUBSET (unknown \ stated) : M = stated \cup U
    BY <1>1, <1>2 DEF InitialStates
  <2>3. U \in SUBSET unknown
    OBVIOUS
  <2>4. /\ M = {Atom(f) : f \in v}
        /\ CommonTrue(W) \subseteq v /\ v \cap CommonFalse(W) = {}
    <3> DEFINE X == {f \in Mapped : Atom(f) \in stated \cup U}
    <3>1. v = X
      BY <2>1, <2>2
    <3>2. /\ stated \cup U = {Atom(f) : f \in X}
          /\ CommonTrue(W) \subseteq X /\ X \cap CommonFalse(W) = {}
      BY <1>6, <2>3, Zenon
    <3> HIDE DEF X, stated
    <3> QED
      BY <2>2, <3>1, <3>2
  <2>5. Reads(M)
    <3> HIDE DEF Reads
    <3> QED
      BY <1>4 DEF InitialStates
  <2> HIDE DEF Reads
  <2> QED
    BY <2>1, <2>4, <2>5
<1>8. ASSUME v \in SUBSET Mapped, CommonTrue(W) \subseteq v, v \cap CommonFalse(W) = {},
             Reads({Atom(f) : f \in v})
      PROVE  v \in Projected("T1", forms)
  <2> DEFINE U == {Atom(f) : f \in v \cap Varying(W)}
             M == stated \cup U
  <2>1. U \in SUBSET unknown /\ U \in SUBSET (unknown \ stated)
    BY <1>5
  <2>2. M = {Atom(f) : f \in v}
    BY <1>8, Split
  <2>3. {f \in Mapped : Atom(f) \in M} = v
    BY <1>8, <2>2, Symbols
  <2>4. \A l \in forms.units : LiteralTrue(l, M)
    BY <1>6, <2>1
  <2>5. Reads(M)
    <3> HIDE DEF Reads, M
    <3> QED
      BY <1>8, <2>2
  <2>6. M \in InitialStates("T1", forms)
    <3>1. M \in {Stated(forms) \cup X : X \in SUBSET (Uncertain("T1", forms) \ Stated(forms))}
      BY <1>1, <1>2, <2>1
    <3>2. /\ \A alts \in forms.oneofs : ReadsOneof("T1", alts, M)
          /\ \A clause \in forms.ors : \E l \in clause : LiteralTrue(l, M)
      <4> HIDE DEF M, Reads
      <4> QED
        BY <1>4, <2>5
    <3> HIDE DEF M
    <3> QED
      BY <2>4, <3>1, <3>2 DEF InitialStates
  <2> HIDE DEF M
  <2> QED
    BY <2>3, <2>6 DEF Projected
<1> HIDE DEF Reads
<1>9. v \in Projected("T1", forms) <=>
        /\ v \in SUBSET Mapped /\ CommonTrue(W) \subseteq v /\ v \cap CommonFalse(W) = {}
        /\ Reads({Atom(f) : f \in v})
  BY <1>7, <1>8
<1> QED
  BY <1>9 DEF forms, Reads

\* What can be seen of the states of S.
Seen(S) == {View(s) : s \in S}

\* The visible worlds of initial states.
LEMMA SeenWorlds ==
  ASSUME NEW S \in SUBSET Belief, S # {}
  PROVE  /\ Seen(S) \in SUBSET (SUBSET Mapped) /\ Seen(S) # {}
         /\ TemplateTrue \subseteq CommonTrue(Seen(S))
         /\ \A s \in S : /\ View(s) \in Seen(S)
                         /\ CommonTrue(Seen(S)) \subseteq View(s)
                         /\ View(s) \cap CommonFalse(Seen(S)) = {}
                         /\ View(s) \in SUBSET Mapped
<1>1. Seen(S) \in SUBSET (SUBSET Mapped) /\ Seen(S) # {} /\ \A s \in S : View(s) \in Seen(S)
  <2>1. \A s : View(s) \in SUBSET Mapped
    BY DEF View
  <2> QED
    BY <2>1 DEF Seen
<1>2. \A s \in S : TemplateTrue \subseteq View(s)
  BY TemplateHolds DEF Belief
<1>3. TemplateTrue \subseteq CommonTrue(Seen(S))
  <2>1. TemplateTrue \subseteq Mapped
    BY DEF TemplateTrue
  <2> QED
    BY <1>2, <2>1 DEF CommonTrue, Seen
<1>4. \A s \in S : /\ CommonTrue(Seen(S)) \subseteq View(s)
                   /\ View(s) \cap CommonFalse(Seen(S)) = {}
  BY <1>1 DEF CommonTrue, CommonFalse
<1> QED
  <2>1. \A s : View(s) \in SUBSET Mapped
    BY DEF View
  <2> QED
    BY <1>1, <1>3, <1>4, <2>1

\* The reading of a group by validate_refined.
LEMMA HoldsMeans ==
  ASSUME NEW i \in DOMAIN Groups, NEW s
  PROVE  /\ Groups[i].kind = "ONEOF" =>
              (GroupHolds(Groups[i], s) <=>
                 \E k \in DOMAIN Groups[i].alts :
                   /\ AlternativeHolds(Groups[i].alts[k], s)
                   /\ \A j \in DOMAIN Groups[i].alts : AlternativeHolds(Groups[i].alts[j], s) => j = k)
         /\ Groups[i].kind = "OR" =>
              (GroupHolds(Groups[i], s) <=>
                 \E k \in DOMAIN Groups[i].alts : AlternativeHolds(Groups[i].alts[k], s))
<1> DEFINE ks == {k \in DOMAIN Groups[i].alts : AlternativeHolds(Groups[i].alts[k], s)}
<1>1. GroupHolds(Groups[i], s) <=> ks # {} /\ (Groups[i].kind = "ONEOF" => \A j, k \in ks : j = k)
  BY DEF GroupHolds, Chosen
<1>2. \A k : k \in ks <=> k \in DOMAIN Groups[i].alts /\ AlternativeHolds(Groups[i].alts[k], s)
  OBVIOUS
<1> HIDE DEF ks
<1> QED
  BY <1>1, <1>2

\* The T1 product contains every stored initial state.
LEMMA StructuredContains ==
  ASSUME NEW S \in SUBSET Belief, StructuredStatus(Seen(S)) = "OK", NEW s \in S
  PROVE  View(s) \in Projected("T1", T1Forms(Seen(S)))
<1> DEFINE W == Seen(S)
           v == View(s)
<1>1. /\ W \in SUBSET (SUBSET Mapped) /\ W # {} /\ TemplateTrue \subseteq CommonTrue(W)
      /\ v \in SUBSET Mapped /\ CommonTrue(W) \subseteq v /\ v \cap CommonFalse(W) = {}
  BY SeenWorlds
<1>2. \A i \in DOMAIN Groups : GroupHolds(Groups[i], s)
  BY DEF Belief
<1>3. StructuredStatus(W) = "OK"
  OBVIOUS
<1> HIDE DEF W
<1>4. ASSUME NEW i \in Open("ONEOF", W)
      PROVE  ReadsOneof("T1", {{l} : l \in OpenLiterals(i, W)}, {Atom(f) : f \in v})
  <2>1. i \in DOMAIN Groups /\ Groups[i].kind = "ONEOF" /\ OneofStatus(Groups[i], W) = "OK"
    BY <1>3, GroupsOk DEF Open, GroupStatus
  <2>2. PICK k \in DOMAIN Groups[i].alts :
          /\ AlternativeHolds(Groups[i].alts[k], s)
          /\ \A j \in DOMAIN Groups[i].alts : AlternativeHolds(Groups[i].alts[j], s) => j = k
    BY <1>2, <2>1, HoldsMeans
  <2>3. \A j \in DOMAIN Groups[i].alts : AlternativeHolds(Groups[i].alts[j], s) <=> AltFact(i, j) \in v
    BY <1>1, <2>1, OneofFacts
  <2>4. /\ AltFact(i, k) \in v
        /\ \A j \in DOMAIN Groups[i].alts : AltFact(i, j) \in v => AltFact(i, j) = AltFact(i, k)
    BY <2>2, <2>3
  <2> HIDE DEF v
  <2> QED
    BY <1>1, <1>3, <2>4, OpenOneofRead
<1>5. ASSUME NEW i \in Open("OR", W)
      PROVE  \E l \in OpenLiterals(i, W) : LiteralTrue(l, {Atom(f) : f \in v})
  <2>1. i \in DOMAIN Groups /\ Groups[i].kind = "OR" /\ OrStatus(Groups[i], W) = "OK"
        /\ FixedTrueAlts(Groups[i], W) = {}
    BY <1>3, GroupsOk DEF Open, GroupStatus
  <2>2. PICK k \in DOMAIN Groups[i].alts : AlternativeHolds(Groups[i].alts[k], s)
    BY <1>2, <2>1, HoldsMeans
  <2>3. AltFact(i, k) \in v <=> AltSign(i, k)
    BY <1>1, <2>1, <2>2, OrFacts
  <2> HIDE DEF v
  <2> QED
    BY <1>1, <1>3, <2>3, OpenOrRead
<1>6. v \in Projected("T1", T1Forms(W))
  BY <1>1, <1>4, <1>5, StructuredDenotes
<1> QED
  BY <1>6 DEF W

\* What the T1 product denotes and some SAS state looks like is an initial state
\* as far as the planner can see: the variables no group mentions take their
\* original values, the others those of the SAS state.
LEMMA StructuredWithin ==
  ASSUME NEW S \in SUBSET Belief, S # {}, StructuredStatus(Seen(S)) = "OK",
         NEW t \in States, View(t) \in Projected("T1", T1Forms(Seen(S)))
  PROVE  \E s \in Belief : View(s) = View(t)
<1> DEFINE W == Seen(S)
           v == View(t)
           known == Vars \ Mentioned
           s == [x \in Vars |-> IF x \in known THEN Original[x] ELSE t[x]]
<1>1. /\ W \in SUBSET (SUBSET Mapped) /\ W # {} /\ TemplateTrue \subseteq CommonTrue(W)
      /\ \A w \in W : \E r \in S : w = View(r)
  BY SeenWorlds DEF Seen
<1>2. StructuredStatus(W) = "OK" /\ v \in Projected("T1", T1Forms(W))
  OBVIOUS
<1>3. \A r \in S : \A i \in DOMAIN Groups : GroupHolds(Groups[i], r)
  BY DEF Belief
<1>4. \A f \in Mapped : f[1] \notin Mentioned => (f \in CommonTrue(W) <=> Original[f[1]] = f[2])
  <2> SUFFICES ASSUME NEW f \in Mapped, f[1] \notin Mentioned
               PROVE  f \in CommonTrue(W) <=> Original[f[1]] = f[2]
    OBVIOUS
  <2>1. f[1] \in Vars \ Mentioned
    BY MappedAreFacts DEF MappedAreFacts
  <2>2. \A r \in S : f \in View(r) <=> Original[f[1]] = f[2]
    BY <2>1 DEF Belief, Certain, View
  <2> QED
    BY <2>2 DEF Seen, CommonTrue
<1>5. \A f \in Mapped : f[1] \notin Mentioned => f \in CommonTrue(W) \/ f \in CommonFalse(W)
  <2> SUFFICES ASSUME NEW f \in Mapped, f[1] \notin Mentioned
               PROVE  f \in CommonTrue(W) \/ f \in CommonFalse(W)
    OBVIOUS
  <2>1. f[1] \in Vars \ Mentioned
    BY MappedAreFacts DEF MappedAreFacts
  <2>2. \A r \in S : f \in View(r) <=> Original[f[1]] = f[2]
    BY <2>1 DEF Belief, Certain, View
  <2> QED
    BY <2>2 DEF Seen, CommonTrue, CommonFalse
<1> HIDE DEF W
<1> HIDE DEF v
<1>6. /\ v \in SUBSET Mapped /\ CommonTrue(W) \subseteq v /\ v \cap CommonFalse(W) = {}
      /\ \A i \in Open("ONEOF", W) :
           ReadsOneof("T1", {{l} : l \in OpenLiterals(i, W)}, {Atom(f) : f \in v})
      /\ \A i \in Open("OR", W) :
           \E l \in OpenLiterals(i, W) : LiteralTrue(l, {Atom(f) : f \in v})
  BY <1>1, <1>2, StructuredDenotes
<1>7. s \in States
  <2>1. Original \in States /\ known \in SUBSET Vars
    BY OriginalAndLastAreStates DEF OriginalAndLastAreStates
  <2> HIDE DEF known
  <2> QED
    BY <2>1, StatesAreIndependent DEF StatesAreIndependent
<1>8. \A x \in Vars : s[x] = IF x \in known THEN Original[x] ELSE t[x]
  OBVIOUS
<1> HIDE DEF s
<1>9. View(s) = v
  <2>1. ASSUME NEW f \in Mapped PROVE s[f[1]] = f[2] <=> f \in v
    <3>1. f[1] \in Vars
      BY MappedAreFacts DEF MappedAreFacts
    <3>2. CASE f[1] \in known
      BY <1>4, <1>5, <1>6, <1>8, <3>1, <3>2
    <3>3. CASE f[1] \notin known
      BY <1>8, <3>1, <3>3 DEF v, View
    <3> QED
      BY <3>2, <3>3
  <2> QED
    BY <1>6, <2>1 DEF View
<1>10. Certain(s)
  BY <1>8 DEF Certain
<1>11. ASSUME NEW i \in DOMAIN Groups, Groups[i].kind = "ONEOF" PROVE GroupHolds(Groups[i], s)
  <2>1. OneofStatus(Groups[i], W) = "OK"
    BY <1>2, <1>11, GroupsOk DEF GroupStatus
  <2>2. \A k \in DOMAIN Groups[i].alts :
          /\ AltFact(i, k) \in Mapped
          /\ \A r : AlternativeHolds(Groups[i].alts[k], r) <=> AltFact(i, k) \in View(r)
          /\ k \in VaryingAlts(Groups[i], W) <=> AltFact(i, k) \in Varying(W)
          /\ k \in FixedTrueAlts(Groups[i], W) <=> AltFact(i, k) \in CommonTrue(W)
    BY <1>1, <1>11, <2>1, OneofFacts
  <2>3. SUFFICES \E k \in DOMAIN Groups[i].alts :
                   /\ AltFact(i, k) \in v
                   /\ \A j \in DOMAIN Groups[i].alts : AltFact(i, j) \in v => j = k
    BY <1>9, <1>11, <2>2, HoldsMeans
  <2>4. CASE FixedTrueAlts(Groups[i], W) = {}
    <3>1. i \in Open("ONEOF", W)
      BY <1>11, <2>4 DEF Open
    <3>2. PICK k \in DOMAIN Groups[i].alts :
             /\ AltFact(i, k) \in v
             /\ \A j \in DOMAIN Groups[i].alts : AltFact(i, j) \in v => AltFact(i, j) = AltFact(i, k)
      BY <1>1, <1>2, <1>6, <3>1, OpenOneofRead
    <3>3. AltFact(i, k) \in Varying(W)
      BY <1>1, <1>6, <2>2, <2>4, <3>2, Split
    <3>4. PICK r \in S : AltFact(i, k) \in View(r)
      BY <1>1, <3>3, Split
    <3>5. \A j \in DOMAIN Groups[i].alts : AltFact(i, j) = AltFact(i, k) => j = k
      <4>1. PICK m \in DOMAIN Groups[i].alts :
              \A j \in DOMAIN Groups[i].alts : AlternativeHolds(Groups[i].alts[j], r) => j = m
        BY <1>3, <1>11, HoldsMeans
      <4> QED
        BY <2>2, <3>4, <4>1
    <3> QED
      BY <3>2, <3>5
  <2>5. CASE FixedTrueAlts(Groups[i], W) # {}
    <3>1. PICK k \in DOMAIN Groups[i].alts :
            FixedTrueAlts(Groups[i], W) = {k} /\ VaryingAlts(Groups[i], W) = {}
      BY <1>1, <1>11, <2>1, <2>5, OneofOk
    <3>2. AltFact(i, k) \in v
      BY <1>6, <2>2, <3>1
    <3>3. \A j \in DOMAIN Groups[i].alts : j # k => AltFact(i, j) \in CommonFalse(W)
      BY <1>1, <2>2, <3>1, Split
    <3> QED
      BY <1>6, <3>2, <3>3
  <2> QED
    BY <2>4, <2>5
<1>12. ASSUME NEW i \in DOMAIN Groups, Groups[i].kind = "OR" PROVE GroupHolds(Groups[i], s)
  <2>1. OrStatus(Groups[i], W) = "OK"
    BY <1>2, <1>12, GroupsOk DEF GroupStatus
  <2>2. SUFFICES \E k \in DOMAIN Groups[i].alts : AlternativeHolds(Groups[i].alts[k], s)
    BY <1>12, HoldsMeans
  <2>3. CASE FixedTrueAlts(Groups[i], W) = {}
    <3>1. i \in Open("OR", W)
      BY <1>12, <2>3 DEF Open
    <3>2. PICK k \in DOMAIN Groups[i].alts : AltFact(i, k) \in v <=> AltSign(i, k)
      BY <1>1, <1>2, <1>6, <3>1, OpenOrRead
    <3>3. AlternativeHolds(Groups[i].alts[k], s) <=> (AltFact(i, k) \in View(s) <=> AltSign(i, k))
      BY <1>1, <2>1, <2>3, OrFacts
    <3> QED
      BY <1>9, <3>2, <3>3
  <2>4. CASE FixedTrueAlts(Groups[i], W) # {}
    <3>1. PICK k \in FixedTrueAlts(Groups[i], W), lit \in SasLiterals :
             Groups[i].alts[k] = {lit} /\ Fact(lit) \in Mapped
      BY <1>1, <2>1, <2>4, OrOk
    <3>2. k \in DOMAIN Groups[i].alts
      BY DEF FixedTrueAlts
    <3>3. /\ AlternativeHolds(Groups[i].alts[k], s) <=> (AltFact(i, k) \in View(s) <=> AltSign(i, k))
          /\ AltFact(i, k) \in IF AltSign(i, k) THEN CommonTrue(W) ELSE CommonFalse(W)
      BY <1>1, <3>1, <3>2, SingleAlternative
    <3>4. AltFact(i, k) \in View(s) <=> AltSign(i, k)
      BY <1>6, <1>9, <3>3
    <3> QED
      BY <3>2, <3>3, <3>4
  <2> QED
    BY <2>3, <2>4
<1>13. s \in Belief
  BY <1>7, <1>10, <1>11, <1>12, GroupShape DEF Belief
<1> QED
  BY <1>9, <1>13 DEF v

\* The statuses of the alternatives a scan reads.
LEMMA ScanStatus ==
  ASSUME NEW alts, NEW needPositive, NEW D, D \subseteq Nat,
         NEW st, st = FirstError([k \in D |-> AlternativeStatus(alts[k], needPositive)])
  PROVE  /\ st \in {"OK", "UNSUPPORTED_INPUT", "MAPPING_ERROR"}
         /\ st = "OK" => \A k \in D : AlternativeStatus(alts[k], needPositive) = "OK"
<1> DEFINE sts == [k \in D |-> AlternativeStatus(alts[k], needPositive)]
           Unread == {"OK", "UNSUPPORTED_INPUT", "MAPPING_ERROR"}
<1>1. sts \in [D -> Unread] /\ "OK" \in Unread
  BY DEF AlternativeStatus
<1>2. \A k \in D : sts[k] = AlternativeStatus(alts[k], needPositive)
  OBVIOUS
<1>3. st = FirstError(sts)
  OBVIOUS
<1> HIDE DEF sts, Unread
<1>4. st \in Unread
  BY <1>1, <1>3, FirstErrorIsAStatus
<1>5. st = "OK" => \A k \in D : sts[k] = "OK"
  BY <1>1, <1>3, FirstErrorOk
<1> QED
  BY <1>2, <1>4, <1>5 DEF Unread

\* A finite set with two different members has at least two.
LEMMA AtLeastTwo ==
  ASSUME NEW X, IsFiniteSet(X), NEW a \in X, NEW b \in X, a # b
  PROVE  ~(Cardinality(X) < 2)
<1> DEFINE A == {a}
           B == A \cup {b}
<1>1. IsFiniteSet(A) /\ Cardinality(A) = 1 /\ b \notin A
  BY FS_Singleton
<1>2. B \in SUBSET X
  OBVIOUS
<1> HIDE DEF A
<1>3. Cardinality(B) = 2
  <2>1. Cardinality(A \cup {b}) = Cardinality(A) + 1
    BY <1>1, FS_AddElement
  <2> QED
    BY <1>1, <2>1
<1> HIDE DEF B
<1>4. Cardinality(B) <= Cardinality(X) /\ Cardinality(X) \in Nat
  BY <1>2, FS_Subset, FS_CardinalityType
<1> QED
  BY <1>3, <1>4

\* One alternative of a ONEOF that the T1 emitter can read.
LEMMA OneofAlternative ==
  ASSUME NEW W \in SUBSET (SUBSET Mapped), W # {}, NEW i \in DOMAIN Groups, NEW k \in DOMAIN Groups[i].alts,
         AlternativeStatus(Groups[i].alts[k], TRUE) = "OK"
  PROVE  /\ AltFact(i, k) \in Mapped
         /\ \A s : AlternativeHolds(Groups[i].alts[k], s) <=> AltFact(i, k) \in View(s)
         /\ k \in VaryingAlts(Groups[i], W) <=> AltFact(i, k) \in Varying(W)
         /\ k \in FixedTrueAlts(Groups[i], W) <=> AltFact(i, k) \in CommonTrue(W)
<1>1. PICK lit : Groups[i].alts[k] = {lit} /\ Fact(lit) \in Mapped /\ lit.positive
  BY GroupShape, AlternativeOk
<1>2. lit \in SasLiterals /\ Groups[i].alts[k] = {lit} /\ Fact(lit) \in Mapped
  BY <1>1, GroupShape
<1>3. lit.positive = TRUE
  BY <1>1, <1>2 DEF SasLiterals
<1>4. /\ AltFact(i, k) = Fact(lit) /\ AltSign(i, k) = lit.positive
      /\ \A s : AlternativeHolds(Groups[i].alts[k], s) <=> (AltFact(i, k) \in View(s) <=> AltSign(i, k))
      /\ k \in VaryingAlts(Groups[i], W) <=> AltFact(i, k) \in Varying(W)
  <2>1. AltFact(i, k) = Fact(lit) /\ AltSign(i, k) = lit.positive
    BY <1>2 DEF Only, AltFact, AltSign
  <2>2. /\ \A s : AlternativeHolds(Groups[i].alts[k], s) <=> (AltFact(i, k) \in View(s) <=> AltSign(i, k))
        /\ k \in VaryingAlts(Groups[i], W) <=> AltFact(i, k) \in Varying(W)
    BY <1>2, SingleAlternative
  <2> QED
    BY <2>1, <2>2
<1>5. k \in FixedTrueAlts(Groups[i], W) <=>
        AltFact(i, k) \in IF AltSign(i, k) THEN CommonTrue(W) ELSE CommonFalse(W)
  BY <1>2, SingleAlternative
<1>6. AltSign(i, k) = TRUE
  BY <1>3, <1>4
<1> QED
  BY <1>2, <1>4, <1>5, <1>6

\* A ONEOF never contradicts what initial states have in common: they all
\* choose one alternative, so one is common or at least two vary.
LEMMA OneofNeverContradicts ==
  ASSUME NEW S \in SUBSET Belief, S # {}, NEW i \in DOMAIN Groups, Groups[i].kind = "ONEOF"
  PROVE  OneofStatus(Groups[i], Seen(S)) # "BACKEND_ERROR"
<1> DEFINE W == Seen(S)
           g == Groups[i]
           sts == [k \in DOMAIN g.alts |-> AlternativeStatus(g.alts[k], TRUE)]
           ones == FixedTrueAlts(g, W)
           open == VaryingAlts(g, W)
           Unread == {"OK", "UNSUPPORTED_INPUT", "MAPPING_ERROR"}
<1>2. DOMAIN g.alts \subseteq Nat /\ IsFiniteSet(DOMAIN g.alts)
  BY GroupShape
<1>3. /\ FirstError(sts) \in Unread
      /\ FirstError(sts) = "OK" => \A k \in DOMAIN g.alts : AlternativeStatus(g.alts[k], TRUE) = "OK"
  BY <1>2, ScanStatus
<1>4. CASE FirstError(sts) # "OK"
  <2>1. OneofStatus(g, W) = FirstError(sts)
    BY <1>4 DEF OneofStatus
  <2> HIDE DEF sts
  <2> QED
    BY <1>3, <2>1
<1>5. CASE FirstError(sts) = "OK"
  <2>1. \A k \in DOMAIN g.alts : AlternativeStatus(g.alts[k], TRUE) = "OK"
    BY <1>3, <1>5
  <2>2. /\ W \in SUBSET (SUBSET Mapped) /\ W # {} /\ \A w \in W : \E r \in S : w = View(r)
        /\ \A r \in S : /\ CommonTrue(W) \subseteq View(r)
                        /\ View(r) \cap CommonFalse(W) = {} /\ View(r) \in W
    BY SeenWorlds DEF Seen
  <2> HIDE DEF W
  <2>3. \A k \in DOMAIN g.alts :
          /\ AltFact(i, k) \in Mapped
          /\ \A s : AlternativeHolds(g.alts[k], s) <=> AltFact(i, k) \in View(s)
          /\ k \in open <=> AltFact(i, k) \in Varying(W)
          /\ k \in ones <=> AltFact(i, k) \in CommonTrue(W)
    BY <2>1, <2>2, OneofAlternative
  <2>4. \A r \in S : \E k \in DOMAIN g.alts :
          /\ AltFact(i, k) \in View(r)
          /\ \A j \in DOMAIN g.alts : AltFact(i, j) \in View(r) => j = k
    <3>1. \A r \in S : GroupHolds(g, r)
      BY DEF Belief
    <3> QED
      BY <2>3, <3>1, HoldsMeans
  <2>5. ones \subseteq DOMAIN g.alts /\ open \subseteq DOMAIN g.alts
    BY DEF FixedTrueAlts, VaryingAlts
  <2>6. IsFiniteSet(ones) /\ IsFiniteSet(open)
    BY <1>2, <2>5, FS_Subset
  <2>7. OneofStatus(g, W) = IF \/ Cardinality(ones) > 1
                               \/ Cardinality(ones) = 1 /\ open # {}
                               \/ ones = {} /\ Cardinality(open) < 2
                            THEN "BACKEND_ERROR" ELSE "OK"
    BY <1>5 DEF OneofStatus
  <2> HIDE DEF ones, open, g, sts
  <2>8. PICK r \in S : TRUE
    OBVIOUS
  <2>9. \A j, k \in ones : j = k
    BY <2>2, <2>3, <2>4, <2>5, <2>8
  <2>10. CASE ones = {}
    <3>1. PICK k \in DOMAIN g.alts : AltFact(i, k) \in View(r)
      BY <2>4
    <3>2. AltFact(i, k) \in Varying(W)
      BY <2>2, <2>3, <2>10, <3>1, Split
    <3>3. PICK r2 \in S : AltFact(i, k) \notin View(r2)
      BY <2>2, <3>2, Split
    <3>4. PICK k2 \in DOMAIN g.alts : AltFact(i, k2) \in View(r2)
      BY <2>4
    <3>5. AltFact(i, k2) \in Varying(W)
      BY <2>2, <2>3, <2>10, <3>4, Split
    <3>6. k \in open /\ k2 \in open /\ k # k2
      BY <2>3, <3>2, <3>3, <3>4, <3>5
    <3>7. ~(Cardinality(open) < 2) /\ Cardinality(ones) = 0
      BY <2>6, <2>10, <3>6, AtLeastTwo, FS_EmptySet
    <3> QED
      BY <2>7, <2>10, <3>7 DEF W, g
  <2>11. CASE ones # {}
    <3>1. PICK k \in ones : ones = {k}
      BY <2>9, <2>11
    <3>2. Cardinality(ones) = 1
      BY <2>6, <3>1, FS_Singleton
    <3>3. ASSUME NEW j \in open PROVE FALSE
      <4>1. PICK r2 \in S : AltFact(i, j) \in View(r2)
        BY <2>2, <2>3, <2>5, Split
      <4>2. AltFact(i, k) \in View(r2)
        BY <2>2, <2>3, <2>5
      <4>3. j = k
        BY <2>4, <2>5, <4>1, <4>2
      <4> QED
        BY <2>2, <2>3, <2>5, <4>3, Split
    <3> QED
      BY <2>7, <2>11, <3>2, <3>3 DEF W, g
  <2> QED
    BY <2>10, <2>11
<1> QED
  BY <1>4, <1>5

\* Nor does an OR: what varies in it varies in two alternatives, else the states
\* would have a satisfied one in common.
LEMMA OrNeverContradicts ==
  ASSUME NEW S \in SUBSET Belief, S # {}, NEW i \in DOMAIN Groups, Groups[i].kind = "OR"
  PROVE  OrStatus(Groups[i], Seen(S)) # "BACKEND_ERROR"
<1> DEFINE W == Seen(S)
           g == Groups[i]
           ones == FixedTrueAlts(g, W)
           open == VaryingAlts(g, W)
           read == IF ones = {} THEN DOMAIN g.alts ELSE 1..Least(ones)
           sts == [k \in read |-> AlternativeStatus(g.alts[k], FALSE)]
           Unread == {"OK", "UNSUPPORTED_INPUT", "MAPPING_ERROR"}
<1>2. DOMAIN g.alts \subseteq Nat /\ IsFiniteSet(DOMAIN g.alts)
      /\ ones \subseteq DOMAIN g.alts /\ open \subseteq DOMAIN g.alts
  BY GroupShape DEF FixedTrueAlts, VaryingAlts
<1>3. read \subseteq Nat
  BY <1>2, LeastIsLeast
<1>4. /\ FirstError(sts) \in Unread
      /\ FirstError(sts) = "OK" => \A k \in read : AlternativeStatus(g.alts[k], FALSE) = "OK"
  <2> HIDE DEF read
  <2> QED
    BY <1>3, ScanStatus
<1>5. OrStatus(g, W) = IF FirstError(sts) # "OK" THEN FirstError(sts)
                       ELSE IF ones = {} /\ Cardinality(open) < 2 THEN "BACKEND_ERROR" ELSE "OK"
  BY DEF OrStatus
<1>6. CASE FirstError(sts) # "OK" \/ ones # {}
  <2> HIDE DEF sts, ones
  <2> QED
    BY <1>4, <1>5, <1>6
<1>7. CASE FirstError(sts) = "OK" /\ ones = {}
  <2>1. \A k \in DOMAIN g.alts : AlternativeStatus(g.alts[k], FALSE) = "OK"
    <3>1. read = DOMAIN g.alts
      BY <1>7
    <3> HIDE DEF read, sts
    <3> QED
      BY <1>4, <1>7, <3>1
  <2>2. /\ W \in SUBSET (SUBSET Mapped) /\ W # {} /\ \A w \in W : \E r \in S : w = View(r)
        /\ \A r \in S : /\ CommonTrue(W) \subseteq View(r)
                        /\ View(r) \cap CommonFalse(W) = {} /\ View(r) \in W
    BY SeenWorlds DEF Seen
  <2>3. \A r \in S : GroupHolds(g, r)
    BY DEF Belief
  <2> HIDE DEF W
  <2>4. ASSUME NEW k \in DOMAIN g.alts
        PROVE  /\ AltFact(i, k) \in Mapped /\ AltSign(i, k) \in BOOLEAN
               /\ \A s : AlternativeHolds(g.alts[k], s) <=> (AltFact(i, k) \in View(s) <=> AltSign(i, k))
               /\ k \in open <=> AltFact(i, k) \in Varying(W)
               /\ AltFact(i, k) \notin IF AltSign(i, k) THEN CommonTrue(W) ELSE CommonFalse(W)
    <3>1. PICK lit : g.alts[k] = {lit} /\ Fact(lit) \in Mapped
      <4>1. IsFiniteSet(g.alts[k]) /\ AlternativeStatus(g.alts[k], FALSE) = "OK"
        BY <2>1, GroupShape
      <4> QED
        BY <4>1, AlternativeOk, Zenon
    <3>2. lit \in SasLiterals
      BY <3>1, GroupShape
    <3>3. /\ AltFact(i, k) = Fact(lit) /\ AltSign(i, k) \in BOOLEAN
          /\ \A s : AlternativeHolds(g.alts[k], s) <=> (AltFact(i, k) \in View(s) <=> AltSign(i, k))
      <4>1. AltFact(i, k) = Fact(lit) /\ AltSign(i, k) \in BOOLEAN
        BY <3>1, <3>2 DEF Only, AltFact, AltSign, SasLiterals
      <4>2. \A s : AlternativeHolds(g.alts[k], s) <=> (AltFact(i, k) \in View(s) <=> AltSign(i, k))
        BY <2>2, <3>1, <3>2, SingleAlternative
      <4> QED
        BY <4>1, <4>2
    <3>4. /\ k \in open <=> AltFact(i, k) \in Varying(W)
          /\ k \in ones <=> AltFact(i, k) \in IF AltSign(i, k) THEN CommonTrue(W) ELSE CommonFalse(W)
      BY <2>2, <3>1, <3>2, SingleAlternative
    <3>5. k \notin ones
      BY <1>7
    <3> HIDE DEF open, ones
    <3> QED
      BY <3>1, <3>3, <3>4, <3>5
  <2> HIDE DEF open
  <2>5. \A r \in S : \E k \in DOMAIN g.alts :
          (AltFact(i, k) \in View(r) <=> AltSign(i, k)) /\ AltFact(i, k) \in Varying(W)
    <3> SUFFICES ASSUME NEW r \in S
                 PROVE  \E k \in DOMAIN g.alts :
                          (AltFact(i, k) \in View(r) <=> AltSign(i, k)) /\ AltFact(i, k) \in Varying(W)
      OBVIOUS
    <3>1. PICK k \in DOMAIN g.alts : AlternativeHolds(g.alts[k], r)
      BY <2>3, HoldsMeans
    <3>2. AltFact(i, k) \in View(r) <=> AltSign(i, k)
      BY <2>4, <3>1
    <3>3. AltFact(i, k) \in Varying(W)
      BY <2>2, <2>4, <3>2, Split
    <3> QED
      BY <3>2, <3>3
  <2>6. PICK r \in S : TRUE
    OBVIOUS
  <2>7. PICK k \in DOMAIN g.alts :
          (AltFact(i, k) \in View(r) <=> AltSign(i, k)) /\ AltFact(i, k) \in Varying(W)
    BY <2>5
  <2>8. PICK r2 \in S : ~(AltFact(i, k) \in View(r2) <=> AltSign(i, k))
    <3>1. (\E w \in W : AltFact(i, k) \in w) /\ (\E w \in W : AltFact(i, k) \notin w)
      BY <2>2, <2>7, Split
    <3> QED
      BY <2>2, <3>1
  <2>9. PICK k2 \in DOMAIN g.alts :
          (AltFact(i, k2) \in View(r2) <=> AltSign(i, k2)) /\ AltFact(i, k2) \in Varying(W)
    BY <2>5
  <2>10. k # k2
    BY <2>8, <2>9
  <2>11. k \in open /\ k2 \in open /\ IsFiniteSet(open)
    BY <1>2, <2>4, <2>7, <2>9, FS_Subset
  <2>12. ~(Cardinality(open) < 2)
    BY <2>10, <2>11, AtLeastTwo
  <2> HIDE DEF sts, ones
  <2> QED
    BY <1>5, <1>7, <2>12 DEF W
<1> QED
  BY <1>6, <1>7

\* The groups never contradict what initial states have in common.
LEMMA StructuredNeverContradicts ==
  ASSUME NEW S \in SUBSET Belief, S # {}
  PROVE  StructuredStatus(Seen(S)) # "BACKEND_ERROR"
<1> DEFINE W == Seen(S)
           sts == [i \in DOMAIN Groups |-> GroupStatus(Groups[i], W)]
           Usual == WriterStatuses \ {"BACKEND_ERROR"}
<1>1. DOMAIN Groups \subseteq Nat
  BY GroupsAreConstraints DEF GroupsAreConstraints
<1>2. \A i \in DOMAIN Groups : GroupStatus(Groups[i], W) \in Usual
  <2> SUFFICES ASSUME NEW i \in DOMAIN Groups PROVE GroupStatus(Groups[i], W) \in Usual
    OBVIOUS
  <2>1. Groups[i].kind \in {"OR", "ONEOF"} /\ DOMAIN Groups[i].alts \subseteq Nat
    BY GroupShape
  <2>2. OneofStatus(Groups[i], W) \in WriterStatuses /\ OrStatus(Groups[i], W) \in WriterStatuses
    BY <2>1, OneofStatusType, OrStatusType
  <2> QED
    BY <2>1, <2>2, OneofNeverContradicts, OrNeverContradicts DEF GroupStatus
<1>3. sts \in [DOMAIN Groups -> Usual] /\ "OK" \in Usual
  BY <1>2 DEF WriterStatuses
<1>4. FirstError(sts) \in Usual
  <2> HIDE DEF sts, Usual
  <2> QED
    BY <1>1, <1>3, FirstErrorIsAStatus
<1>5. StructuredStatus(W) = FirstError(sts)
  BY DEF StructuredStatus
<1> HIDE DEF sts
<1> QED
  BY <1>4, <1>5

-----------------------------------------------------------------------------
(* The validator.                                                          *)

\* The varying atoms are finitely many.
LEMMA VaryingFinite == ASSUME NEW W PROVE IsFiniteSet(Varying(W))
<1>1. Varying(W) \in SUBSET Mapped /\ IsFiniteSet(Mapped)
  BY MappedAreFacts DEF MappedAreFacts, Varying
<1> QED
  BY <1>1, FS_Subset

\* The forms the validator counts.
LEMMA CountUnknown ==
  ASSUME NEW W
  PROVE  Cardinality({Atom(f) : f \in Varying(W)}) = Cardinality(Varying(W))
<1> DEFINE R == {Atom(f) : f \in Varying(W)}
           image == [f \in Varying(W) |-> Atom(f)]
<1>1. image \in Surjection(Varying(W), R)
  BY DEF Surjection
<1>2. \A f, g \in Varying(W) : image[f] = image[g] => f = g
  BY Symbols
<1>3. image \in [Varying(W) -> R]
  OBVIOUS
<1> HIDE DEF image, R
<1>4. image \in Injection(Varying(W), R)
  BY <1>2, <1>3 DEF Injection, IsInjective
<1>5. Cardinality(R) = Cardinality(Varying(W))
  BY <1>1, <1>4, VaryingFinite, FS_Surjection
<1> QED
  BY <1>5 DEF R

\* One clause for every world and every varying atom.
LEMMA CountClauses ==
  ASSUME NEW W, IsFiniteSet(W)
  PROVE  Cardinality(SelectorClauses(W)) = Cardinality(W) * Cardinality(Varying(W))
<1> DEFINE D == W \X Varying(W)
           clause(w, f) == {Neg(Sel(w)), Sign(Atom(f), f, w)}
           image == [p \in D |-> clause(p[1], p[2])]
<1>1. \A w \in W, f \in Varying(W) : clause(w, f) \in SelectorClauses(W)
  BY SelectorClausesAre
<1>2. \A c \in SelectorClauses(W) : \E w \in W, f \in Varying(W) : c = clause(w, f)
  BY SelectorClausesAre
<1>3. \A v, w, f, g : clause(w, f) = clause(v, g) => w = v /\ f = g
  <2> SUFFICES ASSUME NEW v, NEW w, NEW f, NEW g, clause(w, f) = clause(v, g)
               PROVE  w = v /\ f = g
    OBVIOUS
  <2>1. Neg(Sel(w)) = Neg(Sel(v)) \/ Neg(Sel(w)) = Sign(Atom(g), g, v)
    OBVIOUS
  <2>2. Neg(Sel(w))[1] = Sel(w) /\ Neg(Sel(v))[1] = Sel(v) /\ Sign(Atom(g), g, v)[1] = Atom(g)
        /\ Sign(Atom(f), f, w)[1] = Atom(f)
    BY Literals, SignTrue
  <2>3. Sel(w) = Sel(v)
    BY <2>1, <2>2, Symbols
  <2>4. Sign(Atom(f), f, w) = Neg(Sel(v)) \/ Sign(Atom(f), f, w) = Sign(Atom(g), g, v)
    OBVIOUS
  <2>5. Atom(f) = Atom(g)
    BY <2>2, <2>4, Symbols
  <2> QED
    BY <2>3, <2>5, Symbols
<1> HIDE DEF clause
<1>4. image \in Surjection(D, SelectorClauses(W))
  <2>1. image \in [D -> SelectorClauses(W)]
    BY <1>1
  <2>2. ASSUME NEW c \in SelectorClauses(W) PROVE \E p \in D : image[p] = c
    <3>1. PICK w \in W, f \in Varying(W) : c = clause(w, f)
      BY <1>2
    <3>2. <<w, f>> \in D /\ image[<<w, f>>] = c
      BY <3>1
    <3> QED
      BY <3>2
  <2> QED
    BY <2>1, <2>2 DEF Surjection
<1>5. image \in Injection(D, SelectorClauses(W))
  <2>1. image \in [D -> SelectorClauses(W)]
    BY <1>1
  <2>2. \A p, q \in D : image[p] = image[q] => p = q
    BY <1>3
  <2> HIDE DEF image
  <2> QED
    BY <2>1, <2>2 DEF Injection, IsInjective
<1>6. IsFiniteSet(D) /\ Cardinality(D) = Cardinality(W) * Cardinality(Varying(W))
  BY VaryingFinite, FS_Product
<1> HIDE DEF image, D
<1>7. Cardinality(SelectorClauses(W)) = Cardinality(D)
  BY <1>4, <1>5, <1>6, FS_Surjection
<1> QED
  BY <1>6, <1>7

\* One binary ONEOF for every varying atom, beside the one of the selectors.
LEMMA CountOneofs ==
  ASSUME NEW W, W # {}
  PROVE  Cardinality({SelectorOneof(W)} \cup {{{Pos(Atom(f))}, {Pos(Complement(f))}} : f \in Varying(W)})
           = Cardinality(Varying(W)) + 1
<1> DEFINE binary(f) == {{Pos(Atom(f))}, {Pos(Complement(f))}}
           R == {binary(f) : f \in Varying(W)}
           image == [f \in Varying(W) |-> binary(f)]
<1>1. \A f, g : {Pos(Atom(f))} \in binary(g) => f = g
  <2> SUFFICES ASSUME NEW f, NEW g, {Pos(Atom(f))} \in binary(g) PROVE f = g
    OBVIOUS
  <2>1. Pos(Atom(f)) = Pos(Atom(g)) \/ Pos(Atom(f)) = Pos(Complement(g))
    OBVIOUS
  <2> QED
    BY <2>1, Literals, Symbols
<1>2. \A w, f : {Pos(Sel(w))} \notin binary(f)
  <2> SUFFICES ASSUME NEW w, NEW f, {Pos(Sel(w))} \in binary(f) PROVE FALSE
    OBVIOUS
  <2>1. Pos(Sel(w)) = Pos(Atom(f)) \/ Pos(Sel(w)) = Pos(Complement(f))
    OBVIOUS
  <2> QED
    BY <2>1, Literals, Symbols
<1>3. \A f : {Pos(Atom(f))} \in binary(f)
  OBVIOUS
<1> HIDE DEF binary
<1>4. image \in Surjection(Varying(W), R) /\ image \in [Varying(W) -> R]
  BY DEF Surjection
<1>5. \A f, g \in Varying(W) : image[f] = image[g] => f = g
  BY <1>1, <1>3
<1>6. SelectorOneof(W) \notin R
  <2>1. PICK w \in W : {Pos(Sel(w))} \in SelectorOneof(W)
    BY DEF SelectorOneof
  <2> QED
    BY <1>2, <2>1
<1> HIDE DEF image, R
<1>7. image \in Injection(Varying(W), R)
  BY <1>4, <1>5 DEF Injection, IsInjective
<1>8. IsFiniteSet(R) /\ Cardinality(R) = Cardinality(Varying(W))
  BY <1>4, <1>7, VaryingFinite, FS_Surjection
<1>9. Cardinality(R \cup {SelectorOneof(W)}) = Cardinality(R) + 1
  BY <1>6, <1>8, FS_AddElement
<1>10. {SelectorOneof(W)} \cup R = R \cup {SelectorOneof(W)}
  OBVIOUS
<1>11. Cardinality({SelectorOneof(W)} \cup R) = Cardinality(Varying(W)) + 1
  BY <1>8, <1>9, <1>10
<1> QED
  BY <1>11 DEF R, binary

\* With one visible world every group is settled.
LEMMA NothingOpen ==
  ASSUME NEW w \in SUBSET Mapped, StructuredStatus({w}) = "OK"
  PROVE  /\ Varying({w}) = {} /\ Open("ONEOF", {w}) = {} /\ Open("OR", {w}) = {}
<1> DEFINE W == {w}
<1>1. W \in SUBSET (SUBSET Mapped) /\ W # {} /\ StructuredStatus(W) = "OK"
  OBVIOUS
<1>2. Varying(W) = {}
  BY DEF Varying, CommonTrue, CommonFalse
<1> HIDE DEF W
<1>3. \A i \in DOMAIN Groups : VaryingAlts(Groups[i], W) = {}
  BY <1>2 DEF VaryingAlts
<1>4. Cardinality({}) < 2
  BY FS_EmptySet
<1>5. ASSUME NEW i \in DOMAIN Groups, Groups[i].kind = "ONEOF", FixedTrueAlts(Groups[i], W) = {} PROVE FALSE
  <2>1. OneofStatus(Groups[i], W) = "OK"
    BY <1>1, <1>5, GroupsOk DEF GroupStatus
  <2> QED
    BY <1>3, <1>4, <1>5, <2>1 DEF OneofStatus
<1>6. ASSUME NEW i \in DOMAIN Groups, Groups[i].kind = "OR", FixedTrueAlts(Groups[i], W) = {} PROVE FALSE
  <2>1. OrStatus(Groups[i], W) = "OK"
    BY <1>1, <1>6, GroupsOk DEF GroupStatus
  <2> QED
    BY <1>3, <1>4, <1>6, <2>1 DEF OrStatus
<1>7. Open("ONEOF", W) = {} /\ Open("OR", W) = {}
  BY <1>5, <1>6 DEF Open
<1> QED
  BY <1>2, <1>7 DEF W

\* The accounting of validate_refined agrees with every emitter.
LEMMA Accounted ==
  ASSUME NEW st \in Store, \A s \in Stored(st) : Certain(s),
         NEW profile \in Profiles, NEW mode \in Modes, RenderStatus(profile, mode, st) = "OK"
  PROVE  LET forms == RenderForms(profile, mode, st)
         IN  /\ AccountsFor(profile, mode, Encoded(mode, st), forms)
             /\ profile \in {"CPA", "GC", "GCPCES"} => forms.unknown = {}
<1> DEFINE W == Encoded(mode, st)
           forms == RenderForms(profile, mode, st)
           none(fs) == fs.unknown = {} /\ fs.oneofs = {} /\ fs.ors = {}
<1>1. st # <<>>
  BY DEF RenderStatus
<1>2. W \in SUBSET (SUBSET Mapped) /\ W # {} /\ IsFiniteSet(W)
  BY <1>1, EncodedWorlds
<1>3. /\ mode = "exact" => profile # "T1"
      /\ mode = "structured" => profile = "T1" /\ StructuredStatus(W) = "OK"
  BY DEF RenderStatus
<1>4. /\ mode = "single" => forms = SingleWorldForms(W, profile)
      /\ mode = "structured" => forms = T1Forms(W)
      /\ mode = "exact" => forms = ExactForms(W, profile)
  BY DEF RenderForms
<1>5. mode = "single" => \E w : W = {w}
  BY DEF Encoded
<1>6. none(SingleWorldForms(W, profile))
  BY DEF SingleWorldForms, Forms
<1>7. mode \in {"single", "structured", "exact"}
  BY DEF Modes
<1> HIDE DEF W, forms
<1>8. CASE \E w : W = {w}
  <2>1. PICK w \in SUBSET Mapped : W = {w}
    BY <1>2, <1>8
  <2>2. Cardinality(W) = 1
    BY <1>2, <1>8, FS_Singleton
  <2>3. CASE mode = "structured"
    <3>1. Varying(W) = {} /\ Open("ONEOF", W) = {} /\ Open("OR", W) = {}
      BY <1>3, <2>1, <2>3, NothingOpen
    <3>2. none(T1Forms(W))
      BY <3>1 DEF T1Forms, Forms
    <3> QED
      BY <1>4, <2>2, <2>3, <3>2 DEF AccountsFor, W, forms
  <2>4. CASE mode # "structured"
    <3>1. ExactForms(W, profile) = SingleWorldForms(W, profile)
      BY <2>2 DEF ExactForms
    <3>2. none(forms)
      BY <1>4, <1>6, <1>7, <2>4, <3>1
    <3> QED
      BY <2>2, <3>2 DEF AccountsFor, W, forms
  <2> QED
    BY <2>3, <2>4
<1>9. CASE ~(\E w : W = {w})
  <2>1. Cardinality(W) # 1 /\ mode # "single"
    BY <1>2, <1>5, <1>9, FS_Singleton
  <2>2. CASE profile = "T1"
    BY <2>1, <2>2 DEF AccountsFor, W, forms
  <2>3. CASE profile # "T1"
    <3>1. mode = "exact" /\ forms = ExactForms(W, profile) /\ profile \in {"GC", "GCPCES", "ICPCES", "CPA", "CPAH"}
      BY <1>3, <1>4, <1>7, <2>1, <2>3 DEF Profiles
    <3>2. \A x : Cardinality({x}) = 1
      BY FS_Singleton
    <3>3. CASE profile = "GC"
      <4>1. forms = GcForms(W)
        BY <2>1, <3>1, <3>3 DEF ExactForms
      <4>2. forms.unknown = {} /\ forms.ors = {} /\ Cardinality(forms.oneofs) = 1
        BY <3>2, <4>1 DEF GcForms, Forms
      <4> QED
        BY <2>1, <3>3, <4>2 DEF AccountsFor, W, forms
    <3>4. CASE profile = "GCPCES"
      <4>1. forms = GcpcesForms(W)
        BY <2>1, <3>1, <3>4 DEF ExactForms
      <4>2. forms.unknown = {} /\ forms.ors = {} /\ Cardinality(forms.oneofs) = 1
        BY <3>2, <4>1 DEF GcpcesForms, Forms
      <4> QED
        BY <2>1, <3>4, <4>2 DEF AccountsFor, W, forms
    <3>5. CASE profile = "ICPCES"
      <4>1. forms = IcpcesForms(W)
        BY <2>1, <3>1, <3>5 DEF ExactForms
      <4>2. forms.unknown = {} /\ forms.ors = SelectorClauses(W)
            /\ Cardinality(forms.oneofs) = Cardinality(Varying(W)) + 1
        BY <1>2, <4>1, CountOneofs DEF IcpcesForms, Forms
      <4>3. Cardinality(forms.ors) = Cardinality(W) * Cardinality(Varying(W))
        BY <1>2, <4>2, CountClauses
      <4> QED
        BY <2>1, <3>5, <4>2, <4>3 DEF AccountsFor, W, forms
    <3>6. CASE profile \in {"CPA", "CPAH"}
      <4>1. forms = CpaForms(W, profile = "CPAH")
        BY <2>1, <3>1, <3>6 DEF ExactForms
      <4>2. forms.ors = SelectorClauses(W) /\ Cardinality(forms.oneofs) = 1
            /\ forms.unknown = IF profile = "CPAH" THEN {Atom(f) : f \in Varying(W)} ELSE {}
        BY <3>2, <4>1 DEF CpaForms, Forms
      <4>3. Cardinality(forms.ors) = Cardinality(W) * Cardinality(Varying(W))
        BY <1>2, <4>2, CountClauses
      <4>4. CASE profile = "CPA"
        BY <2>1, <4>2, <4>3, <4>4 DEF AccountsFor, W, forms
      <4>5. CASE profile = "CPAH"
        <5>1. Cardinality(forms.unknown) = Cardinality(Varying(W))
          BY <4>2, <4>5, CountUnknown
        <5> QED
          BY <2>1, <4>2, <4>3, <4>5, <5>1 DEF AccountsFor, W, forms
      <4> QED
        BY <3>6, <4>4, <4>5
    <3> QED
      BY <3>1, <3>3, <3>4, <3>5, <3>6
  <2> QED
    BY <2>2, <2>3
<1> QED
  BY <1>8, <1>9

\* validate_refined accepts what the writer wrote of initial states.
LEMMA ValidateOk ==
  ASSUME NEW st \in Store, Stored(st) \subseteq Belief,
         NEW profile \in Profiles, NEW mode \in Modes, RenderStatus(profile, mode, st) = "OK"
  PROVE  ValidateStatus(profile, mode, RenderForms(profile, mode, st), st) = "OK"
<1> DEFINE checked == IF mode = "single" THEN {st[1].state} ELSE Stored(st)
           forms == RenderForms(profile, mode, st)
<1>1. st # <<>>
  BY DEF RenderStatus
<1>2. checked \subseteq Belief
  BY <1>1, StoredFinite
<1>3. \A s \in checked : \A i \in DOMAIN Groups : GroupHolds(Groups[i], s)
  BY <1>2 DEF Belief
<1>4. \A s \in Stored(st) : Certain(s)
  BY DEF Belief
<1>5. /\ AccountsFor(profile, mode, Encoded(mode, st), forms)
      /\ profile \in {"CPA", "GC", "GCPCES"} => forms.unknown = {}
  BY <1>4, Accounted
<1> HIDE DEF forms
<1>6. ValidateStatus(profile, mode, forms, st) = "OK"
  BY <1>3, <1>5 DEF ValidateStatus
<1> QED
  BY <1>6 DEF forms

\* The writer never finds initial states inconsistent.
LEMMA NeverContradicts ==
  ASSUME NEW st \in Store, Stored(st) \subseteq Belief, NEW profile, NEW mode
  PROVE  RenderStatus(profile, mode, st) # "BACKEND_ERROR"
<1> DEFINE W == Encoded(mode, st)
<1>1. CASE Len(st) = 0
  BY <1>1 DEF RenderStatus
<1>2. CASE Len(st) # 0
  <2>1. st # <<>>
    BY <1>2
  <2>2. \A s \in Stored(st) : Certain(s)
    BY DEF Belief
  <2>3. W \in SUBSET (SUBSET Mapped) /\ W # {} /\ TemplateTrue \subseteq CommonTrue(W)
    BY <2>1, <2>2, EncodedWorlds
  <2>4. CommonFalse(W) \cap TemplateTrue = {}
    <3> HIDE DEF W
    <3> QED
      BY <2>3, Split
  <2>5. CASE mode = "structured"
    <3>1. W = Seen(Stored(st)) /\ Stored(st) # {}
      BY <2>1, <2>5, StoredFinite DEF Encoded, VisibleWorlds, Seen
    <3>2. StructuredStatus(W) # "BACKEND_ERROR"
      BY <3>1, StructuredNeverContradicts
    <3> HIDE DEF W
    <3>3. RenderStatus(profile, mode, st) \in {"INPUT_ERROR", "UNSUPPORTED_INPUT", "MAPPING_ERROR", StructuredStatus(W)}
      BY <2>4, <2>5 DEF RenderStatus, W
    <3> QED
      BY <3>2, <3>3
  <2>6. CASE mode # "structured"
    BY <2>4, <2>6 DEF RenderStatus
  <2> QED
    BY <2>5, <2>6
<1> QED
  BY <1>1, <1>2

-----------------------------------------------------------------------------
(* The states the verifier admits.                                         *)

\* Two alternatives of a group cannot both hold in a state the verifier admits:
\* they contradict each other on a variable, or one contradicts the last value
\* that the other one is completed with.
Excludes(g, k, j) ==
  \E lit \in g.alts[j] :
    \/ \E l \in g.alts[k] : \A s \in States : ~AlternativeHolds({l, lit}, s)
    \/ lit.var \notin VarsOf(g.alts[k]) /\ (Last[lit.var] = lit.val) # lit.positive

AlternativesExclude ==
  \A i \in DOMAIN Groups : \A k, j \in DOMAIN Groups[i].alts : k # j => Excludes(Groups[i], k, j)

\* A completed alternative excludes the others of its group.
LEMMA Exclusive ==
  ASSUME AlternativesExclude, NEW i \in DOMAIN Groups, NEW s \in States,
         NEW k \in DOMAIN Groups[i].alts, AlternativeHolds(Groups[i].alts[k], s),
         \A v \in Mentions(Groups[i]) \ VarsOf(Groups[i].alts[k]) : s[v] = Last[v],
         NEW j \in DOMAIN Groups[i].alts, AlternativeHolds(Groups[i].alts[j], s)
  PROVE  j = k
<1> SUFFICES ASSUME j # k PROVE FALSE
  OBVIOUS
<1>1. PICK lit \in Groups[i].alts[j] :
        \/ \E l \in Groups[i].alts[k] : \A t \in States : ~AlternativeHolds({l, lit}, t)
        \/ lit.var \notin VarsOf(Groups[i].alts[k]) /\ (Last[lit.var] = lit.val) # lit.positive
  BY DEF AlternativesExclude, Excludes
<1>2. \A l \in Groups[i].alts[k] : AlternativeHolds({l, lit}, s)
  BY DEF AlternativeHolds
<1>3. (s[lit.var] = lit.val) = lit.positive /\ lit.var \in Mentions(Groups[i])
  BY DEF AlternativeHolds, Mentions, VarsOf
<1> QED
  BY <1>1, <1>2, <1>3

\* Where the groups are read one by one, as the file states them or completed, the
\* verifier admits initial states only, provided that completed alternatives
\* exclude each other.
LEMMA VerifierWithinBelief ==
  ASSUME ~Combined, OneofsOnly => AlternativesExclude
  PROVE  Worlds \subseteq Belief
<1> SUFFICES ASSUME NEW s \in Worlds PROVE s \in Belief
  OBVIOUS
<1>1. s \in States /\ Certain(s) /\ \A i \in DOMAIN Groups : Admits(Groups[i], s)
  BY DEF Worlds
<1>2. ASSUME NEW i \in DOMAIN Groups PROVE GroupHolds(Groups[i], s)
  <2> DEFINE g == Groups[i]
             holds == {k \in DOMAIN g.alts : AlternativeHolds(g.alts[k], s)}
             completed == {k \in DOMAIN g.alts : Completed(g, k, s)}
  <2>1. Chosen(g.kind, completed)
    BY <1>1 DEF Admits
  <2>2. completed \subseteq holds
    BY DEF Completed
  <2>3. ASSUME OneofsOnly, NEW k \in completed, NEW j \in holds PROVE j = k
    BY <1>1, <2>3, Exclusive DEF Completed
  <2>4. ~OneofsOnly => completed = holds
    BY DEF Completed
  <2>5. Chosen(g.kind, holds)
    <3> HIDE DEF g, holds, completed
    <3> QED
      BY <2>1, <2>2, <2>3, <2>4 DEF Chosen
  <2> QED
    BY <2>5 DEF GroupHolds
<1> QED
  BY <1>1, <1>2 DEF Belief

\* So does an ORS file, provided that the groups are about different variables.
LEMMA CombinedWithinBelief ==
  ASSUME Combined, AlternativesExclude,
         \A i \in DOMAIN Groups : 1 \in DOMAIN Groups[i].alts,
         \A i, j \in DOMAIN Groups : i # j => Mentions(Groups[i]) \cap Mentions(Groups[j]) = {}
  PROVE  Worlds \subseteq Belief
<1> SUFFICES ASSUME NEW s \in Worlds PROVE s \in Belief
  OBVIOUS
<1>1. PICK n : IsNthState(n, s)
  BY DEF Worlds, Chosen
<1>2. s \in States /\ Certain(s)
  BY DEF Worlds
<1>3. \A j \in DOMAIN Groups : \E k \in DOMAIN Groups[j].alts : Nth(Groups[j], n) = Groups[j].alts[k]
  BY DEF Nth
<1>4. \A j \in DOMAIN Groups : VarsOf(Nth(Groups[j], n)) \subseteq Mentions(Groups[j])
  BY <1>3 DEF Mentions
<1>5. ASSUME NEW i \in DOMAIN Groups PROVE GroupHolds(Groups[i], s)
  <2> DEFINE g == Groups[i]
             holds == {k \in DOMAIN g.alts : AlternativeHolds(g.alts[k], s)}
             giving(v) == {j \in DOMAIN Groups : v \in VarsOf(Nth(Groups[j], n))}
  <2>1. PICK k \in DOMAIN g.alts : Nth(g, n) = g.alts[k]
    BY <1>3
  <2>2. \A v \in Mentions(g) : giving(v) = IF v \in VarsOf(g.alts[k]) THEN {i} ELSE {}
    BY <1>4, <2>1
  <2>3. \A v \in Mentions(g) :
          IF giving(v) = {} THEN s[v] = Last[v]
          ELSE \E j \in giving(v) : AlternativeHolds({l \in Nth(Groups[j], n) : l.var = v}, s)
    BY <1>1 DEF IsNthState, Mentioned
  <2> HIDE DEF giving
  <2>4. ASSUME NEW lit \in g.alts[k] PROVE (s[lit.var] = lit.val) = lit.positive
    <3>1. lit.var \in Mentions(g) /\ lit.var \in VarsOf(g.alts[k])
      BY DEF Mentions, VarsOf
    <3>2. AlternativeHolds({l \in g.alts[k] : l.var = lit.var}, s)
      BY <2>1, <2>2, <2>3, <3>1
    <3> QED
      BY <3>2 DEF AlternativeHolds
  <2>5. \A v \in Mentions(g) \ VarsOf(g.alts[k]) : s[v] = Last[v]
    BY <2>2, <2>3
  <2>6. k \in holds /\ \A j \in holds : j = k
    BY <1>2, <2>4, <2>5, Exclusive DEF AlternativeHolds
  <2>7. Chosen(g.kind, holds)
    <3> HIDE DEF g, holds
    <3> QED
      BY <2>6 DEF Chosen
  <2> QED
    BY <2>7 DEF GroupHolds
<1> QED
  BY <1>2, <1>5 DEF Belief

-----------------------------------------------------------------------------
(* RefinedWriter: the writer among insertions.                              *)


\* What WriteProblem records of a write of the present store.
Record(profile, mode) ==
  LET status == RenderStatus(profile, mode, samples)
      forms == RenderForms(profile, mode, samples)
  IN  [profile |-> profile, mode |-> mode, store |-> samples, status |-> status, forms |-> forms,
       validation |-> IF status = "OK" THEN ValidateStatus(profile, mode, forms, samples) ELSE "none"]

\* The store holds states the verifier admits, and the last write, if it still
\* stands, was of this store.
StoreInv == samples \in Store /\ Stored(samples) \subseteq Worlds
LastInv == lastWrite = NotWritten \/ \E profile \in Profiles, mode \in Modes : lastWrite = Record(profile, mode)

\* An insertion withdraws the last write, so a write that stands is one of the
\* present store: run_cegis_loop writes before every call of the planner.
THEOREM LastWriteIsOfTheStore == WriterSpec => [](StoreInv /\ LastInv)
<1>1. InitWriter => StoreInv /\ LastInv
  <2> SUFFICES ASSUME InitWriter PROVE StoreInv /\ LastInv
    OBVIOUS
  <2>1. samples = <<>> /\ lastWrite = NotWritten
    BY DEF InitWriter
  <2>2. samples \in Store
    BY <2>1 DEF Store
  <2>3. Stored(samples) = {}
    BY <2>1 DEF Stored
  <2> QED
    BY <2>1, <2>2, <2>3 DEF StoreInv, LastInv
<1>2. StoreInv /\ LastInv /\ [NextWriter]_writerVars => StoreInv' /\ LastInv'
  <2> SUFFICES ASSUME StoreInv, LastInv, [NextWriter]_writerVars PROVE StoreInv' /\ LastInv'
    OBVIOUS
  <2>1. ASSUME NEW s \in Worlds, InsertCounterexample(s) PROVE StoreInv' /\ LastInv'
    <3>1. samples \in Store /\ s \in States /\ Len(samples) \in Nat
      BY DEF StoreInv, Store, Worlds
    <3>2. samples' = Insert(samples, s, Len(samples)) /\ lastWrite' = NotWritten
      BY <2>1 DEF InsertCounterexample
    <3>3. samples' \in Store
      BY <3>1, <3>2, InsertEntries
    <3>4. Stored(samples') = Stored(samples) \cup {s}
      BY <3>1, <3>2, InsertStored
    <3>5. StoreInv'
      BY <3>3, <3>4 DEF StoreInv
    <3> QED
      BY <3>2, <3>5 DEF LastInv
  <2>2. ASSUME NEW profile \in Profiles, NEW mode \in Modes, WriteProblem(profile, mode)
        PROVE  StoreInv' /\ LastInv'
    <3>1. samples' = samples /\ lastWrite' = Record(profile, mode)
      BY <2>2 DEF WriteProblem, Record
    <3>2. StoreInv'
      BY <3>1 DEF StoreInv
    <3>3. Record(profile, mode)' = Record(profile, mode)
      BY <3>1 DEF Record
    <3> QED
      BY <3>1, <3>2, <3>3 DEF LastInv
  <2>3. CASE UNCHANGED writerVars
    <3>1. samples' = samples /\ lastWrite' = lastWrite
      BY <2>3 DEF writerVars
    <3>2. \A profile, mode : Record(profile, mode)' = Record(profile, mode)
      BY <3>1 DEF Record
    <3> QED
      BY <3>1, <3>2 DEF StoreInv, LastInv
  <2> QED
    BY <2>1, <2>2, <2>3 DEF NextWriter
<1> QED
  BY <1>1, <1>2, PTL DEF WriterSpec

\* A write that stands.
LEMMA WrittenRecord ==
  ASSUME LastInv, lastWrite # NotWritten
  PROVE  /\ lastWrite.profile \in Profiles /\ lastWrite.mode \in Modes /\ lastWrite.store = samples
         /\ lastWrite.status = RenderStatus(lastWrite.profile, lastWrite.mode, samples)
         /\ lastWrite.forms = RenderForms(lastWrite.profile, lastWrite.mode, samples)
         /\ lastWrite.validation =
              IF lastWrite.status = "OK"
              THEN ValidateStatus(lastWrite.profile, lastWrite.mode, lastWrite.forms, samples)
              ELSE "none"
BY DEF LastInv, Record

\* Whatever was stored, every problem written for an exact profile, or in single
\* mode, denotes exactly the visible worlds it encodes.
THEOREM SampleSetsAreExact == WriterSpec => []ExactSampleSet
<1>1. StoreInv /\ LastInv => ExactSampleSet
  <2> SUFFICES ASSUME StoreInv, LastInv, Written, lastWrite.mode # "structured"
               PROVE  Projected(lastWrite.profile, lastWrite.forms) = Encoded(lastWrite.mode, lastWrite.store)
    BY DEF ExactSampleSet
  <2>1. lastWrite # NotWritten
    BY DEF NotWritten, Written
  <2>2. \A s \in Stored(samples) : Certain(s)
    BY DEF StoreInv, Worlds
  <2>3. lastWrite.mode \in {"single", "exact"}
    BY <2>1, WrittenRecord DEF Modes
  <2>4. RenderStatus(lastWrite.profile, lastWrite.mode, samples) = "OK"
    BY <2>1, WrittenRecord DEF Written
  <2>5. Projected(lastWrite.profile, RenderForms(lastWrite.profile, lastWrite.mode, samples)) = Encoded(lastWrite.mode, samples)
    BY <2>1, <2>2, <2>3, <2>4, WrittenRecord, ProfilesAreExact DEF StoreInv
  <2> QED
    BY <2>1, <2>5, WrittenRecord
<1> QED
  BY <1>1, LastWriteIsOfTheStore, PTL

\* If the verifier admits initial states only, the T1 product denotes every stored
\* world, and no SAS state outside the initial belief.
THEOREM StructuredNeverLeavesBelief ==
  ASSUME Worlds \subseteq Belief
  PROVE  WriterSpec => []StructuredStaysInBelief
<1>1. StoreInv /\ LastInv => StructuredStaysInBelief
  <2> SUFFICES ASSUME StoreInv, LastInv, Written, lastWrite.mode = "structured"
               PROVE  LET denoted == Projected(lastWrite.profile, lastWrite.forms)
                      IN  /\ VisibleWorlds(lastWrite.store) \subseteq denoted
                          /\ denoted \cap {View(s) : s \in States} \subseteq {View(s) : s \in Belief}
    BY DEF StructuredStaysInBelief
  <2>1. lastWrite # NotWritten
    BY DEF NotWritten, Written
  <2> DEFINE S == Stored(samples)
  <2>2. S \in SUBSET Belief
    BY DEF StoreInv
  <2>3. RenderStatus(lastWrite.profile, "structured", samples) = "OK" /\ lastWrite.store = samples
        /\ lastWrite.forms = RenderForms(lastWrite.profile, "structured", samples)
    BY <2>1, WrittenRecord DEF Written
  <2>4. lastWrite.profile = "T1" /\ samples # <<>>
    BY <2>3 DEF RenderStatus
  <2>5. Encoded("structured", samples) = Seen(S) /\ VisibleWorlds(samples) = Seen(S)
    BY DEF Encoded, VisibleWorlds, Seen
  <2>6. StructuredStatus(Seen(S)) = "OK" /\ lastWrite.forms = T1Forms(Seen(S))
    BY <2>3, <2>5 DEF RenderStatus, RenderForms
  <2>7. S # {}
    BY <2>4, StoredFinite DEF StoreInv
  <2> HIDE DEF S
  <2>8. \A s \in S : View(s) \in Projected("T1", T1Forms(Seen(S)))
    BY <2>2, <2>6, StructuredContains
  <2>9. \A t \in States : View(t) \in Projected("T1", T1Forms(Seen(S))) => \E s \in Belief : View(s) = View(t)
    BY <2>2, <2>6, <2>7, StructuredWithin
  <2>10. Seen(S) \subseteq Projected("T1", T1Forms(Seen(S)))
    BY <2>8 DEF Seen
  <2> QED
    BY <2>3, <2>4, <2>5, <2>6, <2>9, <2>10
<1> QED
  BY <1>1, LastWriteIsOfTheStore, PTL

\* If the verifier admits initial states only, the BACKEND_ERROR branches of the
\* writer and of validate_refined are dead: no history of counterexamples, no
\* profile and no mode reaches them.
THEOREM WriterAcceptsItsOwnSamples ==
  ASSUME Worlds \subseteq Belief
  PROVE  WriterSpec => []NeverRefusesItsOwnSamples
<1>1. StoreInv /\ LastInv => NeverRefusesItsOwnSamples
  <2> SUFFICES ASSUME StoreInv, LastInv PROVE NeverRefusesItsOwnSamples
    OBVIOUS
  <2>1. samples \in Store /\ Stored(samples) \subseteq Belief
    BY DEF StoreInv
  <2>2. CASE lastWrite = NotWritten
    BY <2>2 DEF NeverRefusesItsOwnSamples, NotWritten
  <2>3. CASE lastWrite # NotWritten
    <3>1. lastWrite.status # "BACKEND_ERROR"
      BY <2>1, <2>3, WrittenRecord, NeverContradicts
    <3>2. lastWrite.status = "OK" => lastWrite.validation = "OK"
      BY <2>1, <2>3, WrittenRecord, ValidateOk
    <3>3. lastWrite.status # "OK" => lastWrite.validation = "none"
      BY <2>3, WrittenRecord
    <3> QED
      BY <3>1, <3>2, <3>3 DEF NeverRefusesItsOwnSamples
  <2> QED
    BY <2>2, <2>3
<1> QED
  BY <1>1, LastWriteIsOfTheStore, PTL
==============================================================================
