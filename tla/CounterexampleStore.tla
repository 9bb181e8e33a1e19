------------------------- MODULE CounterexampleStore -------------------------
(***************************************************************************)
(* The store of counterexamples of the CEGIS loop (class                   *)
(* CounterexampleStore of lama/search/cegis_framework.cc).  A store is a   *)
(* sequence of entries in insertion order; an entry holds a complete SAS   *)
(* state, how often the verifier returned it, and the round in which it    *)
(* came up first.  The id, the backend and the reason kept beside them are *)
(* diagnostics and are left out.                                           *)
(***************************************************************************)
EXTENDS Naturals, Sequences

CONSTANT States   \* the in-range SAS states: one value of its domain for every variable

Entry == [state : States, freq : Nat \ {0}, first : Nat]
Store == Seq(Entry)

\* The states of a store, in no order.
Stored(store) == {store[i].state : i \in DOMAIN store}

NewEntry(s, round) == [state |-> s, freq |-> 1, first |-> round]

-----------------------------------------------------------------------------
(* Variants of Insert that a plausible slip in insert() would produce; each  *)
(* is the subject of a mutation run, none is used by a specification.        *)
InsertAlways(store, s, round) == Append(store, NewEntry(s, round))

InsertAsNew(store, s, round) ==
  IF s \in Stored(store)
  THEN [i \in DOMAIN store |->
          IF store[i].state = s THEN [store[i] EXCEPT !.first = round, !.freq = @ + 1]
                                ELSE store[i]]
  ELSE Append(store, NewEntry(s, round))

InsertUncounted(store, s, round) ==
  IF s \in Stored(store) THEN store ELSE Append(store, NewEntry(s, round))

-----------------------------------------------------------------------------
\* insert(): a state already indexed only gains frequency, a new one is
\* appended with frequency one.
Insert(store, s, round) ==
  IF s \in Stored(store)
  THEN [i \in DOMAIN store |->
          IF store[i].state = s THEN [store[i] EXCEPT !.freq = @ + 1] ELSE store[i]]
  ELSE Append(store, NewEntry(s, round))
==============================================================================
