---------------------------- MODULE RefinedWriter ----------------------------
(***************************************************************************)
(* The store and the writer of refined problems, driven as run_cegis_loop  *)
(* drives them, but by an environment that may return any state of the     *)
(* initial belief as the next counterexample and may ask for any profile   *)
(* and mode.  The questions are about the text handed to the planner: what *)
(* set of initial states does it denote?                                   *)
(***************************************************************************)
EXTENDS RefinedProblem

CONSTANT MaxEntries   \* bound of the model: the distinct counterexamples stored

VARIABLES
  samples,     (* the counterexample store                                      *)
  lastWrite    (* the last write: its arguments, the store it read, its outcome *)

writerVars == <<samples, lastWrite>>

NotWritten == [profile |-> "none", mode |-> "none", store |-> <<>>,
               status |-> "none", forms |-> NoForms, validation |-> "none"]

InitWriter == samples = <<>> /\ lastWrite = NotWritten

\* A verification of the loop returns a state of the initial belief.
InsertCounterexample(s) ==
  /\ Len(samples) < MaxEntries \/ s \in Stored(samples)
  /\ \A i \in DOMAIN samples : samples[i].state = s => samples[i].freq = 1
  /\ samples' = Insert(samples, s, Len(samples))
  /\ lastWrite' = NotWritten

\* write(), and validate_refined() when it succeeded.
WriteProblem(profile, mode) ==
  /\ lastWrite = NotWritten
  /\ LET status == RenderStatus(profile, mode, samples)
         forms == RenderForms(profile, mode, samples)
     IN  lastWrite' = [profile |-> profile, mode |-> mode, store |-> samples,
                       status |-> status, forms |-> forms,
                       validation |-> IF status = "OK"
                                      THEN ValidateStatus(profile, mode, forms, samples)
                                      ELSE "none"]
  /\ UNCHANGED samples

NextWriter ==
  \/ \E s \in Worlds : InsertCounterexample(s)
  \/ \E profile \in Profiles, mode \in Modes : WriteProblem(profile, mode)

WriterSpec == InitWriter /\ [][NextWriter]_writerVars

-----------------------------------------------------------------------------
Written == lastWrite.status = "OK"

\* An exact profile denotes the visible stored worlds and nothing else, in
\* single mode the first stored world, whatever front-end convention
\* (closed world, UNKNOWN, omission) the profile has to work around.
ExactSampleSet ==
  Written /\ lastWrite.mode # "structured" =>
    Projected(lastWrite.profile, lastWrite.forms) = Encoded(lastWrite.mode, lastWrite.store)

\* The T1 product may add initial states to the stored ones, but those that
\* are SAS states at all belong to the initial belief of the problem: the
\* refinement never leaves the original uncertainty.
StructuredStaysInBelief ==
  Written /\ lastWrite.mode = "structured" =>
    LET denoted == Projected(lastWrite.profile, lastWrite.forms)
    IN  /\ VisibleWorlds(lastWrite.store) \subseteq denoted
        /\ denoted \cap {View(s) : s \in States} \subseteq {View(s) : s \in Belief}

\* Counterexamples of the verifier never make the writer or its validator
\* refuse: these branches ("the common assignment or the SAS/PDDL
\* map is inconsistent", "historical counterexample violates ...") are dead,
\* although the verifier and the writer read the constraints through two
\* different parsers and two different semantics of an alternative.
NeverRefusesItsOwnSamples ==
  /\ lastWrite.status # "BACKEND_ERROR"
  /\ lastWrite.validation \in {"none", "OK"}
==============================================================================
