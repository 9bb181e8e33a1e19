------------------------------- MODULE MCWritten -------------------------------
(***************************************************************************)
(* The translator (MCTranslator), and the writer of refined problems on    *)
(* what the translator makes of ONEOFs (MCOtherProblems), one at a time.   *)
(***************************************************************************)
EXTENDS MCTranslator

VARIABLES shape, samples, lastWrite   (* MCOtherProblems *)

Refined == INSTANCE MCOtherProblems WITH MaxEntries <- 3

translatorVars == <<part, vars, sasVars, axiomVars>>
refinedVars == <<shape, samples, lastWrite>>

WrittenInit ==
  \/ MCInit /\ shape = "none" /\ samples = << >> /\ lastWrite = << >>
  \/ part = "none" /\ NoPairing /\ NoOperators /\ NoAxioms /\ Refined!Init

WrittenNext ==
  \/ MCNext /\ UNCHANGED refinedVars
  \/ Refined!Next /\ UNCHANGED translatorVars

WrittenSpec == WrittenInit /\ [][WrittenNext]_<<translatorVars, refinedVars>>

\* What is written for the other problems denotes what it should, and nothing that the
\* verifier found is refused (RefinedProblemWriter::write, validate_refined).
WrittenAlike == Refined!WrittenAlike
==============================================================================
