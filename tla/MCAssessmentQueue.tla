-------------------------- MODULE MCAssessmentQueue --------------------------
(* Bounded instances of AssessmentQueue for TLC. *)
EXTENDS AssessmentQueue, TLC

\* Slots are interchangeable, and so are exams and payloads.
SlotSymmetry == Permutations(Workers)
Symmetry == Permutations(Workers) \cup Permutations(Exams)
=============================================================================
