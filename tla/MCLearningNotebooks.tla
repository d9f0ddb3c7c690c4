------------------------- MODULE MCLearningNotebooks -------------------------
(* Bounded instances of LearningNotebooks for TLC. *)
EXTENDS LearningNotebooks, TLC

CONSTANT Student

\* All notebooks belong to one student.
OneStudent == [n \in Notebooks |-> Student]

\* Workers are interchangeable, and so are notebooks of one student.
Symmetry == Permutations(Workers) \cup Permutations(Notebooks)
=============================================================================
