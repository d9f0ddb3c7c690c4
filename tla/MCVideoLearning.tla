--------------------------- MODULE MCVideoLearning ---------------------------
(* Bounded instances of VideoLearning for TLC. *)
EXTENDS VideoLearning, TLC

CONSTANTS c1, l1, l2

\* All lessons belong to one course, l1 before l2.
InOneCourse == [l \in Lessons |-> c1]
InOrder == [l \in Lessons |-> IF l = l1 THEN 0 ELSE 1]

\* Workers are interchangeable, and so are scripts.
Symmetry == Permutations(Workers) \cup Permutations(Scripts)
=============================================================================
