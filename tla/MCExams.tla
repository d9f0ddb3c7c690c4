------------------------------ MODULE MCExams ------------------------------
(* Bounded instances of ExamPaper, CodeReceipts, ExamScoring, IntegrityReport
   and StudyTracker for TLC. *)
EXTENDS ExamPaper, CodeReceipts, ExamScoring, IntegrityReport, StudyTracker, TLC

\* A short blueprint: an objective, an own, a spoken and a typed section.
ShortBlueprint == <<"technical", "coding", "resume", "behavioral">>
ShortQuota == [s \in ToSet(ShortBlueprint) |-> IF s = "resume" THEN 2 ELSE 1]
ShortBank == [s \in ToSet(ShortBlueprint) |-> <<[topic |-> s, steps |-> s = "resume"]>>]

\* The pool repeats a topic, as templates with another skill do.
ShortPool == <<"p1", "p2", "p1">>

Sent(s, t, sound, d, steps, size) ==
    [section |-> s, topic |-> t, sound |-> sound, difficulty |-> d, steps |-> steps, size |-> size]

\* Sound and malformed items, more than a quota, repeats across sections and with the pool, a
\* coding task and a section nobody asked for.
SomeReplies ==
    {Sent("technical", "a1", TRUE, 0, FALSE, 2), Sent("technical", "a2", FALSE, 0, FALSE, -1),
     Sent("technical", "p2", TRUE, 1, FALSE, -1),
     Sent("resume", "a2", TRUE, 0, FALSE, -1), Sent("resume", "a3", TRUE, 2, TRUE, 0),
     Sent("behavioral", "p1", TRUE, 1, FALSE, 0), Sent("coding", "a4", TRUE, 1, FALSE, -1),
     Sent("unknown", "a4", TRUE, 1, FALSE, -1)}

Asks(section, mode) == [section |-> section, mode |-> mode]

\* One exam of full length, one of each mode, and one with means at the half.
SomePapers ==
    {<<Asks("quantitative", "mcq"), Asks("behavioral", "text"), Asks("programming", "text"),
       Asks("technical", "text")>>,
     <<Asks("technical", "text"), Asks("coding", "code"), Asks("resume", "spoken")>>,
     <<Asks("technical", "text"), Asks("technical", "text"), Asks("coding", "code"),
       Asks("quantitative", "mcq")>>}

SomeClips == {<<100, 100, 100>>, <<20, 5, 10>>, <<0, 90, 90>>}
SomeRuns == {[passed |-> 0, tests |-> 3, compiled |-> FALSE],
             [passed |-> 2, tests |-> 3, compiled |-> TRUE],
             [passed |-> 3, tests |-> 3, compiled |-> FALSE],
             [passed |-> 3, tests |-> 3, compiled |-> TRUE]}

Says(s, r, c, v) == [score |-> s, relevance |-> r, correctness |-> c, verdict |-> v]

\* Opinions in line with their rubric, and at odds with it.
SomeOpinions ==
    {Says(95, 90, 90, "strong"), Says(90, 10, 80, "correct"), Says(88, 80, 20, "acceptable"),
     Says(60, 60, 60, "incorrect"), Says(54, 60, 60, "partially_correct")}

Sig(id, warning, auto) == [id |-> id, warning |-> warning, auto |-> auto]
SomeSignals == {Sig(1, 0, FALSE), Sig(2, 1, FALSE), Sig(3, 5, FALSE), Sig(4, 0, TRUE)}

\* Nothing, a copy of what was recorded, a copy twice, and events of the browser's own.
SomeLists ==
    {<<>>, <<Sig(2, 1, FALSE)>>, <<Sig(2, 1, FALSE), Sig(1, 0, FALSE), Sig(2, 1, FALSE)>>,
     <<Sig(5, 2, FALSE), Sig(4, 0, TRUE)>>}

ZoneShift == [z \in Zones |-> IF z = Local THEN 1 ELSE 0]

\* The parts share no row.  A run takes one of them at a time, chosen by the first state.
VARIABLE part

vars == <<part, paperVars, receiptsVars, scoringVars, integrityVars, studyVars>>

AnyPaper == CHOOSE p \in SomePapers : TRUE

Init == /\ part \in {"paper", "receipts", "scoring", "integrity", "study"}
        /\ PaperInit /\ ReceiptsInit /\ ScoringInit /\ IntegrityInit /\ StudyInit
        /\ part # "scoring" => paper = AnyPaper

Next ==
  /\ UNCHANGED part
  /\ \/ /\ part = "paper" /\ PaperNext
        /\ UNCHANGED <<receiptsVars, scoringVars, integrityVars, studyVars>>
     \/ /\ part = "receipts" /\ ReceiptsNext
        /\ UNCHANGED <<paperVars, scoringVars, integrityVars, studyVars>>
     \/ /\ part = "scoring" /\ ScoringNext
        /\ UNCHANGED <<paperVars, receiptsVars, integrityVars, studyVars>>
     \/ /\ part = "integrity" /\ IntegrityNext
        /\ UNCHANGED <<paperVars, receiptsVars, scoringVars, studyVars>>
     \/ /\ part = "study" /\ StudyNext
        /\ UNCHANGED <<paperVars, receiptsVars, scoringVars, integrityVars>>

Spec == Init /\ [][Next]_vars

\* Test cases are interchangeable, and so are attempts; events have the names of the cases.
Symm == Permutations(Cases) \cup Permutations(Attempts)
=============================================================================
