---------------------------- MODULE ExamScoring ----------------------------
(* From the answers of an exam to its score (mock_interview_v2.py): every
   item is graded by the key, by execution, by the analysis of its clip or by
   the AI evaluator, which may leave answers out or fail; the sections are
   weighted, and the score is withheld while an item has no grade. *)
EXTENDS Integers, SequencesExt, FiniteSets, FiniteSetsExt, Totals

CONSTANTS
    Papers,         \* question sets: sequences of [section, mode]
    StandardSize,      \* items of the full exam
    BatchSize,      \* answers per call once the first call failed
    Clips,          \* analyses of a spoken answer: correctness, clarity, fluency
    Runs,           \* executions of a program: tests passed, tests, nothing said by the compiler
    Opinions        \* what the AI may say of an answer: score, relevance, correctness, verdict

Percent == 0 .. 100
Blueprint == <<"quantitative", "logical", "communication", "technical", "programming",
               "coding", "resume", "behavioral", "role", "situational">>
Items == [section : ToSet(Blueprint), mode : {"mcq", "code", "spoken", "text"}]
Verdicts == {"correct", "strong", "partially_correct", "acceptable", "incorrect", "weak",
             "insufficient"}

ASSUME ScoringAssumption ==
    /\ StandardSize \in Nat /\ BatchSize \in Nat \ {0}
    /\ Clips \subseteq Percent \X Percent \X Percent
    /\ Papers \subseteq Seq(Items) \ {<<>>}
    /\ \A r \in Runs : r.tests \in Nat \ {0} /\ r.passed \in 0 .. r.tests
    /\ \A o \in Opinions : {o.score, o.relevance, o.correctness} \subseteq Percent /\ o.verdict \in Verdicts

VARIABLES
    paper,
    next,           \* the item the grading has come to
    grade,          \* per item: its evaluation, NoGrade before or without one
    asked,          \* items left to the AI, in order
    phase,
    result

scoringVars == <<paper, next, grade, asked, phase, result>>

NoGrade == [score |-> 0, verdict |-> "none", method |-> "none"]
NoResult == [complete |-> FALSE, withheld |-> TRUE, overall |-> 0,
             correct |-> 0, partial |-> 0, incorrect |-> 0, insufficient |-> 0]

ScoringInit ==
    /\ paper \in Papers
    /\ next = 1 /\ asked = <<>> /\ phase = "grading" /\ result = NoResult
    /\ grade = [i \in DOMAIN paper |-> NoGrade]

Grade(score, verdict, method) == [score |-> score, verdict |-> verdict, method |-> method]

\* Half to even, for non-negative a.
Rounded(a, b) ==
    LET q == a \div b
        r == 2 * (a % b) IN
    IF r > b \/ (r = b /\ q % 2 = 1) THEN q + 1 ELSE q

(***************************************************************************)
(* The graders.                                                            *)
(***************************************************************************)
Told == {"resume", "behavioral", "role", "situational"}

\* _objective_evaluation: the server's key.
ByKey(right) == IF right THEN Grade(100, "correct", "system") ELSE Grade(0, "incorrect", "system")

Unanswered == Grade(0, "insufficient", "system")

\* _coding_evaluation.
ByExecution(r) ==
    Grade(Rounded(100 * r.passed, r.tests),
          IF ~r.compiled \/ r.passed = 0 THEN "incorrect"
          ELSE IF r.passed = r.tests THEN "correct" ELSE "partially_correct", "code_execution")

\* A source that does not parse is graded without an execution.
NotExecutable == Grade(0, "incorrect", "code_execution")

\* An analysed clip.
ByClip(clip) ==
    LET score == Rounded(7 * clip[1] + 2 * clip[2] + clip[3], 10) IN
    Grade(score, CASE score >= 75 -> "strong" [] score \in 55 .. 74 -> "acceptable"
                   [] score \in 20 .. 54 -> "weak" [] OTHER -> "insufficient", "ai_clip")

\* _obvious_answer_failure, _invalid_text_evaluation.
Gated(section) ==
    Grade(0, IF section \in Told THEN "weak" ELSE "insufficient", "system_relevance_gate")

AtMost(n, bound) == IF n < bound THEN n ELSE bound

(* What the AI says, held to its own rubric: an irrelevant answer, a wrong
   technical one and a bad verdict each cap the score. *)
ByOpinion(section, o) ==
    LET irrelevant == o.relevance < 25
        wrong == section \in {"technical", "programming"} /\ o.correctness < 25
        first == IF irrelevant THEN IF section \in Told THEN "weak" ELSE "incorrect" ELSE o.verdict
        verdict == IF wrong /\ first \in {"correct", "strong", "acceptable"}
                   THEN "incorrect" ELSE first
        bad == wrong \/ verdict \in {"incorrect", "insufficient", "weak"}
    IN  Grade(AtMost(o.score, IF irrelevant THEN 15 ELSE IF bad THEN 25 ELSE 100), verdict, "ai")

(***************************************************************************)
(* _evaluate_saved_answers, item by item.                                  *)
(***************************************************************************)
Graders(item) ==
    CASE item.mode = "mcq" -> {ByKey(right) : right \in BOOLEAN} \cup {Unanswered}
      [] item.mode = "code" -> {ByExecution(r) : r \in Runs} \cup {NotExecutable, Unanswered}
      [] item.mode = "spoken" -> {ByClip(c) : c \in Clips} \cup {Unanswered}
      [] item.mode = "text" -> {Gated(item.section), Unanswered}

GradeItem ==
    /\ phase = "grading" /\ next \in DOMAIN paper
    /\ \E g \in Graders(paper[next]) : grade' = [grade EXCEPT ![next] = g]
    /\ next' = next + 1
    /\ UNCHANGED <<paper, asked, phase, result>>

\* A typed answer that is not obviously empty waits for the AI.
LeaveToAI ==
    /\ phase = "grading" /\ next \in DOMAIN paper /\ paper[next].mode = "text"
    /\ asked' = Append(asked, next)
    /\ next' = next + 1
    /\ UNCHANGED <<paper, grade, phase, result>>

(* Without a queue, a program that could not be executed just has no grade.
   (A queue worker stops here and tries the exam again.) *)
NotExecuted ==
    /\ phase = "grading" /\ next \in DOMAIN paper /\ paper[next].mode = "code"
    /\ next' = next + 1
    /\ UNCHANGED <<paper, grade, asked, phase, result>>

(***************************************************************************)
(* _evaluate_subjective_with_ai.                                           *)
(***************************************************************************)
\* The AI answers for some of the items it was asked for, and for each as it likes.
Answered(items) ==
    \E replied \in SUBSET items : \E o \in [replied -> Opinions] :
        grade' = [i \in DOMAIN paper |->
                    IF i \in replied THEN ByOpinion(paper[i].section, o[i]) ELSE grade[i]]

AskAll ==
    /\ phase = "grading" /\ next \notin DOMAIN paper
    /\ \/ asked # <<>> /\ Answered(ToSet(asked)) /\ asked' = <<>> /\ phase' = "graded"
       \/ asked = <<>> /\ phase' = "graded" /\ UNCHANGED <<grade, asked>>
       \/ asked # <<>> /\ phase' = "batches" /\ UNCHANGED <<grade, asked>>
    /\ UNCHANGED <<paper, next, result>>

\* After a failed call the answers go in batches; a batch that fails stays ungraded.
AskBatch ==
    LET n == AtMost(BatchSize, Len(asked)) IN
    /\ phase = "batches" /\ asked # <<>>
    /\ Answered(ToSet(SubSeq(asked, 1, n)))
    /\ asked' = SubSeq(asked, n + 1, Len(asked))
    /\ phase' = IF Len(asked) = n THEN "graded" ELSE "batches"
    /\ UNCHANGED <<paper, next, result>>

(***************************************************************************)
(* _build_assessment_result.                                               *)
(***************************************************************************)
Weight ==
    [quantitative |-> 10, logical |-> 10, communication |-> 10, technical |-> 20,
     programming |-> 15, coding |-> 15, resume |-> 7, behavioral |-> 5, role |-> 5, situational |-> 3]

Evaluated(g) == {i \in DOMAIN paper : g[i].method # "none"}
Of(g, section) == {i \in Evaluated(g) : paper[i].section = section}
MeanScore(g, items) ==
    Rounded(Total([i \in 0 .. Len(paper) |-> IF i \in items THEN g[i].score ELSE 0], Len(paper)),
            Cardinality(items))

Bucket(verdict) ==
    CASE verdict \in {"correct", "strong"} -> "correct"
      [] verdict \in {"partially_correct", "acceptable"} -> "partial"
      [] verdict \in {"incorrect", "weak"} -> "incorrect"
      [] OTHER -> "insufficient"

\* Where in the blueprint a section with a grade stands.
Graded(g) == {k \in DOMAIN Blueprint : Of(g, Blueprint[k]) # {}}

WeightAt(k) == Weight[Blueprint[k]]
MeanAt(g, k) == MeanScore(g, Of(g, Blueprint[k]))
Weights(places) == [k \in 0 .. Len(Blueprint) |-> IF k \in places THEN WeightAt(k) ELSE 0]
Weighted(g, places) ==
    [k \in 0 .. Len(Blueprint) |-> IF k \in places THEN WeightAt(k) * MeanAt(g, k) ELSE 0]

\* Variant: a section that scored nothing does not weigh.
ReadinessOfScored(g) ==
    LET scored == {k \in Graded(g) : MeanAt(g, k) > 0} IN
    IF scored = {} THEN 0
    ELSE Rounded(Total(Weighted(g, scored), Len(Blueprint)), Total(Weights(scored), Len(Blueprint)))

\* The sections' rounded means, weighted over the sections that have a grade.
Readiness(g) ==
    Rounded(Total(Weighted(g, Graded(g)), Len(Blueprint)),
            Total(Weights(Graded(g)), Len(Blueprint)))

Overall(g) ==
    IF Evaluated(g) = {} THEN 0
    ELSE IF Len(paper) = StandardSize /\ Graded(g) # {} THEN Readiness(g)
    ELSE MeanScore(g, Evaluated(g))

CountOf(g, bucket) ==
    Cardinality({i \in Evaluated(g) : paper[i].section \in ToSet(Blueprint) /\ Bucket(g[i].verdict) = bucket})

Build ==
    LET complete == Evaluated(grade) = DOMAIN paper IN
    /\ phase = "graded"
    /\ result' = [complete |-> complete, withheld |-> ~complete,
                  overall |-> IF complete THEN Overall(grade) ELSE 0,
                  correct |-> CountOf(grade, "correct"), partial |-> CountOf(grade, "partial"),
                  incorrect |-> CountOf(grade, "incorrect"),
                  insufficient |-> CountOf(grade, "insufficient")]
    /\ phase' = "built"
    /\ UNCHANGED <<paper, next, grade, asked>>

ScoringNext == GradeItem \/ LeaveToAI \/ NotExecuted \/ AskAll \/ AskBatch \/ Build

ScoringSpec == ScoringInit /\ [][ScoringNext]_scoringVars

(***************************************************************************)
(* Properties.                                                             *)
(***************************************************************************)
Scores(g) == {g[i].score : i \in Evaluated(g)}

(* A score is shown only when every item has its grade, whichever calls
   failed or left answers out.  It lies between the worst and the best item,
   through two roundings and the weights, and a better answer never lowers it;
   every graded item is in one of the four counts; and no answer that the
   grading calls incorrect, weak or insufficient is worth more than 25, but for
   a spoken one, which the weights of its clip alone decide, and a program,
   which its tests decide even where the compiler had something to say. *)
ScoreIsEarned ==
    phase = "built" =>
        /\ result.withheld <=> \E i \in DOMAIN paper : grade[i].method = "none"
        /\ result.correct + result.partial + result.incorrect + result.insufficient
              = Cardinality(Evaluated(grade))
        /\ ~result.withheld =>
              /\ Min(Scores(grade)) <= result.overall /\ result.overall <= Max(Scores(grade))
              /\ \A i \in DOMAIN paper : Overall([grade EXCEPT ![i].score = 100]) >= result.overall
        /\ \A i \in Evaluated(grade) :
              Bucket(grade[i].verdict) \in {"incorrect", "insufficient"} /\ grade[i].method \notin {"ai_clip", "code_execution"} =>
                 grade[i].score <= 25
=============================================================================
