--------------------------- MODULE StudentAccess ---------------------------
(***************************************************************************)
(* What one student may use, and for how long (student_entitlements.py,    *)
(* trial_demo_access.py, roadmap_access.py, routers/billing.py), and the   *)
(* two things that are given out under it after a slow call: an exam       *)
(* (mock_interview_v2.py start) and a career roadmap                       *)
(* (routers/career_roadmap.py generate).                                   *)
(*                                                                         *)
(* Subscriptions and purchases are written by no code of the repository    *)
(* (billing.py answers 503): they are external actions.                    *)
(***************************************************************************)
EXTENDS Naturals, FiniteSets

CONSTANTS
  Demos,             \* the demo exams
  AssessmentOnly,    \* those that are only held as full assessments (Zensar)
  Tabs,              \* requests of the student that are served at a time
  Trial, Month,      \* days of the trial, and of a subscription
  LastDay,           \* bound on the days
  MaxExams, MaxRoadmaps   \* bounds on what is given out

ASSUME AccessAssumption ==
  /\ {Trial, Month, LastDay, MaxExams, MaxRoadmaps} \subseteq Nat
  /\ AssessmentOnly \subseteq Demos

VARIABLES
  day,         \* days since the account was made
  unified,     \* STUDENT_UNIFIED_ACCESS, a setting
  campus,      \* is verified, has an active institution and belongs to it
  paidUntil,   \* the end of the latest active subscription
  purchase,    \* a paid career_roadmap purchase exists
  exams,       \* mock_interviews, by number
  requests,    \* starts and generations in progress, by tab
  outcomes,    \* number of career_roadmaps, and of failures that were audited
  overlapped,  \* history: exams whose starts overlapped
  entitled     \* history: the student was once entitled to a roadmap

accessVars == <<day, unified, campus, paidUntil, purchase, exams, requests, outcomes, overlapped,
                entitled>>

Papers == {"practice", "assessment"}
Numbers == 1 .. MaxExams
NoExam == [demo |-> "none"]
Idle == [doing |-> "nothing"]
Exam == [demo : Demos, paper : Papers, free : BOOLEAN, scored : BOOLEAN]

AccessTypeOK ==
  /\ day \in 0 .. LastDay /\ paidUntil \in 0 .. LastDay + Month
  /\ {unified, campus, purchase, entitled} \subseteq BOOLEAN
  /\ exams \in [Numbers -> Exam \union {NoExam}]
  /\ requests \in [Tabs -> {Idle, [doing |-> "roadmap"]}
                     \union [doing : {"exam"}, demo : Demos, paper : Papers, free : BOOLEAN]]
  /\ outcomes \in [saved : Nat, failed : Nat]
  /\ overlapped \subseteq Demos

Issued == {n \in Numbers : exams[n] # NoExam}

AccessInit ==
  /\ day = 0 /\ paidUntil = 0
  /\ unified \in BOOLEAN
  /\ campus \in BOOLEAN
  /\ purchase = FALSE
  /\ exams = [n \in Numbers |-> NoExam]
  /\ requests = [t \in Tabs |-> Idle]
  /\ outcomes = [saved |-> 0, failed |-> 0]
  /\ overlapped = {}
  /\ entitled = (unified \/ campus)

-----------------------------------------------------------------------------
\* student_access_status
Mode ==
  CASE unified -> "student_workspace"
    [] ~unified /\ campus -> "campus_sponsored"
    [] ~unified /\ ~campus /\ paidUntil > day -> "premium"
    [] ~unified /\ ~campus /\ paidUntil <= day -> IF day < Trial THEN "trial" ELSE "expired"

Premium == Mode # "expired"

\* roadmap_access_status
RoadmapAllowed == Mode \in {"student_workspace", "campus_sponsored", "premium"} \/ purchase

\* Variant: an exam counts when it has its score.
CountsWhenScored(e) == e.scored

\* An exam counts once it has a score, or when its paper is the current assessment.
Counts(e) == e.scored \/ e.paper = "assessment"

Attempts(d) == Cardinality({n \in Issued : exams[n].demo = d /\ Counts(exams[n])})
MayStart(d) == Mode # "trial" \/ Attempts(d) = 0

DayPasses ==
  /\ day < LastDay
  /\ day' = day + 1
  /\ UNCHANGED <<unified, campus, paidUntil, purchase, exams, requests, outcomes, overlapped, entitled>>

\* Verification by the institution, its activation and the membership.
CampusChanges ==
  /\ campus' = ~campus
  /\ entitled' = (entitled \/ campus')
  /\ UNCHANGED <<day, unified, paidUntil, purchase, exams, requests, outcomes, overlapped>>

\* External: a month of premium, or one feature.
Subscribes ==
  /\ paidUntil' = day + Month
  /\ entitled' = TRUE
  /\ UNCHANGED <<day, unified, campus, purchase, exams, requests, outcomes, overlapped>>
Purchases ==
  /\ purchase' = TRUE
  /\ entitled' = TRUE
  /\ UNCHANGED <<day, unified, campus, paidUntil, exams, requests, outcomes, overlapped>>

-----------------------------------------------------------------------------
(* An exam: the access is checked, the questions are generated, which takes seconds, and *)
(* the row is inserted.                                                                  *)

Starting(d) == {t \in Tabs : requests[t].doing = "exam" /\ requests[t].demo = d}

BeginExam(t, d, paper) ==
  /\ requests[t] = Idle
  /\ Premium /\ MayStart(d)
  /\ d \in AssessmentOnly => paper = "assessment"
  /\ requests' = [requests EXCEPT ![t] =
       [doing |-> "exam", demo |-> d, paper |-> paper, free |-> Mode = "trial"]]
  /\ overlapped' = overlapped \union {x \in {d} : Starting(d) # {}}
  /\ UNCHANGED <<day, unified, campus, paidUntil, purchase, exams, outcomes, entitled>>

CommitExam(t) ==
  LET n == Cardinality(Issued) + 1 IN
  /\ requests[t].doing = "exam"
  /\ n \in Numbers
  /\ exams' = [exams EXCEPT ![n] =
       [demo |-> requests[t].demo, paper |-> requests[t].paper, free |-> requests[t].free,
        scored |-> FALSE]]
  /\ requests' = [requests EXCEPT ![t] = Idle]
  /\ UNCHANGED <<day, unified, campus, paidUntil, purchase, outcomes, overlapped, entitled>>

\* The evaluation asks for no entitlement.
Scored(n) ==
  /\ n \in Issued /\ ~exams[n].scored
  /\ exams' = [exams EXCEPT ![n].scored = TRUE]
  /\ UNCHANGED <<day, unified, campus, paidUntil, purchase, requests, outcomes, overlapped, entitled>>

-----------------------------------------------------------------------------
(* A roadmap: the access is checked, the market is searched, which takes minutes, and the  *)
(* row is saved with its audit event, or the failure is audited in a transaction of its    *)
(* own, whose loss is only logged.                                                         *)

Bounded == outcomes.saved + outcomes.failed < MaxRoadmaps

BeginRoadmap(t) ==
  /\ requests[t] = Idle /\ Bounded
  /\ RoadmapAllowed
  /\ requests' = [requests EXCEPT ![t] = [doing |-> "roadmap"]]
  /\ UNCHANGED <<day, unified, campus, paidUntil, purchase, exams, outcomes, overlapped, entitled>>

RoadmapEnds(t, result) ==
  /\ requests[t].doing = "roadmap"
  /\ requests' = [requests EXCEPT ![t] = Idle]
  /\ outcomes' = result
  /\ UNCHANGED <<day, unified, campus, paidUntil, purchase, exams, overlapped, entitled>>

SaveRoadmap(t) ==
  RoadmapEnds(t, [outcomes EXCEPT !.saved = @ + 1])
FailRoadmap(t) ==
  \E lost \in BOOLEAN :
     RoadmapEnds(t, [outcomes EXCEPT !.failed = IF lost THEN @ ELSE @ + 1])

AccessNext ==
  \/ DayPasses \/ CampusChanges \/ Subscribes \/ Purchases
  \/ \E t \in Tabs : CommitExam(t) \/ BeginRoadmap(t) \/ SaveRoadmap(t) \/ FailRoadmap(t)
  \/ \E t \in Tabs, d \in Demos, paper \in Papers : BeginExam(t, d, paper)
  \/ \E n \in Numbers : Scored(n)

AccessSpec == AccessInit /\ [][AccessNext]_accessVars

-----------------------------------------------------------------------------
(* "exactly one free demo attempt" (tests/test_trial_demo_access.py:94) and "Career    *)
(* Roadmap is not included in the 3-day free trial" (roadmap_access.py:86): whatever   *)
(* else the student gains and loses, the trial gives one full assessment per demo, the *)
(* one exception being starts that overlapped, and no student has a roadmap who was    *)
(* never entitled to one.  Practice rounds are not counted here: each is free until    *)
(* one of them has a score.                                                            *)
TrialGivesOne ==
  /\ \A d \in Demos \ overlapped :
       Cardinality({n \in Issued : exams[n].demo = d /\ exams[n].free
                                     /\ exams[n].paper = "assessment"}) <= 1
  /\ outcomes.saved > 0 => entitled
=============================================================================
