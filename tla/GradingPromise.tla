---------------------------- MODULE GradingPromise ----------------------------
(***************************************************************************)
(* What the grading queue promises a student, without workers, leases or   *)
(* retries: the first submission stands, it is graded at most once, from   *)
(* what was submitted, and the report is shown as complete in the step     *)
(* that awards the grade and for good: whatever becomes of the job later,  *)
(* a complete report is neither taken back nor changed.  AssessmentQueue   *)
(* implements this specification.                                          *)
(***************************************************************************)
CONSTANTS Exams, Payloads, Marks, NoPayload, NoGrade

VARIABLES submitted, grade, report

vars == <<submitted, grade, report>>

Init ==
    /\ submitted = [e \in Exams |-> NoPayload]
    /\ grade = [e \in Exams |-> NoGrade]
    /\ report = [e \in Exams |-> "none"]

Submit(e) ==
    /\ report[e] = "none" /\ submitted[e] = NoPayload
    /\ \E p \in Payloads : submitted' = [submitted EXCEPT ![e] = p]
    /\ report' = [report EXCEPT ![e] = "pending"]
    /\ UNCHANGED grade

\* The report is complete as soon as there is a grade.
Award(e) ==
    /\ report[e] = "pending"
    /\ \E m \in Marks : grade' = [grade EXCEPT ![e] = [body |-> submitted[e], mark |-> m]]
    /\ report' = [report EXCEPT ![e] = "complete"]
    /\ UNCHANGED submitted

\* Giving up on an ungraded exam is always allowed, and can be taken back.
GiveUp(e) ==
    /\ report[e] = "pending"
    /\ report' = [report EXCEPT ![e] = "failed"]
    /\ UNCHANGED <<submitted, grade>>

Revive(e) ==
    /\ report[e] = "failed"
    /\ report' = [report EXCEPT ![e] = "pending"]
    /\ UNCHANGED <<submitted, grade>>

Next == \E e \in Exams :
    Submit(e) \/ Award(e) \/ GiveUp(e) \/ Revive(e)

Spec == Init /\ [][Next]_vars
=============================================================================
