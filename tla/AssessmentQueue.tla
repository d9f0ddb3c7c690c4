--------------------------- MODULE AssessmentQueue ---------------------------
(***************************************************************************)
(* The durable grading queue: app/assessment_queue.py (the job table and   *)
(* its admission row), app/assessment_worker.py (the processes that claim, *)
(* renew and finish jobs), the score write of                              *)
(* routers/mock_interview_v2.py:_evaluate_saved_answers, and the two ways  *)
(* back into the queue (a student's retry, a staff recovery).              *)
(*                                                                         *)
(* A committed database transaction is one step.  The exception is the     *)
(* heartbeat: its UPDATE holds the job's row lock until it commits, and a  *)
(* claim made meanwhile skips the locked row.                              *)
(*                                                                         *)
(* Time is relative.  lease[e] and wait[e] are lease_until - now and       *)
(* available_at - now in ticks; both stop at Lapsed, the lowest value any  *)
(* reader can tell from the next.  The order of available_at is kept apart *)
(* from the values, in ahead.                                              *)
(***************************************************************************)
EXTENDS Integers, FiniteSets, DueOrder

CONSTANTS
    Exams,           \* interviews that may be submitted for grading
    Workers,         \* slots of the worker processes, one job each
    Payloads,        \* what a student may submit
    Marks,           \* what an evaluation may award
    NoExam, NoWorker, NoPayload, NoGrade,
    Concurrency,     \* settings.assessment_queue_concurrency
    StartsPerMinute, \* settings.assessment_queue_starts_per_minute
    MaxAttempts,     \* MAX_ATTEMPTS
    Lease,           \* LEASE_SECONDS, in ticks
    Window,          \* the minute of the start budget, in ticks
    BaseDelay, MaxDelay,          \* 15 s and 300 s of the backoff
    CapacityDelay, PendingDelay,  \* 900 s and 60 s
    RecoveryGap,     \* the 30 minutes between two staff recoveries
    ClaimLag,        \* how old the clock a claim sampled may be
    SlowCommit       \* TRUE: a heartbeat's transaction may outlast a tick

Codes == {"capacity", "pending", "other"}
NoResult == "none"

ASSUME ConstantsOK ==
    /\ IsFiniteSet(Exams)
    /\ NoExam \notin Exams /\ NoWorker \notin Workers
    /\ NoPayload \notin Payloads
    /\ NoGrade \notin [body : Payloads, mark : Marks]
    /\ Marks \cap (Codes \cup {NoResult, "incomplete", "complete"}) = {}
    /\ Concurrency \in Nat \ {0} /\ StartsPerMinute \in Nat \ {0}
    /\ MaxAttempts \in Nat \ {0} /\ Lease \in Nat \ {0} /\ Window \in Nat \ {0}
    /\ BaseDelay \in Nat \ {0} /\ MaxDelay \in Nat
    /\ CapacityDelay \in Nat /\ PendingDelay \in Nat
    /\ RecoveryGap \in Nat /\ ClaimLag \in Nat
    /\ SlowCommit \in BOOLEAN

VARIABLES
    (* table mock_interviews *)
    answers,    \* answers_json
    score,      \* overall_score, with the answers it was computed from
    (* table assessment_jobs *)
    payload, state, attempts, wait, ahead, lease, token,
    (* the row of assessment_queue_control *)
    windowAge, starts,
    (* the newest processing.recovery audit event of each job *)
    cooldown,
    (* one slot of a worker process: where process() stands, its item, and
       the result it carries to the next step *)
    phase, exam, body, result,
    (* heartbeat transactions: the slots whose UPDATE is not committed yet,
       and how long ago each one read the clock *)
    renewing, renewAge

jobVars == <<payload, state, attempts, wait, ahead, lease, token>>
controlVars == <<windowAge, starts>>
interviewVars == <<answers, score>>
slotVars == <<phase, exam, body, result>>
renewVars == <<renewing, renewAge>>
vars == <<interviewVars, jobVars, controlVars, cooldown, slotVars, renewVars>>
-----------------------------------------------------------------------------
Grades == [body : Payloads, mark : Marks]
JobStates == {"none", "queued", "running", "retrying", "complete", "failed"}
Phases == {"idle", "begin", "analyse", "save", "finish"}
Results == {NoResult, "incomplete", "complete"} \cup Codes \cup Marks

\* No reader tells two expired leases, or two due jobs, apart below this.
Lapsed == -ClaimLag
Older(t) == IF t > Lapsed THEN t - 1 ELSE t

TypeOK ==
    /\ answers \in [Exams -> Payloads \cup {NoPayload}]
    /\ score \in [Exams -> Grades \cup {NoGrade}]
    /\ payload \in [Exams -> Payloads \cup {NoPayload}]
    /\ state \in [Exams -> JobStates]
    /\ attempts \in [Exams -> 0..MaxAttempts]
    /\ wait \in [Exams -> Int] /\ \A e \in Exams : wait[e] >= Lapsed
    /\ ahead \in [Exams -> SUBSET Exams]
    /\ lease \in [Exams -> Lapsed..Lease]
    /\ token \in [Exams -> Workers \cup {NoWorker}]
    /\ windowAge \in 0..(Window + ClaimLag)
    /\ starts \in 0..StartsPerMinute
    /\ cooldown \in [Exams -> 0..RecoveryGap]
    /\ phase \in [Workers -> Phases]
    /\ exam \in [Workers -> Exams \cup {NoExam}]
    /\ body \in [Workers -> Payloads \cup {NoPayload}]
    /\ result \in [Workers -> Results]
    /\ renewing \subseteq Workers
    /\ renewAge \in [Workers -> 0..Lease]

Init ==
    /\ answers = [e \in Exams |-> NoPayload]
    /\ score = [e \in Exams |-> NoGrade]
    /\ payload = [e \in Exams |-> NoPayload]
    /\ state = [e \in Exams |-> "none"]
    /\ attempts = [e \in Exams |-> 0]
    /\ wait = [e \in Exams |-> Lapsed]
    /\ ahead = [e \in Exams |-> {}]
    /\ lease = [e \in Exams |-> Lapsed]
    /\ token = [e \in Exams |-> NoWorker]
    /\ windowAge = 0 /\ starts = 0
    /\ cooldown = [e \in Exams |-> 0]
    /\ phase = [w \in Workers |-> "idle"]
    /\ exam = [w \in Workers |-> NoExam]
    /\ body = [w \in Workers |-> NoPayload]
    /\ result = [w \in Workers |-> NoResult]
    /\ renewing = {}
    /\ renewAge = [w \in Workers |-> 0]
-----------------------------------------------------------------------------
(* The job table. *)

Live(e) == state[e] = "running" /\ lease[e] > 0

\* A heartbeat's UPDATE of e is in flight: others wait for the row, or skip it.
RowLocked(e) == \E w \in renewing : exam[w] = e

\* available_at becomes now + d: the job goes behind every job due by then.
MadeAvailable(e, d) ==
    /\ wait' = [wait EXCEPT ![e] = d]
    /\ ahead' = MovedBack(ahead, wait, {g \in Exams : state[g] # "none"}, e, d)

\* Variant: a later submission is still written to the interview.
SubmitOverwrites(e, p) ==
    /\ score[e] = NoGrade
    /\ answers' = [answers EXCEPT ![e] = p]
    /\ IF state[e] = "none"
       THEN /\ payload' = [payload EXCEPT ![e] = p]
            /\ state' = [state EXCEPT ![e] = "queued"]
            /\ MadeAvailable(e, 0)
       ELSE UNCHANGED <<payload, state, wait, ahead>>
    /\ UNCHANGED <<score, attempts, lease, token, controlVars, cooldown,
                   slotVars, renewVars>>

\* The first submission creates the job; later ones find it and change nothing.
Submit(e, p) ==
    /\ score[e] = NoGrade
    /\ state[e] = "none"
    /\ payload' = [payload EXCEPT ![e] = p]
    /\ answers' = [answers EXCEPT ![e] = p]
    /\ state' = [state EXCEPT ![e] = "queued"]
    /\ MadeAvailable(e, 0)
    /\ UNCHANGED <<score, attempts, lease, token, controlVars, cooldown,
                   slotVars, renewVars>>

\* What a student's retry and a staff recovery both do to a failed job.
Requeue(e) ==
    /\ state[e] = "failed"
    /\ ~RowLocked(e)
    /\ state' = [state EXCEPT ![e] = "queued"]
    /\ attempts' = [attempts EXCEPT ![e] = 0]
    /\ lease' = [lease EXCEPT ![e] = Lapsed]
    /\ token' = [token EXCEPT ![e] = NoWorker]
    /\ MadeAvailable(e, 0)
    /\ UNCHANGED <<interviewVars, payload, controlVars, slotVars, renewVars>>

StudentRetry(e) == Requeue(e) /\ UNCHANGED cooldown

StaffRecover(e) ==
    /\ cooldown[e] = 0
    /\ Requeue(e)
    /\ cooldown' = [cooldown EXCEPT ![e] = RecoveryGap]
-----------------------------------------------------------------------------
(* Admission.  lag is the age of the clock claim() read before it got the   *)
(* lock of the control row.                                                 *)

LiveAt(lag) == {e \in Exams : state[e] = "running" /\ lease[e] > -lag}

\* Variant: the query does not skip locked rows, nor wait for them.
ClaimableLocked(lag) ==
    {e \in Exams : /\ wait[e] <= -lag
                   /\ \/ state[e] \in {"queued", "retrying"}
                      \/ state[e] = "running" /\ lease[e] <= -lag}

ClaimableAt(lag) ==
    {e \in Exams : /\ wait[e] <= -lag
                   /\ \/ state[e] \in {"queued", "retrying"}
                      \/ state[e] = "running" /\ lease[e] <= -lag
                   /\ ~RowLocked(e)}

WindowOver(lag) == windowAge - lag >= Window
StartsSeen(lag) == IF WindowOver(lag) THEN 0 ELSE starts

\* Variant: the count may reach the cap and still admit one more.
AdmittedOverCap(e, lag) ==
    /\ Cardinality(LiveAt(lag)) <= Concurrency
    /\ StartsSeen(lag) < StartsPerMinute
    /\ e \in FirstOf(ahead, ClaimableAt(lag))

\* Variant: without ORDER BY available_at.
AdmittedInAnyOrder(e, lag) ==
    /\ Cardinality(LiveAt(lag)) < Concurrency
    /\ StartsSeen(lag) < StartsPerMinute
    /\ e \in ClaimableAt(lag)

\* The control row admits one more start, and e is first in available_at order.
Admitted(e, lag) ==
    /\ Cardinality(LiveAt(lag)) < Concurrency
    /\ StartsSeen(lag) < StartsPerMinute
    /\ e \in FirstOf(ahead, ClaimableAt(lag))

Claim(w, e, lag) ==
    /\ phase[w] = "idle"
    /\ Admitted(e, lag)
    /\ attempts[e] < MaxAttempts
    /\ state' = [state EXCEPT ![e] = "running"]
    /\ attempts' = [attempts EXCEPT ![e] = @ + 1]
    /\ token' = [token EXCEPT ![e] = w]
    /\ lease' = [lease EXCEPT ![e] = IF Lease - lag > Lapsed THEN Lease - lag ELSE Lapsed]
    /\ starts' = StartsSeen(lag) + 1
    /\ windowAge' = IF WindowOver(lag) THEN lag ELSE windowAge
    /\ phase' = [phase EXCEPT ![w] = "begin"]
    /\ exam' = [exam EXCEPT ![w] = e]
    /\ body' = [body EXCEPT ![w] = payload[e]]
    /\ UNCHANGED <<interviewVars, payload, wait, ahead, cooldown, result, renewVars>>

\* A claim that picks a job without attempts left retires it and returns nothing.
ClaimRetires(w, e, lag) ==
    /\ phase[w] = "idle"
    /\ Admitted(e, lag)
    /\ attempts[e] >= MaxAttempts
    /\ state' = [state EXCEPT ![e] = "failed"]
    /\ starts' = StartsSeen(lag)
    /\ windowAge' = IF WindowOver(lag) THEN lag ELSE windowAge
    /\ UNCHANGED <<interviewVars, payload, attempts, wait, ahead, lease, token,
                   cooldown, slotVars, renewVars>>
-----------------------------------------------------------------------------
(* process(): one claimed job in one slot. *)

HoldsToken(w) == state[exam[w]] = "running" /\ token[exam[w]] = w
HoldsLease(w) == HoldsToken(w) /\ lease[exam[w]] > 0

\* Variant: no look at the saved score.
BeginRegrades(w) ==
    /\ phase[w] = "begin"
    /\ phase' = [phase EXCEPT ![w] = "analyse"]
    /\ UNCHANGED <<interviewVars, jobVars, controlVars, cooldown, exam, body, result,
                   renewVars>>

\* evaluate_inline: a saved score is returned as it stands; otherwise the exam
\* is analysed, unless the owner, the role or the evaluation lease is missing.
Begin(w) ==
    /\ phase[w] = "begin"
    /\ \/ /\ score[exam[w]] # NoGrade
          /\ phase' = [phase EXCEPT ![w] = "finish"]
          /\ result' = [result EXCEPT ![w] = "complete"]
       \/ /\ score[exam[w]] = NoGrade
          /\ phase' = [phase EXCEPT ![w] = "analyse"]
          /\ UNCHANGED result
       \/ /\ phase' = [phase EXCEPT ![w] = "finish"]
          /\ result' = [result EXCEPT ![w] = "other"]
    /\ UNCHANGED <<interviewVars, jobVars, controlVars, cooldown, exam, body, renewVars>>

\* Providers and code execution, without a database lock: an exception with its
\* error code, or an assessment that is complete (a mark) or incomplete.
Analyse(w) ==
    /\ phase[w] = "analyse"
    /\ \/ /\ phase' = [phase EXCEPT ![w] = "finish"]
          /\ \E c \in Codes : result' = [result EXCEPT ![w] = c]
       \/ /\ phase' = [phase EXCEPT ![w] = "save"]
          /\ \E r \in Marks \cup {"incomplete"} : result' = [result EXCEPT ![w] = r]
    /\ UNCHANGED <<interviewVars, jobVars, controlVars, cooldown, exam, body, renewVars>>

\* Variant: the result is written without assert_lease.
SaveUnfenced(w) ==
    /\ phase[w] = "save"
    /\ ~RowLocked(exam[w])
    /\ answers' = [answers EXCEPT ![exam[w]] = body[w]]
    /\ score' = [score EXCEPT ![exam[w]] =
          IF result[w] \in Marks THEN [body |-> body[w], mark |-> result[w]] ELSE NoGrade]
    /\ result' = [result EXCEPT ![w] = IF result[w] \in Marks THEN "complete" ELSE "other"]
    /\ phase' = [phase EXCEPT ![w] = "finish"]
    /\ UNCHANGED <<jobVars, controlVars, cooldown, exam, body, renewVars>>

\* Variant: an incomplete analysis is reported as complete.
SaveReportsComplete(w) ==
    /\ phase[w] = "save"
    /\ ~RowLocked(exam[w])
    /\ HoldsLease(w)
    /\ answers' = [answers EXCEPT ![exam[w]] = body[w]]
    /\ score' = [score EXCEPT ![exam[w]] =
          IF result[w] \in Marks THEN [body |-> body[w], mark |-> result[w]] ELSE NoGrade]
    /\ result' = [result EXCEPT ![w] = "complete"]
    /\ phase' = [phase EXCEPT ![w] = "finish"]
    /\ UNCHANGED <<jobVars, controlVars, cooldown, exam, body, renewVars>>

\* assert_lease passes and keeps the job's row locked until the commit of the
\* result; a complete result sets the score, an incomplete one clears it.  The
\* report e-mail after the commit may still raise.
Save(w) ==
    /\ phase[w] = "save"
    /\ ~RowLocked(exam[w])
    /\ HoldsLease(w)
    /\ answers' = [answers EXCEPT ![exam[w]] = body[w]]
    /\ \/ /\ result[w] \in Marks
          /\ score' = [score EXCEPT ![exam[w]] = [body |-> body[w], mark |-> result[w]]]
          /\ \E r \in {"complete", "other"} : result' = [result EXCEPT ![w] = r]
       \/ /\ result[w] = "incomplete"
          /\ score' = [score EXCEPT ![exam[w]] = NoGrade]
          /\ result' = [result EXCEPT ![w] = "other"]
    /\ phase' = [phase EXCEPT ![w] = "finish"]
    /\ UNCHANGED <<jobVars, controlVars, cooldown, exam, body, renewVars>>

\* assert_lease raises 409: nothing of a stale worker's result is written.
SaveRefused(w) ==
    /\ phase[w] = "save"
    /\ ~RowLocked(exam[w])
    /\ ~HoldsLease(w)
    /\ phase' = [phase EXCEPT ![w] = "finish"]
    /\ result' = [result EXCEPT ![w] = "other"]
    /\ UNCHANGED <<interviewVars, jobVars, controlVars, cooldown, exam, body, renewVars>>

SlotFreed(w) ==
    /\ phase' = [phase EXCEPT ![w] = "idle"]
    /\ exam' = [exam EXCEPT ![w] = NoExam]
    /\ body' = [body EXCEPT ![w] = NoPayload]
    /\ result' = [result EXCEPT ![w] = NoResult]

\* min(300, 15 * 2 ** (attempts - 1)): the product is positive.
Backoff(n) == IF BaseDelay * 2^(n - 1) \in 0..MaxDelay THEN BaseDelay * 2^(n - 1) ELSE MaxDelay

RetryDelay(code, n) ==
    IF code = "capacity" THEN CapacityDelay
    ELSE IF code = "pending" THEN PendingDelay
    ELSE Backoff(n)

\* finish() compares the token, not the expiry of the lease.
Finish(w) ==
    LET e == exam[w] IN
    /\ phase[w] = "finish"
    /\ ~RowLocked(e)
    /\ HoldsToken(w)
    /\ state' = [state EXCEPT ![e] =
          IF result[w] = "complete" THEN "complete"
          ELSE IF attempts[e] >= MaxAttempts THEN "failed" ELSE "retrying"]
    /\ MadeAvailable(e, RetryDelay(result[w], attempts[e]))
    /\ lease' = [lease EXCEPT ![e] = Lapsed]
    /\ token' = [token EXCEPT ![e] = NoWorker]
    /\ SlotFreed(w)
    /\ UNCHANGED <<interviewVars, payload, attempts, controlVars, cooldown, renewVars>>

\* The job was claimed by another slot, retired or requeued: finish() rolls back.
FinishStale(w) ==
    /\ phase[w] = "finish"
    /\ ~RowLocked(exam[w])
    /\ ~HoldsToken(w)
    /\ SlotFreed(w)
    /\ UNCHANGED <<interviewVars, jobVars, controlVars, cooldown, renewVars>>

\* The process dies: its memory is gone, an open transaction rolls back.
Crash(w) ==
    /\ phase[w] # "idle"
    /\ SlotFreed(w)
    /\ renewing' = renewing \ {w}
    /\ renewAge' = [renewAge EXCEPT ![w] = 0]
    /\ UNCHANGED <<interviewVars, jobVars, controlVars, cooldown>>
-----------------------------------------------------------------------------
(* The heartbeat thread.  Renewing a full lease changes nothing and is left *)
(* out.  done.set() stops the thread before finish(), but a renewal that    *)
(* had begun by then may still reach the database (join gives up after 5 s).*)

Renew(w) ==
    /\ phase[w] # "idle"
    /\ ~RowLocked(exam[w])
    /\ HoldsLease(w)
    /\ lease[exam[w]] < Lease
    /\ renewing' = renewing \cup {w}
    /\ renewAge' = [renewAge EXCEPT ![w] = 0]
    /\ UNCHANGED <<interviewVars, jobVars, controlVars, cooldown, slotVars>>

RenewCommit(w) ==
    /\ w \in renewing
    /\ lease' = [lease EXCEPT ![exam[w]] = Lease - renewAge[w]]
    /\ renewing' = renewing \ {w}
    /\ renewAge' = [renewAge EXCEPT ![w] = 0]
    /\ UNCHANGED <<interviewVars, payload, state, attempts, wait, ahead, token,
                   controlVars, cooldown, slotVars>>

Tick ==
    /\ SlowCommit \/ renewing = {}
    /\ lease' = [e \in Exams |-> Older(lease[e])]
    /\ wait' = [e \in Exams |-> Older(wait[e])]
    /\ windowAge' = IF windowAge < Window + ClaimLag THEN windowAge + 1 ELSE windowAge
    /\ cooldown' = [e \in Exams |-> IF cooldown[e] > 0 THEN cooldown[e] - 1 ELSE 0]
    /\ renewAge' = [w \in Workers |->
          IF w \in renewing /\ renewAge[w] < Lease THEN renewAge[w] + 1 ELSE renewAge[w]]
    /\ UNCHANGED <<interviewVars, payload, state, attempts, ahead, token, starts,
                   slotVars, renewing>>
-----------------------------------------------------------------------------
Slot(w) ==
    \/ \E e \in Exams, lag \in 0..ClaimLag : Claim(w, e, lag) \/ ClaimRetires(w, e, lag)
    \/ Begin(w) \/ Analyse(w) \/ Save(w) \/ SaveRefused(w)
    \/ Finish(w) \/ FinishStale(w) \/ Crash(w)
    \/ Renew(w) \/ RenewCommit(w)

Next ==
    \/ \E e \in Exams, p \in Payloads : Submit(e, p)
    \/ \E e \in Exams : StudentRetry(e) \/ StaffRecover(e)
    \/ \E w \in Workers : Slot(w)
    \/ Tick

Spec == Init /\ [][Next]_vars

\* Worker loops poll every two seconds and provider calls time out, so a slot
\* never stops for good; PostgreSQL grants row locks in turn, so a save or a
\* finish that waits for heartbeats gets through; a claim that is possible again and again
\* is polled for while it is.  Crashes, retries and submissions owe nothing.
Fairness ==
    /\ WF_vars(Tick)
    /\ SF_vars(\E w \in Workers, e \in Exams, lag \in 0..ClaimLag :
                  Claim(w, e, lag) \/ ClaimRetires(w, e, lag))
    /\ \A w \in Workers :
          /\ WF_vars(Begin(w)) /\ WF_vars(Analyse(w))
          /\ SF_vars(Save(w) \/ SaveRefused(w))
          /\ SF_vars(Finish(w) \/ FinishStale(w))
          /\ WF_vars(RenewCommit(w))

FairSpec == Spec /\ Fairness
-----------------------------------------------------------------------------
\* Never more jobs under a live lease than the configured concurrency, over all
\* processes (claim's count under the control row, heartbeats included).
LeaseCap == Cardinality({e \in Exams : Live(e)}) <= Concurrency

\* A final score is never changed or cleared, although an incomplete analysis
\* writes NULL and slow workers come back after their job was given to another.
ScoreFinal == [][\A e \in Exams : score[e] # NoGrade => score'[e] = score[e]]_vars

\* A job acknowledged as complete has its score saved: finish() takes the word
\* of a worker whose lease may have expired since the save.
CompleteHasScore == \A e \in Exams : state[e] = "complete" => score[e] # NoGrade

\* What is graded, what the interview shows and what the job holds are the one
\* submission, whichever of several workers wrote last.
GradedAsSubmitted ==
    \A e \in Exams :
        /\ answers[e] = payload[e]
        /\ score[e] # NoGrade => score[e].body = payload[e]

\* No slot spends provider quota on an exam that already has a score, as long as
\* it holds the job: the check at the start of evaluate_inline is enough.
NoRegrading ==
    \A w \in Workers : phase[w] \in {"analyse", "save"} /\ HoldsToken(w)
                         => score[exam[w]] = NoGrade

\* The bookkeeping between a slot, its job and its heartbeat.
SlotsOK ==
    \A w \in Workers :
        /\ phase[w] = "idle" <=> exam[w] = NoExam
        /\ phase[w] # "idle" => /\ state[exam[w]] # "none"
                                /\ body[w] = payload[exam[w]]
        /\ phase[w] = "save" => result[w] \in Marks \cup {"incomplete"}
        /\ phase[w] = "finish" => result[w] \in Codes \cup {"complete"}
        /\ phase[w] = "finish" /\ result[w] = "complete" => score[exam[w]] # NoGrade
        /\ w \in renewing => phase[w] # "idle" /\ HoldsToken(w)

JobsOK ==
    \A e \in Exams :
        /\ state[e] = "none" <=> payload[e] = NoPayload
        /\ state[e] = "none" => score[e] = NoGrade

\* The inductive invariant behind the properties above.
IInv == TypeOK /\ SlotsOK /\ JobsOK /\ GradedAsSubmitted /\ NoRegrading /\ CompleteHasScore

\* Each submitted exam is graded or reported as failed, however often processes
\* crash, providers fail and other students retry.
EverySubmissionSettles ==
    \A e \in Exams : state[e] = "queued" ~> state[e] \in {"complete", "failed"}

\* The students' view of an exam (GET /result): complete as soon as a score is
\* saved, whatever the job's state; else failed with the job; else awaiting
\* submission (none) or pending, whose queued, running and delayed are one here.
Report == [e \in Exams |->
    IF score[e] # NoGrade THEN "complete"
    ELSE IF state[e] \in {"failed", "none"} THEN state[e] ELSE "pending"]

Promise == INSTANCE GradingPromise
    WITH submitted <- answers, grade <- score, report <- Report

\* The queue implements GradingPromise: whatever workers, retries and recoveries
\* do to the job afterwards, a report shown as complete stays and stays the same.
KeepsPromise == Promise!Spec

\* docs/assessment-capacity.md: a browser retry does not erase attempts.
AttemptsNeverErased == [][\A e \in Exams : attempts'[e] >= attempts[e]]_vars
=============================================================================
