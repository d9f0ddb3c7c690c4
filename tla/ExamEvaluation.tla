--------------------------- MODULE ExamEvaluation ---------------------------
(* Grading one submitted exam inside the web request, with the grading queue
   switched off (mock_interview_v2.py): the evaluation lease and the analysis
   leases of hr_video.py, the resumable analysis of each recording, the score
   write, and the report e-mail.  A request may die at any step. *)
EXTENDS Naturals

CONSTANTS
    Requests,           \* evaluate, retry and result requests in flight
    Bodies, NoBody,     \* submitted answers
    Marks, NoScore,
    NoRequest,
    Clips,              \* recordings to analyse: 1 .. Clips
    Parts,              \* results the processor saves one by one per recording
    EvaluationLease, AnalysisLease, MailPause,
    MaxMails, Horizon   \* bounds on the mails and on the clock

ASSUME EvaluationOK ==
    /\ NoBody \notin Bodies /\ NoRequest \notin Requests
    /\ NoScore \notin Bodies \X Marks
    /\ {Clips, Horizon} \subseteq Nat
    /\ {Parts, EvaluationLease, AnalysisLease, MailPause, MaxMails} \subseteq Nat \ {0}

VARIABLES
    now,
    recorded,       \* the exam has a recording row; without one it is text only
    submission,     \* submission_json of that row
    evaluationLease, analysisLease,     \* the instants they run to, 0 when free
    analysis,       \* parts of each recording saved, and whether it is finished
    answers, evaluation, score,         \* the interview row
    mails,          \* reports delivered
    sentAudit, failedAt, mailLock,      \* audit events, advisory lock
    req,            \* the requests; "first" is the one that stored the submission
    overran,        \* history: a request outlived its evaluation lease
    mailLost        \* history: a request died between the mail and its audit

leaseVars == <<evaluationLease, analysisLease>>
interviewVars == <<answers, evaluation, score>>
mailVars == <<mails, sentAudit, failedAt, mailLock>>
history == <<overran, mailLost>>
vars == <<now, recorded, submission, leaseVars, analysis, interviewVars, mailVars, req, history>>

Idle == [step |-> "idle", body |-> NoBody, until |-> 0, clip |-> 0,
         clipUntil |-> 0, parts |-> 0, first |-> FALSE, sent |-> FALSE]

Init ==
    /\ now = 1
    /\ recorded \in BOOLEAN
    /\ submission = NoBody
    /\ evaluationLease = 0
    /\ analysisLease = [c \in 1 .. Clips |-> 0]
    /\ analysis = [c \in 1 .. Clips |-> [parts |-> 0, full |-> FALSE]]
    /\ answers = NoBody /\ evaluation = "none" /\ score = NoScore
    /\ mails = 0 /\ sentAudit = FALSE /\ failedAt = 0 /\ mailLock = NoRequest
    /\ req = [r \in Requests |-> Idle]
    /\ overran = FALSE /\ mailLost = FALSE

Tick ==
    /\ now < Horizon
    /\ now' = now + 1
    /\ overran' = (overran \/ \E r \in Requests : req[r].until \in 1 .. now + 1)
    /\ UNCHANGED <<recorded, submission, leaseVars, analysis, interviewVars, mailVars, req, mailLost>>

Goto(r, step) == req' = [req EXCEPT ![r].step = step]
Done(r) == req' = [req EXCEPT ![r] = Idle]

(***************************************************************************)
(* evaluate_inline.                                                        *)
(***************************************************************************)
(* Without a recording nothing is stored first and nothing is leased. *)
EvaluateText(r, b) ==
    /\ req[r].step = "idle"
    /\ ~recorded /\ score = NoScore
    /\ req' = [req EXCEPT ![r] = [Idle EXCEPT !.step = "grade", !.body = b]]
    /\ UNCHANGED <<now, recorded, submission, leaseVars, analysis, interviewVars, mailVars, history>>

\* Variant: a later body replaces the stored one.
StoreAnySubmission(r, b) ==
    /\ req[r].step = "idle"
    /\ recorded /\ score = NoScore
    /\ submission' = b
    /\ answers' = b
    /\ req' = [req EXCEPT ![r] = [Idle EXCEPT !.step = "lease", !.body = b, !.first = TRUE]]
    /\ UNCHANGED <<now, recorded, leaseVars, analysis, evaluation, score, mailVars, history>>

(* The first submission is committed, with the answers, before any analysis;
   the commit releases the row lock. *)
StoreSubmission(r, b) ==
    /\ req[r].step = "idle"
    /\ recorded /\ score = NoScore /\ submission = NoBody
    /\ submission' = b
    /\ answers' = b
    /\ req' = [req EXCEPT ![r] = [Idle EXCEPT !.step = "lease", !.body = b, !.first = TRUE]]
    /\ UNCHANGED <<now, recorded, leaseVars, analysis, evaluation, score, mailVars, history>>

\* acquire_lease: a conditional UPDATE; a lease that runs is a 409.
Leased(r, b, first) ==
    [req EXCEPT ![r] = [Idle EXCEPT !.step = "clip", !.body = b, !.clip = 1, !.first = first,
                                    !.until = now + EvaluationLease]]

Acquire(r) ==
    /\ req[r].step = "lease"
    /\ IF evaluationLease <= now
       THEN /\ evaluationLease' = now + EvaluationLease
            /\ req' = Leased(r, req[r].body, TRUE)
       ELSE Done(r) /\ UNCHANGED evaluationLease
    /\ UNCHANGED <<now, recorded, submission, analysisLease, analysis, interviewVars, mailVars, history>>

\* Variant: a score is no reason not to grade.
EvaluateAgain(r) ==
    /\ req[r].step = "idle"
    /\ recorded /\ submission # NoBody
    /\ evaluationLease <= now
    /\ evaluationLease' = now + EvaluationLease
    /\ req' = Leased(r, submission, FALSE)
    /\ UNCHANGED <<now, recorded, submission, analysisLease, analysis, interviewVars, mailVars, history>>

(* A later evaluate, whatever body it brings, and retry grade the stored
   submission.  The row lock is held from the check of the score to the lease. *)
EvaluateStored(r) ==
    /\ req[r].step = "idle"
    /\ recorded /\ score = NoScore /\ submission # NoBody
    /\ evaluationLease <= now
    /\ evaluationLease' = now + EvaluationLease
    /\ req' = Leased(r, submission, FALSE)
    /\ UNCHANGED <<now, recorded, submission, analysisLease, analysis, interviewVars, mailVars, history>>

(***************************************************************************)
(* analyze_recording, for one recording after the other.                   *)
(***************************************************************************)
(* A finished analysis is reused; else the analysis lease is asked for, in a
   transaction of its own. *)
CheckClip(r) ==
    /\ req[r].step = "clip"
    /\ \/ /\ req[r].clip > Clips
          /\ Goto(r, "grade")
       \/ /\ req[r].clip <= Clips
          /\ IF analysis[req[r].clip].full
             THEN req' = [req EXCEPT ![r].clip = @ + 1]
             ELSE Goto(r, "clip lease")
    /\ UNCHANGED <<now, recorded, submission, leaseVars, analysis, interviewVars, mailVars, history>>

(* The row is read again under the lease: partial results are continued, and
   anything else, a finished analysis too, is started afresh. *)
AcquireClip(r) ==
    LET c == req[r].clip IN
    /\ req[r].step = "clip lease"
    /\ IF analysisLease[c] <= now
       THEN /\ analysisLease' = [analysisLease EXCEPT ![c] = now + AnalysisLease]
            /\ req' = [req EXCEPT ![r].step = "analyse",
                         ![r].clipUntil = now + AnalysisLease,
                         ![r].parts = IF analysis[c].full THEN 0 ELSE analysis[c].parts]
       ELSE Goto(r, "release") /\ UNCHANGED analysisLease
    /\ UNCHANGED <<now, recorded, submission, evaluationLease, analysis, interviewVars, mailVars, history>>

(* One more part is analysed and persisted; after the last one the analysis
   is finished.  Nothing compares the lease. *)
SavePart(r) ==
    LET c == req[r].clip
        n == req[r].parts + 1 IN
    /\ req[r].step = "analyse"
    /\ IF n <= Parts
       THEN /\ analysis' = [analysis EXCEPT ![c] = [parts |-> n, full |-> FALSE]]
            /\ req' = [req EXCEPT ![r].parts = n]
       ELSE /\ analysis' = [analysis EXCEPT ![c] = [parts |-> Parts, full |-> TRUE]]
            /\ Goto(r, "clip done")
    /\ UNCHANGED <<now, recorded, submission, leaseVars, interviewVars, mailVars, history>>

AnalysisFails(r) ==
    /\ req[r].step = "analyse"
    /\ Goto(r, "clip failed")
    /\ UNCHANGED <<now, recorded, submission, leaseVars, analysis, interviewVars, mailVars, history>>

(* release_lease clears the field only while it still holds this lease. *)
ReleaseClip(r) ==
    LET c == req[r].clip IN
    /\ req[r].step \in {"clip done", "clip failed"}
    /\ analysisLease' = [analysisLease EXCEPT ![c] = IF @ = req[r].clipUntil THEN 0 ELSE @]
    /\ req' = [req EXCEPT ![r].step = IF req[r].step = "clip done" THEN "clip" ELSE "release",
                          ![r].clip = IF req[r].step = "clip done" THEN c + 1 ELSE c,
                          ![r].clipUntil = 0, ![r].parts = 0]
    /\ UNCHANGED <<now, recorded, submission, evaluationLease, analysis, interviewVars, mailVars, history>>

(***************************************************************************)
(* _evaluate_saved_answers: the score.                                     *)
(***************************************************************************)
(* A complete result is the score.  An incomplete one clears the score, so
   that the exam can be evaluated again. *)
Save(r, mark) ==
    /\ req[r].step = "grade"
    /\ answers' = req[r].body
    /\ IF mark \in Marks
       THEN /\ evaluation' = "complete"
            /\ score' = <<req[r].body, mark>>
            /\ Goto(r, "mail")
       ELSE /\ evaluation' = "pending"
            /\ score' = NoScore
            /\ Goto(r, "release")
    /\ UNCHANGED <<now, recorded, submission, leaseVars, analysis, mailVars, history>>

Release(r) ==
    /\ req[r].step = "release"
    /\ evaluationLease' = IF req[r].until # 0 /\ evaluationLease = req[r].until THEN 0 ELSE evaluationLease
    /\ Done(r)
    /\ UNCHANGED <<now, recorded, submission, analysisLease, analysis, interviewVars, mailVars, history>>

(***************************************************************************)
(* The report e-mail.                                                      *)
(***************************************************************************)
(* The result page delivers the report too, when there is a score. *)
OpenResult(r) ==
    /\ req[r].step = "idle"
    /\ score # NoScore
    /\ Goto(r, "mail")
    /\ UNCHANGED <<now, recorded, submission, leaseVars, analysis, interviewVars, mailVars, history>>

RecentFailure == failedAt # 0 /\ now <= failedAt + MailPause

\* Variant: deliveries are not serialised.
LockNothing(r) ==
    /\ req[r].step = "mail"
    /\ Goto(r, IF sentAudit \/ RecentFailure THEN "release" ELSE "send")
    /\ UNCHANGED <<now, recorded, submission, leaseVars, analysis, interviewVars, mailVars, history>>

(* Under an advisory lock: nothing is sent after a sent event or within
   MailPause of a failed one. *)
LockMail(r) ==
    /\ req[r].step = "mail"
    /\ mailLock = NoRequest
    /\ IF sentAudit \/ RecentFailure
       THEN Goto(r, "release") /\ UNCHANGED mailLock
       ELSE Goto(r, "send") /\ mailLock' = r
    /\ UNCHANGED <<now, recorded, submission, leaseVars, analysis, interviewVars,
                   mails, sentAudit, failedAt, history>>

Send(r) ==
    /\ req[r].step = "send"
    /\ \E delivered \in IF mails < MaxMails THEN BOOLEAN ELSE {FALSE} :
          /\ mails' = IF delivered THEN mails + 1 ELSE mails
          /\ req' = [req EXCEPT ![r].step = "audit", ![r].sent = delivered]
    /\ UNCHANGED <<now, recorded, submission, leaseVars, analysis, interviewVars,
                   sentAudit, failedAt, mailLock, history>>

Audit(r) ==
    /\ req[r].step = "audit"
    /\ IF req[r].sent
       THEN sentAudit' = TRUE /\ UNCHANGED failedAt
       ELSE failedAt' = now /\ UNCHANGED sentAudit
    /\ mailLock' = NoRequest
    /\ Goto(r, "release")
    /\ UNCHANGED <<now, recorded, submission, leaseVars, analysis, interviewVars, mails, history>>

(***************************************************************************)
(* The process that runs a request dies: its leases stay, its database lock
   goes.                                                                   *)
(***************************************************************************)
Crash(r) ==
    /\ req[r].step # "idle"
    /\ mailLock' = IF mailLock = r THEN NoRequest ELSE mailLock
    /\ mailLost' = (mailLost \/ (req[r].step = "audit" /\ req[r].sent))
    /\ Done(r)
    /\ UNCHANGED <<now, recorded, submission, leaseVars, analysis, interviewVars,
                   mails, sentAudit, failedAt, overran>>

Step(r) ==
    \/ Acquire(r) \/ CheckClip(r) \/ AcquireClip(r) \/ SavePart(r) \/ AnalysisFails(r)
    \/ ReleaseClip(r) \/ Release(r) \/ LockMail(r) \/ Send(r) \/ Audit(r)
    \/ \E mark \in Marks \cup {NoScore} : Save(r, mark)

Next ==
    \/ Tick
    \/ \E r \in Requests :
          \/ \E b \in Bodies : EvaluateText(r, b) \/ StoreSubmission(r, b)
          \/ EvaluateStored(r)
          \/ OpenResult(r)
          \/ Step(r)
          \/ Crash(r)

Spec == Init /\ [][Next]_vars

(***************************************************************************)
(* Properties.                                                             *)
(***************************************************************************)
Analysing(r) == req[r].step \in {"analyse", "clip done", "clip failed"}
OnRecording(r) == req[r].until # 0

(* A stale request never clears or shortens the lease of a live one
   (test_lease_is_atomic_and_stale_worker_cannot_clear_new_lease): while its
   lease runs, the row holds it, so that no two live requests share one. *)
LeasesHeld ==
    \A r \in Requests :
        /\ OnRecording(r) /\ req[r].until > now => evaluationLease = req[r].until
        /\ Analysing(r) /\ req[r].clipUntil > now =>
              analysisLease[req[r].clip] = req[r].clipUntil

(* Whoever sent what: an exam with a recording is graded on its first
   submission, and the answers shown are the answers graded.  A score is shown
   exactly with a complete evaluation (no partial score, no
   SAVED_REPORT_UNAVAILABLE), and no report leaves before there is one. *)
GradedOnSubmission ==
    /\ recorded /\ answers # NoBody => answers = submission
    /\ score # NoScore => score[1] = answers
    /\ score # NoScore <=> evaluation = "complete"
    /\ mails > 0 => evaluation # "none"

(* The report is sent once, unless a process dies after the mail left and
   before its audit event was committed. *)
MailedOnce == mails > 1 => mailLost

(* A score once saved is changed or cleared only where nothing fences the
   requests: in a text-only exam, after one outlived its lease, or by the one
   that stored the submission and took the lease only after another had
   finished.  A finished analysis is lost to one that starts afresh only when
   some evaluation outlived its lease: then the analysis leases alone do not
   order the check of the row, the lease and the writes. *)
RegradedOnlyUnfenced ==
    [][/\ score # NoScore /\ score' # score =>
             \E r \in Requests :
                 /\ req[r].step = "grade"
                 /\ ~recorded \/ overran \/ req[r].first
       /\ \A c \in 1 .. Clips : analysis[c].full /\ ~analysis'[c].full => overran]_vars

(* A lease belongs to the live request that took it, and it fences the score
   of an exam with a recording, but for what RegradedOnlyUnfenced excepts: the
   request that stored the submission and came to the lease after another had
   finished grades once more. *)
EvaluationFenced == []LeasesHeld /\ RegradedOnlyUnfenced
=============================================================================
