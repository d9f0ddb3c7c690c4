# PlaceAI: formal models

PlaceAI is a placement-training service: students sit mock assessments that are graded by AI
providers, record video answers, read generated notebooks and video courses, and apply for jobs
that institutions and recruiters manage. The server is a FastAPI application on PostgreSQL
(`src/app/`); the long jobs run in worker processes that meet only in the database.

This directory holds TLA+ models of the parts where that meeting is hard to get right, the TLC
runs that check them on small instances, and TLAPS proofs for all instances.

    tlc -config QueueSafety.cfg MCAssessmentQueue     # any run of PROJECT.json
    tlapm AssessmentQueueProofs.tla                   # any *Proofs module

## 1. Inventory

PROJECT.json lists each component with its sources and how far it is modelled and, under `hazards`,
each place where the code is hard to test with the property that would catch it going wrong.

| Component | State it keeps | Operations | Interaction | What is hard | What makes it correct |
|---|---|---|---|---|---|
| Grading queue: `assessment_queue.py`, `assessment_worker.py` | `assessment_jobs`, the row `assessment_queue_control`, score and answers in `mock_interviews` | enqueue, claim, heartbeat, assert_lease, finish, student retry, staff recovery | web requests insert; worker threads claim and write back; the status page reads | expiring leases, crashes between two commits, late heartbeats, stale workers | the first submission stands and is graded once; a score is final; "complete" means scored; the cap; every submission settles |
| Inline evaluation and leases: `mock_interview_v2.py`, `hr_video.py` | `evaluation_lease_until`, `analysis_lease_until`, `analysis_json` | evaluate with the queue off, retry, open the result | several browsers of one student | leases that are never renewed; nothing fences an exam without a recording | the first submission is graded; a score changes only after a lease was outlived, or by the submitting request that took the lease last |
| Report e-mail: `assessment_report_email.py` | audit events SENT and FAILED | send after the score, retry after a pause | under an advisory lock | a crash between the mail and its audit event | one mail, but for that crash |
| Answer and HR recordings: `hr_video.py`, `answer_recording.py` | recording rows, chunks, clips | consent, start, chunk, advance, seal, submit | uploads in parallel with submission; consent commits and so releases the lock | duplicate and late chunks, sealing against upload | sealed chunks are the prefix that was uploaded; nothing changes after the seal |
| Learning notebooks: `learning_worker.py`, `routers/learning_hub.py` | `learning_notebooks` (plan, chapters, draft, lease) | create, delete, restore, retry, recover, claim, checkpoint, save, fail, renew | students' requests against worker processes | whole JSON columns written back minutes after they were read; leases revived after expiry | chapters are never lost; ready means complete; deleted stays deleted; one in preparation per student |
| Video learning: `learning_video_worker.py`, `routers/learning_video.py` | courses, lessons (script, checks, media, lease), narrations | create, retry, prepare, recover, admit, claim, plan, author, narrate, render, review, publish | a course is shared by all students of its topic; budgets per day and in bytes | stored checks and media written back late; sums over many rows under the lock of one | only checked lessons are published, with the script and media that were checked; the storage budget; every part settles |
| Sessions and account protection: `routers/auth.py`, `auth_protection.py`, `google_login.py` | `auth_version`, refresh sessions, one-time links, authenticator | signup, verify, login, refresh, logout, change, forgot, reset, enrol, Google | browsers in parallel; mail sent after the commit | rotation races; what was read before a revocation; a link restored when its mail fails | an accepted session was proven under the version in force; secrets are used once |
| Rate limits: `rate_limit.py` | one bucket per key | enforce | every request | insert race; a block inside a window; clocks older than the row | no window above its limit; less than three windows' worth in the length of one |
| Access requests: `routers/access.py`, `platform.py` | request, account, setup link | submit, review, provision, set a password | visitors, two kinds of staff | two decisions at once; provisioning is three commits with a mail between | provisioned means there is a trusted account and a mailed link |
| Placement operations: `routers/enterprise*.py`, `jobs*.py`, `institution*.py`, `students.py`, `product_intelligence.py` | listings, drives, applications, offers, letters, profile changes, resumes, action rows, announcements, stages | edit, approve, open, apply; offer, decide, letter; ask, decide; sync, resolve | recruiters, coordinators, students | nothing is locked: each request decides on what it read and commits later | the campus lets through what it reviewed; offers, status and letters agree; verdicts decide; the list follows the record |
| Entitlements, billing and trial: `student_entitlements.py`, `trial_demo_access.py`, `roadmap_access.py` | first day, subscriptions, purchases, attempts | check, start, generate | the check is minutes before the insert | days that end in between | the trial gives one assessment to starts that do not overlap; nobody has a roadmap without having been entitled to it |
| Career roadmap: `roadmap_market.py`, `roadmap_public_market.py`, `roadmap_service.py` | one search, saved plan | search, plan, save | OpenAI keys, Gemini, gateway, public feeds | four nested loops that leave each other by flags | a spent key is not called again; none is skipped; the plan has its length |
| Study tracker: `study_service.py`, `routers/study_tracker.py` | marks, time per day, plans | save reading, playback, plan | several tabs, repeated requests | one pulse clock for two sources; time zones | time counted is time gone by |
| Storage and document vault: `storage.py`, `document_vault.py` | documents, files of letters | submit, withdraw, edit | student and staff | an edit in one tab against a submission in another | what staff see is complete |
| AI providers: `ai_provider.py`, `free_provider.py` | who answered last, per context | text, vision | keys in turn, Gemini, or the free provider | authorship is remembered beside the text | the named author wrote it; each is asked its number of times |
| Exam questions and scoring: `mock_interview_v2.py`, `code_execution_checkpoint.py` | issued questions, receipts, grades, integrity events | start, execute, grade, build the result | an execution provider; a worker that may lose its lease | partial replies; roundings; a post whose answer was lost | papers are complete and new; an execution on record is kept and not repeated; scores are earned; recorded evidence counts |
| Application shell | none of its own | wiring, pages, telemetry | | | not modelled |
| Writing aids and practice interviews | one text per row | one read, one provider call, one save | | | not modelled; the provider's side is in `ProviderChain` |
| Document and media rendering | none | pure conversions | | | not modelled |

## 2. Plan

Done: all modules of part 3, the runs of part 5 and the theorems of part 6.

Left, in this order:

1. `retry` and `retry_course` as a read and a write, since they do not lock the row they decide on.
2. Two starts of one student at once in `ExamPaper`, so that two exams may be issued the same items.
3. Enrolment in video courses and the students' own allowances; attendance, messages and incidents
   of the placement desk.

The models are written to be proved about: constants with named assumptions, one action per
operation, invariants as conjunctions of named parts, recursion as recursive functions.

## 3. Modules

| Module | Role |
|---|---|
| `DueOrder` | The order `ORDER BY available_at, created_at` as a relation; used by all three queues |
| `AssessmentQueue` | The grading queue, and its refinement mapping to |
| `GradingPromise` | what the queue promises a student, with no workers in it |
| `LearningNotebooks` | The notebook hub and its worker |
| `VideoLearning` | Video courses, their parts, budgets and worker |
| `Accounts` | One account and all that signs in to it |
| `ExamEvaluation` | Grading in the web request: leases, save, report e-mail |
| `ExamRecordings` | The film and the clips of an exam up to its submission |
| `SpokenEvidence` | Transcript, images and grades of one sealed recording |
| `ProviderMedia` | The copies of a recording at the paid provider |
| `ProviderChain` | OpenAI keys, Gemini, the free provider; who answered |
| `ExamPaper`, `CodeReceipts`, `ExamScoring`, `IntegrityReport` | Questions, executions, grades and evidence of an exam |
| `StudyTracker` | Marks, reading and watching time of one student |
| `Totals` | Sums `f[0] + ... + f[n]`; used by the two before it that add up |
| `RowWrites` | Requests that read rows without a lock and commit later; used by the next six |
| `CampusJobs`, `Offers`, `PlacementActions`, `CampusDesk` | The placement desk |
| `StudentRecords`, `AccessRequests` | What an institution vouches for; how a recruiter gets an account |
| `StudentAccess`, `MarketSearch` | Entitlements; the search behind a career roadmap |
| `RateLimits` | One bucket of the limiter |
| `MCAssessmentQueue`, `MCLearningNotebooks`, `MCVideoLearning`, `MCAccounts` | Instances for TLC |
| `MCExams`, `MCServices`, `MCPlacement` | Instances of several modules that share no row |
| `AssessmentQueueProofs`, `LearningNotebooksProofs`, `VideoLearningProofs`, `AccountsProofs` | Theorems about the module of that name |
| `ExamEvaluationProofs` | Theorems about `ExamEvaluation`, `CodeReceipts`, `SpokenEvidence` |
| `ExamsProofs` | Theorems about `IntegrityReport`, `StudyTracker`, `ExamScoring`, `ExamPaper` |
| `ServicesProofs` | Theorems about `ExamRecordings`, `StudentRecords`, `AccessRequests`, `RateLimits`, `ProviderMedia`, `ProviderChain` |
| `PlacementProofs` | Theorems about `CampusJobs`, `Offers`, `PlacementActions`, `CampusDesk`, `StudentAccess`, `MarketSearch` |

Definitions whose comment begins with "Variant:" are not part of a specification: each is an
action or a guard with a plausible mistake in it. PROJECT.json (`mutants`) pairs every checked
property with a variant that TLC finds it violated under.

## 4. The modules and the code

In all modules a committed transaction is one step, unless the table of the module says that a
handler is several: then it is cut where it commits, or where it uses what it read without a lock.
Provider calls, mails and the copies of media are steps of their own with every outcome the code
tells apart. Data that no property distinguishes (texts, prompts, wording, media) is a model value.

### The order of a queue (`DueOrder`)

Both claims take the first due row by `available_at`. Delays are kept relative to now and stop
at zero, so two rows that are due look alike; the order must survive that, because liveness
depends on it. `ahead[e]` is the set of rows before `e`; giving `e` a new `available_at` moves
it behind the rows that are due by then (`MovedBack`). On equal times the row that was there
first stays first, as `created_at` and the finer clock of the database have it.

### The grading queue (`AssessmentQueue`)

*State.* `answers`, `score` are columns of `mock_interviews`; a score is kept with the answers
it was computed from. `payload` ... `token` are `assessment_jobs`; `windowAge`, `starts` the
control row; `cooldown` stands for the newest recovery audit event. `phase`, `exam`, `body`,
`result` are the local variables of one slot of a worker process. `renewing`, `renewAge` are
heartbeat transactions whose UPDATE is done and whose commit is not.

*Steps.* A committed transaction is one step:

| Action | Code |
|---|---|
| `Submit` | `enqueue`: creates the job and stores the answers; a second submission changes nothing |
| `StudentRetry`, `StaffRecover` | `retry_saved_interview`, `processing_recovery.recover` |
| `Claim`, `ClaimRetires` | `claim` under the control row: cap, start budget, order, attempt limit |
| `Begin` | `evaluate_inline` up to the analysis: a saved score is returned as it is |
| `Analyse` | provider calls and code execution, reduced to their outcome |
| `Save`, `SaveRefused` | `assert_lease` and the commit of the result, with the job's row locked |
| `Finish`, `FinishStale` | `finish`, fenced by the token only |
| `Renew`, `RenewCommit` | `heartbeat`: its UPDATE holds the row until it commits |
| `Crash` | the process dies, its open transaction rolls back |
| `Tick` | time |

*What is abstracted.* A lease token is the slot's name: a slot has one item, and drops it before
it claims again. `claim` reads the clock before it waits for the control row: `lag` is that delay,
up to `ClaimLag`. The heartbeat thread is told to stop before `finish`, but the join gives up after
five seconds, so a renewal may begin in any phase. Guards that depend on the rest of the
application (active owner, 30-day retention, consent, a missing receipt) only make an analysis
fail; they are the outcome "other", which is always possible. A missing control row is an
elapsed window. The report e-mail after the score may raise, so `Save` may end with an error
although the score is saved.

### The promise (`GradingPromise`)

One exam has `submitted`, `grade` and `report`. A submission stands; a grade is awarded once and
from what was submitted; the report is complete in the step that awards the grade, and for good;
giving up on an exam without a grade is always allowed and can be taken back. `AssessmentQueue`
implements it with `submitted <- answers`, `grade <- score` and `report <- Report`, which is what
`assessment_status.py:10-13` answers: "complete" as soon as a score is set, whatever the job's state
is then (queued again, running or failed), and otherwise what the job says.

### The notebooks (`LearningNotebooks`)

*State.* `plan`, `draft`, `chapters`, `reviewed` are what `plan_json` and `chapters_json` hold:
`plan` is "empty" (`{}`), "outlined", or "hollow" (`{"draft": {}}` and nothing else); `draft` is the
chapter number that the saved concepts belong to; `chapters` the number of written ones.
`phase`, `book`, `seen`, `stage`, `error` are a worker's locals: `seen` is the copy of plan and
chapters that `_process` reads at the start and writes back at the end.

| Action | Code |
|---|---|
| `Create`, `Delete`, `Restore`, `Retry` | the handlers of `learning_hub.py`, which lock the user's row |
| `StaffRecover` | `recover`, branch "notes" |
| `ClaimGate`, `ClaimPick` | the two statements of `claim` under the advisory lock |
| `Read` | the first session of `_process`, and the choice of the stage |
| `Checkpoint` | `write_checkpoint` for the draft of a new chapter |
| `Work` | research, authoring, review, the check of the whole |
| `Save`, `SaveLost` | the last session of `_process` |
| `Fail`, `FailLost` | the error handler |
| `Renew` | the renewal thread |
| `Crash` | the process dies, or `run` logs a database error |

*What is abstracted.* Texts are gone: a review or a validation passes or raises a "content" error
(a `ValueError`), a provider raises "capacity", all else is "other". The later checkpoints of one
chapter rewrite the same draft and are part of `Work`. `attempts` stops at one above the limit,
the only value it is compared with. `generation_available` and the request limits only refuse a
request. A request is one step; `retry` does not lock the notebook's row, which is listed as a
hazard and not modelled yet. A renewal that is still on its way when its worker has returned
is left out: it prolongs an abandoned lease once more.

### The video courses (`VideoLearning`)

*State.* `state` ... `older` are the queue columns that courses and lessons have in common.
`script`, `checks` and `video` are a lesson's `content_json` and `video_data`: the saved script, the
checks that are saved with it as passed, and the script that the stored media is a rendering of.
`narration` is the table of stored audio. `recent` and `repairs` are what the daily budgets count,
`cooldown` stands for the newest recovery audit event of a course. `phase`, `item`, `held`, `goal`
and `error` are locals of a worker: `held` is the content it read and will write back.

| Action | Code |
|---|---|
| `Create`, `RetryCourse`, `Prepare` | `create`, `retry_course`, `prepare` of `routers/learning_video.py` |
| `StaffRecover` | `recover`, course branch: a failed course, or its failed and unchecked parts |
| `Fill` | `fill_pending_parts` |
| `ClaimGate`, `ClaimPick` | the statements of `claim` before and after its look for a live lease |
| `Read` | the first session of `_process`, and the choice of the stage |
| `Plan`, `Author`, `Review` | research and plan; `save_script`; the content and audiovisual reviews |
| `Narrate`, `Render`, `Publish` | the sums of stored bytes in `cached_narrator`, before the media checkpoint and before publication |
| `PutNarration`, `PutMedia`, `PutPublished` | the writes that those sums allowed |
| `SaveCourse` | the last session of `_process` for a course, which admits its first parts |
| `ProviderFails`, `Fail`, `FailLost` | an exception of a stage; the error handler |
| `Renew` | the renewal thread |
| `Crash` | the process dies, or `run` logs a database error |
| `Tick`, `DayPasses` | time; entries of the rolling day drop out of the counts |

*What is abstracted.* All courses are shared, as all have been since topics are known. A lesson
of `Legacy` was published before there were checks and is ready at the start. The scenes of a
script are narrated and stored together. A student's own allowance of the day and the limits on
courses only refuse a request, which changes nothing, so they are not counted. `repairs` stops
at the budget, the only value it is compared with. `DayPasses` may forget any of the day's
entries, since the model has no clock times. `available_at` of a failed row is not read before it
is set again, and is kept at 0. What the claim's first statement gives up is visible at once; a
claim that breaks off there is rolled back, which is as if it had not begun. Between a sum and
its write (phase "put") the worker holds the lock of its own row only, so others may store;
both lie within one tick. The fallback voice, which skips the wait after a capacity error, is
left out. Requests are single steps, although `retry_course` does not lock the course; that is
listed as a hazard.

### Accounts (`Accounts`)

*State.* `user`, `protection` and `sessions` are the rows of `users`, `account_protection` and
`refresh_sessions`; `op[r]` what request `r` has read of them; `uses` counts how often each secret
was accepted, and never falls; `mayReturn` has the reset links that were used while a request for a new one had
already read them, which are the ones its failed mail may bring back. `sessions[j]` also remembers on which proof it was given out (the version, the
password, a second factor) which no column holds: that is what `LiveIsProven` is about.

| Action | Code |
|---|---|
| `BeginSignup`, `CommitSignup`, `DeliverVerification`, `VerificationFailed`, `ConfirmEmail` | `signup`, the mail after its commit, which puts the previous link back when it fails |
| `BeginLogin`, `CommitLogin`, `Verify` | `_authenticate`, `_token_response`, `verify_mfa` |
| `BeginRefresh`, `CommitRefresh`, `RejectRefresh`, `Logout` | `refresh_token`, which locks the session's row, `logout` |
| `BeginChange`, `CommitChange`, `IssueChanged` | `change_password`: the version is raised in one transaction and the new session made in another |
| `BeginForgot`, `CommitForgot`, `ResetMailFailed`, `Reset` | `forgot_password`, its mail, `reset_password` |
| `Enroll`, `ConfirmMfa`, `DisableMfa` | the authenticator, under the user's lock |
| `BeginGoogle`, `CommitGoogle`, `GoogleSignup`, `GoogleLink`, `GoogleReclaim`, `MailLinkCode` | `google_login.authenticate` |

A handler that locks the user before it reads is one action, any other two or three. Links and jtis
are fresh values; expiry is a link that nobody presents any more. A session that a password change
gave out is proven by the change. `change_password` issues it in a second transaction, with the version the
row has by then: if another revocation came between the two (a reset, say), the session has the
version of that one without having been proven under it. Such a session, and what is rotated or enrolled
from it, is marked `overtaken`; `LiveIsProven` is about all the others. Google's nonces and the rate
limits in front of each handler are not modelled.

### Evaluation in the web request (`ExamEvaluation`)

*State.* The exam's answers and score, the two kinds of lease, what the processor has saved of each
recording, the audit events of the mail; `req[r]` is the place of a request in the code and its
locals. With a recording the first body is stored and stands (`StoreSubmission`, `EvaluateStored`);
without one the body of each request is graded (`EvaluateText`). `Acquire`, `AcquireClip` take a
lease that runs out, `SavePart` saves one part result, `AnalysisFails` and `ReleaseClip` end an analysis, `Save` writes
the score, `LockMail`, `Send` and `Audit` are the report, `OpenResult` reads the stored result and
retries the mail. A request may die before any of these.

### Recordings (`ExamRecordings`, `SpokenEvidence`, `ProviderMedia`)

`ExamRecordings` has one row per clip and one for the film: consent, start, chunks in the order the
client numbers them, the answered bytes, the seal and its segments, and the submission that hands
in the seals. Every handler holds the row of the exam, but storing a first consent for the free
processor commits, so that `ReadUnlocked` and `WriteUnlocked` are the rest of a start that no lock
covers. `SpokenEvidence` is the analysis of a sealed film by the free provider: `Transcribe`, `Look`
at sampled images, `Grade` one answer at a time, and `Persist` after each; `Misheard`, `Misgraded`
and `Stop` are replies that do not validate and crashes. Times are moments; `EvidenceStands` says that
the words counted for an answer have their middle in the time of that very answer and count for no
other, and that a report misses none of them. `ProviderMedia` follows the copy that the paid provider keeps:
`Upload`, `NameCopy` in the row, `Poll`, `AskForAnalysis`, `DeleteCopy`, `ForgetCopy`, and
`Provider` and `MediaCrash` around it. An upload may time out or lose its answer when the provider has
stored the file: that copy has no name here, and `MediaAccounted` says that this, a death or a failed deletion
before the name is saved are the only ways to lose sight of one. The last two modules have one
worker at a time, since the leases are the matter of `ExamEvaluation`: an attempt is taken to end
within the five minutes of its lease.

### Exam questions, executions, scores and evidence (`ExamPaper`, `CodeReceipts`, `ExamScoring`, `IntegrityReport`)

`ExamPaper` takes a provider's reply item by item (`Reply`), with the checks of format, section,
quota and repetition, and fills what is missing (`FillPaper` from the bank, `FillRound` round a pool);
`Issue` applies the answer contract and stores the paper. Questions that `_too_similar` cannot tell
apart are one topic. `CodeReceipts` runs the cases of one program: `LookUp`, `Post`, `SaveToken`,
`Poll`, `SaveResult` per case, by attempts that hold the lease, lose it or die, against a provider
that is external. `ExamScoring` grades each item by its key, its execution, its clip or the AI
evaluator (all answers at once, then in batches, then not at all) and `Build`s the result with its
two roundings. `IntegrityReport` records signals one by one and merges the browser's list at
the evaluation; the list is kept to the last `Cap` events.

### Study time (`StudyTracker`)

Each request locks the student's row first and so is one action: `SaveReading`, `Playback`,
`Practice`, `CreatePlan`. Bodies are chosen freely; `SecondPasses` is the clock. Seconds are counted per
day of the zone in force, by pulses: a save grants what the client claims, at most what went by
since the latest pulse of any source, and at most a pulse's length. `Totals` adds up days.

### Requests that read and commit later (`RowWrites`)

The handlers of the placement desk lock nothing. Each of `CampusJobs`, `Offers`, `PlacementActions`,
`CampusDesk`, `StudentRecords` and `AccessRequests` keeps at a desk what a request has read and what
it means to write, in `Begin...` and `Commit...` actions. `Written` is what SQLAlchemy does at a
commit: it updates the columns that differ from what was loaded and leaves the others as
they are. A desk is `stale` when another request committed since it read; the properties say what
holds for all requests and what for those that nobody overtook.

| Module | Rows and requests |
|---|---|
| `CampusJobs` | a listing with its text, deadline and approval by the campus, the drive opened on it, one student's application: create, edit, archive, approve, open or change a drive, apply; what the student is like changes by itself, and deadlines pass. A new deadline takes the listing off until it is approved again, as a new text does |
| `Offers` | offers of one student with their letters, the placement status, the policies that decide what the student may still apply for: apply, create an offer, decide, update, upload a letter |
| `PlacementActions` | the action list, one row per source key: a sync reads in two parts and writes without a lock (`BeginSync`, `ReadOpen`, `CommitSync`) while staff take, resolve, dismiss and reopen; what the student is advised of |
| `CampusDesk` | a marksheet (its handlers do lock it), an announcement and who was told, the stages of a drive |
| `StudentRecords` | an academic field with the requests to change it and the verdicts, the resume with its review, coaching and parsing |
| `AccessRequests` | requests of one address, reviews of both staffs, provisioning as account, mail, outcome; direct provisioning; setting the password by link |

### Entitlements and the market (`StudentAccess`, `MarketSearch`)

`StudentAccess` has days, a campus that may come and go, subscriptions and purchases (external:
`billing.py` answers 503), the attempts, and exams and roadmaps that are begun under a check and
inserted after it. `MarketSearch` is one search: each call is a step with any outcome the code tells
apart, and `AfterOpenAI`, `NextKey`, `NextModel`, `Again` say where the nested loops go next; `AskFeeds`
plans the phases of a public roadmap with their rounding.

### Providers and limits (`ProviderChain`, `RateLimits`)

A call goes through the keys, Gemini and the free provider with the retries of each
(`ProviderFails`, `SkipProvider`, `Succeed`); who answered is left in variables of the context, which
`Report` reads later. A request to the limiter reads the clock (`Arrive`), may be refused or find no
row (`FindNone`, `Insert`; of two inserts one fails, and goes on in the other's row), and counts under the
row's lock by its old clock. `admissions` has each request that was let through with its time and its
window: no window has more than its limit (`WindowKept`, which a lost insert that goes uncounted would break), and
no stretch as long as a window has as many as three windows allow (`StretchKept`).

## 5. Runs

| Run | Instance | Question and answer |
|---|---|---|
| `queue_safety` | 1 exam, 3 slots, 2 submissions, 2 marks, slow heartbeats, stale claim clock | May stale workers, crashes, retries and recoveries corrupt a grade? No; and the queue implements `GradingPromise` |
| `queue_cap` | 2 exams, 2 slots, cap 1, stale claim clock, prompt heartbeats | Do live leases exceed the cap? No |
| `queue_settles` | 2 exams, 2 slots, 2 attempts, fair | Is each submission graded or reported failed in the end? Yes |
| `accounts` | 1 account, 2 requests in flight, 3 jtis, 2 reset links, 1 link of each other kind, 2 TOTP steps, version up to 3 | Does a session outlive what it was proven by, or a secret serve twice? No, but a reset link that was used while a request for a new one had read it (see 7) |
| `notes_writers` | 1 notebook, 3 workers, 2 chapters | May stale writers lose or corrupt a notebook, or bring a deleted one back? No |
| `notes_shared` | 2 notebooks of one student, 1 worker, fair | One in preparation per student, except by staff; each is served unless workers are lost over and over |
| `notes_hollow` | 1 notebook, 1 worker | The final stage is entered without an outline (finding) |
| `video_parts` | 1 lesson published unchecked, 3 workers, 2 scripts | May stale writers publish unchecked media, mix scripts and media, or touch a passed lesson? No |
| `video_settles` | 1 course of 2 parts, 1 worker, tight storage, fair | Is the storage budget kept, and does each course and part settle? Yes, unless attempts are given back over and over |
| `exams` | 5 parts: a paper of 4 sections; 2 cases and 2 attempts; 3 papers; 4 signals, a report of 3; an outline of 2, 2 zones | Are papers fit, executions on record kept, scores earned, signals counted, and is study time real? Yes |
| `services` | 8 parts: 2 requests on an exam with 2 recordings; 2 clips and a film; a profile and its resume; 2 access requests; 1 bucket; 1 film; 3 copies; 2 contexts | Leases, seals, verdicts, provisioning, limits, evidence, copies and authorship: do they hold when requests overlap and processes die? Yes |
| `placement` | 6 parts: a listing, 2 offers, an action list, a campus desk, a student's access, a market search | Campus control, offers, action list, documents, trial, providers in turn: yes, as far as the properties say |

*Several parts in one run.* The modules of `MCExams`, `MCServices` and `MCPlacement` share no row. The
first state chooses a part, and only its actions are taken: the states of the parts add instead
of multiplying, and the other parts rest in one initial state. A property that speaks of a module
is then checked on all behaviours of that module alone.

*Bounds: the three queues.* A row is contended by at most three parties that matter: the holder, a
stale holder and a third that claims after both; three workers on one row show that. A cap is
exceeded by one, so a cap of 1 with two jobs shows it. A lease of two ticks tells fresh, ageing and
expired apart; a lag of one tick tells "expired by the old clock" from "by the new one". Two or
three attempts tell first, middle and last. Two chapters tell a first, a later and the last
chapter. Queues with two rows show overtaking. Recovery and a student's retry make attempts
unbounded in total, so these runs are over cyclic behaviours and need no bound on their length. In
`video_settles` a video and a narration together fill the storage budget and one part a day is
admitted, so both refusals occur; in `video_parts` a lesson goes through production again and again
under three workers, and two scripts tell what is saved from what is held.

*Bounds: the others* count requests or time, and are named in the cfg.

| Constants | Why they are enough |
|---|---|
| 2 `Requests`, `Desks`, `Callers`, `Contexts`, `Tabs`, `Attempts` | a race has a request that read and one that overtook it |
| `MaxJobRequests`, `MaxRecordRequests`, `MaxActionRequests`, `MaxCampusRequests` 3; `MaxOfferRequests`, `MaxAccessRequests` 4 | two that overlap and what came before them; two offers and two answers |
| `MaxVersion` 3, 3 `Jtis` | a session of before a revocation, of it, and of after a second one |
| `Horizon` 4, `EvaluationLease` 2, `AnalysisLease` 1 | a lease is taken, outlived and taken again; the analysis lease runs out first |
| `MaxMails` 2, `MailPause` 1 | a second mail is what would be wrong |
| `LastMoment` 4, `MaxChunks` 2, two sizes, `ClipBytes` 1, `MaxBytes` 2, two clips and a film | a chunk too many, too large, twice, out of order, and after the end |
| `Limit` 2, `WindowLength` 2, `BlockLength` 1, `MaxWait` 2, `LastTick` 5 | three windows meet the length of one: 5 of the 6 that three allow are reached; one insert too many shows in a window |
| 2 `Campuses`, 2 `Contents`, 1 of `Deadlines` beside NULL | from one campus, text or deadline to another, past or not |
| 2 `ResetLinks` | an older link that comes back beside a newer one |
| `Questions` 2, `LastSpoken` 4, `MaxRuns` 2, `SomeFilms`, `SomeTranscripts` | answers that touch, a pause between them, words on a boundary, one resumption |
| 3 `Copies`, `MaxPolls` 2 | one in use, one lost sight of, one after that |
| `MaxCalls` 2, `SomeDeployments` | what the second call finds of the first; each shape of the chain |
| `KeyLimit`, `Models`, `GeminiModels`, `GatewayModels` 2; `Asked` | first and last; days on both sides of each rounding |
| `Trial`, `Month`, `LastDay` 1; `MaxExams` 2, `MaxRoadmaps` 1 | a right that ends between check and insert |
| `Lookback` 2, `HistoryLimit` 5, rounds of 2 | rows that are no longer read back; a round from a pool of 3 |
| 2 `Cases`, `MaxPosts` 2 | one case executed again while another is kept |
| `Cap` 3, `MaxSignals` 4 | a report that is full and one that is not |
| `Outline` 2, `LastSecond` 3, `DayLength` 3, two zones one tick apart | a save through several sections; midnight in one zone and not in the other |

`CHECK_DEADLOCK FALSE` is said where the system may stop: at the bound on requests or on the clock, a
graded exam, a full report, a search that has answered. It is on for the queues, where `Tick` is
always enabled unless a heartbeat that must be prompt is open, and then its commit is. Symmetry is
used for interchangeable model values in runs of safety properties only; constants of several modules share their values
so that one group of permutations serves all of them, and no operator tells the members apart.

*Fairness.* Time advances; a worker loop polls again after every item and every error; provider
calls have timeouts; transactions end. That is weak fairness on the steps of an item. Claims
need strong fairness: they are enabled again and again, not all the time, because other slots
take the cap, the start budget or the advisory lock. `Finish` of the queue, too, is disabled
while a heartbeat holds the row. `Tick` must wait for a claim in progress. Nothing is assumed of
students, staff, crashes and heartbeats. Strong fairness of a claim excludes a process that dies
each time at that very moment; it does not exclude one that dies at every later step. A video
worker polls every five seconds, and the start of a claim is strongly fair for the workers
together. A capacity error gives the attempt back and a recovery by staff gives all back, so
`EveryPartSettles` excepts behaviours with infinitely many of those. The modules without liveness
properties have no fairness.

## 6. Proofs

Every safety property that a passing run checks is a theorem of its module's specification.
PROJECT.json lists the theorems; what follows are the assumptions and the inductive invariants,
which mostly say more than the properties.

*Assumptions.* Each module names its own: special values are outside the sets they are special to,
delays, limits and lengths are natural numbers, sets that are counted are finite. `VideoOK` says that
the doubled delays are natural numbers, a fact of arithmetic that the provers do not have.
`RateLimitsAssumption` has requests wait no longer for a row than a window lasts: the windows of
the code last from a minute to an hour, the row is held for one update. `PaperAssumption` has
sections that differ, quotas above zero, a bank with an item for each section (as the fixed tables of
`mock_interview_v2.py` have) and a pool that is not empty. `StorageOK` has the lessons of before the budget fit in it. No theorem bounds
the number of exams, workers, requests, keys, chunks, sections or attempts; where a module's
specification itself has a bound (`MaxVersion`, `LastTick`, `Max...Requests`), it may be any number.

*Queue.* `IInv` holds `TypeOK`; `SlotsOK` (a busy slot has an exam, carries the body of the job it was
given, reports "complete" only for a scored exam, and an open heartbeat belongs to the holder of
the token); `JobsOK`; and the properties `GradedAsSubmitted`, `CompleteHasScore`, `NoRegrading`. The
last is the heart: `Save` does not look at the score again, so that it never overwrites one must
follow from the fact that no slot analyses a scored exam *while it holds the token*; a second slot
that began earlier lost the token when the exam was claimed again, and `assert_lease` refuses it.
`ScoreFinal` and the refinement of `GradingPromise` follow step by step: `Save` is `Award`, and what
becomes of the job of a scored exam afterwards is a stutter. `LeaseCap` needs
`OpenRenewalsLive` besides: without slow commits, an open heartbeat's lease is still live.

*Notebooks.* `TypeOK`, `WorkersOK`, `ReadyIsComplete`, `SnapshotFresh`, `DraftIsNext`. `SnapshotFresh` is
the heart: renewals revive expired leases and two workers may work on one notebook, yet only the
holder of the token writes, every other step that changes the content takes the token away, so the
holder's copy is what the row holds. From it follow `ProgressKept`, `DeletedStaysDeleted` and
`OnlyStaffDoublesUp`.

*Video courses.* `TypeOK`, `RowsOK`, `StagesOK`, `ChecksFit`, `ReadyIsChecked`, `NarrationFits`, `HeldIsRow`.
`ChecksFit` and `ReadyIsChecked` are what is wanted; `HeldIsRow` and `StagesOK` carry them: while a
token stands, nobody else writes the row, so what the worker holds is what the row holds, and a
script is authored only where none is saved, hence where no media and no narration is saved
either. `RowsOK` has the bookkeeping of the attempts. `PassedStays` follows step by step. The storage
budget: among the workers that are about to store, the one that added up last saw all that was
stored, and each of the others stores once beside it. So any number of workers exceed the
budget by at most one store for each beyond the first (`StorageBounded`), and one keeps it
(`OneWorkerKeepsCap`).

*Accounts.* `OpsBehind` and `SessionsBehind`: what requests and sessions carry is never ahead of the
account's version, and what carries the version in force was read under the password and factor in
force. The version only grows, so whoever holds an old one stays behind. A session is proven under its own
version unless it is `overtaken`, which it hands on when it is rotated or enrolled. `OneUse` has an invariant
about rotation (a session that another was rotated from is revoked, so there is no second) and one about
what can still be presented: the link in the row and the ones that failed mails may put back are different from one
another, and were not accepted yet or are in `mayReturn`; accepted codes of the enrolment in force are behind its
counter or have left its recovery codes.

*Evaluation in the request.* The body of an exam with a recording is the stored one; the lease in the
row is that of the request that took it last; while nobody outlived a lease, the holder is the only
one past `Acquire`; a mail is sent under the lock with no SENT event, and the holder audits it or
dies. `EvaluationFenced`, `GradedOnSubmission` and `MailedOnce` follow. `EvaluationFenced` excepts the
request that stored the submission: it does not look at the score after it has the lease, so it
grades again when another evaluation came and went in between.

*Executions.* The holder of the lease has the record as it is, and nobody else writes it: tokens and
results of cases only grow, and an exam is graded by somebody who holds them all. A program whose
POST was not answered, or whose token was not saved, is not on record and runs again.

*Spoken evidence.* Sound, images and answers are saved in this order; the reply in hand is of what
is not saved yet; the words of a verdict are those of its own segment (`WordsAreTold`); the segments
of a film are in order (by the least counterexample), so that words whose middle lies in different
answers are different words.

*Recordings.* For each row: chunks are only appended and what was acknowledged is a prefix; a sealed
row takes none; a start past its consent commits only with the free provider; the submission names
sealed rows and stays.

*Media.* Each stage of the worker says what it holds and what the row names, and that both are the
same copy once the name is saved, so that at most one is in sight. *Chain.* At each place of the loops the log holds exactly the
requests that lead there, with their counts; the last one is the one named.

*Access, records.* What a desk read against what the row is now: a role never goes back, a decided
request stays, a resume read is an earlier upload or the present one, and a request nobody overtook
still finds what it read. *Offers, listings, stages, actions* go the same way: the invariant says what a
fresh desk means to write of what it loaded. The proof of `OffersAgree` showed that a letter needs a
file name of its own among the uploads under way, as `save_file` gives it.

*Trial.* Of a demo whose starts never overlapped, one start is in progress at most, one full
assessment was free at most, and none while another is on its way. *Market.* Each source of an earlier stage was asked, spent keys and models lie before the
present place, and the phases add up to the length asked for through the rounding.

*Limits.* Windows do not meet but by their ends, each admission is known by its window and its number
there, so that a window has at most its limit; three windows at most meet a stretch as long as one,
and then the first request of the earliest was let through before it: the bound is a count of pairs.

*Evidence.* The recursive loop that keeps each event once is a function; that it exists, and that it
keeps every event that came, is an induction over a set of numbers (`EachNumber`), which needs no
operator parameter. *Study.* The latest pulse of a day bounds its total, days are in order, a mark is
on the day it was made; the sum over days then follows. *Scores.* Grades are numbers within 0..100 and an
opinion that is bad is worth 25 at most; totals lie between multiples of the least and the greatest,
and rise with each item; both roundings keep whole bounds and order; the counts partition the grades.

*Questions.* While an exam is asked for and filled, its items are fit (keyed, own where it is
coding, not asked before) and no section has more than its quota; then it is `Arranged`: one piece
for each section of the blueprint, as long as the quota, put one after the other. That the bank fills
up to exactly this rests on facts about sequences of any length: what a section's items are when
items are appended, joined or put together from pieces, that a paper is as long as its sections
together, and that counts which are nowhere above the quotas and as many in all are the quotas
(`InPieces`, `CountsAll`, `TotalSame`). They are inductions over sets of sequences (`EachSequence`).
The contract gives an item that has its time the same time again, so a paper keeps its pieces. A
round's items are all different; whatever was passed over since a question was chosen lies behind
the place in the pool and is a repeat, so after a full turn nothing in the pool is new.

*Only model-checked:* liveness (`EverySubmissionSettles`, `ServedUnlessWorkersAreLost`,
`EveryPartSettles`), and everything about fairness and ENABLED, which the prover does not do.

## 7. Where code and documents disagree

One is a run; the others came up in the modelling and their places are in PROJECT.json, `findings`.

1. **The hollow notebook** (`notes_hollow`). A content error in the outline stage (a syllabus that
   did not pass its review, for example) stores `{"draft": {}}`. The next attempt takes that for
   a plan, goes to the final stage with no chapters, fails there, and so does every retry.
2. **A browser retry erases attempts.** `docs/assessment-capacity.md:17-18` says it does not;
   `retry_saved_interview` sets `attempts = 0` on a failed job.
3. **The concurrency cap.** `docs/assessment-capacity.md:14-15` says jobs are capped across processes.
   A heartbeat that reads the clock before its lease expires and commits after it revives the
   lease, when another job may have been admitted already. With prompt heartbeats the cap holds
   (`queue_cap`, theorem `ConcurrencyIsCapped`).
4. **A used reset link comes back.** `forgot_password` reads the previous link without a lock and puts it
   back when its mail fails; a reset in between had used it up. `OneUse` names the links this can happen to
   (`mayReturn`): those used while a request for a new link had already read them. All others serve once.
5. **The starved notebook.** `claim` neither counts lost workers against the four attempts nor moves such
   a notebook back, so one that kills its worker each time is reclaimed for ever, before all others.
6. **Reservations.** `docs/VIDEO_LEARNING.md:70-71` says that storage is capped "with reservations for
   queued work". A place is reserved for the finished video only; the narration stored until
   publication counts as well, so that an admitted part is refused its place, three times, and fails.
7. **Practice rounds.** The local fill never ends once its pool has no new question (the state
   `skipped = Len(Pool)` of `ExamPaper`).
8. **Lost executions.** One whose token is saved but which the provider lost is polled by each later
   attempt and never posted again.
9. **Grades.** A wrong answer spoken well gets 30, without the cap that others have; a program that
   passes every test is "incorrect" when the compiler printed a warning.
10. **Crowding out.** A browser that hands in as many events as the report keeps leaves none of the server's.
11. **Offers.** `create_offer` stores "accepted" too, without the placement status that follows from it.
12. **Parsing a resume** loses the skills that were entered during the provider's call.
13. **The trial.** Practice rounds count only once they are scored, and two starts that overlap both pass.
14. **The first study plan** moves the zone of what was counted before it.
15. **Cleared actions** are not opened again when their condition returns.

Smaller ones: `list_announcements` may tell a student twice when two requests overlap
(`CampusRecordsHold` names that case). Several workers may exceed the storage budget
(`StorageBounded` says by how much). Staff recovery ignores the rule of one notebook in preparation
per student (`OnlyStaffDoublesUp` names it as the one exception), and a notebook's renewal
can revive a lease that a claim saw as expired, so two notebooks may run at once although
`docs/LEARNING_HUB.md` says that admission is serialized; no notebook is harmed (`SnapshotFresh`).
A session that a password change issues after another revocation is accepted under the version of that one
(`IssueChanged`). Two commits put before students what their campus did not approve (`Unaware` in
`CampusJobs`): an edit that had read the listing before it was approved and so did not ask for a new
approval, and an approval of what was edited since it was read; an application that was overtaken after its checks
still comes in (`AppliesLate`). A request that lost the insert into the rate limiter does not look at the block again
and may set `blocked_until` anew, to a later or an earlier time (`Count`). A recording whose upload to the provider
was not answered stays there until it expires. An exam's own bank items are not compared with what
was asked before (`RoundsDiffer`).

## 8. Not modelled

*Components:* the application shell, the writing aids and practice interviews, and the rendering of
documents and media: wiring, single reads and writes of one row, and pure conversions.

*Inside the others:* version-1 notebooks, reading progress, the text of prompts and reviews; viewing
and practice progress and the students' own allowances of video courses, decoding and inspection of
media; Google's nonces and the limits in front of the account handlers; study goals, which only
read; practice rounds in `TrialGivesOne`, each being free until one is scored; two starts of one
student at once in `ExamPaper`; the capacity of 64 receipts; the proctor's pictures; messages,
attendance, the scheduling of interviews, incidents and reports of the placement desk; refusals of
`CampusDesk` that change nothing; the limit of five next steps of a student; institution branding;
the refusal to provision a deactivated recruiter, and, in `ProvisionedIsReal`, whether the mailed link
came from provisioning or from a forgotten password; the free provider's limit on the size of its input.
In `PlacementActions` a sync that was overtaken may write over a dismissal it had read as open; the
property is about the others.
