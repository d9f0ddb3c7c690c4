---------------------------- MODULE VideoLearning ----------------------------
(***************************************************************************)
(* Video learning: app/routers/learning_video.py (a topic becomes a course *)
(* that all its students share; they may retry it or ask for a part),      *)
(* app/learning_video_worker.py (a worker plans a course, admits its parts *)
(* under a daily and a storage budget, then writes, narrates, renders,     *)
(* checks and publishes them one at a time) and the course branch of       *)
(* app/processing_recovery.py.                                             *)
(*                                                                         *)
(* A committed transaction is one step, with two exceptions.  A claim's    *)
(* look for a live lease and its choice of a row are two statements that   *)
(* see what others commit between them (what the first statement gives up, *)
(* others see at once).  A worker that stores something                    *)
(* adds up the stored bytes and writes under the lock of its own row only, *)
(* so other workers store between its sum and its write (phase "put").     *)
(* Both take less than a tick.                                             *)
(*                                                                         *)
(* All courses are shared, as all have been since create() knows topics.   *)
(* A lesson of Legacy was published before there were checks.  The scenes  *)
(* of a script are narrated and stored together.  lease and wait are       *)
(* lease_until - now and available_at - now in ticks, down to 0.           *)
(***************************************************************************)
EXTENDS Integers, FiniteSets, DueOrder

CONSTANTS
    Courses, Lessons,
    CourseOf, Position,    \* of the lessons of the plans
    Legacy,                \* lessons published unchecked, of planned courses
    Workers,               \* worker processes, one item each
    Scripts,               \* what an author may write for a lesson
    NoItem, NoWorker, NoScript,
    Lease,                 \* LEASE_SECONDS, in ticks
    Failures, Total,       \* 3 failures and one student retry: 4 attempts
    BaseDelay,             \* 60 s, doubled with each attempt
    CapacityDelays,        \* retry_seconds of the capacity errors
    VideoSize,             \* MAX_VIDEO_BYTES
    NarrationSize,         \* compressed PCM of the scenes of a script
    Budget,                \* STORAGE_BUDGET
    DailyParts,            \* 40 new parts a day
    RepairParts,           \* MAINTENANCE_PARTS_PER_DAY
    RequestParts,          \* 40 parts of one recovery
    RecoveryGap            \* the 30 minutes between two recoveries of a course

Items == Courses \cup Lessons

ASSUME VideoOK ==
    /\ Courses \cap Lessons = {} /\ IsFiniteSet(Lessons)
    /\ CourseOf \in [Lessons -> Courses] /\ Position \in [Lessons -> Nat]
    /\ \A k, l \in Lessons : k # l => <<CourseOf[k], Position[k]>> # <<CourseOf[l], Position[l]>>
    /\ Legacy \subseteq Lessons
    /\ IsFiniteSet(Scripts)
    /\ NoItem \notin Items /\ NoWorker \notin Workers /\ NoScript \notin Scripts
    /\ Lease \in Nat \ {0} /\ Failures \in Nat \ {0} /\ Total \in Nat /\ Failures < Total
    /\ \A n \in 0..Total : BaseDelay * 2^n \in Nat
    /\ BaseDelay \in Nat /\ CapacityDelays \subseteq Nat /\ CapacityDelays # {}
    /\ VideoSize \in Nat \ {0} /\ NarrationSize \in Nat /\ Budget \in Nat
    /\ DailyParts \in Nat /\ RepairParts \in Nat /\ RequestParts \in Nat /\ RecoveryGap \in Nat

\* There is a worker, and what was published before there were checks finds its place.
ASSUME StorageOK ==
    /\ IsFiniteSet(Workers) /\ Workers # {}
    /\ VideoSize * Cardinality(Legacy) <= Budget

VARIABLES
    (* tables learning_video_courses and learning_video_lessons *)
    state, attempts, wait, lease, token,
    older,             \* created_at: the rows of an item's table made before it
    (* content_json and video_data of the lessons, and learning_video_narrations *)
    script,            \* the saved script, or none (it may hold review findings)
    checks,            \* the checks that are saved with it as passed
    video,             \* the script that video_data is a rendering of
    narration,         \* the scripts with saved audio
    (* the budgets of a rolling day, and the newest recovery of each course *)
    recent,            \* lessons created within the day
    repairs,           \* requeued_parts of the day's recoveries, up to RepairParts
    cooldown,
    (* a worker process: where _process stands, its item, what it holds of it,
       what it is about to store, and the error it carries to the handler *)
    phase, item, held, goal, error

queueVars == <<state, attempts, wait, lease, token, older>>
contentVars == <<script, checks, video, narration>>
budgetVars == <<recent, repairs, cooldown>>
workerVars == <<phase, item, held, goal, error>>
vars == <<queueVars, contentVars, budgetVars, workerVars>>
-----------------------------------------------------------------------------
States == {"none", "queued", "running", "retrying", "ready", "failed"}
AllChecks == {"content", "media", "audiovisual"}
Phases == {"idle", "pick", "read", "plan", "author", "render", "review", "save", "put", "fail"}
Goals == {"none", "narration", "media", "publish"}
Errors == {"none", "content", "capacity", "storage", "other"}
Drafts == [script : Scripts \cup {NoScript}, video : Scripts \cup {NoScript},
           checks : SUBSET AllChecks]
Blank == [script |-> NoScript, video |-> NoScript, checks |-> {}]

TypeOK ==
    /\ state \in [Items -> States] /\ attempts \in [Items -> 0..Total]
    /\ wait \in [Items -> Nat] /\ lease \in [Items -> 0..Lease]
    /\ token \in [Items -> Workers \cup {NoWorker}] /\ older \in [Items -> SUBSET Items]
    /\ script \in [Lessons -> Scripts \cup {NoScript}]
    /\ checks \in [Lessons -> SUBSET AllChecks]
    /\ video \in [Lessons -> Scripts \cup {NoScript}]
    /\ narration \in [Lessons -> SUBSET Scripts]
    /\ recent \subseteq Lessons /\ repairs \in 0..RepairParts
    /\ cooldown \in [Courses -> 0..RecoveryGap]
    /\ phase \in [Workers -> Phases] /\ item \in [Workers -> Items \cup {NoItem}]
    /\ held \in [Workers -> Drafts]
    /\ goal \in [Workers -> Goals] /\ error \in [Workers -> Errors]

Planned == {CourseOf[l] : l \in Legacy}

Init ==
    /\ state = [i \in Items |-> IF i \in Legacy \cup Planned THEN "ready" ELSE "none"]
    /\ attempts = [i \in Items |-> 0] /\ wait = [i \in Items |-> 0]
    /\ lease = [i \in Items |-> 0] /\ token = [i \in Items |-> NoWorker]
    /\ older = [i \in Items |-> {k \in Legacy : /\ i \in Legacy /\ CourseOf[k] = CourseOf[i]
                                             /\ Position[k] < Position[i]}]
    /\ script \in [Lessons -> Scripts \cup {NoScript}]
    /\ \A l \in Lessons : script[l] # NoScript <=> l \in Legacy
    /\ video = script
    /\ checks = [l \in Lessons |-> {}] /\ narration = [l \in Lessons |-> {}]
    /\ recent = {} /\ repairs = 0 /\ cooldown = [c \in Courses |-> 0]
    /\ phase = [w \in Workers |-> "idle"] /\ item = [w \in Workers |-> NoItem]
    /\ held = [w \in Workers |-> Blank]
    /\ goal = [w \in Workers |-> "none"] /\ error = [w \in Workers |-> "none"]
-----------------------------------------------------------------------------
(* The budgets.  Admissions are serialized on the row learning_runtime. *)

Least(m, n) == IF m < n THEN m ELSE n
Positive(n) == IF n > 0 THEN n ELSE 0

Pending(i) == state[i] \in {"queued", "running", "retrying"}
PendingParts == Cardinality({l \in Lessons : Pending(l)})

Stored ==
    VideoSize * Cardinality({l \in Lessons : video[l] # NoScript})
    + NarrationSize * Cardinality({p \in Lessons \X Scripts : p[2] \in narration[p[1]]})

\* The parts that find a place beside those that wait for theirs.
Room == Positive((Budget - Stored) \div VideoSize - PendingParts)

PartsAllowed == Least(DailyParts - Cardinality(recent), Room)

Created == {i \in Items : state[i] # "none"}
PartsOf(c) == {l \in Lessons : CourseOf[l] = c}
Missing(c) == {l \in PartsOf(c) : state[l] = "none"}

\* fill_pending_parts() goes through the planned courses as they were created.
ComesFirst(k, l) ==
    \/ CourseOf[k] \in older[CourseOf[l]]
    \/ CourseOf[k] = CourseOf[l] /\ Position[k] < Position[l]

\* Rows that one transaction adds.
Added(rows) ==
    /\ state' = [i \in Items |-> IF i \in rows THEN "queued" ELSE state[i]]
    /\ older' = [i \in Items |-> IF i \in rows
                                 THEN Created \cup {j \in rows \ {i} : ComesFirst(j, i)}
                                 ELSE older[i]]
    /\ recent' = recent \cup (rows \cap Lessons)

\* What is left of the day's counts when the oldest entries are a day old.
DayPasses ==
    /\ recent # {} \/ repairs > 0
    /\ recent' \in SUBSET recent /\ repairs' \in 0..repairs
    /\ UNCHANGED <<queueVars, contentVars, cooldown, workerVars>>
-----------------------------------------------------------------------------
(* The students' requests.  A student who has used up an allowance of the  *)
(* day is refused, which changes nothing.                                  *)

\* create(): later requests for the topic join the course and change no row of it.
Create(c) ==
    /\ state[c] = "none"
    /\ Added({c})
    /\ UNCHANGED <<attempts, wait, lease, token, contentVars, repairs, cooldown, workerVars>>

Requeued(i) ==
    /\ state' = [state EXCEPT ![i] = "queued"]
    /\ wait' = [wait EXCEPT ![i] = 0]

RetryCourse(c) ==
    /\ state[c] = "failed" /\ attempts[c] < Total
    /\ Requeued(c)
    /\ UNCHANGED <<attempts, lease, token, older, contentVars, budgetVars, workerVars>>

\* prepare(): a part that is missing, or one that failed.
Prepare(l) ==
    /\ state[CourseOf[l]] = "ready"
    /\ Stored + (PendingParts + 1) * VideoSize <= Budget
    /\ Cardinality(recent) < DailyParts
    /\ \/ /\ state[l] = "none"
          /\ Added({l})
          /\ UNCHANGED wait
       \/ /\ state[l] = "failed" /\ attempts[l] < Total
          /\ Requeued(l)
          /\ UNCHANGED <<older, recent>>
    /\ UNCHANGED <<attempts, lease, token, contentVars, repairs, cooldown, workerVars>>

Checked(l) == checks[l] = AllChecks

\* Variant: parts that passed their checks are repaired too.
RepairableAll(l) == state[l] \in {"failed", "ready"}

Repairable(l) == state[l] = "failed" \/ (state[l] = "ready" /\ ~Checked(l))

RepairsAllowed == Least(Positive(RepairParts - repairs), Room)

\* The parts of a course that come first, up to a number of them.
FirstParts(S, n) == {l \in S : Cardinality({k \in S : Position[k] < Position[l]}) < n}

\* recover(): a failed course, or the parts of a course that failed or were
\* published without their checks.  A failed course has no parts.
StaffRecover(c) ==
    LET parts == FirstParts({l \in PartsOf(c) : Repairable(l)},
                            Least(RequestParts, RepairsAllowed))
        rows == parts \cup {d \in {c} : state[d] = "failed"}
    IN  /\ cooldown[c] = 0
        /\ state[c] \notin {"none", "running"}
        /\ rows # {} \/ Missing(c) # {}
        /\ state' = [i \in Items |-> IF i \in rows THEN "queued" ELSE state[i]]
        /\ attempts' = [i \in Items |-> IF i \in rows THEN 0 ELSE attempts[i]]
        /\ wait' = [i \in Items |-> IF i \in rows THEN 0 ELSE wait[i]]
        /\ lease' = [i \in Items |-> IF i \in rows THEN 0 ELSE lease[i]]
        /\ token' = [i \in Items |-> IF i \in rows THEN NoWorker ELSE token[i]]
        /\ repairs' = Least(RepairParts, repairs + Cardinality(rows))
        /\ cooldown' = [cooldown EXCEPT ![c] = RecoveryGap]
        /\ UNCHANGED <<older, contentVars, recent, workerVars>>
-----------------------------------------------------------------------------
(* run(): a worker between two items. *)

\* fill_pending_parts().
Fill(w) ==
    LET missing == UNION {Missing(c) : c \in {d \in Courses : state[d] = "ready"}}
        parts == {l \in missing : Cardinality({k \in missing : ComesFirst(k, l)}) < PartsAllowed}
    IN  /\ phase[w] = "idle"
        /\ parts # {}
        /\ Added(parts)
        /\ UNCHANGED <<attempts, wait, lease, token, contentVars, repairs, cooldown, workerVars>>

Locked == {item[w] : w \in {v \in Workers : phase[v] = "put"}}

Live(S) == \E i \in S : state[i] = "running" /\ lease[i] > 0

\* Interrupted for the last time.
GivenUp(S) == {i \in S : state[i] = "running" /\ lease[i] = 0 /\ attempts[i] >= Failures}

\* Variant: an item that was retried once more is due no longer.
DueThrice(i) ==
    /\ attempts[i] < Failures
    /\ \/ state[i] \in {"queued", "retrying"} /\ wait[i] = 0
       \/ state[i] = "running" /\ lease[i] = 0

Due(i) ==
    /\ attempts[i] < Total
    /\ \/ state[i] \in {"queued", "retrying"} /\ wait[i] = 0
       \/ state[i] = "running" /\ lease[i] = 0

\* Under the advisory lock: give up what was interrupted too often, courses and
\* then lessons, and end there if a lease is live.  (A transaction that would
\* change nothing is left out.)
ClaimGate(w) ==
    LET rows == GivenUp(Courses) \cup (IF Live(Courses) THEN {} ELSE GivenUp(Lessons))
    IN  /\ phase[w] = "idle"
        /\ \A v \in Workers : phase[v] # "pick"
        /\ rows \cap Locked = {}
        /\ \/ rows # {}
           \/ ~Live(Items) /\ \E i \in Items : Due(i)
        /\ state' = [i \in Items |-> IF i \in rows THEN "failed" ELSE state[i]]
        /\ token' = [i \in Items |-> IF i \in rows THEN NoWorker ELSE token[i]]
        /\ phase' = [phase EXCEPT ![w] = IF Live(Items) THEN "idle" ELSE "pick"]
        /\ UNCHANGED <<attempts, wait, lease, older, contentVars, budgetVars,
                       item, held, goal, error>>

\* The due row created first, courses before lessons, passing over locked rows.
Choice ==
    LET free == {i \in Items \ Locked : Due(i)}
    IN  IF free \cap Courses # {} THEN FirstOf(older, free \cap Courses)
                                  ELSE FirstOf(older, free)

ClaimPick(w) ==
    /\ phase[w] = "pick"
    /\ \/ \E i \in Choice :
             /\ state' = [state EXCEPT ![i] = "running"]
             /\ token' = [token EXCEPT ![i] = w]
             /\ lease' = [lease EXCEPT ![i] = Lease]
             /\ attempts' = [attempts EXCEPT ![i] = @ + 1]
             /\ phase' = [phase EXCEPT ![w] = "read"]
             /\ item' = [item EXCEPT ![w] = i]
       \/ /\ Choice = {}
          /\ phase' = [phase EXCEPT ![w] = "idle"]
          /\ UNCHANGED <<state, token, lease, attempts, item>>
    /\ UNCHANGED <<wait, older, contentVars, budgetVars, held, goal, error>>
-----------------------------------------------------------------------------
(* _process(): a course is planned, a lesson written, narrated, rendered,  *)
(* checked and published.  Only the last step of each stores for good what *)
(* a later attempt need not do again.                                      *)

IsLesson(w) == item[w] \in Lessons
HoldsToken(w) == token[item[w]] = w
HoldsRow(w) == HoldsToken(w) /\ state[item[w]] = "running"
HoldsLease(w) == HoldsToken(w) /\ lease[item[w]] > 0

WorkerFreed(w) ==
    /\ phase' = [phase EXCEPT ![w] = "idle"]
    /\ item' = [item EXCEPT ![w] = NoItem]
    /\ held' = [held EXCEPT ![w] = Blank]
    /\ goal' = [goal EXCEPT ![w] = "none"]
    /\ error' = [error EXCEPT ![w] = "none"]

Goes(w, to) ==
    /\ phase' = [phase EXCEPT ![w] = to]
    /\ UNCHANGED <<item, goal, error>>

Fails(w, kind) ==
    /\ phase' = [phase EXCEPT ![w] = "fail"]
    /\ error' = [error EXCEPT ![w] = kind]
    /\ UNCHANGED <<item, held, goal>>

\* What a worker that lost its item does: it returns without a trace.
Leaves(w) == WorkerFreed(w) /\ UNCHANGED <<queueVars, contentVars, budgetVars>>

\* A saved script is not written again, and checked media not rendered again.
NextStage(draft) ==
    IF draft.script = NoScript THEN "author"
    ELSE IF draft.video # NoScript /\ "media" \in draft.checks THEN "review"
    ELSE "render"

Row(l) == [script |-> script[l], video |-> video[l], checks |-> checks[l]]

Read(w) ==
    /\ phase[w] = "read"
    /\ \/ ~HoldsToken(w) /\ WorkerFreed(w)
       \/ /\ HoldsToken(w) /\ ~IsLesson(w)
          /\ Goes(w, "plan")
          /\ UNCHANGED held
       \/ /\ HoldsToken(w) /\ IsLesson(w)
          /\ IF video[item[w]] = NoScript /\ Stored >= Budget
             THEN Fails(w, "storage")
             ELSE /\ Goes(w, NextStage(Row(item[w])))
                  /\ held' = [held EXCEPT ![w] = Row(item[w])]
    /\ UNCHANGED <<queueVars, contentVars, budgetVars>>

\* Providers refuse, answer badly, are rejected by the checks, or break off.
ProviderFails(w) ==
    /\ phase[w] \in {"plan", "author", "render", "review"}
    /\ \E kind \in {"content", "capacity", "other"} : Fails(w, kind)
    /\ UNCHANGED <<queueVars, contentVars, budgetVars>>

\* Research, the plan and the review of its coverage.
Plan(w) ==
    /\ phase[w] = "plan"
    /\ Goes(w, "save")
    /\ UNCHANGED <<held, queueVars, contentVars, budgetVars>>

\* The reviewed script is saved at once, if the token stands.
Author(w) ==
    LET l == item[w] IN
    /\ phase[w] = "author"
    /\ \/ ~HoldsToken(w) /\ Leaves(w)
       \/ /\ HoldsToken(w)
          /\ \E s \in Scripts :
                /\ script' = [script EXCEPT ![l] = s]
                /\ held' = [held EXCEPT ![w] =
                       [script |-> s, video |-> @.video, checks |-> {"content"}]]
          /\ checks' = [checks EXCEPT ![l] = {"content"}]
          /\ Goes(w, "render")
          /\ UNCHANGED <<queueVars, video, narration, budgetVars>>

\* A sum of what is stored that leaves room for more, under the row's lock.
Weigh(w, more, what) ==
    /\ IF Stored + more <= Budget
       THEN /\ phase' = [phase EXCEPT ![w] = "put"]
            /\ goal' = [goal EXCEPT ![w] = what]
            /\ UNCHANGED <<item, held, error>>
       ELSE Fails(w, "storage")
    /\ UNCHANGED <<queueVars, contentVars, budgetVars>>

\* What a new rendering adds to what is stored of the lesson.
Growth(l) == IF video[l] = NoScript THEN VideoSize ELSE 0

Narrated(w) == held[w].script \in narration[item[w]]

\* Variant: the narration is kept out of the storage budget.
NarrateFreely(w) ==
    /\ phase[w] = "render" /\ ~Narrated(w)
    /\ IF HoldsRow(w)
       THEN Weigh(w, 0, "narration")
       ELSE Fails(w, "other") /\ UNCHANGED <<queueVars, contentVars, budgetVars>>

\* cached_narrator(): audio that is not stored yet.
Narrate(w) ==
    /\ phase[w] = "render" /\ ~Narrated(w)
    /\ IF HoldsRow(w)
       THEN Weigh(w, NarrationSize, "narration")
       ELSE Fails(w, "other") /\ UNCHANGED <<queueVars, contentVars, budgetVars>>

\* The rendering, decoded and inspected, before anyone else reviews it.
Render(w) ==
    /\ phase[w] = "render" /\ Narrated(w)
    /\ IF HoldsRow(w) /\ HoldsLease(w)
       THEN Weigh(w, Growth(item[w]), "media")
       ELSE Leaves(w)

\* The content review of a script that has none, then the audiovisual review.
Review(w) ==
    /\ phase[w] = "review"
    /\ held' = [held EXCEPT ![w].checks = AllChecks]
    /\ Goes(w, "save")
    /\ UNCHANGED <<queueVars, contentVars, budgetVars>>

Publish(w) ==
    /\ phase[w] = "save" /\ IsLesson(w)
    /\ IF HoldsLease(w)
       THEN Weigh(w, Growth(item[w]), "publish")
       ELSE Leaves(w)

\* The write that the sum allowed: a narration, a rendering with its check, or
\* the published lesson, whose media replaces the narration.
PutNarration(w) ==
    LET l == item[w] IN
    /\ phase[w] = "put" /\ goal[w] = "narration"
    /\ narration' = [narration EXCEPT ![l] = @ \cup {held[w].script}]
    /\ phase' = [phase EXCEPT ![w] = "render"]
    /\ goal' = [goal EXCEPT ![w] = "none"]
    /\ UNCHANGED <<queueVars, script, checks, video, budgetVars, item, held, error>>

PutMedia(w) ==
    LET l == item[w]
        s == held[w].script
        draft == [script |-> s, video |-> s, checks |-> held[w].checks \cup {"media"}]
    IN  /\ phase[w] = "put" /\ goal[w] = "media"
        /\ script' = [script EXCEPT ![l] = draft.script]
        /\ checks' = [checks EXCEPT ![l] = draft.checks]
        /\ video' = [video EXCEPT ![l] = draft.video]
        /\ held' = [held EXCEPT ![w] = draft]
        /\ phase' = [phase EXCEPT ![w] = "review"]
        /\ goal' = [goal EXCEPT ![w] = "none"]
        /\ UNCHANGED <<queueVars, narration, budgetVars, item, error>>

\* Variant: the narration stays with the published lesson.
PutPublishedOnly(w) ==
    LET l == item[w] IN
    /\ phase[w] = "put" /\ goal[w] = "publish"
    /\ script' = [script EXCEPT ![l] = held[w].script]
    /\ checks' = [checks EXCEPT ![l] = held[w].checks]
    /\ video' = [video EXCEPT ![l] = held[w].video]
    /\ state' = [state EXCEPT ![l] = "ready"]
    /\ token' = [token EXCEPT ![l] = NoWorker]
    /\ lease' = [lease EXCEPT ![l] = 0]
    /\ WorkerFreed(w)
    /\ UNCHANGED <<attempts, wait, older, narration, budgetVars>>

PutPublished(w) ==
    LET l == item[w] IN
    /\ phase[w] = "put" /\ goal[w] = "publish"
    /\ script' = [script EXCEPT ![l] = held[w].script]
    /\ checks' = [checks EXCEPT ![l] = held[w].checks]
    /\ video' = [video EXCEPT ![l] = held[w].video]
    /\ narration' = [narration EXCEPT ![l] = {}]
    /\ state' = [state EXCEPT ![l] = "ready"]
    /\ token' = [token EXCEPT ![l] = NoWorker]
    /\ lease' = [lease EXCEPT ![l] = 0]
    /\ WorkerFreed(w)
    /\ UNCHANGED <<attempts, wait, older, budgetVars>>

\* A planned course is ready, and as many of its first parts are admitted as
\* the budgets allow; fill_pending_parts() admits the others.
SaveCourse(w) ==
    LET c == item[w]
        parts == {l \in Missing(c) : Position[l] < PartsAllowed}
    IN  /\ phase[w] = "save" /\ ~IsLesson(w)
        /\ \/ ~HoldsLease(w) /\ Leaves(w)
           \/ /\ HoldsLease(w)
              /\ state' = [i \in Items |-> IF i = c THEN "ready"
                                          ELSE IF i \in parts THEN "queued" ELSE state[i]]
              /\ older' = [i \in Items |->
                    IF i \in parts THEN Created \cup {k \in parts \ {i} : ComesFirst(k, i)}
                    ELSE older[i]]
              /\ recent' = recent \cup parts
              /\ token' = [token EXCEPT ![c] = NoWorker]
              /\ lease' = [lease EXCEPT ![c] = 0]
              /\ WorkerFreed(w)
              /\ UNCHANGED <<attempts, wait, contentVars, repairs, cooldown>>

\* The error handler compares the token only.  A content error takes all there
\* is of a lesson, a capacity error gives the attempt back.  (The available_at of a
\* failed row is not looked at before it is set again.)
Fail(w) ==
    LET i == item[w] IN
    /\ phase[w] = "fail"
    /\ HoldsToken(w)
    /\ IF error[w] = "capacity"
       THEN /\ state' = [state EXCEPT ![i] = "retrying"]
            /\ attempts' = [attempts EXCEPT ![i] = Positive(@ - 1)]
            /\ \E d \in CapacityDelays : wait' = [wait EXCEPT ![i] = d]
       ELSE /\ state' = [state EXCEPT ![i] =
                  IF attempts[i] >= Failures THEN "failed" ELSE "retrying"]
            /\ wait' = [wait EXCEPT ![i] =
                  IF attempts[i] >= Failures THEN 0 ELSE BaseDelay * 2^attempts[i]]
            /\ UNCHANGED attempts
    /\ IF error[w] = "content" /\ IsLesson(w)
       THEN /\ script' = [script EXCEPT ![i] = NoScript]
            /\ checks' = [checks EXCEPT ![i] = {}]
            /\ video' = [video EXCEPT ![i] = NoScript]
            /\ narration' = [narration EXCEPT ![i] = {}]
       ELSE UNCHANGED contentVars
    /\ token' = [token EXCEPT ![i] = NoWorker]
    /\ lease' = [lease EXCEPT ![i] = 0]
    /\ WorkerFreed(w)
    /\ UNCHANGED <<older, budgetVars>>

FailLost(w) ==
    /\ phase[w] = "fail"
    /\ ~HoldsToken(w)
    /\ Leaves(w)

\* The renewal thread looks at token and state, not at the expiry: a lease that
\* ran out unnoticed becomes live again.
Renew(w) ==
    /\ phase[w] \notin {"idle", "pick", "put"}
    /\ HoldsRow(w)
    /\ lease[item[w]] < Lease
    /\ lease' = [lease EXCEPT ![item[w]] = Lease]
    /\ UNCHANGED <<state, attempts, wait, token, older, contentVars, budgetVars, workerVars>>

\* The process dies, or the database fails it: its memory is gone.  A claim
\* that is broken off is rolled back as if it had not begun.
Crash(w) ==
    /\ phase[w] \notin {"idle", "pick"}
    /\ Leaves(w)

Tick ==
    /\ \A w \in Workers : phase[w] \notin {"pick", "put"}
    /\ lease' = [i \in Items |-> Positive(lease[i] - 1)]
    /\ wait' = [i \in Items |-> Positive(wait[i] - 1)]
    /\ cooldown' = [c \in Courses |-> Positive(cooldown[c] - 1)]
    /\ UNCHANGED <<state, attempts, token, older, contentVars, recent, repairs, workerVars>>
-----------------------------------------------------------------------------
Request ==
    \/ \E c \in Courses : Create(c) \/ RetryCourse(c) \/ StaffRecover(c)
    \/ \E l \in Lessons : Prepare(l)

Put(w) == PutNarration(w) \/ PutMedia(w) \/ PutPublished(w)

Works(w) ==
    \/ ProviderFails(w) \/ Plan(w) \/ Author(w) \/ Narrate(w) \/ Render(w) \/ Review(w)
    \/ Publish(w) \/ SaveCourse(w)

Worker(w) ==
    \/ Fill(w) \/ ClaimGate(w) \/ ClaimPick(w) \/ Read(w) \/ Works(w) \/ Put(w)
    \/ Fail(w) \/ FailLost(w) \/ Renew(w) \/ Crash(w)

Next ==
    \/ Request
    \/ \E w \in Workers : Worker(w)
    \/ DayPasses \/ Tick

Spec == Init /\ [][Next]_vars

\* Time goes on; an idle worker polls every five seconds; provider calls and
\* transactions end.  Requests, renewals and crashes owe nothing.
Fairness ==
    /\ SF_vars(Tick)
    /\ SF_vars(\E w \in Workers : ClaimGate(w))
    /\ \A w \in Workers :
          /\ WF_vars(ClaimPick(w)) /\ WF_vars(Read(w)) /\ WF_vars(Works(w))
          /\ WF_vars(Put(w)) /\ WF_vars(Fail(w) \/ FailLost(w))

FairSpec == Spec /\ Fairness
-----------------------------------------------------------------------------
\* The checks that are saved as passed are of the script and the media they are
\* saved with: stored media is a rendering of the stored script, the media check
\* is of that media, and the audiovisual review comes last.
ChecksFit ==
    \A l \in Lessons :
        /\ video[l] # NoScript => video[l] = script[l]
        /\ "media" \in checks[l] => video[l] # NoScript
        /\ "audiovisual" \in checks[l] => Checked(l)
        /\ checks[l] # {} => script[l] # NoScript

\* A ready lesson has media, and passed all checks unless it is older than they are.
ReadyIsChecked ==
    \A l \in Lessons : state[l] = "ready" =>
        /\ video[l] # NoScript
        /\ Checked(l) \/ (l \in Legacy /\ checks[l] = {})

\* Audio is kept for the saved script only, and not beside published media.
NarrationFits ==
    \A l \in Lessons :
        /\ narration[l] \subseteq {script[l]} \ {NoScript}
        /\ state[l] = "ready" => narration[l] = {}

\* While a worker's token stands, what it holds in memory is what the row holds,
\* but for the reviews it has not saved yet.
HeldIsRow ==
    \A w \in Workers :
        phase[w] \in {"author", "render", "review", "save", "put"} /\ IsLesson(w) /\ HoldsToken(w)
            => /\ held[w].script = script[item[w]] /\ held[w].video = video[item[w]]
               /\ \/ held[w].checks = checks[item[w]]
                  \/ held[w].checks = AllChecks /\ "media" \in checks[item[w]]

\* The bookkeeping between rows, tokens and the workers that hold them.
RowsOK ==
    /\ \A i \in Items :
          /\ token[i] # NoWorker <=> state[i] = "running"
          /\ state[i] \in {"none", "queued", "retrying"} => attempts[i] < Total
    /\ \A l \in Lessons :
          /\ state[l] = "none" => script[l] = NoScript /\ narration[l] = {}
          /\ state[l] # "none" => state[CourseOf[l]] = "ready"
    /\ \A w \in Workers :
          /\ phase[w] \in {"idle", "pick"} <=> item[w] = NoItem
          /\ phase[w] = "plan" => item[w] \in Courses
          /\ phase[w] \in {"author", "render", "review", "put"} => IsLesson(w)
          /\ phase[w] = "put" => HoldsToken(w)
          /\ phase[w] = "put" <=> goal[w] # "none"

\* What a worker holds of its lesson at each stage.
StagesOK ==
    \A w \in Workers :
        /\ phase[w] = "author" => held[w].script = NoScript
        /\ phase[w] = "render" \/ goal[w] \in {"narration", "media"} =>
               held[w].script # NoScript /\ held[w].checks \subseteq {"content"}
        /\ phase[w] = "review" => "media" \in held[w].checks
        /\ goal[w] = "publish" \/ (phase[w] = "save" /\ IsLesson(w)) => held[w].checks = AllChecks

\* Everything above: what is saved, what is held, and who holds it agree, however
\* leases run out and come back, and no item waits that no claim would take up.
IInv ==
    TypeOK /\ RowsOK /\ StagesOK /\ ChecksFit /\ ReadyIsChecked /\ NarrationFits /\ HeldIsRow

\* docs/PROCESSING_RECOVERY.md: passed media is retained.  A lesson that is ready
\* and checked stays so, with the same script and media, so that a course that
\* has opened to its students never closes again.
PassedStays ==
    [][\A l \in Lessons : state[l] = "ready" /\ Checked(l)
          => state'[l] = "ready" /\ script'[l] = script[l] /\ video'[l] = video[l]
             /\ checks'[l] = checks[l]]_vars

\* The media stored never exceeds the budget, with one worker.
StorageCap == Stored <= Budget

\* A course or part that is asked for is prepared or reported failed, unless the
\* providers run out of capacity or the staff recovers over and over.
Settles ==
    \A i \in Items : Pending(i) ~> state[i] \in {"ready", "failed"}

GivesAttemptsBack ==
    \/ \E w \in Workers : Fail(w) /\ error[w] = "capacity"
    \/ \E c \in Courses : StaffRecover(c)

EveryPartSettles == Settles \/ []<><<GivesAttemptsBack>>_vars

\* docs/VIDEO_LEARNING.md: "capped at 150 MiB with reservations for queued work".
\* A part that was admitted, and so reserved its place, is not refused it.
ReservationHolds == \A w \in Workers : error[w] # "storage"
=============================================================================
