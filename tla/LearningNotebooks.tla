-------------------------- MODULE LearningNotebooks --------------------------
(***************************************************************************)
(* Learning notebooks: app/routers/learning_hub.py (a student creates,     *)
(* deletes, restores and retries notebooks), app/learning_worker.py (the   *)
(* worker processes write an outline, then one chapter per lease, then     *)
(* check the whole) and the notebook branch of                             *)
(* app/processing_recovery.py.                                             *)
(*                                                                         *)
(* A committed transaction is one step, except a claim, whose look for a   *)
(* live lease and whose choice of a notebook are two statements that see   *)
(* what others commit between them.  A claim takes less than a tick.       *)
(* Every notebook follows standard_version 2, the only one that            *)
(* create() has given since the upgrade.                                   *)
(*                                                                         *)
(* lease[n] and wait[n] are lease_until - now and available_at - now in    *)
(* ticks, down to 0.                                                       *)
(***************************************************************************)
EXTENDS Integers, FiniteSets, DueOrder

CONSTANTS
    Notebooks, Owner,      \* Owner[n] is the student who may create n
    Workers,               \* worker processes, one notebook each
    NoBook, NoWorker,
    Chapters,              \* chapters of an outline
    Lease,                 \* LEASE_SECONDS, in ticks
    MaxAttempts,           \* 4 failures of one stage
    BaseDelay, MaxDelay,   \* 60 s and 600 s of the backoff
    CapacityDelay,         \* LearningCapacityError.retry_seconds
    RecoveryGap            \* the 30 minutes between two staff recoveries

ASSUME NotebooksOK ==
    /\ NoBook \notin Notebooks /\ NoWorker \notin Workers
    /\ Chapters \in Nat \ {0} /\ Lease \in Nat \ {0} /\ MaxAttempts \in Nat \ {0}
    /\ BaseDelay \in Nat /\ MaxDelay \in Nat /\ CapacityDelay \in Nat
    /\ RecoveryGap \in Nat

VARIABLES
    (* table learning_notebooks *)
    state, oldState,   \* state, deleted_state
    plan,              \* plan_json: {}, {"draft": {}} alone, or with an outline
    draft,             \* the chapter plan_json.draft holds concepts of, or 0
    chapters,          \* how many chapters chapters_json holds
    reviewed,          \* plan_json.publication_review is there
    attempts, wait, ahead, lease, token,
    (* the newest processing.recovery audit event of each notebook *)
    cooldown,
    (* a worker process: where _process stands, its notebook, what it read of
       it, the stage it does, and the error it carries to the handler *)
    phase, book, seen, stage, error

contentVars == <<plan, draft, chapters, reviewed>>
leaseVars == <<lease, token>>
queueVars == <<attempts, wait, ahead>>
workerVars == <<phase, book, seen, stage, error>>
vars == <<state, oldState, contentVars, leaseVars, queueVars, cooldown, workerVars>>
-----------------------------------------------------------------------------
States == {"none", "queued", "running", "retrying", "ready", "failed", "deleted"}
Plans == {"empty", "hollow", "outlined"}
Phases == {"idle", "pick", "read", "work", "save", "fail"}
Stages == {"none", "outline", "chapter", "final"}
Errors == {"none", "content", "capacity", "other"}
Views == [plan : Plans, draft : 0..Chapters, chapters : 0..Chapters]
Blank == [plan |-> "empty", draft |-> 0, chapters |-> 0]

\* attempts is compared with MaxAttempts only: one more stands for all others.
AttemptsCap == MaxAttempts + 1

TypeOK ==
    /\ state \in [Notebooks -> States] /\ oldState \in [Notebooks -> States]
    /\ plan \in [Notebooks -> Plans]
    /\ draft \in [Notebooks -> 0..Chapters] /\ chapters \in [Notebooks -> 0..Chapters]
    /\ reviewed \in [Notebooks -> BOOLEAN]
    /\ attempts \in [Notebooks -> 0..AttemptsCap]
    /\ wait \in [Notebooks -> Nat] /\ ahead \in [Notebooks -> SUBSET Notebooks]
    /\ lease \in [Notebooks -> 0..Lease] /\ token \in [Notebooks -> Workers \cup {NoWorker}]
    /\ cooldown \in [Notebooks -> 0..RecoveryGap]
    /\ phase \in [Workers -> Phases] /\ book \in [Workers -> Notebooks \cup {NoBook}]
    /\ seen \in [Workers -> Views]
    /\ stage \in [Workers -> Stages] /\ error \in [Workers -> Errors]

Init ==
    /\ state = [n \in Notebooks |-> "none"] /\ oldState = [n \in Notebooks |-> "none"]
    /\ plan = [n \in Notebooks |-> "empty"]
    /\ draft = [n \in Notebooks |-> 0] /\ chapters = [n \in Notebooks |-> 0]
    /\ reviewed = [n \in Notebooks |-> FALSE]
    /\ attempts = [n \in Notebooks |-> 0]
    /\ wait = [n \in Notebooks |-> 0] /\ ahead = [n \in Notebooks |-> {}]
    /\ lease = [n \in Notebooks |-> 0] /\ token = [n \in Notebooks |-> NoWorker]
    /\ cooldown = [n \in Notebooks |-> 0]
    /\ phase = [w \in Workers |-> "idle"] /\ book = [w \in Workers |-> NoBook]
    /\ seen = [w \in Workers |-> Blank]
    /\ stage = [w \in Workers |-> "none"] /\ error = [w \in Workers |-> "none"]
-----------------------------------------------------------------------------
(* The student's requests; the user's row is locked throughout each. *)

Pending(n) == state[n] \in {"queued", "running", "retrying"}
OwnerIsBusy(n) == \E m \in Notebooks : Owner[m] = Owner[n] /\ Pending(m)

MadeAvailable(n, d) ==
    /\ wait' = [wait EXCEPT ![n] = d]
    /\ ahead' = MovedBack(ahead, wait, {m \in Notebooks : state[m] # "none"}, n, d)

\* Posting the same request again finds the notebook and changes nothing.
Create(n) ==
    /\ state[n] = "none"
    /\ ~OwnerIsBusy(n)
    /\ state' = [state EXCEPT ![n] = "queued"]
    /\ MadeAvailable(n, 0)
    /\ UNCHANGED <<oldState, contentVars, leaseVars, attempts, cooldown, workerVars>>

\* Variant: the lease is left to run out.
DeleteKeepsLease(n) ==
    /\ state[n] \notin {"none", "deleted"}
    /\ oldState' = [oldState EXCEPT ![n] = state[n]]
    /\ state' = [state EXCEPT ![n] = "deleted"]
    /\ UNCHANGED <<contentVars, leaseVars, queueVars, cooldown, workerVars>>

Delete(n) ==
    /\ state[n] \notin {"none", "deleted"}
    /\ oldState' = [oldState EXCEPT ![n] = state[n]]
    /\ state' = [state EXCEPT ![n] = "deleted"]
    /\ token' = [token EXCEPT ![n] = NoWorker]
    /\ lease' = [lease EXCEPT ![n] = 0]
    /\ UNCHANGED <<contentVars, queueVars, cooldown, workerVars>>

RestoredState(n) == IF oldState[n] \in {"ready", "failed"} THEN oldState[n] ELSE "queued"

\* Variant: the check is left to create().
RestoreUnchecked(n) ==
    /\ state[n] = "deleted"
    /\ state' = [state EXCEPT ![n] = RestoredState(n)]
    /\ oldState' = [oldState EXCEPT ![n] = "none"]
    /\ MadeAvailable(n, 0)
    /\ UNCHANGED <<contentVars, leaseVars, attempts, cooldown, workerVars>>

Restore(n) ==
    /\ state[n] = "deleted"
    /\ RestoredState(n) = "queued" => ~OwnerIsBusy(n)
    /\ state' = [state EXCEPT ![n] = RestoredState(n)]
    /\ oldState' = [oldState EXCEPT ![n] = "none"]
    /\ MadeAvailable(n, 0)
    /\ UNCHANGED <<contentVars, leaseVars, attempts, cooldown, workerVars>>

Retry(n) ==
    /\ state[n] = "failed"
    /\ ~OwnerIsBusy(n)
    /\ state' = [state EXCEPT ![n] = "queued"]
    /\ attempts' = [attempts EXCEPT ![n] = 0]
    /\ MadeAvailable(n, 0)
    /\ UNCHANGED <<oldState, contentVars, leaseVars, cooldown, workerVars>>

\* recover(): without the rule of one pending notebook per student.
StaffRecover(n) ==
    /\ cooldown[n] = 0
    /\ state[n] = "failed"
    /\ state' = [state EXCEPT ![n] = "queued"]
    /\ attempts' = [attempts EXCEPT ![n] = 0]
    /\ lease' = [lease EXCEPT ![n] = 0]
    /\ token' = [token EXCEPT ![n] = NoWorker]
    /\ MadeAvailable(n, 0)
    /\ cooldown' = [cooldown EXCEPT ![n] = RecoveryGap]
    /\ UNCHANGED <<oldState, contentVars, workerVars>>
-----------------------------------------------------------------------------
(* claim(): one worker at a time, under the advisory lock. *)

Live(n) == state[n] = "running" /\ lease[n] > 0

Claimable ==
    {n \in Notebooks : /\ wait[n] = 0
                       /\ \/ state[n] \in {"queued", "retrying"}
                          \/ state[n] = "running" /\ lease[n] = 0}

\* The lock is free and no lease is live.  (With nothing to claim the
\* transaction would end without a change.)
ClaimGate(w) ==
    /\ phase[w] = "idle"
    /\ \A v \in Workers : phase[v] # "pick"
    /\ \A n \in Notebooks : ~Live(n)
    /\ Claimable # {}
    /\ phase' = [phase EXCEPT ![w] = "pick"]
    /\ UNCHANGED <<state, oldState, contentVars, leaseVars, queueVars, cooldown,
                   book, seen, stage, error>>

ClaimPick(w) ==
    /\ phase[w] = "pick"
    /\ \/ \E n \in FirstOf(ahead, Claimable) :
             /\ state' = [state EXCEPT ![n] = "running"]
             /\ token' = [token EXCEPT ![n] = w]
             /\ lease' = [lease EXCEPT ![n] = Lease]
             /\ attempts' = [attempts EXCEPT ![n] = IF @ < AttemptsCap THEN @ + 1 ELSE @]
             /\ phase' = [phase EXCEPT ![w] = "read"]
             /\ book' = [book EXCEPT ![w] = n]
       \/ /\ Claimable = {}
          /\ phase' = [phase EXCEPT ![w] = "idle"]
          /\ UNCHANGED <<state, leaseVars, attempts, book>>
    /\ UNCHANGED <<oldState, contentVars, wait, ahead, cooldown, seen, stage, error>>
-----------------------------------------------------------------------------
(* _process(): one stage of one notebook. *)

HoldsToken(w) == token[book[w]] = w
HoldsLease(w) == HoldsToken(w) /\ state[book[w]] = "running" /\ lease[book[w]] > 0

WorkerFreed(w) ==
    /\ phase' = [phase EXCEPT ![w] = "idle"]
    /\ book' = [book EXCEPT ![w] = NoBook]
    /\ seen' = [seen EXCEPT ![w] = Blank]
    /\ stage' = [stage EXCEPT ![w] = "none"]
    /\ error' = [error EXCEPT ![w] = "none"]

Fails(w, kind) ==
    /\ phase' = [phase EXCEPT ![w] = "fail"]
    /\ error' = [error EXCEPT ![w] = kind]

\* "if not plan_data", then "len(completed) == len(plan_data.get('chapters', []))".
StageOf(view) ==
    IF view.plan = "empty" THEN "outline"
    ELSE IF view.chapters = (IF view.plan = "outlined" THEN Chapters ELSE 0) THEN "final"
    ELSE "chapter"

View(n) == [plan |-> plan[n], draft |-> draft[n], chapters |-> chapters[n]]

Read(w) ==
    /\ phase[w] = "read"
    /\ \/ /\ ~HoldsToken(w)
          /\ WorkerFreed(w)
       \/ /\ HoldsToken(w)        \* the owner is gone or no student any more
          /\ Fails(w, "other")
          /\ UNCHANGED <<book, seen, stage>>
       \/ /\ HoldsToken(w)
          /\ phase' = [phase EXCEPT ![w] = "work"]
          /\ seen' = [seen EXCEPT ![w] = View(book[w])]
          /\ stage' = [stage EXCEPT ![w] = StageOf(View(book[w]))]
          /\ UNCHANGED <<book, error>>
    /\ UNCHANGED <<state, oldState, contentVars, leaseVars, queueVars, cooldown>>

\* Variant: a checkpoint without the lease check.
CheckpointUnfenced(w) ==
    /\ phase[w] = "work" /\ stage[w] = "chapter"
    /\ seen[w].draft # seen[w].chapters + 1
    /\ seen' = [seen EXCEPT ![w].draft = seen[w].chapters + 1]
    /\ draft' = [draft EXCEPT ![book[w]] = seen[w].chapters + 1]
    /\ UNCHANGED <<state, oldState, plan, chapters, reviewed, leaseVars, queueVars,
                   cooldown, phase, book, stage, error>>

\* write_checkpoint: the draft of the chapter begun, under a live lease only.
Checkpoint(w) ==
    /\ phase[w] = "work" /\ stage[w] = "chapter"
    /\ seen[w].draft # seen[w].chapters + 1
    /\ IF HoldsLease(w)
       THEN /\ seen' = [seen EXCEPT ![w].draft = seen[w].chapters + 1]
            /\ draft' = [draft EXCEPT ![book[w]] = seen[w].chapters + 1]
            /\ UNCHANGED <<phase, error>>
       ELSE Fails(w, "other") /\ UNCHANGED <<seen, draft>>
    /\ UNCHANGED <<state, oldState, plan, chapters, reviewed, leaseVars, queueVars,
                   cooldown, book, stage>>

\* Research, authoring and review; the check of the whole needs an outline.
Work(w) ==
    /\ phase[w] = "work"
    /\ \/ \E kind \in {"content", "capacity", "other"} : Fails(w, kind)
       \/ /\ stage[w] = "chapter" => seen[w].draft = seen[w].chapters + 1
          /\ stage[w] = "final" => seen[w].plan = "outlined"
          /\ phase' = [phase EXCEPT ![w] = "save"]
          /\ UNCHANGED error
    /\ UNCHANGED <<state, oldState, contentVars, leaseVars, queueVars, cooldown,
                   book, seen, stage>>

\* Variant: the update is written whoever holds the notebook.
SaveUnfenced(w) ==
    LET n == book[w] IN
    /\ phase[w] = "save"
    /\ state[n] # "deleted"
    /\ plan' = [plan EXCEPT ![n] = "outlined"]
    /\ draft' = [draft EXCEPT ![n] = IF stage[w] = "final" THEN seen[w].draft ELSE 0]
    /\ chapters' = [chapters EXCEPT ![n] = IF stage[w] = "chapter" THEN seen[w].chapters + 1 ELSE @]
    /\ reviewed' = [reviewed EXCEPT ![n] = stage[w] = "final"]
    /\ state' = [state EXCEPT ![n] = IF stage[w] = "final" THEN "ready" ELSE "queued"]
    /\ attempts' = [attempts EXCEPT ![n] = 0]
    /\ token' = [token EXCEPT ![n] = NoWorker]
    /\ lease' = [lease EXCEPT ![n] = 0]
    /\ MadeAvailable(n, 0)
    /\ WorkerFreed(w)
    /\ UNCHANGED <<oldState, cooldown>>

\* The update is written from what the worker read, if token and lease stand.
Save(w) ==
    LET n == book[w] IN
    /\ phase[w] = "save"
    /\ HoldsToken(w) /\ lease[n] > 0
    /\ plan' = [plan EXCEPT ![n] = "outlined"]
    /\ draft' = [draft EXCEPT ![n] = IF stage[w] = "final" THEN seen[w].draft ELSE 0]
    /\ chapters' = [chapters EXCEPT ![n] = IF stage[w] = "chapter" THEN seen[w].chapters + 1 ELSE @]
    /\ reviewed' = [reviewed EXCEPT ![n] = stage[w] = "final"]
    /\ state' = [state EXCEPT ![n] = IF stage[w] = "final" THEN "ready" ELSE "queued"]
    /\ attempts' = [attempts EXCEPT ![n] = 0]
    /\ token' = [token EXCEPT ![n] = NoWorker]
    /\ lease' = [lease EXCEPT ![n] = 0]
    /\ MadeAvailable(n, 0)
    /\ WorkerFreed(w)
    /\ UNCHANGED <<oldState, cooldown>>

\* A worker that lost token or lease returns without a trace.
SaveLost(w) ==
    /\ phase[w] = "save"
    /\ ~(HoldsToken(w) /\ lease[book[w]] > 0)
    /\ WorkerFreed(w)
    /\ UNCHANGED <<state, oldState, contentVars, leaseVars, queueVars, cooldown>>

Backoff(n) == IF BaseDelay * 2^n \in 0..MaxDelay THEN BaseDelay * 2^n ELSE MaxDelay

\* Variant: a failed notebook keeps its place in the order.
FailKeepsPlace(w) ==
    LET n == book[w] IN
    /\ phase[w] = "fail"
    /\ HoldsToken(w)
    /\ state' = [state EXCEPT ![n] =
          IF error[w] # "capacity" /\ attempts[n] >= MaxAttempts THEN "failed" ELSE "retrying"]
    /\ attempts' = [attempts EXCEPT ![n] = IF error[w] = "capacity" THEN @ - 1 ELSE @]
    /\ token' = [token EXCEPT ![n] = NoWorker]
    /\ lease' = [lease EXCEPT ![n] = 0]
    /\ WorkerFreed(w)
    /\ UNCHANGED <<oldState, contentVars, wait, ahead, cooldown>>

\* The error handler compares the token only.  A content error drops the draft,
\* and makes an object of a plan that was empty.
Fail(w) ==
    LET n == book[w] IN
    /\ phase[w] = "fail"
    /\ HoldsToken(w)
    /\ IF error[w] = "content"
       THEN /\ plan' = [plan EXCEPT ![n] = IF @ = "empty" THEN "hollow" ELSE @]
            /\ draft' = [draft EXCEPT ![n] = 0]
       ELSE UNCHANGED <<plan, draft>>
    /\ IF error[w] = "capacity"
       THEN /\ state' = [state EXCEPT ![n] = "retrying"]
            /\ attempts' = [attempts EXCEPT ![n] = IF @ > 0 THEN @ - 1 ELSE 0]
            /\ MadeAvailable(n, CapacityDelay)
       ELSE /\ state' = [state EXCEPT ![n] =
                  IF attempts[n] >= MaxAttempts THEN "failed" ELSE "retrying"]
            /\ MadeAvailable(n, Backoff(attempts[n]))
            /\ UNCHANGED attempts
    /\ token' = [token EXCEPT ![n] = NoWorker]
    /\ lease' = [lease EXCEPT ![n] = 0]
    /\ WorkerFreed(w)
    /\ UNCHANGED <<oldState, chapters, reviewed, cooldown>>

FailLost(w) ==
    /\ phase[w] = "fail"
    /\ ~HoldsToken(w)
    /\ WorkerFreed(w)
    /\ UNCHANGED <<state, oldState, contentVars, leaseVars, queueVars, cooldown>>

\* The renewal thread looks at token and state, not at the expiry: a lease that
\* ran out unnoticed becomes live again.
Renew(w) ==
    /\ phase[w] \in {"read", "work", "save", "fail"}
    /\ HoldsToken(w) /\ state[book[w]] = "running"
    /\ lease[book[w]] < Lease
    /\ lease' = [lease EXCEPT ![book[w]] = Lease]
    /\ UNCHANGED <<state, oldState, contentVars, token, queueVars, cooldown, workerVars>>

\* The process dies, or the database fails it: its memory is gone.
Crash(w) ==
    /\ phase[w] # "idle"
    /\ WorkerFreed(w)
    /\ UNCHANGED <<state, oldState, contentVars, leaseVars, queueVars, cooldown>>

Less(t) == IF t > 0 THEN t - 1 ELSE 0

Tick ==
    /\ \A w \in Workers : phase[w] # "pick"
    /\ lease' = [n \in Notebooks |-> Less(lease[n])]
    /\ wait' = [n \in Notebooks |-> Less(wait[n])]
    /\ cooldown' = [n \in Notebooks |-> Less(cooldown[n])]
    /\ UNCHANGED <<state, oldState, contentVars, token, attempts, ahead, workerVars>>
-----------------------------------------------------------------------------
Request(n) == Create(n) \/ Delete(n) \/ Restore(n) \/ Retry(n) \/ StaffRecover(n)

Worker(w) ==
    \/ ClaimGate(w) \/ ClaimPick(w) \/ Read(w) \/ Checkpoint(w) \/ Work(w)
    \/ Save(w) \/ SaveLost(w) \/ Fail(w) \/ FailLost(w) \/ Renew(w) \/ Crash(w)

Next ==
    \/ \E n \in Notebooks : Request(n)
    \/ \E w \in Workers : Worker(w)
    \/ Tick

Spec == Init /\ [][Next]_vars

\* Time goes on; some worker polls every three seconds, and its claim, which
\* lasts milliseconds, is not always the moment it dies; provider calls and
\* transactions end.  Requests, renewals and crashes owe nothing.
Fairness ==
    /\ SF_vars(Tick)
    /\ SF_vars(\E w \in Workers : ClaimGate(w))
    /\ \A w \in Workers :
          /\ SF_vars(ClaimPick(w)) /\ WF_vars(Read(w))
          /\ WF_vars(Checkpoint(w) \/ Work(w))
          /\ WF_vars(Save(w) \/ SaveLost(w)) /\ WF_vars(Fail(w) \/ FailLost(w))

FairSpec == Spec /\ Fairness
-----------------------------------------------------------------------------
\* A notebook that is offered as ready, or was when it was deleted, has its
\* outline, every chapter of it and the publication review.
ReadyIsComplete ==
    \A n \in Notebooks :
        state[n] = "ready" \/ (state[n] = "deleted" /\ oldState[n] = "ready")
            => plan[n] = "outlined" /\ chapters[n] = Chapters /\ reviewed[n]

\* While a worker's token stands, what it read minutes ago is what the row still
\* holds: writing the row back from it loses nothing, although expired leases
\* are revived and stale workers go on.
SnapshotFresh ==
    \A w \in Workers : phase[w] \in {"work", "save"} /\ HoldsToken(w)
                          => seen[w] = View(book[w])

\* Draft concepts belong to the first chapter that is not written yet.
DraftIsNext ==
    \A n \in Notebooks : draft[n] # 0 => plan[n] = "outlined" /\ draft[n] = chapters[n] + 1

\* The bookkeeping between a notebook, its token and the worker that holds it.
WorkersOK ==
    /\ \A n \in Notebooks : token[n] # NoWorker <=> state[n] = "running"
    /\ \A n \in Notebooks : state[n] = "none" => plan[n] = "empty" /\ chapters[n] = 0
    /\ \A n \in Notebooks : plan[n] # "outlined" => chapters[n] = 0
    /\ \A w \in Workers :
          /\ phase[w] \in {"idle", "pick"} <=> book[w] = NoBook
          /\ phase[w] \in {"work", "save"} => stage[w] = StageOf(seen[w])
          /\ phase[w] = "save" /\ stage[w] = "final" => seen[w].plan = "outlined"

IInv == TypeOK /\ WorkersOK /\ ReadyIsComplete /\ SnapshotFresh /\ DraftIsNext

\* Written chapters and outlines are never lost or written twice, and a ready
\* notebook stays ready until its owner deletes it.
ProgressKept ==
    [][\A n \in Notebooks :
          /\ chapters'[n] \in {chapters[n], chapters[n] + 1}
          /\ plan[n] = "outlined" => plan'[n] = "outlined"
          /\ state[n] = "ready" => state'[n] \in {"ready", "deleted"} /\ reviewed'[n]]_vars

\* No worker brings a deleted notebook back.
DeletedStaysDeleted ==
    [][\A n \in Notebooks : state[n] = "deleted" /\ state'[n] # "deleted" => Restore(n)]_vars

\* A student has a second notebook in preparation only by a staff recovery,
\* which docs/LEARNING_HUB.md ("One active notebook per student") leaves out.
OnlyStaffDoublesUp ==
    [][\A m, n \in Notebooks :
          Owner[m] = Owner[n] /\ m # n /\ Pending(m)' /\ Pending(n)' /\ ~(Pending(m) /\ Pending(n))
              => StaffRecover(m) \/ StaffRecover(n)]_vars

\* A notebook that waits is taken up, deleted or failed.
Served ==
    \A n \in Notebooks :
        state[n] \in {"queued", "retrying"} ~> state[n] \notin {"queued", "retrying"}

\* A claim that takes up a notebook whose last worker was lost.
Reclaims == \E w \in Workers : ClaimPick(w) /\ book'[w] # NoBook /\ state[book'[w]] = "running"

\* Notebooks share the workers chapter by chapter, whatever providers refuse and
\* students request, as long as workers are not lost over and over.
ServedUnlessWorkersAreLost == Served \/ []<><<Reclaims>>_vars

\* docs/LEARNING_HUB.md: the worker prepares an outline and then the chapters;
\* the last stage checks a notebook whose chapters are written.
OutlineFirst == \A w \in Workers : stage[w] = "final" => seen[w].plan = "outlined"
=============================================================================
