----------------------- MODULE LearningNotebooksProofs -----------------------
(* Theorems about LearningNotebooks, for every value of its constants.       *)
EXTENDS LearningNotebooks, TLAPS

(* A backoff is a number of ticks, whatever the attempts.                    *)
LEMMA BackoffIsNat ==
    ASSUME NEW n
    PROVE  Backoff(n) \in Nat
  BY NotebooksOK DEF Backoff

(* Putting a notebook back in line keeps the order tables well typed.        *)
LEMMA MadeAvailableType ==
    ASSUME TypeOK, NEW n \in Notebooks, NEW d \in Nat, MadeAvailable(n, d)
    PROVE  wait' \in [Notebooks -> Nat] /\ ahead' \in [Notebooks -> SUBSET Notebooks]
  BY DEF TypeOK, MadeAvailable, MovedBack

(* A worker past its claim works on one of the notebooks.                    *)
LEMMA BusyWorker ==
    ASSUME TypeOK, WorkersOK, NEW w \in Workers, phase[w] \notin {"idle", "pick"}
    PROVE  book[w] \in Notebooks
  BY DEF TypeOK, WorkersOK

(* The holder of a token is the only one, and its notebook is running.       *)
LEMMA Holder ==
    ASSUME TypeOK, WorkersOK, NEW w \in Workers, phase[w] \notin {"idle", "pick"}, HoldsToken(w)
    PROVE  /\ book[w] \in Notebooks /\ token[book[w]] = w /\ state[book[w]] = "running"
           /\ \A v \in Workers : v # w => ~(book[v] = book[w] /\ HoldsToken(v))
  BY BusyWorker, NotebooksOK DEF TypeOK, WorkersOK, HoldsToken

(* What a freed worker remembers is well typed.                              *)
LEMMA FreedType ==
    ASSUME TypeOK, NEW w \in Workers, WorkerFreed(w)
    PROVE  /\ phase' \in [Workers -> Phases] /\ book' \in [Workers -> Notebooks \cup {NoBook}]
           /\ seen' \in [Workers -> Views] /\ stage' \in [Workers -> Stages]
           /\ error' \in [Workers -> Errors]
  <1>1. Blank \in Views
    BY NotebooksOK DEF Blank, Views, Plans
  <1>. QED
    BY <1>1 DEF TypeOK, WorkerFreed, Phases, Stages, Errors

(* A chapter is written only when the outline is there and has one left; the *)
(* final stage that gets past its check has them all.                        *)
LEMMA StageFits ==
    ASSUME IInv, NEW w \in Workers, phase[w] = "save", HoldsToken(w)
    PROVE  /\ seen[w].chapters = chapters[book[w]] /\ seen[w].draft = draft[book[w]]
           /\ stage[w] \in {"outline", "chapter", "final"}
           /\ stage[w] = "outline" => chapters[book[w]] = 0
           /\ stage[w] = "chapter" => chapters[book[w]] < Chapters
           /\ stage[w] = "final" => chapters[book[w]] = Chapters /\ draft[book[w]] = 0
  <1> DEFINE n == book[w]
  <1> USE DEF IInv
  <1>1. n \in Notebooks /\ seen[w] = View(n) /\ stage[w] = StageOf(View(n))
    BY BusyWorker DEF SnapshotFresh, WorkersOK
  <1>2. /\ plan[n] \in Plans /\ chapters[n] \in 0..Chapters /\ draft[n] \in 0..Chapters
        /\ plan[n] # "outlined" => chapters[n] = 0 /\ draft[n] = 0
        /\ draft[n] # 0 => draft[n] = chapters[n] + 1
    BY <1>1 DEF TypeOK, WorkersOK, DraftIsNext
  <1>3. stage[w] = "final" => plan[n] = "outlined"
    BY <1>1 DEF WorkersOK, View
  <1>4. stage[w] = IF plan[n] = "empty" THEN "outline"
                   ELSE IF chapters[n] = (IF plan[n] = "outlined" THEN Chapters ELSE 0)
                        THEN "final" ELSE "chapter"
    BY <1>1 DEF StageOf, View
  <1>. QED
    BY <1>1, <1>2, <1>3, <1>4, NotebooksOK DEF Plans, View

LEMMA InitIInv == Init => IInv
  <1> SUFFICES ASSUME Init PROVE IInv
    OBVIOUS
  <1>1. Blank \in Views
    BY NotebooksOK DEF Blank, Views, Plans
  <1>2. TypeOK
    BY <1>1, NotebooksOK
       DEF Init, TypeOK, States, Plans, Phases, Stages, Errors, AttemptsCap
  <1>3. WorkersOK /\ ReadyIsComplete /\ SnapshotFresh /\ DraftIsNext
    BY DEF Init, WorkersOK, ReadyIsComplete, SnapshotFresh, DraftIsNext
  <1>. QED
    BY <1>2, <1>3 DEF IInv
-----------------------------------------------------------------------------
(* One lemma per group of actions: the step keeps the inductive invariant.   *)

(* Create, restore and retry put a notebook without a token in line.         *)
LEMMA QueuedKeepsIInv ==
    ASSUME IInv, NEW n \in Notebooks, Create(n) \/ Restore(n) \/ Retry(n)
    PROVE  IInv'
  <1> USE DEF IInv
  <1>1. TypeOK'
    <2>1. wait' \in [Notebooks -> Nat] /\ ahead' \in [Notebooks -> SUBSET Notebooks]
      BY MadeAvailableType, NotebooksOK DEF Create, Restore, Retry
    <2>2. RestoredState(n) \in States
      BY DEF TypeOK, RestoredState, States
    <2>3. 0 \in 0..AttemptsCap
      BY NotebooksOK DEF AttemptsCap
    <2>4. state' \in [Notebooks -> States] /\ oldState' \in [Notebooks -> States]
      BY <2>2 DEF TypeOK, Create, Restore, Retry, States
    <2>5. attempts' \in [Notebooks -> 0..AttemptsCap]
      BY <2>3 DEF TypeOK, Create, Restore, Retry
    <2>6. UNCHANGED <<contentVars, leaseVars, cooldown, workerVars>>
      BY DEF Create, Restore, Retry
    <2>. QED
      BY <2>1, <2>4, <2>5, <2>6 DEF TypeOK, contentVars, leaseVars, workerVars
  <1>2. WorkersOK'
    BY DEF WorkersOK, TypeOK, Create, Restore, Retry, RestoredState, contentVars, leaseVars,
           workerVars
  <1>3. ReadyIsComplete' /\ DraftIsNext'
    BY DEF ReadyIsComplete, DraftIsNext, TypeOK, Create, Restore, Retry, RestoredState, contentVars
  <1>4. SnapshotFresh'
    BY DEF SnapshotFresh, HoldsToken, View, Create, Restore, Retry, contentVars, leaseVars,
           workerVars
  <1>. QED
    BY <1>1, <1>2, <1>3, <1>4

(* Deletion and staff recovery take the token away.                          *)
LEMMA TakenAwayKeepsIInv ==
    ASSUME IInv, NEW n \in Notebooks, Delete(n) \/ StaffRecover(n)
    PROVE  IInv'
  <1> USE DEF IInv
  <1>1. TypeOK'
    <2>1. wait' \in [Notebooks -> Nat] /\ ahead' \in [Notebooks -> SUBSET Notebooks]
      BY MadeAvailableType, NotebooksOK DEF TypeOK, Delete, StaffRecover, queueVars
    <2>2. 0 \in 0..AttemptsCap /\ RecoveryGap \in 0..RecoveryGap /\ 0 \in 0..Lease
      BY NotebooksOK DEF AttemptsCap
    <2>3. CASE Delete(n)
      BY <2>1, <2>2, <2>3 DEF TypeOK, Delete, States, contentVars, queueVars, workerVars
    <2>4. CASE StaffRecover(n)
      BY <2>1, <2>2, <2>4 DEF TypeOK, StaffRecover, States, contentVars, workerVars
    <2>. QED
      BY <2>3, <2>4
  <1>2. WorkersOK'
    BY DEF WorkersOK, TypeOK, Delete, StaffRecover, contentVars, workerVars
  <1>3. ReadyIsComplete' /\ DraftIsNext'
    <2>1. UNCHANGED contentVars
      BY DEF Delete, StaffRecover
    <2>2. ASSUME NEW m \in Notebooks,
                 state'[m] = "ready" \/ (state'[m] = "deleted" /\ oldState'[m] = "ready")
          PROVE  state[m] = "ready" \/ (state[m] = "deleted" /\ oldState[m] = "ready")
      BY <2>2 DEF TypeOK, Delete, StaffRecover
    <2>. QED
      BY <2>1, <2>2 DEF ReadyIsComplete, DraftIsNext, contentVars
  <1>4. SnapshotFresh'
    <2>1. /\ token' = [token EXCEPT ![n] = NoWorker]
          /\ UNCHANGED <<plan, draft, chapters, reviewed, phase, book, seen>>
      BY DEF Delete, StaffRecover, contentVars, workerVars
    <2>2. ASSUME NEW w \in Workers, phase[w] \in {"work", "save"}, token'[book[w]] = w
          PROVE  HoldsToken(w)
      BY <2>1, <2>2, BusyWorker, NotebooksOK DEF HoldsToken, TypeOK
    <2>. QED
      BY <2>1, <2>2 DEF SnapshotFresh, HoldsToken, View
  <1>. QED
    BY <1>1, <1>2, <1>3, <1>4

(* A claim gives the token to a worker that has read nothing yet.            *)
LEMMA ClaimKeepsIInv ==
    ASSUME IInv, NEW w \in Workers, ClaimPick(w)
    PROVE  IInv'
  <1> USE DEF IInv
  <1>1. CASE Claimable = {} /\ phase' = [phase EXCEPT ![w] = "idle"]
             /\ UNCHANGED <<state, leaseVars, attempts, book>>
    <2>1. TypeOK' /\ WorkersOK'
      BY <1>1 DEF TypeOK, WorkersOK, ClaimPick, Phases, contentVars, leaseVars
    <2>2. ReadyIsComplete' /\ DraftIsNext' /\ SnapshotFresh'
      BY <1>1 DEF ReadyIsComplete, DraftIsNext, SnapshotFresh, HoldsToken, View, TypeOK, ClaimPick,
                  contentVars, leaseVars
    <2>. QED
      BY <2>1, <2>2
  <1>2. ASSUME NEW n \in FirstOf(ahead, Claimable),
               state' = [state EXCEPT ![n] = "running"],
               token' = [token EXCEPT ![n] = w],
               lease' = [lease EXCEPT ![n] = Lease],
               attempts' = [attempts EXCEPT ![n] = IF @ < AttemptsCap THEN @ + 1 ELSE @],
               phase' = [phase EXCEPT ![w] = "read"],
               book' = [book EXCEPT ![w] = n]
        PROVE  IInv'
    <2>1. n \in Notebooks /\ state[n] \in {"queued", "retrying", "running"}
      BY <1>2 DEF FirstOf, Claimable
    <2>2. TypeOK'
      <3>1. attempts' \in [Notebooks -> 0..AttemptsCap] /\ lease' \in [Notebooks -> 0..Lease]
        BY <1>2, <2>1, NotebooksOK DEF TypeOK, AttemptsCap
      <3>. QED
        BY <1>2, <2>1, <3>1 DEF TypeOK, ClaimPick, States, Phases, contentVars
    <2>3. WorkersOK'
      <3>1. \A m \in Notebooks : token'[m] # NoWorker <=> state'[m] = "running"
        BY <1>2, <2>1, NotebooksOK DEF WorkersOK, TypeOK
      <3>2. \A m \in Notebooks : state'[m] = "none" => state[m] = "none"
        BY <1>2, <2>1 DEF TypeOK
      <3>3. \A v \in Workers :
               /\ phase'[v] \in {"idle", "pick"} <=> book'[v] = NoBook
               /\ phase'[v] \in {"work", "save"} => v # w /\ phase[v] = phase'[v]
        BY <1>2, <2>1, NotebooksOK DEF WorkersOK, TypeOK
      <3>. QED
        BY <3>1, <3>2, <3>3 DEF WorkersOK, ClaimPick, contentVars
    <2>4. ReadyIsComplete' /\ DraftIsNext'
      BY <1>2, <2>1 DEF ReadyIsComplete, DraftIsNext, TypeOK, ClaimPick, contentVars
    <2>5. SnapshotFresh'
      BY <1>2, <2>1, BusyWorker
         DEF SnapshotFresh, HoldsToken, View, TypeOK, ClaimPick, contentVars
    <2>. QED
      BY <2>2, <2>3, <2>4, <2>5
  <1>. QED
    BY <1>1, <1>2 DEF ClaimPick

(* Steps that touch one worker's memory only.                                *)
LEMMA LocalKeepsIInv ==
    ASSUME IInv, NEW w \in Workers,
           \/ ClaimGate(w) \/ Read(w) \/ Work(w) \/ SaveLost(w) \/ FailLost(w) \/ Crash(w)
    PROVE  IInv'
  <1> USE DEF IInv
  <1>0. UNCHANGED <<state, oldState, plan, draft, chapters, reviewed, lease, token, attempts, wait,
                    ahead, cooldown>>
    BY DEF ClaimGate, Read, Work, SaveLost, FailLost, Crash, contentVars, leaseVars, queueVars
  <1>1. ReadyIsComplete' /\ DraftIsNext'
    BY <1>0 DEF ReadyIsComplete, DraftIsNext
  <1>2. CASE WorkerFreed(w)
    <2>1. TypeOK'
      BY <1>0, <1>2, FreedType DEF TypeOK
    <2>2. WorkersOK'
      BY <1>0, <1>2 DEF WorkersOK, TypeOK, WorkerFreed
    <2>3. SnapshotFresh'
      BY <1>0, <1>2 DEF SnapshotFresh, HoldsToken, View, TypeOK, WorkerFreed
    <2>. QED
      BY <1>1, <2>1, <2>2, <2>3
  <1>3. CASE ClaimGate(w)
    BY <1>0, <1>1, <1>3
       DEF TypeOK, WorkersOK, SnapshotFresh, HoldsToken, View, ClaimGate, Phases
  <1>4. CASE Read(w) /\ ~WorkerFreed(w)
    <2>1. book[w] \in Notebooks
      BY <1>4, BusyWorker DEF Read
    <2>2. View(book[w]) \in Views /\ StageOf(View(book[w])) \in Stages
      BY <2>1 DEF TypeOK, View, Views, StageOf, Stages
    <2>3. TypeOK'
      <3>1. /\ phase' \in [Workers -> Phases] /\ error' \in [Workers -> Errors]
            /\ seen' \in [Workers -> Views] /\ stage' \in [Workers -> Stages]
            /\ UNCHANGED book
        BY <1>4, <2>2 DEF TypeOK, Read, Fails, Phases, Errors
      <3>. QED
        BY <1>0, <3>1 DEF TypeOK
    <2>4. WorkersOK'
      BY <1>0, <1>4 DEF WorkersOK, TypeOK, Read, Fails
    <2>5. SnapshotFresh'
      <3>1. \A v \in Workers \ {w} : phase'[v] = phase[v] /\ seen'[v] = seen[v]
        BY <1>4 DEF TypeOK, Read, Fails
      <3>2. book' = book
        BY <1>4 DEF Read, Fails
      <3>3. phase'[w] = "work" => seen'[w] = View(book[w])
        BY <1>4 DEF TypeOK, Read, Fails
      <3>4. phase'[w] # "save"
        BY <1>4 DEF TypeOK, Read, Fails
      <3>. QED
        BY <1>0, <3>1, <3>2, <3>3, <3>4 DEF SnapshotFresh, HoldsToken, View
    <2>. QED
      BY <1>1, <2>3, <2>4, <2>5
  <1>5. CASE Work(w)
    <2>1. TypeOK'
      BY <1>0, <1>5 DEF TypeOK, Work, Fails, Phases, Errors
    <2>2. WorkersOK'
      BY <1>0, <1>5 DEF WorkersOK, TypeOK, Work, Fails
    <2>3. SnapshotFresh'
      BY <1>0, <1>5, SMTT(30) DEF SnapshotFresh, HoldsToken, View, TypeOK, Work, Fails
    <2>. QED
      BY <1>1, <2>1, <2>2, <2>3
  <1>. QED
    BY <1>2, <1>3, <1>4, <1>5 DEF SaveLost, FailLost, Crash

(* A checkpoint is written by the holder of the token, into its own notebook *)
(* and its own memory alike.                                                 *)
LEMMA CheckpointKeepsIInv ==
    ASSUME IInv, NEW w \in Workers, Checkpoint(w)
    PROVE  IInv'
  <1> USE DEF IInv
  <1> DEFINE n == book[w]
  <1>0. /\ n \in Notebooks /\ seen[w] \in Views /\ stage[w] = StageOf(seen[w])
        /\ UNCHANGED <<state, oldState, plan, chapters, reviewed, lease, token, attempts, wait,
                       ahead, cooldown, book, stage>>
    BY BusyWorker DEF Checkpoint, WorkersOK, TypeOK, leaseVars, queueVars
  <1>1. CASE ~HoldsLease(w)
    <2>1. UNCHANGED <<seen, draft>> /\ Fails(w, "other")
      BY <1>1 DEF Checkpoint
    <2>2. TypeOK'
      BY <1>0, <2>1 DEF TypeOK, Fails, Phases, Errors
    <2>3. WorkersOK'
      BY <1>0, <2>1 DEF TypeOK, WorkersOK, Fails, Checkpoint
    <2>4. ReadyIsComplete' /\ DraftIsNext' /\ SnapshotFresh'
      BY <1>0, <2>1
         DEF ReadyIsComplete, DraftIsNext, SnapshotFresh, HoldsToken, View, TypeOK, Fails
    <2>. QED
      BY <2>2, <2>3, <2>4
  <1>2. CASE HoldsLease(w)
    <2> DEFINE next == seen[w].chapters + 1
    <2>1. /\ seen' = [seen EXCEPT ![w].draft = next]
          /\ draft' = [draft EXCEPT ![n] = next]
          /\ UNCHANGED <<phase, error>>
          /\ phase[w] = "work" /\ stage[w] = "chapter"
      BY <1>2 DEF Checkpoint
    <2>2. /\ token[n] = w /\ state[n] = "running" /\ seen[w] = View(n)
          /\ \A v \in Workers : v # w => ~(book[v] = n /\ HoldsToken(v))
      BY <1>2, <2>1, Holder DEF HoldsLease, SnapshotFresh
    <2>3. plan[n] = "outlined" /\ chapters[n] < Chapters /\ next = chapters[n] + 1
      <3>1. /\ plan[n] \in Plans /\ chapters[n] \in 0..Chapters
            /\ plan[n] # "outlined" => chapters[n] = 0
        BY <1>0 DEF TypeOK, WorkersOK
      <3>2. StageOf(View(n)) = "chapter"
        BY <1>0, <2>1, <2>2
      <3>3. plan[n] = "outlined" /\ chapters[n] # Chapters
        BY <3>1, <3>2 DEF StageOf, View, Plans
      <3>. QED
        BY <2>2, <3>1, <3>3, NotebooksOK DEF View
    <2>4. next \in 0..Chapters
      BY <1>0, <2>3, NotebooksOK DEF TypeOK
    <2>5. /\ seen'[w] = [plan |-> seen[w].plan, draft |-> next, chapters |-> seen[w].chapters]
          /\ \A v \in Workers : v # w => seen'[v] = seen[v]
          /\ seen' \in [Workers -> Views]
      BY <1>0, <2>1, <2>4 DEF TypeOK, Views
    <2>6. TypeOK'
      BY <1>0, <2>1, <2>4, <2>5 DEF TypeOK
    <2>7. WorkersOK'
      <3>1. StageOf(seen'[w]) = StageOf(seen[w]) /\ seen'[w].plan = seen[w].plan
        BY <2>5 DEF StageOf
      <3>. QED
        BY <1>0, <2>1, <2>5, <3>1 DEF WorkersOK
    <2>8. ReadyIsComplete' /\ DraftIsNext'
      BY <1>0, <2>1, <2>3 DEF ReadyIsComplete, DraftIsNext, TypeOK
    <2>9. SnapshotFresh'
      <3>1. seen'[w] = View(n)'
        BY <1>0, <2>1, <2>2, <2>5 DEF View, TypeOK
      <3>2. ASSUME NEW v \in Workers, v # w, phase[v] \in {"work", "save"}, HoldsToken(v)
            PROVE  seen'[v] = View(book[v])'
        BY <1>0, <2>1, <2>2, <2>5, <3>2, BusyWorker DEF SnapshotFresh, View, TypeOK
      <3>. QED
        BY <1>0, <2>1, <3>1, <3>2 DEF SnapshotFresh, HoldsToken
    <2>. QED
      BY <2>6, <2>7, <2>8, <2>9
  <1>. QED
    BY <1>1, <1>2

(* The row written back is the row that was read, plus one stage.            *)
LEMMA SaveKeepsIInv ==
    ASSUME IInv, NEW w \in Workers, Save(w)
    PROVE  IInv'
  <1> USE DEF IInv
  <1> DEFINE n == book[w]
  <1>1. /\ n \in Notebooks /\ token[n] = w /\ state[n] = "running"
        /\ \A v \in Workers : v # w => ~(book[v] = n /\ HoldsToken(v))
    BY Holder DEF Save
  <1>2. /\ seen[w].chapters = chapters[n] /\ seen[w].draft = draft[n]
        /\ stage[w] \in {"outline", "chapter", "final"}
        /\ stage[w] = "outline" => chapters[n] = 0
        /\ stage[w] = "chapter" => chapters[n] < Chapters
        /\ stage[w] = "final" => chapters[n] = Chapters /\ draft[n] = 0
        /\ chapters[n] \in 0..Chapters
    BY <1>1, StageFits DEF Save, TypeOK
  <1>3. /\ chapters'[n] \in 0..Chapters /\ draft'[n] = 0 /\ plan'[n] = "outlined"
        /\ stage[w] = "final" => chapters'[n] = Chapters /\ reviewed'[n]
        /\ state'[n] = (IF stage[w] = "final" THEN "ready" ELSE "queued")
        /\ token'[n] = NoWorker
        /\ \A m \in Notebooks : m # n =>
              /\ chapters'[m] = chapters[m] /\ draft'[m] = draft[m] /\ plan'[m] = plan[m]
              /\ reviewed'[m] = reviewed[m] /\ state'[m] = state[m] /\ token'[m] = token[m]
    <2>1. chapters'[n] \in 0..Chapters /\ (stage[w] = "final" => chapters'[n] = Chapters)
      BY <1>1, <1>2, NotebooksOK DEF Save, TypeOK
    <2>2. draft'[n] = 0
      BY <1>1, <1>2 DEF Save, TypeOK
    <2>3. plan'[n] = "outlined" /\ token'[n] = NoWorker
          /\ state'[n] = (IF stage[w] = "final" THEN "ready" ELSE "queued")
      BY <1>1 DEF Save, TypeOK
    <2>4. stage[w] = "final" => reviewed'[n]
      BY <1>1 DEF Save, TypeOK
    <2>5. \A m \in Notebooks : m # n =>
              /\ chapters'[m] = chapters[m] /\ draft'[m] = draft[m] /\ plan'[m] = plan[m]
              /\ reviewed'[m] = reviewed[m] /\ state'[m] = state[m] /\ token'[m] = token[m]
      BY <1>1 DEF Save, TypeOK
    <2>. QED
      BY <2>1, <2>2, <2>3, <2>4, <2>5
  <1>4. TypeOK'
    <2>1. wait' \in [Notebooks -> Nat] /\ ahead' \in [Notebooks -> SUBSET Notebooks]
      BY <1>1, MadeAvailableType, NotebooksOK DEF Save
    <2>2. /\ phase' \in [Workers -> Phases] /\ book' \in [Workers -> Notebooks \cup {NoBook}]
          /\ seen' \in [Workers -> Views] /\ stage' \in [Workers -> Stages]
          /\ error' \in [Workers -> Errors]
      BY FreedType DEF Save
    <2>3. /\ chapters' \in [Notebooks -> 0..Chapters] /\ draft' \in [Notebooks -> 0..Chapters]
          /\ plan' \in [Notebooks -> Plans] /\ reviewed' \in [Notebooks -> BOOLEAN]
      BY <1>1, <1>2, <1>3, NotebooksOK DEF Save, TypeOK, Plans
    <2>4. /\ state' \in [Notebooks -> States] /\ attempts' \in [Notebooks -> 0..AttemptsCap]
          /\ token' \in [Notebooks -> Workers \cup {NoWorker}] /\ lease' \in [Notebooks -> 0..Lease]
      BY <1>1, NotebooksOK DEF Save, TypeOK, States, AttemptsCap
    <2>. QED
      BY <2>1, <2>2, <2>3, <2>4 DEF Save, TypeOK
  <1>5. WorkersOK'
    BY <1>1, <1>3 DEF WorkersOK, TypeOK, Save, WorkerFreed
  <1>6. ReadyIsComplete' /\ DraftIsNext'
    BY <1>1, <1>3 DEF ReadyIsComplete, DraftIsNext, Save
  <1>7. SnapshotFresh'
    <2>1. ASSUME NEW v \in Workers, v # w, phase[v] \in {"work", "save"}, HoldsToken(v)'
          PROVE  seen'[v] = View(book[v])'
      <3>1. /\ book'[v] = book[v] /\ seen'[v] = seen[v]
            /\ book[v] \in Notebooks /\ book[v] # n /\ HoldsToken(v)
        BY <1>1, <1>3, <2>1, BusyWorker, NotebooksOK DEF Save, WorkerFreed, HoldsToken, TypeOK
      <3>. QED
        BY <1>3, <2>1, <3>1 DEF SnapshotFresh, View
    <2>. QED
      BY <2>1 DEF SnapshotFresh, Save, WorkerFreed, TypeOK
  <1>. QED
    BY <1>4, <1>5, <1>6, <1>7

LEMMA FailKeepsIInv ==
    ASSUME IInv, NEW w \in Workers, Fail(w)
    PROVE  IInv'
  <1> USE DEF IInv
  <1> DEFINE n == book[w]
  <1>1. /\ n \in Notebooks /\ token[n] = w /\ state[n] = "running"
        /\ \A v \in Workers : v # w => ~(book[v] = n /\ HoldsToken(v))
    BY Holder DEF Fail
  <1>2. /\ plan'[n] \in Plans /\ draft'[n] \in {0, draft[n]}
        /\ plan'[n] = "outlined" <=> plan[n] = "outlined"
        /\ state'[n] \in {"retrying", "failed"} /\ token'[n] = NoWorker
        /\ \A m \in Notebooks : m # n =>
              /\ draft'[m] = draft[m] /\ plan'[m] = plan[m]
              /\ state'[m] = state[m] /\ token'[m] = token[m]
        /\ UNCHANGED <<oldState, chapters, reviewed, cooldown>>
    BY <1>1 DEF Fail, TypeOK, Plans
  <1>3. TypeOK'
    <2>1. wait' \in [Notebooks -> Nat] /\ ahead' \in [Notebooks -> SUBSET Notebooks]
      BY <1>1, MadeAvailableType, BackoffIsNat, NotebooksOK DEF Fail
    <2>2. /\ phase' \in [Workers -> Phases] /\ book' \in [Workers -> Notebooks \cup {NoBook}]
          /\ seen' \in [Workers -> Views] /\ stage' \in [Workers -> Stages]
          /\ error' \in [Workers -> Errors]
      BY FreedType DEF Fail
    <2>3. attempts' \in [Notebooks -> 0..AttemptsCap]
      BY <1>1, NotebooksOK DEF Fail, TypeOK, AttemptsCap
    <2>4. plan' \in [Notebooks -> Plans] /\ draft' \in [Notebooks -> 0..Chapters]
      BY <1>1, <1>2, NotebooksOK DEF Fail, TypeOK, Plans
    <2>5. /\ state' \in [Notebooks -> States]
          /\ token' \in [Notebooks -> Workers \cup {NoWorker}] /\ lease' \in [Notebooks -> 0..Lease]
      BY <1>1, NotebooksOK DEF Fail, TypeOK, States
    <2>. QED
      BY <1>2, <2>1, <2>2, <2>3, <2>4, <2>5 DEF TypeOK
  <1>4. WorkersOK'
    BY <1>1, <1>2 DEF WorkersOK, TypeOK, Fail, WorkerFreed
  <1>5. ReadyIsComplete' /\ DraftIsNext'
    BY <1>1, <1>2 DEF ReadyIsComplete, DraftIsNext
  <1>6. SnapshotFresh'
    <2>1. ASSUME NEW v \in Workers, v # w, phase[v] \in {"work", "save"}, HoldsToken(v)'
          PROVE  seen'[v] = View(book[v])'
      <3>1. book'[v] = book[v] /\ seen'[v] = seen[v]
        BY <2>1 DEF Fail, WorkerFreed, TypeOK
      <3>2. book[v] \in Notebooks /\ token'[book[v]] = v
        BY <2>1, <3>1, BusyWorker DEF HoldsToken
      <3>3. book[v] # n /\ HoldsToken(v)
        BY <1>1, <1>2, <2>1, <3>2, NotebooksOK DEF HoldsToken
      <3>. QED
        BY <1>2, <2>1, <3>1, <3>2, <3>3 DEF SnapshotFresh, View
    <2>. QED
      BY <2>1 DEF SnapshotFresh, Fail, WorkerFreed, TypeOK
  <1>. QED
    BY <1>3, <1>4, <1>5, <1>6

(* Renewals and the clock move leases and delays only.                       *)
LEMMA TimeKeepsIInv ==
    ASSUME IInv, Tick \/ \E w \in Workers : Renew(w)
    PROVE  IInv'
  <1> USE DEF IInv
  <1>1. TypeOK'
    <2>1. CASE Tick
      <3>1. /\ lease' \in [Notebooks -> 0..Lease] /\ wait' \in [Notebooks -> Nat]
            /\ cooldown' \in [Notebooks -> 0..RecoveryGap]
        BY <2>1, NotebooksOK DEF Tick, Less, TypeOK
      <3>. QED
        BY <2>1, <3>1 DEF TypeOK, Tick, contentVars, workerVars
    <2>2. ASSUME NEW w \in Workers, Renew(w)
          PROVE  TypeOK'
      <3>0. Lease \in 0..Lease
        BY NotebooksOK
      <3>1. lease' \in [Notebooks -> 0..Lease]
        BY <2>2, <3>0 DEF Renew, TypeOK
      <3>. QED
        BY <2>2, <3>1 DEF TypeOK, Renew, contentVars, queueVars, workerVars
    <2>. QED
      BY <2>1, <2>2
  <1>2. WorkersOK'
    BY DEF WorkersOK, Tick, Renew, contentVars, workerVars
  <1>3. ReadyIsComplete' /\ DraftIsNext' /\ SnapshotFresh'
    BY DEF ReadyIsComplete, DraftIsNext, SnapshotFresh, HoldsToken, View, Tick, Renew,
           contentVars, workerVars
  <1>. QED
    BY <1>1, <1>2, <1>3

LEMMA NextKeepsIInv == IInv /\ [Next]_vars => IInv'
  <1> SUFFICES ASSUME IInv, [Next]_vars PROVE IInv'
    OBVIOUS
  <1>1. CASE \E n \in Notebooks : Request(n)
    BY <1>1, QueuedKeepsIInv, TakenAwayKeepsIInv DEF Request
  <1>2. CASE \E w \in Workers : Worker(w)
    BY <1>2, ClaimKeepsIInv, LocalKeepsIInv, CheckpointKeepsIInv, SaveKeepsIInv, FailKeepsIInv,
       TimeKeepsIInv DEF Worker
  <1>3. CASE Tick
    BY <1>3, TimeKeepsIInv
  <1>4. CASE UNCHANGED vars
    BY <1>4 DEF vars, contentVars, leaseVars, queueVars, workerVars, IInv, TypeOK, WorkersOK,
                ReadyIsComplete, SnapshotFresh, DraftIsNext, HoldsToken, View
  <1>. QED
    BY <1>1, <1>2, <1>3, <1>4 DEF Next

(* The inductive invariant holds for any notebooks, workers, chapters,       *)
(* leases and delays: ready notebooks are complete, drafts belong to the     *)
(* next chapter, and the snapshot of a token's holder is what the row holds. *)
THEOREM NotebooksInvariant == Spec => []IInv
  BY InitIInv, NextKeepsIInv, PTL DEF Spec
-----------------------------------------------------------------------------
(* What a step may never do.                                                 *)

(* Only a save or an error handler writes plan and chapters, each for the    *)
(* notebook whose token it holds, and a save writes what it read and a stage *)
(* more: chapters are added one by one and never lost.                       *)
THEOREM ChaptersAreNeverLost == Spec => ProgressKept
  <1> DEFINE Kept(n) == /\ chapters'[n] \in {chapters[n], chapters[n] + 1}
                        /\ plan[n] = "outlined" => plan'[n] = "outlined"
                        /\ state[n] = "ready" => state'[n] \in {"ready", "deleted"} /\ reviewed'[n]
  <1>1. ASSUME IInv, [Next]_vars, NEW n \in Notebooks
        PROVE  Kept(n)
    <2> USE DEF IInv
    <2>0. state[n] = "ready" => reviewed[n]
      BY <1>1 DEF ReadyIsComplete
    <2>1. CASE \E m \in Notebooks : Request(m)
      BY <1>1, <2>0, <2>1
         DEF Request, Create, Delete, Restore, Retry, StaffRecover, TypeOK, contentVars
    <2>2. ASSUME NEW w \in Workers, Save(w)
          PROVE  Kept(n)
      <3>1. book[w] \in Notebooks /\ state[book[w]] = "running"
        BY <1>1, <2>2, Holder DEF Save
      <3>2. seen[w].chapters = chapters[book[w]]
        BY <1>1, <2>2, StageFits DEF Save
      <3>. QED
        BY <1>1, <2>0, <2>2, <3>1, <3>2 DEF Save, TypeOK
    <2>3. ASSUME NEW w \in Workers, Fail(w)
          PROVE  Kept(n)
      <3>1. book[w] \in Notebooks /\ state[book[w]] = "running"
        BY <1>1, <2>3, Holder DEF Fail
      <3>. QED
        BY <1>1, <2>0, <2>3, <3>1 DEF Fail, TypeOK
    <2>4. ASSUME NEW w \in Workers, ClaimPick(w)
          PROVE  Kept(n)
      BY <1>1, <2>0, <2>4 DEF ClaimPick, FirstOf, Claimable, TypeOK, contentVars
    <2>5. ASSUME NEW w \in Workers,
                 \/ ClaimGate(w) \/ Read(w) \/ Checkpoint(w) \/ Work(w) \/ SaveLost(w)
                 \/ FailLost(w) \/ Renew(w) \/ Crash(w)
          PROVE  Kept(n)
      BY <2>0, <2>5
         DEF ClaimGate, Read, Checkpoint, Work, SaveLost, FailLost, Renew, Crash, contentVars
    <2>6. CASE Tick \/ UNCHANGED vars
      BY <2>0, <2>6 DEF Tick, vars, contentVars
    <2> HIDE DEF Kept
    <2>. QED
      BY <1>1, <2>1, <2>2, <2>3, <2>4, <2>5, <2>6 DEF Next, Worker
  <1>2. IInv /\ [Next]_vars => [\A n \in Notebooks : Kept(n)]_vars
    BY <1>1
  <1>. QED
    BY <1>2, NotebooksInvariant, PTL DEF Spec, ProgressKept

(* A deleted notebook has no token, so no worker writes it: it comes back    *)
(* only when its owner restores it.                                          *)
THEOREM OnlyOwnersRestore == Spec => DeletedStaysDeleted
  <1> DEFINE Back(n) == state[n] = "deleted" /\ state'[n] # "deleted"
  <1>1. ASSUME IInv, [Next]_vars, NEW n \in Notebooks, Back(n)
        PROVE  Restore(n)
    <2> USE DEF IInv
    <2>1. CASE \E m \in Notebooks : Request(m)
      BY <1>1, <2>1
         DEF Request, Create, Delete, Restore, Retry, StaffRecover, TypeOK
    <2>2. ASSUME NEW w \in Workers, Save(w) \/ Fail(w)
          PROVE  ~Back(n)
      <3>1. book[w] \in Notebooks /\ state[book[w]] = "running"
        BY <1>1, <2>2, Holder DEF Save, Fail
      <3>. QED
        BY <1>1, <2>2, <3>1 DEF Save, Fail, TypeOK
    <2>3. ASSUME NEW w \in Workers, ClaimPick(w)
          PROVE  ~Back(n)
      BY <1>1, <2>3 DEF ClaimPick, FirstOf, Claimable, TypeOK
    <2>4. ASSUME NEW w \in Workers,
                 \/ ClaimGate(w) \/ Read(w) \/ Checkpoint(w) \/ Work(w) \/ SaveLost(w)
                 \/ FailLost(w) \/ Renew(w) \/ Crash(w)
          PROVE  ~Back(n)
      BY <2>4
         DEF ClaimGate, Read, Checkpoint, Work, SaveLost, FailLost, Renew, Crash
    <2>5. CASE Tick \/ UNCHANGED vars
      BY <1>1, <2>5 DEF Tick, vars
    <2> HIDE DEF Back
    <2>. QED
      BY <1>1, <2>1, <2>2, <2>3, <2>4, <2>5 DEF Next, Worker
  <1>2. IInv /\ [Next]_vars => [\A n \in Notebooks : Back(n) => Restore(n)]_vars
    BY <1>1
  <1>. QED
    BY <1>2, NotebooksInvariant, PTL DEF Spec, DeletedStaysDeleted

(* Create, restore and retry check the owner's other notebooks under the     *)
(* owner's row lock, and no worker step starts a preparation: a second one   *)
(* comes from a staff recovery.                                              *)
THEOREM SecondPreparationIsStaffs == Spec => OnlyStaffDoublesUp
  <1> DEFINE Doubles(m, n) ==
               /\ Owner[m] = Owner[n] /\ m # n
               /\ Pending(m)' /\ Pending(n)' /\ ~(Pending(m) /\ Pending(n))
  <1>1. ASSUME IInv, [Next]_vars, NEW m \in Notebooks, NEW n \in Notebooks, Doubles(m, n)
        PROVE  StaffRecover(m) \/ StaffRecover(n)
    <2> USE DEF IInv
    <2>1. ASSUME NEW k \in Notebooks, Create(k) \/ Restore(k) \/ Retry(k)
          PROVE  ~Doubles(m, n)
      <3>1. /\ \A j \in Notebooks : j # k => (Pending(j)' <=> Pending(j))
            /\ Pending(k)' => ~OwnerIsBusy(k) \/ (Pending(k)' <=> Pending(k))
        BY <1>1, <2>1
           DEF Create, Restore, Retry, RestoredState, Pending, OwnerIsBusy, TypeOK
      <3>. QED
        BY <3>1 DEF OwnerIsBusy
    <2>2. ASSUME NEW k \in Notebooks, Delete(k)
          PROVE  ~Doubles(m, n)
      BY <1>1, <2>2 DEF Delete, Pending, TypeOK
    <2>3. ASSUME NEW k \in Notebooks, StaffRecover(k)
          PROVE  k \in {m, n}
      BY <1>1, <2>3 DEF StaffRecover, Pending, TypeOK
    <2>4. ASSUME NEW w \in Workers, Save(w) \/ Fail(w)
          PROVE  ~Doubles(m, n)
      <3>1. book[w] \in Notebooks /\ state[book[w]] = "running"
        BY <1>1, <2>4, Holder DEF Save, Fail
      <3>. QED
        BY <1>1, <2>4, <3>1 DEF Save, Fail, Pending, TypeOK
    <2>5. ASSUME NEW w \in Workers, ClaimPick(w)
          PROVE  ~Doubles(m, n)
      BY <1>1, <2>5 DEF ClaimPick, FirstOf, Claimable, Pending, TypeOK
    <2>6. ASSUME NEW w \in Workers,
                 \/ ClaimGate(w) \/ Read(w) \/ Checkpoint(w) \/ Work(w) \/ SaveLost(w)
                 \/ FailLost(w) \/ Renew(w) \/ Crash(w)
          PROVE  ~Doubles(m, n)
      BY <2>6
         DEF ClaimGate, Read, Checkpoint, Work, SaveLost, FailLost, Renew, Crash, Pending
    <2>7. CASE Tick \/ UNCHANGED vars
      BY <1>1, <2>7 DEF Tick, vars, Pending
    <2> HIDE DEF Doubles
    <2>. QED
      BY <1>1, <2>1, <2>2, <2>3, <2>4, <2>5, <2>6, <2>7 DEF Next, Request, Worker
  <1>2. IInv /\ [Next]_vars =>
        [\A m, n \in Notebooks :
            Owner[m] = Owner[n] /\ m # n /\ Pending(m)' /\ Pending(n)' /\ ~(Pending(m) /\ Pending(n))
                => StaffRecover(m) \/ StaffRecover(n)]_vars
    BY <1>1
  <1>. QED
    BY <1>2, NotebooksInvariant, PTL DEF Spec, OnlyStaffDoublesUp
=============================================================================
