------------------------- MODULE VideoLearningProofs -------------------------
(* Theorems about VideoLearning, for every value of its constants.           *)
EXTENDS VideoLearning, TLAPS, FiniteSetTheorems

(* What a freed worker remembers is well typed.                              *)
LEMMA FreedType ==
    ASSUME TypeOK, NEW w \in Workers, WorkerFreed(w)
    PROVE  /\ phase' \in [Workers -> Phases] /\ item' \in [Workers -> Items \cup {NoItem}]
           /\ held' \in [Workers -> Drafts] /\ goal' \in [Workers -> Goals]
           /\ error' \in [Workers -> Errors]
  <1>1. Blank \in Drafts
    BY DEF Blank, Drafts
  <1>. QED
    BY <1>1 DEF TypeOK, WorkerFreed, Phases, Goals, Errors

(* A worker past its claim works on one of the items.                        *)
LEMMA BusyWorker ==
    ASSUME TypeOK, RowsOK, NEW w \in Workers, phase[w] \notin {"idle", "pick"}
    PROVE  item[w] \in Items
  BY DEF TypeOK, RowsOK

(* The holder of a token is the only one, and its item is running.           *)
LEMMA Holder ==
    ASSUME TypeOK, RowsOK, NEW w \in Workers, phase[w] \notin {"idle", "pick"}, HoldsToken(w)
    PROVE  /\ item[w] \in Items /\ token[item[w]] = w /\ state[item[w]] = "running"
           /\ \A v \in Workers : v # w => ~(item[v] = item[w] /\ HoldsToken(v))
  BY BusyWorker, VideoOK DEF TypeOK, RowsOK, HoldsToken

(* A number of parts is a natural number.                                    *)
LEMMA CountType ==
    ASSUME NEW S, S \subseteq Items, NEW c, S \cap Courses \subseteq {c}
    PROVE  Cardinality(S) \in Nat
  <1>1. IsFiniteSet(Lessons \cup {c})
    BY VideoOK, FS_AddElement
  <1>2. S \subseteq Lessons \cup {c}
    BY DEF Items
  <1>. QED
    BY <1>1, <1>2, FS_Subset, FS_CardinalityType

LEMMA InitIInv == Init => IInv
  <1> SUFFICES ASSUME Init PROVE IInv
    OBVIOUS
  <1>1. Blank \in Drafts
    BY DEF Blank, Drafts
  <1>2. TypeOK
    BY <1>1, VideoOK
       DEF Init, TypeOK, Items, States, AllChecks, Phases, Goals, Errors
  <1>3. RowsOK
    BY VideoOK DEF Init, RowsOK, Items, Planned
  <1>4. StagesOK /\ ChecksFit /\ ReadyIsChecked /\ NarrationFits /\ HeldIsRow
    BY VideoOK DEF Init, Items, Planned, Checked, AllChecks, StagesOK, ChecksFit, ReadyIsChecked,
                   NarrationFits, HeldIsRow
  <1>. QED
    BY <1>2, <1>3, <1>4 DEF IInv
-----------------------------------------------------------------------------
(* Putting rows in line that no worker holds keeps the invariant: courses    *)
(* that were not planned, and lessons of planned courses.                    *)
LEMMA QueuedKeepsIInv ==
    ASSUME IInv, NEW rows \in SUBSET Items,
           \A i \in rows : /\ state[i] # "running" /\ attempts'[i] < Total
                           /\ i \in Courses => state[i] # "ready"
                           /\ i \in Lessons => state[CourseOf[i]] = "ready",
           state' = [i \in Items |-> IF i \in rows THEN "queued" ELSE state[i]],
           attempts' \in [Items -> 0..Total],
           \A i \in Items \ rows : attempts'[i] = attempts[i],
           wait' \in [Items -> Nat], lease' \in [Items -> 0..Lease],
           older' \in [Items -> SUBSET Items],
           token' = token, recent' \subseteq Lessons, repairs' \in 0..RepairParts,
           cooldown' \in [Courses -> 0..RecoveryGap],
           UNCHANGED <<contentVars, workerVars>>
    PROVE  IInv'
  <1> USE DEF IInv, contentVars, workerVars
  <1>1. TypeOK'
    BY DEF TypeOK, States
  <1>2. RowsOK'
    <2>1. ASSUME NEW i \in Items
          PROVE  /\ token'[i] # NoWorker <=> state'[i] = "running"
                 /\ state'[i] \in {"none", "queued", "retrying"} => attempts'[i] < Total
      BY <2>1 DEF RowsOK, TypeOK
    <2>2. ASSUME NEW l \in Lessons
          PROVE  /\ state'[l] = "none" => script'[l] = NoScript /\ narration'[l] = {}
                 /\ state'[l] # "none" => state'[CourseOf[l]] = "ready"
      <3>1. l \in Items /\ CourseOf[l] \in Items /\ CourseOf[l] \in Courses /\ l \notin Courses
        BY <2>2, VideoOK DEF Items
      <3>2. /\ state[l] = "none" => script[l] = NoScript /\ narration[l] = {}
            /\ state[l] # "none" => state[CourseOf[l]] = "ready"
        BY <2>2 DEF RowsOK
      <3>. QED
        BY <3>1, <3>2
    <2>. QED
      BY <2>1, <2>2 DEF RowsOK, IsLesson, HoldsToken
  <1>3. StagesOK' /\ ChecksFit' /\ HeldIsRow'
    BY DEF StagesOK, ChecksFit, HeldIsRow, Checked, IsLesson, HoldsToken
  <1>4. ReadyIsChecked' /\ NarrationFits'
    BY DEF ReadyIsChecked, NarrationFits, Checked, Items
  <1>. QED
    BY <1>1, <1>2, <1>3, <1>4

LEMMA AddedType ==
    ASSUME TypeOK, NEW rows \in SUBSET Items, Added(rows)
    PROVE  older' \in [Items -> SUBSET Items] /\ recent' \subseteq Lessons
  BY DEF TypeOK, Added, Created

(* One row that is put in line with its attempts as they are.                *)
LEMMA OneQueuedKeepsIInv ==
    ASSUME IInv, NEW i \in Items, state[i] # "running", attempts[i] < Total,
           i \in Courses => state[i] # "ready",
           i \in Lessons => state[CourseOf[i]] = "ready",
           state' = [j \in Items |-> IF j = i THEN "queued" ELSE state[j]],
           wait' \in [Items -> Nat], older' \in [Items -> SUBSET Items], recent' \subseteq Lessons,
           UNCHANGED <<attempts, lease, token, contentVars, repairs, cooldown, workerVars>>
    PROVE  IInv'
  <1> DEFINE rows == {i}
  <1>1. rows \in SUBSET Items /\ state' = [j \in Items |-> IF j \in rows THEN "queued" ELSE state[j]]
    OBVIOUS
  <1>2. \A j \in rows : /\ state[j] # "running" /\ attempts'[j] < Total
                        /\ j \in Courses => state[j] # "ready"
                        /\ j \in Lessons => state[CourseOf[j]] = "ready"
    OBVIOUS
  <1>3. /\ attempts' \in [Items -> 0..Total] /\ lease' \in [Items -> 0..Lease]
        /\ repairs' \in 0..RepairParts /\ cooldown' \in [Courses -> 0..RecoveryGap]
        /\ \A j \in Items \ rows : attempts'[j] = attempts[j]
        /\ token' = token /\ UNCHANGED <<contentVars, workerVars>>
    BY DEF IInv, TypeOK
  <1>. HIDE DEF rows
  <1>. QED
    BY <1>1, <1>2, <1>3, QueuedKeepsIInv

LEMMA CreateKeepsIInv ==
    ASSUME IInv, NEW c \in Courses, Create(c)
    PROVE  IInv'
  <1>1. c \in Items /\ c \notin Lessons /\ TypeOK /\ RowsOK
    BY VideoOK DEF Items, IInv
  <1>2. older' \in [Items -> SUBSET Items] /\ recent' \subseteq Lessons
    BY <1>1, AddedType DEF Create
  <1>3. state' = [i \in Items |-> IF i = c THEN "queued" ELSE state[i]]
    BY DEF Create, Added
  <1>4. attempts' = attempts /\ attempts[c] < Total
    BY <1>1 DEF Create, RowsOK
  <1>. QED
    BY <1>1, <1>2, <1>3, <1>4, OneQueuedKeepsIInv DEF Create, TypeOK

LEMMA RetryCourseKeepsIInv ==
    ASSUME IInv, NEW c \in Courses, RetryCourse(c)
    PROVE  IInv'
  <1>1. c \in Items /\ c \notin Lessons /\ TypeOK
    BY VideoOK DEF Items, IInv
  <1>2. state' = [i \in Items |-> IF i = c THEN "queued" ELSE state[i]]
    BY <1>1 DEF RetryCourse, Requeued, TypeOK
  <1>3. wait' \in [Items -> Nat]
    BY <1>1 DEF RetryCourse, Requeued, TypeOK
  <1>. QED
    BY <1>1, <1>2, <1>3, OneQueuedKeepsIInv DEF RetryCourse, TypeOK, budgetVars

LEMMA PrepareKeepsIInv ==
    ASSUME IInv, NEW l \in Lessons, Prepare(l)
    PROVE  IInv'
  <1>1. l \in Items /\ l \notin Courses /\ TypeOK /\ RowsOK
    BY VideoOK DEF Items, IInv
  <1>2. state' = [i \in Items |-> IF i = l THEN "queued" ELSE state[i]]
    BY <1>1 DEF Prepare, Added, Requeued, TypeOK
  <1>3. /\ wait' \in [Items -> Nat] /\ older' \in [Items -> SUBSET Items]
        /\ recent' \subseteq Lessons
    <2>1. CASE Added({l}) /\ wait' = wait
      BY <1>1, <2>1, AddedType DEF TypeOK
    <2>2. CASE Requeued(l) /\ UNCHANGED <<older, recent>>
      BY <1>1, <2>2 DEF Requeued, TypeOK
    <2>. QED
      BY <2>1, <2>2 DEF Prepare
  <1>4. attempts' = attempts /\ attempts[l] < Total /\ state[l] # "running"
    BY <1>1 DEF Prepare, RowsOK
  <1>5. /\ state[CourseOf[l]] = "ready"
        /\ UNCHANGED <<attempts, lease, token, contentVars, repairs, cooldown, workerVars>>
    BY DEF Prepare
  <1>. QED
    BY <1>1, <1>2, <1>3, <1>4, <1>5, OneQueuedKeepsIInv

LEMMA StaffRecoverKeepsIInv ==
    ASSUME IInv, NEW c \in Courses, StaffRecover(c)
    PROVE  IInv'
  <1> DEFINE parts == FirstParts({l \in PartsOf(c) : Repairable(l)},
                                 Least(RequestParts, RepairsAllowed))
             rows == parts \cup {d \in {c} : state[d] = "failed"}
  <1>1. TypeOK /\ RowsOK /\ c \in Items /\ c \notin Lessons
    BY VideoOK DEF IInv, Items
  <1>2. parts \subseteq Lessons /\ \A l \in parts : state[l] \in {"failed", "ready"}
    BY DEF FirstParts, PartsOf, Repairable
  <1>3. rows \in SUBSET Items /\ \A i \in rows : state[i] \in {"failed", "ready"}
    BY <1>1, <1>2 DEF Items
  <1>4. /\ state' = [i \in Items |-> IF i \in rows THEN "queued" ELSE state[i]]
        /\ attempts' = [i \in Items |-> IF i \in rows THEN 0 ELSE attempts[i]]
        /\ wait' = [i \in Items |-> IF i \in rows THEN 0 ELSE wait[i]]
        /\ lease' = [i \in Items |-> IF i \in rows THEN 0 ELSE lease[i]]
        /\ token' = [i \in Items |-> IF i \in rows THEN NoWorker ELSE token[i]]
        /\ repairs' = Least(RepairParts, repairs + Cardinality(rows))
        /\ cooldown' = [cooldown EXCEPT ![c] = RecoveryGap]
        /\ UNCHANGED <<older, contentVars, recent, workerVars>>
    BY DEF StaffRecover
  <1>5. token' = token
    <2>1. \A i \in rows : token[i] = NoWorker
      BY <1>1, <1>3 DEF RowsOK
    <2>. QED
      BY <1>1, <1>4, <2>1 DEF TypeOK
  <1>6. repairs' \in 0..RepairParts
    <2>1. Cardinality(rows) \in Nat
      BY <1>2, <1>3, VideoOK, CountType
    <2>. QED
      BY <1>1, <1>4, <2>1, VideoOK DEF Least, TypeOK
  <1>7. /\ attempts' \in [Items -> 0..Total] /\ wait' \in [Items -> Nat]
        /\ lease' \in [Items -> 0..Lease] /\ older' \in [Items -> SUBSET Items]
        /\ recent' \subseteq Lessons /\ cooldown' \in [Courses -> 0..RecoveryGap]
        /\ \A i \in Items \ rows : attempts'[i] = attempts[i]
    BY <1>1, <1>4, VideoOK DEF TypeOK
  <1>8. ASSUME NEW i \in rows
        PROVE  /\ state[i] # "running" /\ attempts'[i] < Total
               /\ i \in Courses => state[i] # "ready"
               /\ i \in Lessons => state[CourseOf[i]] = "ready"
    <2>1. attempts'[i] < Total /\ state[i] # "running"
      BY <1>3, <1>4, VideoOK
    <2>2. i \in Courses => state[i] = "failed"
      BY <1>2, VideoOK
    <2>3. i \in Lessons => state[CourseOf[i]] = "ready"
      BY <1>1, <1>3 DEF RowsOK
    <2>. QED
      BY <2>1, <2>2, <2>3
  <1>. HIDE DEF rows
  <1>. QED
    BY <1>3, <1>4, <1>5, <1>6, <1>7, <1>8, QueuedKeepsIInv

LEMMA FillKeepsIInv ==
    ASSUME IInv, NEW w \in Workers, Fill(w)
    PROVE  IInv'
  <1>1. TypeOK /\ RowsOK
    BY DEF IInv
  <1>2. PICK parts \in SUBSET Lessons :
            /\ \A l \in parts : state[l] = "none" /\ state[CourseOf[l]] = "ready"
            /\ Added(parts)
    BY DEF Fill, Missing, PartsOf
  <1>3. parts \in SUBSET Items /\ parts \cap Courses = {}
    BY <1>2, VideoOK DEF Items
  <1>4. /\ older' \in [Items -> SUBSET Items] /\ recent' \subseteq Lessons
        /\ state' = [i \in Items |-> IF i \in parts THEN "queued" ELSE state[i]]
    BY <1>1, <1>2, <1>3, AddedType DEF Added
  <1>5. /\ attempts' = attempts /\ \A l \in parts : attempts[l] < Total
        /\ UNCHANGED <<wait, lease, token, contentVars, repairs, cooldown, workerVars>>
    BY <1>1, <1>2, <1>3 DEF Fill, RowsOK
  <1>. QED
    BY <1>1, <1>2, <1>3, <1>4, <1>5, QueuedKeepsIInv DEF TypeOK
-----------------------------------------------------------------------------
(* The claim. *)

LEMMA ClaimGateKeepsIInv ==
    ASSUME IInv, NEW w \in Workers, ClaimGate(w)
    PROVE  IInv'
  <1> DEFINE rows == GivenUp(Courses) \cup (IF Live(Courses) THEN {} ELSE GivenUp(Lessons))
  <1>1. /\ rows \subseteq Items /\ \A i \in rows : state[i] = "running"
        /\ rows \cap Locked = {}
        /\ state' = [i \in Items |-> IF i \in rows THEN "failed" ELSE state[i]]
        /\ token' = [i \in Items |-> IF i \in rows THEN NoWorker ELSE token[i]]
        /\ phase[w] = "idle"
        /\ phase' = [phase EXCEPT ![w] = IF Live(Items) THEN "idle" ELSE "pick"]
        /\ UNCHANGED <<attempts, wait, lease, older, contentVars, budgetVars,
                       item, held, goal, error>>
    BY DEF ClaimGate, GivenUp, Items
  <1> HIDE DEF rows
  <1> USE DEF IInv, contentVars, budgetVars
  <1>2. TypeOK'
    BY <1>1 DEF TypeOK, States, Phases
  <1>3. \A v \in Workers :
            /\ phase'[v] = phase[v] \/ (v = w /\ phase[v] = "idle" /\ phase'[v] \in {"idle", "pick"})
            /\ IsLesson(v)' = IsLesson(v)
            /\ phase[v] \notin {"idle", "pick"} => item[v] \in Items
    BY <1>1, BusyWorker DEF TypeOK, IsLesson
  <1>4. \A v \in Workers : phase[v] = "put" => item[v] \notin rows
    BY <1>1 DEF Locked
  <1>5. \A v \in Workers : phase[v] \notin {"idle", "pick"} /\ HoldsToken(v)' => HoldsToken(v)
    BY <1>1, <1>3, VideoOK DEF HoldsToken
  <1>6. RowsOK'
    <2>1. ASSUME NEW i \in Items
          PROVE  /\ token'[i] # NoWorker <=> state'[i] = "running"
                 /\ state'[i] \in {"none", "queued", "retrying"} => attempts'[i] < Total
      BY <1>1, <2>1 DEF RowsOK
    <2>2. ASSUME NEW l \in Lessons
          PROVE  /\ state'[l] = "none" => script'[l] = NoScript /\ narration'[l] = {}
                 /\ state'[l] # "none" => state'[CourseOf[l]] = "ready"
      <3>1. l \in Items /\ CourseOf[l] \in Items
        BY VideoOK DEF Items
      <3>. QED
        BY <1>1, <3>1 DEF RowsOK
    <2>3. ASSUME NEW v \in Workers
          PROVE  /\ phase'[v] \in {"idle", "pick"} <=> item'[v] = NoItem
                 /\ phase'[v] = "plan" => item'[v] \in Courses
                 /\ phase'[v] \in {"author", "render", "review", "put"} => IsLesson(v)'
                 /\ phase'[v] = "put" <=> goal'[v] # "none"
      BY <1>1, <1>3 DEF RowsOK
    <2>4. ASSUME NEW v \in Workers, phase'[v] = "put"
          PROVE  HoldsToken(v)'
      <3>1. phase[v] = "put" /\ item[v] \in Items /\ item[v] \notin rows
        BY <2>4, <1>3, <1>4
      <3>. QED
        BY <1>1, <3>1 DEF RowsOK, HoldsToken
    <2>. QED
      BY <2>1, <2>2, <2>3, <2>4 DEF RowsOK
  <1>7. StagesOK'
    BY <1>1, <1>3 DEF StagesOK
  <1>8. ChecksFit' /\ ReadyIsChecked' /\ NarrationFits'
    BY <1>1 DEF ChecksFit, ReadyIsChecked, NarrationFits, Checked, Items
  <1>9. HeldIsRow'
    BY <1>1, <1>3, <1>5 DEF HeldIsRow
  <1>. QED
    BY <1>2, <1>6, <1>7, <1>8, <1>9

LEMMA ClaimPickKeepsIInv ==
    ASSUME IInv, NEW w \in Workers, ClaimPick(w)
    PROVE  IInv'
  <1> USE DEF IInv, contentVars, budgetVars
  <1>1. CASE Choice = {} /\ phase' = [phase EXCEPT ![w] = "idle"]
             /\ UNCHANGED <<state, token, lease, attempts, item>>
    <2>1. phase[w] = "pick" /\ UNCHANGED <<wait, older, contentVars, budgetVars, held, goal, error>>
      BY DEF ClaimPick
    <2>2. TypeOK'
      BY <1>1, <2>1 DEF TypeOK, Phases
    <2>3. RowsOK'
      BY <1>1, <2>1 DEF RowsOK, TypeOK, IsLesson, HoldsToken
    <2>4. StagesOK' /\ HeldIsRow'
      BY <1>1, <2>1 DEF StagesOK, HeldIsRow, RowsOK, TypeOK, IsLesson, HoldsToken
    <2>5. ChecksFit' /\ ReadyIsChecked' /\ NarrationFits'
      BY <1>1, <2>1 DEF ChecksFit, ReadyIsChecked, NarrationFits, Checked
    <2>. QED
      BY <2>2, <2>3, <2>4, <2>5
  <1>2. CASE \E i \in Choice :
               /\ state' = [state EXCEPT ![i] = "running"]
               /\ token' = [token EXCEPT ![i] = w]
               /\ lease' = [lease EXCEPT ![i] = Lease]
               /\ attempts' = [attempts EXCEPT ![i] = @ + 1]
               /\ phase' = [phase EXCEPT ![w] = "read"]
               /\ item' = [item EXCEPT ![w] = i]
    <2>1. PICK i \in Choice :
               /\ state' = [state EXCEPT ![i] = "running"]
               /\ token' = [token EXCEPT ![i] = w]
               /\ lease' = [lease EXCEPT ![i] = Lease]
               /\ attempts' = [attempts EXCEPT ![i] = @ + 1]
               /\ phase' = [phase EXCEPT ![w] = "read"]
               /\ item' = [item EXCEPT ![w] = i]
      BY <1>2
    <2>2. /\ i \in Items /\ i \notin Locked /\ attempts[i] < Total
          /\ state[i] \in {"queued", "retrying", "running"}
      BY <2>1 DEF Choice, FirstOf, Due
    <2>3. /\ phase[w] = "pick" /\ item[w] = NoItem
          /\ UNCHANGED <<wait, older, contentVars, budgetVars, held, goal, error>>
      BY DEF ClaimPick, RowsOK
    <2>4. TypeOK'
      BY <2>1, <2>2, <2>3, VideoOK DEF TypeOK, States, Phases
    <2>5. \A v \in Workers : v # w =>
              /\ phase'[v] = phase[v] /\ item'[v] = item[v] /\ IsLesson(v)' = IsLesson(v)
              /\ phase[v] \notin {"idle", "pick"} => item[v] \in Items
              /\ phase[v] = "put" => item[v] # i
      BY <2>1, <2>2, BusyWorker DEF TypeOK, IsLesson, Locked
    <2>6. \A v \in Workers : v # w /\ phase[v] \notin {"idle", "pick"} =>
              /\ HoldsToken(v)' => HoldsToken(v)
              /\ item[v] # i => (HoldsToken(v)' <=> HoldsToken(v))
      BY <2>1, <2>2, <2>5 DEF HoldsToken, TypeOK
    <2>7. /\ phase'[w] = "read" /\ item'[w] = i /\ held' = held
          /\ goal' = goal /\ goal[w] = "none" /\ i # NoItem
      BY <2>1, <2>2, <2>3, VideoOK DEF TypeOK, RowsOK
    <2>8. RowsOK'
      <3>1. ASSUME NEW j \in Items
            PROVE  /\ token'[j] # NoWorker <=> state'[j] = "running"
                   /\ state'[j] \in {"none", "queued", "retrying"} => attempts'[j] < Total
        BY <2>1, <2>2, <3>1, VideoOK DEF RowsOK, TypeOK
      <3>2. ASSUME NEW l \in Lessons
            PROVE  /\ state'[l] = "none" => script'[l] = NoScript /\ narration'[l] = {}
                   /\ state'[l] # "none" => state'[CourseOf[l]] = "ready"
        <4>1. l \in Items /\ CourseOf[l] \in Items
          BY VideoOK DEF Items
        <4>. QED
          BY <2>1, <2>2, <2>3, <4>1 DEF RowsOK, TypeOK
      <3>3. ASSUME NEW v \in Workers
            PROVE  /\ phase'[v] \in {"idle", "pick"} <=> item'[v] = NoItem
                   /\ phase'[v] = "plan" => item'[v] \in Courses
                   /\ phase'[v] \in {"author", "render", "review", "put"} => IsLesson(v)'
                   /\ phase'[v] = "put" => HoldsToken(v)'
                   /\ phase'[v] = "put" <=> goal'[v] # "none"
        BY <2>5, <2>6, <2>7 DEF RowsOK
      <3>. QED
        BY <3>1, <3>2, <3>3 DEF RowsOK
    <2>9. StagesOK'
      BY <2>5, <2>7 DEF StagesOK
    <2>10. ChecksFit' /\ ReadyIsChecked' /\ NarrationFits'
      BY <2>1, <2>2, <2>3 DEF ChecksFit, ReadyIsChecked, NarrationFits, Checked, TypeOK, Items
    <2>11. HeldIsRow'
      BY <2>3, <2>5, <2>6, <2>7 DEF HeldIsRow
    <2>. QED
      BY <2>4, <2>8, <2>9, <2>10, <2>11
  <1>. QED
    BY <1>1, <1>2 DEF ClaimPick
-----------------------------------------------------------------------------
(* Steps that change nothing but what a worker remembers. *)

(* A worker that drops its item.                                             *)
LEMMA LeavesKeepsIInv ==
    ASSUME IInv, NEW w \in Workers, WorkerFreed(w), UNCHANGED <<queueVars, contentVars, budgetVars>>
    PROVE  IInv'
  <1> USE DEF IInv, queueVars, contentVars, budgetVars
  <1>1. TypeOK'
    BY FreedType DEF TypeOK
  <1>2. RowsOK' /\ StagesOK' /\ HeldIsRow'
    BY DEF RowsOK, StagesOK, HeldIsRow, WorkerFreed, TypeOK, IsLesson, HoldsToken
  <1>3. ChecksFit' /\ ReadyIsChecked' /\ NarrationFits'
    BY DEF ChecksFit, ReadyIsChecked, NarrationFits, Checked
  <1>. QED
    BY <1>1, <1>2, <1>3

(* A worker that goes to its error handler.                                  *)
LEMMA FailsKeepsIInv ==
    ASSUME IInv, NEW w \in Workers, phase[w] \notin {"idle", "pick", "put"},
           NEW kind \in Errors, Fails(w, kind), UNCHANGED <<queueVars, contentVars, budgetVars>>
    PROVE  IInv'
  <1> USE DEF IInv, queueVars, contentVars, budgetVars
  <1>1. TypeOK'
    BY DEF TypeOK, Fails, Phases
  <1>2. RowsOK' /\ StagesOK' /\ HeldIsRow'
    BY DEF RowsOK, StagesOK, HeldIsRow, Fails, TypeOK, IsLesson, HoldsToken
  <1>3. ChecksFit' /\ ReadyIsChecked' /\ NarrationFits'
    BY DEF ChecksFit, ReadyIsChecked, NarrationFits, Checked
  <1>. QED
    BY <1>1, <1>2, <1>3

LEMMA ReadKeepsIInv ==
    ASSUME IInv, NEW w \in Workers, Read(w)
    PROVE  IInv'
  <1> USE DEF IInv
  <1>1. CASE WorkerFreed(w)
    BY <1>1, LeavesKeepsIInv DEF Read
  <1>2. CASE Fails(w, "storage")
    BY <1>2, FailsKeepsIInv DEF Read, Errors
  <1>3. CASE HoldsToken(w) /\ ~IsLesson(w) /\ Goes(w, "plan") /\ held' = held
    <2>1. item[w] \in Courses /\ phase[w] = "read" /\ UNCHANGED <<queueVars, contentVars, budgetVars>>
      BY <1>3, BusyWorker DEF Read, IsLesson, Items
    <2>2. TypeOK'
      BY <1>3, <2>1 DEF TypeOK, Goes, Phases, queueVars, contentVars, budgetVars
    <2>3. RowsOK' /\ StagesOK' /\ HeldIsRow'
      BY <1>3, <2>1 DEF RowsOK, StagesOK, HeldIsRow, Goes, TypeOK, IsLesson, HoldsToken,
                        queueVars, contentVars
    <2>4. ChecksFit' /\ ReadyIsChecked' /\ NarrationFits'
      BY <2>1 DEF ChecksFit, ReadyIsChecked, NarrationFits, Checked, queueVars, contentVars
    <2>. QED
      BY <2>2, <2>3, <2>4
  <1>4. CASE /\ HoldsToken(w) /\ IsLesson(w) /\ Goes(w, NextStage(Row(item[w])))
             /\ held' = [held EXCEPT ![w] = Row(item[w])]
    <2> DEFINE l == item[w]
    <2>1. l \in Lessons /\ phase[w] = "read" /\ UNCHANGED <<queueVars, contentVars, budgetVars>>
      BY <1>4 DEF Read, IsLesson
    <2>2. Row(l) \in Drafts /\ Row(l).script = script[l] /\ Row(l).video = video[l]
          /\ Row(l).checks = checks[l]
      BY <2>1 DEF Row, Drafts, TypeOK
    <2>3. TypeOK'
      BY <1>4, <2>1, <2>2 DEF TypeOK, Goes, NextStage, Phases, queueVars, contentVars, budgetVars
    <2>4. /\ NextStage(Row(l)) \in {"author", "render", "review"}
          /\ NextStage(Row(l)) = "author" => script[l] = NoScript
          /\ NextStage(Row(l)) = "render" => script[l] # NoScript /\ checks[l] \subseteq {"content"}
          /\ NextStage(Row(l)) = "review" => "media" \in checks[l]
      <3>1. /\ checks[l] \subseteq AllChecks
            /\ "media" \in checks[l] => video[l] # NoScript
            /\ "audiovisual" \in checks[l] => checks[l] = AllChecks
        BY <2>1 DEF ChecksFit, Checked, TypeOK
      <3>. QED
        BY <2>2, <3>1 DEF NextStage, AllChecks
    <2>5. \A v \in Workers : v # w => phase'[v] = phase[v] /\ held'[v] = held[v]
      BY <1>4 DEF Goes, TypeOK
    <2>6. /\ phase'[w] = NextStage(Row(l)) /\ held'[w] = Row(l)
          /\ UNCHANGED <<item, goal, token, script, video, checks, state>>
      BY <1>4, <2>1 DEF Goes, TypeOK, queueVars, contentVars
    <2>7. RowsOK'
      BY <2>1, <2>4, <2>5, <2>6
         DEF RowsOK, IsLesson, HoldsToken, queueVars, contentVars
    <2>8. StagesOK' /\ HeldIsRow'
      BY <2>1, <2>2, <2>4, <2>5, <2>6 DEF RowsOK, StagesOK, HeldIsRow, IsLesson, HoldsToken
    <2>9. ChecksFit' /\ ReadyIsChecked' /\ NarrationFits'
      BY <2>1 DEF ChecksFit, ReadyIsChecked, NarrationFits, Checked, queueVars, contentVars
    <2>. QED
      BY <2>3, <2>7, <2>8, <2>9
  <1>. QED
    BY <1>1, <1>2, <1>3, <1>4 DEF Read

LEMMA ProviderFailsKeepsIInv ==
    ASSUME IInv, NEW w \in Workers, ProviderFails(w)
    PROVE  IInv'
  <1>1. PICK kind \in {"content", "capacity", "other"} : Fails(w, kind)
    BY DEF ProviderFails
  <1>2. kind \in Errors /\ phase[w] \notin {"idle", "pick", "put"}
    BY <1>1 DEF Errors, ProviderFails
  <1>. QED
    BY <1>1, <1>2, FailsKeepsIInv DEF ProviderFails

(* A worker that goes on with its item, and touches no row.                  *)
LEMMA GoesOnKeepsIInv ==
    ASSUME IInv, NEW w \in Workers, phase[w] \notin {"idle", "pick", "put"},
           NEW p \in {"save", "put"}, NEW g \in Goals, NEW d \in Drafts,
           phase' = [phase EXCEPT ![w] = p], goal' = [goal EXCEPT ![w] = g],
           held' = [held EXCEPT ![w] = d],
           UNCHANGED <<item, error, queueVars, contentVars, budgetVars>>,
           p = "put" <=> g # "none",
           p = "put" => IsLesson(w) /\ HoldsToken(w),
           g \in {"narration", "media"} => d.script # NoScript /\ d.checks \subseteq {"content"},
           g = "publish" \/ (p = "save" /\ IsLesson(w)) => d.checks = AllChecks,
           IsLesson(w) /\ HoldsToken(w) =>
               /\ d.script = script[item[w]] /\ d.video = video[item[w]]
               /\ \/ d.checks = checks[item[w]]
                  \/ d.checks = AllChecks /\ "media" \in checks[item[w]]
    PROVE  IInv'
  <1> USE DEF IInv, queueVars, contentVars, budgetVars
  <1>1. TypeOK'
    BY DEF TypeOK, Phases
  <1>2. /\ \A v \in Workers : v # w => phase'[v] = phase[v] /\ held'[v] = held[v] /\ goal'[v] = goal[v]
        /\ phase'[w] = p /\ goal'[w] = g /\ held'[w] = d
        /\ UNCHANGED <<item, token, state, script, video, checks, narration, attempts>>
    BY DEF TypeOK
  <1>3. RowsOK'
    BY <1>2 DEF RowsOK, IsLesson, HoldsToken
  <1>4. StagesOK'
    BY <1>2 DEF StagesOK, IsLesson
  <1>5. HeldIsRow'
    BY <1>2 DEF HeldIsRow, IsLesson, HoldsToken
  <1>6. ChecksFit' /\ ReadyIsChecked' /\ NarrationFits'
    BY <1>2 DEF ChecksFit, ReadyIsChecked, NarrationFits, Checked
  <1>. QED
    BY <1>1, <1>3, <1>4, <1>5, <1>6

LEMMA PlanKeepsIInv ==
    ASSUME IInv, NEW w \in Workers, Plan(w)
    PROVE  IInv'
  <1>1. /\ phase[w] = "plan" /\ goal[w] = "none" /\ ~IsLesson(w) /\ held[w] \in Drafts
    BY VideoOK DEF Plan, IInv, RowsOK, IsLesson, TypeOK, Goals
  <1>2. /\ phase' = [phase EXCEPT ![w] = "save"] /\ goal' = [goal EXCEPT ![w] = "none"]
        /\ held' = [held EXCEPT ![w] = held[w]]
        /\ UNCHANGED <<item, error, queueVars, contentVars, budgetVars>>
    BY <1>1 DEF Plan, Goes, IInv, TypeOK
  <1>. QED
    BY <1>1, <1>2, GoesOnKeepsIInv DEF Goals

LEMMA ReviewKeepsIInv ==
    ASSUME IInv, NEW w \in Workers, Review(w)
    PROVE  IInv'
  <1> DEFINE d == [held[w] EXCEPT !.checks = AllChecks]
  <1>1. phase[w] = "review" /\ goal[w] = "none" /\ IsLesson(w) /\ held[w] \in Drafts
    BY DEF Review, IInv, RowsOK, TypeOK, Goals
  <1>2. d \in Drafts /\ d.script = held[w].script /\ d.video = held[w].video /\ d.checks = AllChecks
    BY <1>1 DEF Drafts
  <1>3. /\ phase' = [phase EXCEPT ![w] = "save"] /\ goal' = [goal EXCEPT ![w] = "none"]
        /\ held' = [held EXCEPT ![w] = d]
        /\ UNCHANGED <<item, error, queueVars, contentVars, budgetVars>>
    BY <1>1 DEF Review, Goes, IInv, TypeOK
  <1>4. HoldsToken(w) =>
            /\ d.script = script[item[w]] /\ d.video = video[item[w]]
            /\ "media" \in checks[item[w]]
    BY <1>1, <1>2 DEF IInv, HeldIsRow, StagesOK
  <1>. HIDE DEF d
  <1>. QED
    BY <1>1, <1>2, <1>3, <1>4, GoesOnKeepsIInv DEF Goals

(* The sum that allows or refuses a write.                                   *)
LEMMA WeighKeepsIInv ==
    ASSUME IInv, NEW w \in Workers, phase[w] \in {"render", "save"}, IsLesson(w), HoldsToken(w),
           NEW more, NEW what \in {"narration", "media", "publish"}, Weigh(w, more, what),
           phase[w] = "render" => what \in {"narration", "media"},
           phase[w] = "save" => what = "publish"
    PROVE  IInv'
  <1>1. CASE Fails(w, "storage")
    BY <1>1, FailsKeepsIInv DEF Weigh, Errors
  <1>2. CASE /\ phase' = [phase EXCEPT ![w] = "put"] /\ goal' = [goal EXCEPT ![w] = what]
             /\ UNCHANGED <<item, held, error>>
    <2>1. held[w] \in Drafts /\ held' = [held EXCEPT ![w] = held[w]]
      BY <1>2 DEF IInv, TypeOK
    <2>2. /\ what \in {"narration", "media"} =>
                 held[w].script # NoScript /\ held[w].checks \subseteq {"content"}
          /\ what = "publish" => held[w].checks = AllChecks
      BY DEF IInv, StagesOK
    <2>3. /\ held[w].script = script[item[w]] /\ held[w].video = video[item[w]]
          /\ \/ held[w].checks = checks[item[w]]
             \/ held[w].checks = AllChecks /\ "media" \in checks[item[w]]
      BY DEF IInv, HeldIsRow
    <2>4. what \in Goals /\ what # "none" /\ UNCHANGED <<queueVars, contentVars, budgetVars>>
      BY DEF Weigh, Goals
    <2>. QED
      BY <1>2, <2>1, <2>2, <2>3, <2>4, GoesOnKeepsIInv
  <1>. QED
    BY <1>1, <1>2 DEF Weigh

LEMMA NarrateKeepsIInv ==
    ASSUME IInv, NEW w \in Workers, Narrate(w)
    PROVE  IInv'
  <1>1. phase[w] = "render" /\ IsLesson(w)
    BY DEF Narrate, IInv, RowsOK
  <1>2. CASE HoldsRow(w)
    BY <1>1, <1>2, WeighKeepsIInv DEF Narrate, HoldsRow
  <1>3. CASE ~HoldsRow(w)
    BY <1>1, <1>3, FailsKeepsIInv DEF Narrate, Errors
  <1>. QED
    BY <1>2, <1>3

LEMMA RenderKeepsIInv ==
    ASSUME IInv, NEW w \in Workers, Render(w)
    PROVE  IInv'
  <1>1. phase[w] = "render" /\ IsLesson(w)
    BY DEF Render, IInv, RowsOK
  <1>2. CASE HoldsRow(w) /\ HoldsLease(w)
    BY <1>1, <1>2, WeighKeepsIInv DEF Render, HoldsRow
  <1>3. CASE ~(HoldsRow(w) /\ HoldsLease(w))
    BY <1>3, LeavesKeepsIInv DEF Render, Leaves
  <1>. QED
    BY <1>2, <1>3

LEMMA PublishKeepsIInv ==
    ASSUME IInv, NEW w \in Workers, Publish(w)
    PROVE  IInv'
  <1>1. CASE HoldsLease(w)
    BY <1>1, WeighKeepsIInv DEF Publish, HoldsLease
  <1>2. CASE ~HoldsLease(w)
    BY <1>2, LeavesKeepsIInv DEF Publish, Leaves
  <1>. QED
    BY <1>1, <1>2
-----------------------------------------------------------------------------
(* Steps that write a lesson's row. *)

(* A worker that writes to its lesson and keeps it: nobody else holds it.    *)
LEMMA WritesKeepsIInv ==
    ASSUME IInv, NEW w \in Workers, phase[w] \notin {"idle", "pick"}, IsLesson(w), HoldsToken(w),
           NEW d \in Drafts, NEW n \in SUBSET Scripts, NEW p \in {"render", "review"},
           d.script # NoScript, d.video \in {NoScript, d.script}, "audiovisual" \notin d.checks,
           "media" \in d.checks => d.video # NoScript,
           p = "render" => d.checks \subseteq {"content"},
           p = "review" => "media" \in d.checks,
           n \subseteq {d.script},
           script' = [script EXCEPT ![item[w]] = d.script],
           checks' = [checks EXCEPT ![item[w]] = d.checks],
           video' = [video EXCEPT ![item[w]] = d.video],
           narration' = [narration EXCEPT ![item[w]] = n],
           held' = [held EXCEPT ![w] = d], phase' = [phase EXCEPT ![w] = p],
           goal' = [goal EXCEPT ![w] = "none"],
           UNCHANGED <<item, error, queueVars, budgetVars>>
    PROVE  IInv'
  <1> DEFINE l == item[w]
  <1> USE DEF IInv, queueVars, budgetVars
  <1>1. /\ l \in Lessons /\ l \in Items /\ state[l] = "running"
        /\ \A v \in Workers : v # w => ~(item[v] = l /\ HoldsToken(v))
    BY Holder DEF IsLesson
  <1>2. d.script \in Scripts /\ d.video \in Scripts \cup {NoScript} /\ d.checks \in SUBSET AllChecks
    BY DEF Drafts
  <1>3. TypeOK'
    BY <1>1, <1>2 DEF TypeOK, Phases, Goals
  <1>4. /\ \A v \in Workers : v # w =>
               phase'[v] = phase[v] /\ held'[v] = held[v] /\ goal'[v] = goal[v]
        /\ phase'[w] = p /\ goal'[w] = "none" /\ held'[w] = d
        /\ script'[l] = d.script /\ checks'[l] = d.checks /\ video'[l] = d.video
        /\ narration'[l] = n
        /\ \A k \in Lessons : k # l =>
               /\ script'[k] = script[k] /\ checks'[k] = checks[k] /\ video'[k] = video[k]
               /\ narration'[k] = narration[k]
        /\ UNCHANGED <<item, token, state, attempts>>
    BY <1>1 DEF TypeOK
  <1>. HIDE DEF l
  <1>5. RowsOK'
    <2>1. \A i \in Items : /\ token'[i] # NoWorker <=> state'[i] = "running"
                           /\ state'[i] \in {"none", "queued", "retrying"} => attempts'[i] < Total
      BY <1>4 DEF RowsOK
    <2>2. \A k \in Lessons : /\ state'[k] = "none" => script'[k] = NoScript /\ narration'[k] = {}
                             /\ state'[k] # "none" => state'[CourseOf[k]] = "ready"
      BY <1>1, <1>4 DEF RowsOK
    <2>3. \A v \in Workers :
              /\ phase'[v] \in {"idle", "pick"} <=> item'[v] = NoItem
              /\ phase'[v] = "plan" => item'[v] \in Courses
              /\ phase'[v] \in {"author", "render", "review", "put"} => IsLesson(v)'
              /\ phase'[v] = "put" => HoldsToken(v)'
              /\ phase'[v] = "put" <=> goal'[v] # "none"
      BY <1>4 DEF RowsOK, IsLesson, HoldsToken
    <2>. QED
      BY <2>1, <2>2, <2>3 DEF RowsOK
  <1>6. StagesOK'
    BY <1>4 DEF StagesOK, IsLesson
  <1>7. ChecksFit'
    BY <1>1, <1>2, <1>4 DEF ChecksFit, Checked, AllChecks
  <1>8. ReadyIsChecked' /\ NarrationFits'
    BY <1>1, <1>2, <1>4, VideoOK DEF ReadyIsChecked, NarrationFits, Checked
  <1>9. HeldIsRow'
    <2>1. ASSUME NEW v \in Workers, v # w,
                 phase'[v] \in {"author", "render", "review", "save", "put"},
                 IsLesson(v)', HoldsToken(v)'
          PROVE  /\ held'[v].script = script'[item'[v]] /\ held'[v].video = video'[item'[v]]
                 /\ \/ held'[v].checks = checks'[item'[v]]
                    \/ held'[v].checks = AllChecks /\ "media" \in checks'[item'[v]]
      <3>1. IsLesson(v) /\ HoldsToken(v) /\ item[v] # l /\ item[v] \in Lessons
        BY <1>1, <1>4, <2>1 DEF IsLesson, HoldsToken
      <3>. QED
        BY <1>4, <2>1, <3>1 DEF HeldIsRow
    <2>. QED
      BY <1>4, <2>1, l = item[w] DEF HeldIsRow, l
  <1>. QED
    BY <1>3, <1>5, <1>6, <1>7, <1>8, <1>9

LEMMA AuthorKeepsIInv ==
    ASSUME IInv, NEW w \in Workers, Author(w)
    PROVE  IInv'
  <1>1. CASE Leaves(w)
    BY <1>1, LeavesKeepsIInv DEF Leaves
  <1>2. CASE ~Leaves(w)
    <2> DEFINE l == item[w]
    <2>1. PICK s \in Scripts :
              /\ script' = [script EXCEPT ![l] = s]
              /\ held' = [held EXCEPT ![w] =
                     [script |-> s, video |-> @.video, checks |-> {"content"}]]
      BY <1>2 DEF Author
    <2>2. /\ HoldsToken(w) /\ checks' = [checks EXCEPT ![l] = {"content"}] /\ Goes(w, "render")
          /\ UNCHANGED <<queueVars, video, narration, budgetVars>>
          /\ phase[w] = "author" /\ goal[w] = "none" /\ IsLesson(w) /\ l \in Lessons
      BY <1>2 DEF Author, IInv, RowsOK, TypeOK, Goals, IsLesson
    <2>3. held[w].script = NoScript /\ script[l] = NoScript /\ held[w].video = video[l]
      BY <2>2 DEF IInv, StagesOK, HeldIsRow
    <2>4. video[l] = NoScript /\ narration[l] = {}
      BY <2>2, <2>3 DEF IInv, ChecksFit, NarrationFits
    <2> DEFINE d == [script |-> s, video |-> held[w].video, checks |-> {"content"}]
    <2>5. /\ d \in Drafts /\ d.script = s /\ d.checks = {"content"} /\ d.video = NoScript
          /\ s # NoScript
      BY <2>3, <2>4, VideoOK DEF Drafts, IInv, TypeOK, AllChecks
    <2>6. held' = [held EXCEPT ![w] = d]
      BY <2>1 DEF IInv, TypeOK, Drafts
    <2>7. /\ video' = [video EXCEPT ![l] = NoScript] /\ narration' = [narration EXCEPT ![l] = {}]
          /\ phase' = [phase EXCEPT ![w] = "render"] /\ goal' = [goal EXCEPT ![w] = "none"]
          /\ UNCHANGED <<item, error, queueVars, budgetVars>>
      BY <2>2, <2>4 DEF Goes, IInv, TypeOK
    <2>8. /\ script' = [script EXCEPT ![l] = d.script] /\ checks' = [checks EXCEPT ![l] = d.checks]
          /\ video' = [video EXCEPT ![l] = d.video]
          /\ "media" \notin d.checks /\ "audiovisual" \notin d.checks
      <3>1. script' = [script EXCEPT ![l] = d.script]
        BY <2>1, <2>5
      <3>2. checks' = [checks EXCEPT ![l] = d.checks]
        BY <2>2, <2>5
      <3>3. video' = [video EXCEPT ![l] = d.video]
        BY <2>5, <2>7
      <3>. QED
        BY <2>5, <3>1, <3>2, <3>3
    <2> DEFINE n == {}
    <2>9. /\ n \in SUBSET Scripts /\ n \subseteq {d.script} /\ "render" \in {"render", "review"}
          /\ narration' = [narration EXCEPT ![l] = n] /\ "render" # "review"
          /\ phase[w] \notin {"idle", "pick"}
      BY <2>2, <2>7
    <2>. HIDE DEF d, n
    <2>. QED
      BY <2>2, <2>5, <2>6, <2>7, <2>8, <2>9, WritesKeepsIInv
  <1>. QED
    BY <1>1, <1>2

(* What stands when a worker is about to store.                              *)
LEMMA AboutToStore ==
    ASSUME IInv, NEW w \in Workers, phase[w] = "put"
    PROVE  /\ IsLesson(w) /\ HoldsToken(w) /\ item[w] \in Lessons /\ held[w] \in Drafts
           /\ held[w].script = script[item[w]] /\ held[w].video = video[item[w]]
           /\ \/ held[w].checks = checks[item[w]]
              \/ held[w].checks = AllChecks /\ "media" \in checks[item[w]]
           /\ goal[w] \in {"narration", "media"} =>
                  held[w].script # NoScript /\ held[w].checks \subseteq {"content"}
           /\ goal[w] = "publish" => held[w].checks = AllChecks
  BY DEF IInv, RowsOK, HeldIsRow, StagesOK, IsLesson, TypeOK

LEMMA PutNarrationKeepsIInv ==
    ASSUME IInv, NEW w \in Workers, PutNarration(w)
    PROVE  IInv'
  <1> DEFINE l == item[w]
             d == held[w]
             n == narration[l] \cup {d.script}
  <1>1. phase[w] = "put" /\ goal[w] = "narration"
    BY DEF PutNarration
  <1>2. /\ IsLesson(w) /\ HoldsToken(w) /\ l \in Lessons /\ d \in Drafts /\ d.script # NoScript
        /\ d.script = script[l] /\ d.video = video[l] /\ d.checks \subseteq {"content"}
        /\ d.checks = checks[l]
    BY <1>1, AboutToStore DEF AllChecks
  <1>3. /\ d.video \in {NoScript, d.script} /\ "audiovisual" \notin d.checks
        /\ "media" \notin d.checks /\ n \subseteq {d.script} /\ n \in SUBSET Scripts
    BY <1>2 DEF IInv, ChecksFit, NarrationFits, Drafts, TypeOK
  <1>4. /\ script' = [script EXCEPT ![l] = d.script] /\ checks' = [checks EXCEPT ![l] = d.checks]
        /\ video' = [video EXCEPT ![l] = d.video] /\ narration' = [narration EXCEPT ![l] = n]
        /\ held' = [held EXCEPT ![w] = d] /\ phase' = [phase EXCEPT ![w] = "render"]
        /\ goal' = [goal EXCEPT ![w] = "none"]
        /\ UNCHANGED <<item, error, queueVars, budgetVars>>
    BY <1>2 DEF PutNarration, IInv, TypeOK
  <1>. HIDE DEF d, n
  <1>. QED
    BY <1>1, <1>2, <1>3, <1>4, WritesKeepsIInv

LEMMA PutMediaKeepsIInv ==
    ASSUME IInv, NEW w \in Workers, PutMedia(w)
    PROVE  IInv'
  <1> DEFINE l == item[w]
             s == held[w].script
             d == [script |-> s, video |-> s, checks |-> held[w].checks \cup {"media"}]
             n == narration[l]
  <1>1. phase[w] = "put" /\ goal[w] = "media"
    BY DEF PutMedia
  <1>2. /\ IsLesson(w) /\ HoldsToken(w) /\ l \in Lessons /\ s # NoScript
        /\ s = script[l] /\ held[w].checks \subseteq {"content"} /\ s \in Scripts
    BY <1>1, AboutToStore DEF Drafts
  <1>3. /\ d \in Drafts /\ d.script = s /\ d.video = s /\ "media" \in d.checks
        /\ "audiovisual" \notin d.checks
        /\ n \subseteq {s} /\ n \in SUBSET Scripts
    BY <1>2 DEF IInv, NarrationFits, Drafts, TypeOK, AllChecks
  <1>4. /\ script' = [script EXCEPT ![l] = d.script] /\ checks' = [checks EXCEPT ![l] = d.checks]
        /\ video' = [video EXCEPT ![l] = d.video] /\ narration' = [narration EXCEPT ![l] = n]
        /\ held' = [held EXCEPT ![w] = d] /\ phase' = [phase EXCEPT ![w] = "review"]
        /\ goal' = [goal EXCEPT ![w] = "none"]
        /\ UNCHANGED <<item, error, queueVars, budgetVars>>
    BY <1>2 DEF PutMedia, IInv, TypeOK
  <1>. HIDE DEF d, n
  <1>. QED
    BY <1>1, <1>2, <1>3, <1>4, WritesKeepsIInv
-----------------------------------------------------------------------------
(* Steps that give an item back: published, planned, failed or to be retried.*)

LEMMA ReleasesKeepsIInv ==
    ASSUME IInv, NEW w \in Workers, phase[w] \notin {"idle", "pick"}, HoldsToken(w),
           NEW i, i = item[w], state'[i] \in {"ready", "failed", "retrying"},
           NEW parts \in SUBSET Lessons,
           \A k \in parts : state[k] = "none" /\ CourseOf[k] = i /\ state'[i] = "ready",
           state' \in [Items -> States],
           \A j \in parts : state'[j] = "queued",
           \A j \in Items \ {i} : j \notin parts => state'[j] = state[j],
           token' = [token EXCEPT ![i] = NoWorker], lease' = [lease EXCEPT ![i] = 0],
           attempts' \in [Items -> 0..Total], state'[i] = "retrying" => attempts'[i] < Total,
           \A j \in Items \ {i} : attempts'[j] = attempts[j],
           wait' \in [Items -> Nat], older' \in [Items -> SUBSET Items],
           recent' \subseteq Lessons, UNCHANGED <<repairs, cooldown>>, WorkerFreed(w),
           script' \in [Lessons -> Scripts \cup {NoScript}],
           video' \in [Lessons -> Scripts \cup {NoScript}],
           checks' \in [Lessons -> SUBSET AllChecks], narration' \in [Lessons -> SUBSET Scripts],
           \A k \in Lessons \ {i} : /\ script'[k] = script[k] /\ video'[k] = video[k]
                                    /\ checks'[k] = checks[k] /\ narration'[k] = narration[k],
           i \in Lessons =>
               /\ video'[i] # NoScript => video'[i] = script'[i]
               /\ "media" \in checks'[i] => video'[i] # NoScript
               /\ "audiovisual" \in checks'[i] => checks'[i] = AllChecks
               /\ checks'[i] # {} => script'[i] # NoScript
               /\ narration'[i] \subseteq {script'[i]} \ {NoScript}
               /\ state'[i] = "ready" =>
                      video'[i] # NoScript /\ checks'[i] = AllChecks /\ narration'[i] = {}
    PROVE  IInv'
  <1> USE DEF IInv
  <1>1. /\ i \in Items /\ state[i] = "running" /\ token[i] = w
        /\ \A v \in Workers : v # w => ~(item[v] = i /\ HoldsToken(v))
    BY Holder DEF HoldsToken
  <1>2. TypeOK'
    <2>1. lease' \in [Items -> 0..Lease] /\ token' \in [Items -> Workers \cup {NoWorker}]
      BY <1>1, VideoOK DEF TypeOK
    <2>2. /\ phase' \in [Workers -> Phases] /\ item' \in [Workers -> Items \cup {NoItem}]
          /\ held' \in [Workers -> Drafts] /\ goal' \in [Workers -> Goals]
          /\ error' \in [Workers -> Errors]
      BY FreedType
    <2>. QED
      BY <2>1, <2>2 DEF TypeOK
  <1>3. \A l \in Lessons : l \in Items /\ CourseOf[l] \in Courses /\ CourseOf[l] \in Items
                           /\ l \notin Courses
    BY VideoOK DEF Items
  <1>4. /\ \A v \in Workers : v # w => /\ phase'[v] = phase[v] /\ held'[v] = held[v]
                                       /\ goal'[v] = goal[v] /\ item'[v] = item[v]
        /\ phase'[w] = "idle" /\ item'[w] = NoItem /\ goal'[w] = "none"
        /\ token'[i] = NoWorker /\ \A j \in Items : j # i => token'[j] = token[j]
    BY <1>1 DEF WorkerFreed, TypeOK
  <1>5. \A v \in Workers : v # w /\ phase[v] \notin {"idle", "pick"} =>
            /\ item[v] \in Items /\ IsLesson(v)' = IsLesson(v)
            /\ HoldsToken(v)' => HoldsToken(v) /\ item[v] # i
            /\ HoldsToken(v) => HoldsToken(v)'
    BY <1>1, <1>4, BusyWorker, VideoOK DEF HoldsToken, IsLesson
  <1>6. RowsOK'
    <2>1. ASSUME NEW j \in Items
          PROVE  /\ token'[j] # NoWorker <=> state'[j] = "running"
                 /\ state'[j] \in {"none", "queued", "retrying"} => attempts'[j] < Total
      <3>1. j \in parts => state[j] = "none" /\ j # i
        BY <1>1
      <3>. QED
        BY <1>1, <1>4, <2>1, <3>1 DEF RowsOK
    <2>2. ASSUME NEW l \in Lessons
          PROVE  /\ state'[l] = "none" => script'[l] = NoScript /\ narration'[l] = {}
                 /\ state'[l] # "none" => state'[CourseOf[l]] = "ready"
      <3>1. /\ state[l] = "none" => script[l] = NoScript /\ narration[l] = {}
            /\ state[l] # "none" => state[CourseOf[l]] = "ready"
        BY <2>2 DEF RowsOK
      <3>. QED
        BY <1>1, <1>3, <2>2, <3>1
    <2>3. ASSUME NEW v \in Workers
          PROVE  /\ phase'[v] \in {"idle", "pick"} <=> item'[v] = NoItem
                 /\ phase'[v] = "plan" => item'[v] \in Courses
                 /\ phase'[v] \in {"author", "render", "review", "put"} => IsLesson(v)'
                 /\ phase'[v] = "put" => HoldsToken(v)'
                 /\ phase'[v] = "put" <=> goal'[v] # "none"
      BY <1>4, <1>5 DEF RowsOK
    <2>. QED
      BY <2>1, <2>2, <2>3 DEF RowsOK
  <1>7. StagesOK'
    BY <1>4 DEF StagesOK, IsLesson
  <1>8. ChecksFit'
    BY DEF ChecksFit, Checked
  <1>9. ReadyIsChecked' /\ NarrationFits'
    <2>1. ReadyIsChecked'
      BY <1>1, <1>3 DEF ReadyIsChecked, Checked
    <2>2. NarrationFits'
      BY <1>1, <1>3 DEF NarrationFits
    <2>. QED
      BY <2>1, <2>2
  <1>10. HeldIsRow'
    <2>1. ASSUME NEW v \in Workers,
                 phase'[v] \in {"author", "render", "review", "save", "put"},
                 IsLesson(v)', HoldsToken(v)'
          PROVE  /\ held'[v].script = script'[item'[v]] /\ held'[v].video = video'[item'[v]]
                 /\ \/ held'[v].checks = checks'[item'[v]]
                    \/ held'[v].checks = AllChecks /\ "media" \in checks'[item'[v]]
      <3>1. v # w /\ phase'[v] = phase[v] /\ held'[v] = held[v] /\ item'[v] = item[v]
        BY <1>4, <2>1
      <3>2. IsLesson(v) /\ HoldsToken(v) /\ item[v] # i /\ item[v] \in Lessons
        BY <1>5, <2>1, <3>1 DEF IsLesson
      <3>. QED
        BY <2>1, <3>1, <3>2 DEF HeldIsRow
    <2>. QED
      BY <2>1 DEF HeldIsRow
  <1>. QED
    BY <1>2, <1>6, <1>7, <1>8, <1>9, <1>10

LEMMA PutPublishedKeepsIInv ==
    ASSUME IInv, NEW w \in Workers, PutPublished(w)
    PROVE  IInv'
  <1>1. phase[w] = "put" /\ goal[w] = "publish" /\ WorkerFreed(w) /\ item[w] \in Items
    BY BusyWorker DEF PutPublished, IInv
  <1>2. PICK l \in Lessons : l = item[w]
    BY <1>1, AboutToStore
  <1>3. /\ HoldsToken(w) /\ held[w] \in Drafts
        /\ held[w].script = script[l] /\ held[w].video = video[l]
        /\ held[w].checks = AllChecks /\ "media" \in checks[l]
    BY <1>1, <1>2, AboutToStore DEF AllChecks
  <1>4. video[l] # NoScript /\ video[l] = script[l]
    BY <1>2, <1>3 DEF IInv, ChecksFit
  <1>5. /\ script'[l] = script[l] /\ video'[l] = video[l] /\ checks'[l] = AllChecks
        /\ narration'[l] = {}
        /\ \A k \in Lessons \ {l} : /\ script'[k] = script[k] /\ video'[k] = video[k]
                                    /\ checks'[k] = checks[k] /\ narration'[k] = narration[k]
        /\ script' \in [Lessons -> Scripts \cup {NoScript}]
        /\ video' \in [Lessons -> Scripts \cup {NoScript}]
        /\ checks' \in [Lessons -> SUBSET AllChecks] /\ narration' \in [Lessons -> SUBSET Scripts]
    BY <1>2, <1>3 DEF PutPublished, IInv, TypeOK
  <1>6. PICK parts \in SUBSET Lessons : parts = {}
    OBVIOUS
  <1>7. /\ state' \in [Items -> States] /\ state'[l] = "ready"
        /\ \A j \in parts : state'[j] = "queued"
        /\ \A j \in Items \ {l} : j \notin parts => state'[j] = state[j]
    BY <1>1, <1>2, <1>6 DEF PutPublished, IInv, TypeOK, States
  <1>8. \A k \in parts : state[k] = "none" /\ CourseOf[k] = l /\ state'[l] = "ready"
    BY <1>6
  <1>9. /\ token' = [token EXCEPT ![l] = NoWorker] /\ lease' = [lease EXCEPT ![l] = 0]
        /\ repairs' = repairs /\ cooldown' = cooldown
        /\ attempts' \in [Items -> 0..Total] /\ wait' \in [Items -> Nat]
        /\ older' \in [Items -> SUBSET Items] /\ recent' \subseteq Lessons
        /\ \A j \in Items \ {l} : attempts'[j] = attempts[j]
    BY <1>2 DEF PutPublished, IInv, TypeOK, budgetVars
  <1>10. l \in Lessons =>
             /\ video'[l] # NoScript => video'[l] = script'[l]
             /\ "media" \in checks'[l] => video'[l] # NoScript
             /\ "audiovisual" \in checks'[l] => checks'[l] = AllChecks
             /\ checks'[l] # {} => script'[l] # NoScript
             /\ narration'[l] \subseteq {script'[l]} \ {NoScript}
             /\ state'[l] = "ready" =>
                    video'[l] # NoScript /\ checks'[l] = AllChecks /\ narration'[l] = {}
    BY <1>4, <1>5, <1>7
  <1>11. /\ IInv /\ phase[w] \notin {"idle", "pick"} /\ HoldsToken(w) /\ l = item[w]
         /\ state'[l] \in {"ready", "failed", "retrying"}
    BY <1>1, <1>2, <1>3, <1>7
  <1>12. state'[l] = "retrying" => attempts'[l] < Total
    BY <1>7
  <1>13. UNCHANGED <<repairs, cooldown>>
    BY <1>9
  <1>. QED
    BY <1>1, <1>2, <1>11, <1>8, <1>12, <1>13, <1>10, <1>5, <1>7, <1>9, ReleasesKeepsIInv

LEMMA SaveCourseKeepsIInv ==
    ASSUME IInv, NEW w \in Workers, SaveCourse(w)
    PROVE  IInv'
  <1>1. CASE Leaves(w)
    BY <1>1, LeavesKeepsIInv DEF Leaves
  <1>2. CASE ~Leaves(w)
    <2> DEFINE c == item[w]
               parts == {l \in Missing(c) : Position[l] < PartsAllowed}
    <2>1. /\ phase[w] = "save" /\ ~IsLesson(w) /\ HoldsToken(w) /\ WorkerFreed(w)
          /\ state' = [i \in Items |-> IF i = c THEN "ready"
                                       ELSE IF i \in parts THEN "queued" ELSE state[i]]
          /\ older' = [i \in Items |->
                IF i \in parts THEN Created \cup {k \in parts \ {i} : ComesFirst(k, i)}
                ELSE older[i]]
          /\ recent' = recent \cup parts
          /\ token' = [token EXCEPT ![c] = NoWorker] /\ lease' = [lease EXCEPT ![c] = 0]
          /\ UNCHANGED <<attempts, wait, contentVars, repairs, cooldown>>
      BY <1>2 DEF SaveCourse, HoldsLease
    <2>2. c \in Items /\ c \notin Lessons
      BY <2>1, BusyWorker DEF IInv, IsLesson
    <2>3. parts \in SUBSET Lessons /\ \A k \in parts : state[k] = "none" /\ CourseOf[k] = c
      BY DEF Missing, PartsOf
    <2>. HIDE DEF parts
    <2>4. /\ older' \in [Items -> SUBSET Items] /\ recent' \subseteq Lessons
          /\ attempts' \in [Items -> 0..Total] /\ wait' \in [Items -> Nat]
      BY <2>1, <2>3 DEF IInv, TypeOK, Created, Items
    <2>5. /\ script' \in [Lessons -> Scripts \cup {NoScript}]
          /\ video' \in [Lessons -> Scripts \cup {NoScript}]
          /\ checks' \in [Lessons -> SUBSET AllChecks] /\ narration' \in [Lessons -> SUBSET Scripts]
          /\ UNCHANGED contentVars
      BY <2>1 DEF IInv, TypeOK, contentVars
    <2>6. /\ state' \in [Items -> States] /\ state'[c] = "ready"
          /\ \A j \in parts : state'[j] = "queued"
          /\ \A j \in Items \ {c} : j \notin parts => state'[j] = state[j]
      BY <2>1, <2>2, <2>3 DEF IInv, TypeOK, States, Items
    <2>. HIDE DEF c
    <2>7. c = item[w]
      BY DEF c
    <2>. QED
      BY <2>1, <2>2, <2>3, <2>4, <2>5, <2>6, <2>7, ReleasesKeepsIInv DEF contentVars
  <1>. QED
    BY <1>1, <1>2

(* The error handler: a retry has attempts left, because there is one more   *)
(* attempt than failures, and a capacity error takes the last one back.      *)
LEMMA FailKeepsIInv ==
    ASSUME IInv, NEW w \in Workers, Fail(w)
    PROVE  IInv'
  <1>1. /\ phase[w] = "fail" /\ HoldsToken(w) /\ WorkerFreed(w)
        /\ item[w] \in Items
    BY BusyWorker DEF Fail, IInv
  <1>2. PICK i \in Items : i = item[w]
    BY <1>1
  <1>3. state[i] = "running" /\ attempts[i] \in 0..Total
    BY <1>1, <1>2, Holder DEF IInv, TypeOK
  <1>4. /\ attempts' \in [Items -> 0..Total] /\ wait' \in [Items -> Nat]
        /\ state' \in [Items -> States] /\ state'[i] \in {"ready", "failed", "retrying"}
        /\ state'[i] # "ready"
        /\ state'[i] = "retrying" => attempts'[i] < Total
        /\ \A j \in Items \ {i} : attempts'[j] = attempts[j] /\ state'[j] = state[j]
    <2>1. CASE error[w] = "capacity"
      <3>1. PICK d \in CapacityDelays :
                /\ state' = [state EXCEPT ![i] = "retrying"]
                /\ attempts' = [attempts EXCEPT ![i] = Positive(@ - 1)]
                /\ wait' = [wait EXCEPT ![i] = d]
        BY <1>2, <2>1 DEF Fail
      <3>2. Positive(attempts[i] - 1) \in 0..Total /\ Positive(attempts[i] - 1) < Total /\ d \in Nat
        BY <1>3, VideoOK DEF Positive
      <3>. QED
        BY <1>3, <3>1, <3>2 DEF IInv, TypeOK, States
    <2>2. CASE error[w] # "capacity"
      <3>1. /\ state' = [state EXCEPT ![i] =
                   IF attempts[i] >= Failures THEN "failed" ELSE "retrying"]
            /\ wait' = [wait EXCEPT ![i] =
                   IF attempts[i] >= Failures THEN 0 ELSE BaseDelay * 2^attempts[i]]
            /\ attempts' = attempts
        BY <1>2, <2>2 DEF Fail
      <3>2. BaseDelay * 2^attempts[i] \in Nat
        BY <1>3, VideoOK
      <3>3. attempts[i] < Failures => attempts[i] < Total
        BY <1>3, VideoOK
      <3>. QED
        BY <1>3, <3>1, <3>2, <3>3, VideoOK DEF IInv, TypeOK, States
    <2>. QED
      BY <2>1, <2>2
  <1>5. /\ script' \in [Lessons -> Scripts \cup {NoScript}]
        /\ video' \in [Lessons -> Scripts \cup {NoScript}]
        /\ checks' \in [Lessons -> SUBSET AllChecks] /\ narration' \in [Lessons -> SUBSET Scripts]
        /\ \A k \in Lessons \ {i} : /\ script'[k] = script[k] /\ video'[k] = video[k]
                                    /\ checks'[k] = checks[k] /\ narration'[k] = narration[k]
        /\ i \in Lessons =>
               \/ /\ script'[i] = script[i] /\ video'[i] = video[i]
                  /\ checks'[i] = checks[i] /\ narration'[i] = narration[i]
               \/ script'[i] = NoScript /\ video'[i] = NoScript /\ checks'[i] = {} /\ narration'[i] = {}
    <2>1. CASE error[w] = "content" /\ IsLesson(w)
      <3>1. /\ script' = [script EXCEPT ![i] = NoScript] /\ checks' = [checks EXCEPT ![i] = {}]
            /\ video' = [video EXCEPT ![i] = NoScript] /\ narration' = [narration EXCEPT ![i] = {}]
        BY <1>2, <2>1 DEF Fail
      <3>. QED
        BY <3>1 DEF IInv, TypeOK
    <2>2. CASE ~(error[w] = "content" /\ IsLesson(w))
      BY <2>2 DEF Fail, IInv, TypeOK, contentVars
    <2>. QED
      BY <2>1, <2>2
  <1>6. i \in Lessons =>
            /\ video'[i] # NoScript => video'[i] = script'[i]
            /\ "media" \in checks'[i] => video'[i] # NoScript
            /\ "audiovisual" \in checks'[i] => checks'[i] = AllChecks
            /\ checks'[i] # {} => script'[i] # NoScript
            /\ narration'[i] \subseteq {script'[i]} \ {NoScript}
            /\ state'[i] = "ready" =>
                   video'[i] # NoScript /\ checks'[i] = AllChecks /\ narration'[i] = {}
    BY <1>4, <1>5 DEF IInv, ChecksFit, NarrationFits, Checked
  <1>7. /\ token' = [token EXCEPT ![i] = NoWorker] /\ lease' = [lease EXCEPT ![i] = 0]
        /\ UNCHANGED <<repairs, cooldown>>
        /\ older' \in [Items -> SUBSET Items] /\ recent' \subseteq Lessons
    BY <1>2 DEF Fail, IInv, TypeOK, budgetVars
  <1>8. PICK parts \in SUBSET Lessons : parts = {}
    OBVIOUS
  <1>9. \A k \in parts : state[k] = "none" /\ CourseOf[k] = i /\ state'[i] = "ready"
    BY <1>8
  <1>10. /\ state' \in [Items -> States]
         /\ \A j \in parts : state'[j] = "queued"
         /\ \A j \in Items \ {i} : j \notin parts => state'[j] = state[j]
    BY <1>4, <1>8
  <1>11. /\ IInv /\ phase[w] \notin {"idle", "pick"} /\ HoldsToken(w) /\ i = item[w]
         /\ state'[i] \in {"ready", "failed", "retrying"}
    BY <1>1, <1>2, <1>4
  <1>12. state'[i] = "retrying" => attempts'[i] < Total
    BY <1>4
  <1>13. /\ attempts' \in [Items -> 0..Total] /\ wait' \in [Items -> Nat]
         /\ \A j \in Items \ {i} : attempts'[j] = attempts[j]
    BY <1>4
  <1>. QED
    BY <1>1, <1>2, <1>11, <1>9, <1>12, <1>6, <1>5, <1>10, <1>13, <1>7, ReleasesKeepsIInv
-----------------------------------------------------------------------------
(* Steps that move only clocks and budgets. *)

LEMMA ClocksKeepIInv ==
    ASSUME IInv, lease' \in [Items -> 0..Lease], wait' \in [Items -> Nat],
           cooldown' \in [Courses -> 0..RecoveryGap], recent' \subseteq Lessons,
           repairs' \in 0..RepairParts,
           UNCHANGED <<state, attempts, token, older, contentVars, workerVars>>
    PROVE  IInv'
  <1> USE DEF IInv, contentVars, workerVars
  <1>1. TypeOK'
    BY DEF TypeOK
  <1>2. RowsOK' /\ StagesOK' /\ HeldIsRow'
    BY DEF RowsOK, StagesOK, HeldIsRow, IsLesson, HoldsToken
  <1>3. ChecksFit' /\ ReadyIsChecked' /\ NarrationFits'
    BY DEF ChecksFit, ReadyIsChecked, NarrationFits, Checked
  <1>. QED
    BY <1>1, <1>2, <1>3

LEMMA RenewKeepsIInv ==
    ASSUME IInv, NEW w \in Workers, Renew(w)
    PROVE  IInv'
  <1>1. lease' = [lease EXCEPT ![item[w]] = Lease] /\ Lease \in 0..Lease
    BY VideoOK DEF Renew
  <1>2. lease' \in [Items -> 0..Lease]
    BY <1>1 DEF IInv, TypeOK
  <1>. QED
    BY <1>2, ClocksKeepIInv DEF Renew, IInv, TypeOK, budgetVars

LEMMA TickKeepsIInv ==
    ASSUME IInv, Tick
    PROVE  IInv'
  <1>1. /\ \A n \in 0..Lease : Positive(n - 1) \in 0..Lease
        /\ \A n \in Nat : Positive(n - 1) \in Nat
        /\ \A n \in 0..RecoveryGap : Positive(n - 1) \in 0..RecoveryGap
    BY VideoOK DEF Positive
  <1>2. /\ lease' \in [Items -> 0..Lease] /\ wait' \in [Items -> Nat]
        /\ cooldown' \in [Courses -> 0..RecoveryGap]
    BY <1>1 DEF Tick, IInv, TypeOK
  <1>. QED
    BY <1>2, ClocksKeepIInv DEF Tick, IInv, TypeOK

LEMMA DayPassesKeepsIInv ==
    ASSUME IInv, DayPasses
    PROVE  IInv'
  <1>1. recent' \subseteq Lessons /\ repairs' \in 0..RepairParts
    BY VideoOK DEF DayPasses, IInv, TypeOK
  <1>. QED
    BY <1>1, ClocksKeepIInv DEF DayPasses, IInv, TypeOK, queueVars

LEMMA StutterKeepsIInv == IInv /\ UNCHANGED vars => IInv'
  <1> SUFFICES ASSUME IInv, UNCHANGED vars PROVE IInv'
    OBVIOUS
  <1>. QED
    BY ClocksKeepIInv DEF IInv, TypeOK, vars, queueVars, budgetVars
-----------------------------------------------------------------------------
LEMMA NextKeepsIInv == IInv /\ [Next]_vars => IInv'
  <1> SUFFICES ASSUME IInv, [Next]_vars PROVE IInv'
    OBVIOUS
  <1>1. CASE Request
    BY <1>1, CreateKeepsIInv, RetryCourseKeepsIInv, StaffRecoverKeepsIInv, PrepareKeepsIInv
       DEF Request
  <1>2. ASSUME NEW w \in Workers, Worker(w)
        PROVE  IInv'
    <2>1. CASE Fill(w)
      BY <2>1, FillKeepsIInv
    <2>2. CASE ClaimGate(w)
      BY <2>2, ClaimGateKeepsIInv
    <2>3. CASE ClaimPick(w)
      BY <2>3, ClaimPickKeepsIInv
    <2>4. CASE Read(w)
      BY <2>4, ReadKeepsIInv
    <2>5. CASE Works(w)
      BY <2>5, ProviderFailsKeepsIInv, PlanKeepsIInv, AuthorKeepsIInv, NarrateKeepsIInv,
         RenderKeepsIInv, ReviewKeepsIInv, PublishKeepsIInv, SaveCourseKeepsIInv DEF Works
    <2>6. CASE Put(w)
      BY <2>6, PutNarrationKeepsIInv, PutMediaKeepsIInv, PutPublishedKeepsIInv DEF Put
    <2>7. CASE Fail(w)
      BY <2>7, FailKeepsIInv
    <2>8. CASE FailLost(w) \/ Crash(w)
      BY <2>8, LeavesKeepsIInv DEF FailLost, Crash, Leaves
    <2>9. CASE Renew(w)
      BY <2>9, RenewKeepsIInv
    <2>. QED
      BY <1>2, <2>1, <2>2, <2>3, <2>4, <2>5, <2>6, <2>7, <2>8, <2>9 DEF Worker
  <1>. QED
    BY <1>1, <1>2, DayPassesKeepsIInv, TickKeepsIInv, StutterKeepsIInv DEF Next

(* What rows, tokens and workers hold agree for ever: checks are of the      *)
(* script and the media they are saved with, a ready lesson has passed them  *)
(* or is older than they are, and a worker whose token stands holds what its *)
(* row holds (app/learning_video_worker.py and learning_video.py).           *)
THEOREM PartsInvariant == Spec => []IInv
  <1>. QED
    BY InitIInv, NextKeepsIInv, PTL DEF Spec
-----------------------------------------------------------------------------
(* Passed media is kept: whoever writes a row or changes its state holds its *)
(* token, so the row is running and not ready, and a recovery takes only     *)
(* parts that failed or were published without their checks.                 *)
LEMMA PassedStep ==
    ASSUME IInv, [Next]_vars, NEW l \in Lessons, state[l] = "ready", Checked(l)
    PROVE  state'[l] = "ready" /\ UNCHANGED <<script[l], video[l], checks[l]>>
  <1>1. l \in Items /\ l \notin Courses /\ TypeOK /\ RowsOK
    BY VideoOK DEF Items, IInv
  <1>2. CASE UNCHANGED <<state, script, video, checks>>
    BY <1>2
  <1>3. CASE Request
    <2>1. ASSUME NEW c \in Courses, Create(c)
          PROVE  state'[l] = "ready" /\ UNCHANGED contentVars
      BY <1>1, <2>1 DEF Create, Added
    <2>2. ASSUME NEW c \in Courses, RetryCourse(c)
          PROVE  state'[l] = "ready" /\ UNCHANGED contentVars
      BY <1>1, <2>2 DEF RetryCourse, Requeued, TypeOK
    <2>3. ASSUME NEW c \in Courses, StaffRecover(c)
          PROVE  state'[l] = "ready" /\ UNCHANGED contentVars
      <3> DEFINE parts == FirstParts({k \in PartsOf(c) : Repairable(k)},
                                     Least(RequestParts, RepairsAllowed))
                 rows == parts \cup {d \in {c} : state[d] = "failed"}
      <3>1. /\ state' = [i \in Items |-> IF i \in rows THEN "queued" ELSE state[i]]
            /\ UNCHANGED contentVars
        BY <2>3 DEF StaffRecover
      <3>2. l \notin rows
        BY <1>1, <2>3 DEF FirstParts, Repairable
      <3>. HIDE DEF rows
      <3>. QED
        BY <1>1, <3>1, <3>2
    <2>4. ASSUME NEW k \in Lessons, Prepare(k)
          PROVE  state'[l] = "ready" /\ UNCHANGED contentVars
      BY <1>1, <2>4 DEF Prepare, Added, Requeued, TypeOK
    <2>. QED
      BY <1>3, <2>1, <2>2, <2>3, <2>4 DEF Request, contentVars
  <1>4. ASSUME NEW w \in Workers, phase[w] \notin {"idle", "pick"}, HoldsToken(w)
        PROVE  item[w] # l
    BY <1>1, <1>4, Holder
  <1>5. ASSUME NEW w \in Workers, Worker(w)
        PROVE  state'[l] = "ready" /\ UNCHANGED <<script[l], video[l], checks[l]>>
    <2>1. CASE Fill(w)
      BY <1>1, <2>1 DEF Fill, Added, Missing, contentVars
    <2>2. CASE ClaimGate(w)
      BY <1>1, <2>2 DEF ClaimGate, GivenUp, contentVars
    <2>3. CASE ClaimPick(w)
      BY <1>1, <2>3 DEF ClaimPick, Choice, FirstOf, Due, contentVars, TypeOK
    <2>4. CASE Read(w) \/ ProviderFails(w) \/ Plan(w) \/ Narrate(w) \/ Render(w) \/ Review(w)
               \/ Publish(w) \/ FailLost(w) \/ Renew(w) \/ Crash(w)
      BY <1>2, <2>4 DEF Read, ProviderFails, Plan, Narrate, Render, Review, Publish, FailLost,
                        Renew, Crash, Leaves, Weigh, queueVars, contentVars
    <2>5. CASE Author(w)
      BY <1>1, <1>2, <1>4, <2>5 DEF Author, Leaves, TypeOK, queueVars, contentVars
    <2>6. CASE Put(w)
      <3>1. phase[w] = "put" /\ item[w] # l
        BY <1>4, <2>6, AboutToStore DEF Put, PutNarration, PutMedia, PutPublished
      <3>. QED
        BY <1>1, <2>6, <3>1 DEF Put, PutNarration, PutMedia, PutPublished, TypeOK, queueVars
    <2>7. CASE SaveCourse(w)
      <3>1. CASE Leaves(w)
        BY <1>2, <3>1 DEF Leaves, queueVars, contentVars
      <3>2. CASE ~Leaves(w)
        BY <1>1, <1>4, <2>7, <3>2 DEF SaveCourse, HoldsLease, Missing, contentVars
      <3>. QED
        BY <3>1, <3>2
    <2>8. CASE Fail(w)
      BY <1>1, <1>4, <2>8 DEF Fail, TypeOK, contentVars
    <2>. QED
      BY <1>5, <2>1, <2>2, <2>3, <2>4, <2>5, <2>6, <2>7, <2>8 DEF Worker, Works
  <1>. QED
    BY <1>2, <1>3, <1>5 DEF Next, DayPasses, Tick, vars, queueVars, contentVars

(* A lesson that is ready and checked keeps its state, script and media      *)
(* (the filter of recover() in app/processing_recovery.py and the tokens).   *)
THEOREM PassedLessonsStay == Spec => PassedStays
  <1>1. IInv /\ [Next]_vars =>
            [\A l \in Lessons : state[l] = "ready" /\ Checked(l)
                => state'[l] = "ready" /\ script'[l] = script[l] /\ video'[l] = video[l]
                   /\ checks'[l] = checks[l]]_vars
    BY PassedStep
  <1>. QED
    BY <1>1, PartsInvariant, PTL DEF Spec, PassedStays
-----------------------------------------------------------------------------
(* What is stored, with any number of workers.  A worker adds up and writes  *)
(* in two steps, so each other one may store once between them.              *)

Filmed == {l \in Lessons : video[l] # NoScript}
Spoken == {p \in Lessons \X Scripts : p[2] \in narration[p[1]]}
Storing == {w \in Workers : phase[w] = "put"}

\* What a worker is about to add, and the most that one adds.
Adds(w) == IF goal[w] = "narration" THEN NarrationSize ELSE Growth(item[w])
Largest == IF VideoSize < NarrationSize THEN NarrationSize ELSE VideoSize
Cap == Budget + Largest * (Cardinality(Workers) - 1)

(* Among those who are about to store one added up last; the others store    *)
(* beside it.                                                                *)
CapInv ==
    IF Storing = {} THEN Stored <= Cap
    ELSE \E w \in Storing : Stored + Adds(w) + Largest * (Cardinality(Storing) - 1) <= Cap

LEMMA StoredFinite ==
    /\ \A V \in SUBSET Lessons : IsFiniteSet(V) /\ Cardinality(V) \in Nat
    /\ \A P \in SUBSET (Lessons \X Scripts) : IsFiniteSet(P) /\ Cardinality(P) \in Nat
    /\ \A S \in SUBSET Workers : /\ IsFiniteSet(S) /\ Cardinality(S) \in Nat
                                 /\ Cardinality(S) <= Cardinality(Workers)
  <1>1. IsFiniteSet(Lessons \X Scripts)
    BY VideoOK, FS_Product
  <1>. QED
    BY <1>1, VideoOK, StorageOK, FS_Subset, FS_CardinalityType

LEMMA Sizes ==
    /\ VideoSize \in Nat /\ NarrationSize \in Nat /\ Budget \in Nat /\ Largest \in Nat
    /\ VideoSize <= Largest /\ NarrationSize <= Largest
    /\ Cardinality(Workers) \in Nat \ {0} /\ Cap \in Nat
  <1>1. /\ VideoSize \in Nat /\ NarrationSize \in Nat /\ Budget \in Nat /\ Largest \in Nat
        /\ VideoSize <= Largest /\ NarrationSize <= Largest
    BY VideoOK DEF Largest
  <1>2. Cardinality(Workers) \in Nat \ {0}
    BY StorageOK, FS_EmptySet, FS_CardinalityType
  <1>3. \A a, b \in Nat : a * b \in Nat
    OBVIOUS
  <1>4. Largest * (Cardinality(Workers) - 1) \in Nat
    BY <1>1, <1>2, <1>3
  <1>. QED
    BY <1>1, <1>2, <1>4 DEF Cap

LEMMA StoredType ==
    /\ Stored = VideoSize * Cardinality(Filmed) + NarrationSize * Cardinality(Spoken)
    /\ Stored \in Nat
    /\ Cardinality(Filmed) \in Nat /\ Cardinality(Spoken) \in Nat
    /\ Cardinality(Storing) \in Nat /\ Cardinality(Storing) <= Cardinality(Workers)
    /\ \A w \in Workers : Adds(w) \in Nat /\ Adds(w) <= Largest
  <1>1. /\ Cardinality(Filmed) \in Nat /\ Cardinality(Spoken) \in Nat
        /\ Cardinality(Storing) \in Nat /\ Cardinality(Storing) <= Cardinality(Workers)
    BY StoredFinite DEF Filmed, Spoken, Storing
  <1>2. Stored = VideoSize * Cardinality(Filmed) + NarrationSize * Cardinality(Spoken)
    BY DEF Stored, Filmed, Spoken
  <1>3. \A a, b \in Nat : a * b \in Nat
    OBVIOUS
  <1>4. VideoSize * Cardinality(Filmed) \in Nat /\ NarrationSize * Cardinality(Spoken) \in Nat
    BY <1>1, <1>3, Sizes
  <1>5. \A w \in Workers : Adds(w) \in Nat /\ Adds(w) <= Largest
    BY Sizes DEF Adds, Growth
  <1>. QED
    BY <1>1, <1>2, <1>4, <1>5

(* Fewer media, or fewer narrations, take less.                              *)
LEMMA StoredGrows ==
    ASSUME NEW more \in {0, 1}, NEW most \in {0, 1},
           Cardinality(Filmed)' <= Cardinality(Filmed) + more,
           Cardinality(Spoken)' <= Cardinality(Spoken) + most
    PROVE  /\ Stored' \in Nat
           /\ Stored' <= Stored + VideoSize * more + NarrationSize * most
  <1> DEFINE a == Cardinality(Filmed)
             b == Cardinality(Spoken)
             c == Cardinality(Filmed)'
             d == Cardinality(Spoken)'
  <1>1. a \in Nat /\ b \in Nat /\ Stored = VideoSize * a + NarrationSize * b
    BY StoredType
  <1>2. c \in Nat /\ d \in Nat /\ Stored' = VideoSize * c + NarrationSize * d /\ Stored' \in Nat
    <2>1. (Filmed \in SUBSET Lessons)' /\ (Spoken \in SUBSET (Lessons \X Scripts))'
      BY DEF Filmed, Spoken
    <2>2. c \in Nat /\ d \in Nat
      BY <2>1, StoredFinite
    <2>3. Stored' = VideoSize * c + NarrationSize * d
      BY DEF Stored, Filmed, Spoken
    <2>4. \A x, y \in Nat : x * y \in Nat
      OBVIOUS
    <2>5. VideoSize * c \in Nat /\ NarrationSize * d \in Nat
      BY <2>2, <2>4, Sizes
    <2>. QED
      BY <2>2, <2>3, <2>5
  <1>3. c <= a + more /\ d <= b + most
    OBVIOUS
  <1> HIDE DEF a, b, c, d
  <1>4. \A k \in Nat, x, y \in Nat : x <= y => k * x <= k * y /\ k * x \in Nat /\ k * y \in Nat
    <2> SUFFICES ASSUME NEW k \in Nat, NEW x \in Nat, NEW y \in Nat, x <= y
                 PROVE  k * x <= k * y /\ k * x \in Nat /\ k * y \in Nat
      OBVIOUS
    <2>1. k * y = k * x + k * (y - x) /\ y - x \in Nat
      OBVIOUS
    <2>2. \A i, j \in Nat : i * j \in Nat
      OBVIOUS
    <2>. QED
      BY <2>1, <2>2
  <1>5. a + more \in Nat /\ b + most \in Nat
    BY <1>1
  <1>6. VideoSize * c <= VideoSize * (a + more) /\ NarrationSize * d <= NarrationSize * (b + most)
    BY <1>2, <1>3, <1>4, <1>5, Sizes
  <1>7. /\ VideoSize * (a + more) = VideoSize * a + VideoSize * more
        /\ NarrationSize * (b + most) = NarrationSize * b + NarrationSize * most
    <2>1. \A k, x, y \in Nat : k * (x + y) = k * x + k * y
      OBVIOUS
    <2>. QED
      BY <1>1, <2>1, Sizes
  <1>8. \A k, x \in Nat : k * x \in Nat
    OBVIOUS
  <1>9. /\ VideoSize * a \in Nat /\ NarrationSize * b \in Nat /\ VideoSize * c \in Nat
        /\ NarrationSize * d \in Nat /\ VideoSize * more \in Nat /\ NarrationSize * most \in Nat
    BY <1>1, <1>2, <1>8, Sizes
  <1>. QED
    BY <1>1, <1>2, <1>6, <1>7, <1>9

LEMMA TimesLargest ==
    ASSUME NEW m \in Nat, NEW n \in Nat, m <= n
    PROVE  /\ Largest * m \in Nat /\ Largest * n \in Nat /\ Largest * m <= Largest * n
           /\ Largest * (m + 1) = Largest * m + Largest
  <1>1. \A k, x \in Nat : k * x \in Nat /\ k * (x + 1) = k * x + k
    OBVIOUS
  <1>2. \A k, x, y \in Nat : k * (x + y) = k * x + k * y
    OBVIOUS
  <1>3. n = m + (n - m) /\ n - m \in Nat
    OBVIOUS
  <1>4. Largest * n = Largest * m + Largest * (n - m)
    BY <1>2, <1>3, Sizes
  <1>. QED
    BY <1>1, <1>3, <1>4, Sizes

LEMMA StoringLess ==
    ASSUME NEW S, S = Storing', S \subseteq Storing
    PROVE  /\ Cardinality(S) \in Nat /\ Cardinality(S) <= Cardinality(Storing)
           /\ S # {} => Cardinality(S) >= 1
           /\ \A w \in Storing : w \notin S => Cardinality(S) + 1 <= Cardinality(Storing)
  <1>1. IsFiniteSet(Storing) /\ IsFiniteSet(S) /\ Cardinality(S) \in Nat /\ Cardinality(Storing) \in Nat
    BY StoredFinite DEF Storing
  <1>2. Cardinality(S) <= Cardinality(Storing)
    BY <1>1, FS_Subset
  <1>3. S # {} => Cardinality(S) >= 1
    BY <1>1, FS_EmptySet
  <1>4. ASSUME NEW w \in Storing, w \notin S
        PROVE  Cardinality(S) + 1 <= Cardinality(Storing)
    <2>1. Cardinality(S \cup {w}) = Cardinality(S) + 1
      BY <1>1, <1>4, FS_AddElement
    <2>2. S \cup {w} \in SUBSET Storing
      BY <1>4
    <2>. QED
      BY <1>1, <2>1, <2>2, FS_Subset
  <1>. QED
    BY <1>1, <1>2, <1>3, <1>4

(* No step but a sum that found room and its write brings anything nearer.   *)
LEMMA QuietKeepsCap ==
    ASSUME CapInv, Stored' \in Nat, Stored' <= Stored, NEW S, S = Storing', S \subseteq Storing,
           \A v \in S : Adds(v)' \in Nat /\ Adds(v)' <= Adds(v)
    PROVE  CapInv'
  <1> DEFINE n == Cardinality(Storing)
             m == Cardinality(S)
  <1>1. Stored \in Nat /\ n \in Nat /\ Cap \in Nat /\ Largest \in Nat /\ Cap' = Cap
    BY StoredType, Sizes DEF Cap, Largest
  <1>2. /\ m \in Nat /\ m <= n /\ (S # {} => m >= 1)
        /\ \A w \in Storing : w \notin S => m + 1 <= n
    BY StoringLess
  <1>3. CASE Storing = {}
    <2>1. S = {} /\ Stored <= Cap
      BY <1>3 DEF CapInv
    <2>. QED
      BY <1>1, <2>1 DEF CapInv
  <1>4. CASE Storing # {}
    <2>1. PICK w \in Storing : Stored + Adds(w) + Largest * (n - 1) <= Cap
      BY <1>4 DEF CapInv
    <2>2. Adds(w) \in Nat /\ n >= 1
      <3>1. IsFiniteSet(Storing)
        BY StoredFinite DEF Storing
      <3>2. n # 0
        BY <1>4, <3>1, FS_EmptySet
      <3>. QED
        BY <1>1, <3>2, StoredType DEF Storing
    <2> HIDE DEF n, m
    <2>3. CASE S = {}
      <3>1. Largest * (n - 1) \in Nat
        BY <1>1, <2>2, TimesLargest
      <3>2. Stored' <= Cap
        BY <1>1, <2>1, <2>2, <3>1
      <3>. QED
        BY <1>1, <2>3, <3>2 DEF CapInv
    <2>4. CASE w \in S
      <3>1. m - 1 \in Nat /\ n - 1 \in Nat /\ m - 1 <= n - 1
        BY <1>1, <1>2, <2>2, <2>4
      <3>2. Largest * (m - 1) <= Largest * (n - 1) /\ Largest * (m - 1) \in Nat /\ Largest * (n - 1) \in Nat
        BY <3>1, TimesLargest
      <3>3. Adds(w)' \in Nat /\ Adds(w)' <= Adds(w)
        BY <2>4
      <3>4. Stored' + Adds(w)' + Largest * (m - 1) <= Cap
        BY <1>1, <2>1, <2>2, <3>2, <3>3
      <3>5. (Storing # {} /\ \E v \in Storing : Stored + Adds(v) + Largest * (Cardinality(Storing) - 1) <= Cap)'
        BY <1>1, <2>4, <3>4 DEF m, Largest
      <3>. QED
        BY <3>5 DEF CapInv
    <2>5. CASE S # {} /\ w \notin S
      <3>1. PICK v \in S : TRUE
        BY <2>5
      <3>2. m + 1 <= n /\ m >= 1
        BY <1>2, <2>5
      <3>3. m - 1 \in Nat /\ m - 1 + 1 <= n - 1 /\ n - 1 \in Nat /\ m \in Nat /\ m <= n - 1 /\ m = (m - 1) + 1
        BY <1>1, <1>2, <3>2
      <3>4. Largest * m <= Largest * (n - 1) /\ Largest * m \in Nat /\ Largest * (n - 1) \in Nat
        BY <3>3, TimesLargest
      <3>5. Largest * ((m - 1) + 1) = Largest * (m - 1) + Largest /\ Largest * (m - 1) \in Nat
        BY <3>3, TimesLargest
      <3>6. Largest * m = Largest * (m - 1) + Largest
        BY <3>3, <3>5
      <3>7. Adds(v)' \in Nat /\ Adds(v)' <= Largest
        <4>1. Adds(v) \in Nat /\ Adds(v) <= Largest
          BY StoredType DEF Storing
        <4>2. Adds(v)' \in Nat /\ Adds(v)' <= Adds(v)
          OBVIOUS
        <4>. QED
          BY <1>1, <4>1, <4>2
      <3>8. Stored' + Adds(v)' + Largest * (m - 1) <= Cap
        BY <1>1, <2>1, <2>2, <3>4, <3>5, <3>6, <3>7
      <3>9. (Storing # {} /\ \E u \in Storing : Stored + Adds(u) + Largest * (Cardinality(Storing) - 1) <= Cap)'
        BY <1>1, <3>8 DEF m, Largest
      <3>. QED
        BY <3>9 DEF CapInv
    <2>. QED
      BY <2>3, <2>4, <2>5
  <1>. QED
    BY <1>3, <1>4

(* The write of a worker that found room.                                    *)
LEMMA PutKeepsCap ==
    ASSUME CapInv, NEW w \in Storing, Stored' \in Nat, Stored' <= Stored + Adds(w),
           NEW S, S = Storing', S = Storing \ {w},
           \A v \in S : Adds(v)' \in Nat /\ Adds(v)' <= Adds(v)
    PROVE  CapInv'
  <1> DEFINE n == Cardinality(Storing)
             m == Cardinality(S)
  <1>1. Stored \in Nat /\ n \in Nat /\ Cap \in Nat /\ Largest \in Nat /\ Cap' = Cap
    BY StoredType, Sizes DEF Cap, Largest
  <1>2. IsFiniteSet(Storing)
    BY StoredFinite DEF Storing
  <1>3. m = n - 1 /\ m \in Nat /\ n >= 1
    <2>1. n # 0
      BY <1>2, FS_EmptySet
    <2>. QED
      BY <1>1, <1>2, <2>1, FS_RemoveElement
  <1>4. \A v \in Storing : Adds(v) \in Nat /\ Adds(v) <= Largest
    BY StoredType DEF Storing
  <1>5. PICK u \in Storing : Stored + Adds(u) + Largest * (n - 1) <= Cap
    BY DEF CapInv
  <1>6. S # {} => m >= 1
    BY <1>1, <1>2, <1>3, StoringLess
  <1> HIDE DEF n, m
  <1>7. Largest * m \in Nat /\ Largest * (n - 1) = Largest * m
    BY <1>3, TimesLargest
  <1>8. CASE S = {}
    <2>1. u = w
      BY <1>8
    <2>2. Stored' <= Cap
      BY <1>1, <1>4, <1>5, <1>7, <2>1
    <2>. QED
      BY <1>1, <1>8, <2>2 DEF CapInv
  <1>9. CASE S # {}
    <2>1. m - 1 \in Nat /\ m = (m - 1) + 1 /\ m - 1 <= m - 1
      BY <1>3, <1>6, <1>9
    <2>2. Largest * ((m - 1) + 1) = Largest * (m - 1) + Largest /\ Largest * (m - 1) \in Nat
      BY <2>1, TimesLargest
    <2>3. Largest * m = Largest * (m - 1) + Largest
      BY <2>1, <2>2
    <2>4. PICK v \in S : u # w => v = u
      BY <1>9
    <2>5. Adds(v)' \in Nat /\ Adds(v)' <= Adds(v)
      BY <2>4
    <2>6. Adds(v) \in Nat /\ Adds(v) <= Largest /\ Adds(w) \in Nat /\ Adds(w) <= Largest
      BY <1>4
    <2>7. Stored' + Adds(v)' + Largest * (m - 1) <= Cap
      <3>1. CASE u = w
        BY <1>1, <1>5, <1>7, <2>2, <2>3, <2>5, <2>6, <3>1
      <3>2. CASE u # w
        <4>1. v = u
          BY <2>4, <3>2
        <4>. QED
          BY <1>1, <1>5, <1>7, <2>2, <2>3, <2>5, <2>6, <4>1
      <3>. QED
        BY <3>1, <3>2
    <2>8. (Storing # {} /\ \E t \in Storing : Stored + Adds(t) + Largest * (Cardinality(Storing) - 1) <= Cap)'
      BY <1>1, <1>9, <2>7 DEF m, Largest
    <2>. QED
      BY <2>8 DEF CapInv
  <1>. QED
    BY <1>8, <1>9

(* A sum that left room.                                                     *)
LEMMA SumKeepsCap ==
    ASSUME NEW w \in Workers, Stored' = Stored, NEW S, S = Storing', S = Storing \cup {w},
           Adds(w)' \in Nat, Stored + Adds(w)' <= Budget
    PROVE  CapInv'
  <1> DEFINE m == Cardinality(S)
             k == Cardinality(Workers)
  <1>1. Stored \in Nat /\ Budget \in Nat /\ Largest \in Nat /\ k \in Nat \ {0} /\ Cap' = Cap
        /\ Cap = Budget + Largest * (k - 1)
    BY StoredType, Sizes DEF Cap, Largest
  <1>2. S \in SUBSET Workers /\ S # {}
    BY DEF Storing
  <1>3. m \in Nat /\ m <= k /\ m # 0
    BY <1>2, StoredFinite, FS_EmptySet
  <1> HIDE DEF m, k
  <1>4. m - 1 \in Nat /\ k - 1 \in Nat /\ m - 1 <= k - 1
    BY <1>1, <1>3
  <1>5. Largest * (m - 1) \in Nat /\ Largest * (k - 1) \in Nat /\ Largest * (m - 1) <= Largest * (k - 1)
    BY <1>4, TimesLargest
  <1>6. Stored' + Adds(w)' + Largest * (m - 1) <= Cap
    BY <1>1, <1>5
  <1>7. (Storing # {} /\ \E t \in Storing : Stored + Adds(t) + Largest * (Cardinality(Storing) - 1) <= Cap)'
    BY <1>1, <1>2, <1>6 DEF m, Largest
  <1>. QED
    BY <1>7 DEF CapInv

(* A step that stores nothing and brings nobody to store.                    *)
LEMMA StoresNothing ==
    ASSUME CapInv, UNCHANGED <<video, narration>>,
           \A v \in Workers : phase'[v] = "put" =>
               phase[v] = "put" /\ item'[v] = item[v] /\ goal'[v] = goal[v]
    PROVE  CapInv'
  <1> DEFINE S == Storing'
  <1>1. Stored' = Stored /\ Stored \in Nat
    BY StoredType DEF Stored
  <1>2. S \subseteq Storing
    BY DEF Storing
  <1>3. \A v \in S : Adds(v)' = Adds(v) /\ Adds(v) \in Nat /\ Adds(v) <= Adds(v)
    <2> SUFFICES ASSUME NEW v \in S
                 PROVE  Adds(v)' = Adds(v) /\ Adds(v) \in Nat /\ Adds(v) <= Adds(v)
      OBVIOUS
    <2>1. v \in Workers /\ item'[v] = item[v] /\ goal'[v] = goal[v]
      BY DEF Storing
    <2>2. Adds(v)' = Adds(v)
      BY <2>1 DEF Adds, Growth
    <2>. QED
      BY <2>1, <2>2, StoredType
  <1>4. \A v \in S : Adds(v)' \in Nat /\ Adds(v)' <= Adds(v)
    BY <1>3
  <1>5. Stored' \in Nat /\ Stored' <= Stored
    BY <1>1
  <1>6. S = Storing'
    OBVIOUS
  <1> HIDE DEF S
  <1>. QED
    BY <1>2, <1>4, <1>5, <1>6, QuietKeepsCap

LEMMA FreedStoresNothing ==
    ASSUME IInv, CapInv, NEW w \in Workers, WorkerFreed(w), UNCHANGED <<video, narration>>
    PROVE  CapInv'
  <1>1. \A v \in Workers : phase'[v] = "put" =>
            phase[v] = "put" /\ item'[v] = item[v] /\ goal'[v] = goal[v]
    BY DEF WorkerFreed, IInv, TypeOK
  <1>. QED
    BY <1>1, StoresNothing

LEMMA GoingStoresNothing ==
    ASSUME IInv, CapInv, NEW w \in Workers, UNCHANGED <<item, goal, video, narration>>,
           NEW to, to # "put", phase' = [phase EXCEPT ![w] = to]
    PROVE  CapInv'
  <1>1. \A v \in Workers : phase'[v] = "put" =>
            phase[v] = "put" /\ item'[v] = item[v] /\ goal'[v] = goal[v]
    BY DEF IInv, TypeOK
  <1>. QED
    BY <1>1, StoresNothing

(* The sum of a worker, and what comes of it.                                *)
LEMMA WeighKeepsCap ==
    ASSUME IInv, CapInv, NEW w \in Workers, phase[w] # "put", NEW more \in Nat,
           NEW what \in {"narration", "media", "publish"}, Weigh(w, more, what),
           more = IF what = "narration" THEN NarrationSize ELSE Growth(item[w])
    PROVE  CapInv'
  <1>1. UNCHANGED <<video, narration>>
    BY DEF Weigh, contentVars
  <1>2. CASE Stored + more <= Budget
    <2>1. /\ phase' = [phase EXCEPT ![w] = "put"] /\ goal' = [goal EXCEPT ![w] = what]
          /\ item' = item
      BY <1>2 DEF Weigh
    <2> DEFINE S == Storing'
    <2>2. S = Storing \cup {w}
      BY <2>1 DEF Storing, IInv, TypeOK
    <2>3. Adds(w)' = more
      <3>1. goal'[w] = what /\ item'[w] = item[w]
        BY <2>1 DEF IInv, TypeOK
      <3>. QED
        BY <1>1, <3>1 DEF Adds, Growth
    <2>4. Stored' = Stored
      BY <1>1 DEF Stored
    <2>5. S = Storing'
      OBVIOUS
    <2>6. Adds(w)' \in Nat /\ Stored + Adds(w)' <= Budget
      BY <1>2, <2>3
    <2> HIDE DEF S
    <2>. QED
      BY <2>2, <2>4, <2>5, <2>6, SumKeepsCap
  <1>3. CASE ~(Stored + more <= Budget)
    BY <1>1, <1>3, GoingStoresNothing DEF Weigh, Fails
  <1>. QED
    BY <1>2, <1>3

LEMMA SumsKeepCap ==
    ASSUME IInv, CapInv, NEW w \in Workers, Narrate(w) \/ Render(w) \/ Publish(w)
    PROVE  CapInv'
  <1>1. CASE Narrate(w)
    <2>1. phase[w] # "put" /\ NarrationSize \in Nat
      BY <1>1, Sizes DEF Narrate
    <2>2. CASE Weigh(w, NarrationSize, "narration")
      BY <2>1, <2>2, WeighKeepsCap
    <2>3. CASE Fails(w, "other") /\ UNCHANGED contentVars
      BY <2>3, GoingStoresNothing DEF Fails, contentVars
    <2>. QED
      BY <1>1, <2>2, <2>3 DEF Narrate
  <1>2. ASSUME Render(w) \/ Publish(w)
        PROVE  CapInv'
    <2>1. phase[w] # "put" /\ Growth(item[w]) \in Nat
      BY <1>2, Sizes DEF Render, Publish, Growth
    <2>2. ASSUME NEW what \in {"media", "publish"}, Weigh(w, Growth(item[w]), what)
          PROVE  CapInv'
      <3> DEFINE more == Growth(item[w])
      <3>1. more \in Nat /\ more = IF what = "narration" THEN NarrationSize ELSE Growth(item[w])
        BY <2>1
      <3>2. Weigh(w, more, what) /\ what \in {"narration", "media", "publish"}
        BY <2>2
      <3> HIDE DEF more
      <3>. QED
        BY <2>1, <3>1, <3>2, WeighKeepsCap
    <2>3. CASE Leaves(w)
      BY <2>3, FreedStoresNothing DEF Leaves, contentVars
    <2>. QED
      BY <1>2, <2>2, <2>3 DEF Render, Publish
  <1>. QED
    BY <1>1, <1>2

(* Those who are about to store hold other lessons.                          *)
LEMMA OthersHoldOthers ==
    ASSUME IInv, NEW w \in Workers, NEW v \in Workers, v # w,
           phase[w] \notin {"idle", "pick"}, HoldsToken(w), phase[v] = "put"
    PROVE  item[v] # item[w]
  <1>1. HoldsToken(v)
    BY DEF IInv, RowsOK
  <1>. QED
    BY <1>1 DEF HoldsToken

LEMMA AddedOne ==
    ASSUME NEW S, IsFiniteSet(S), NEW e
    PROVE  IsFiniteSet(S \cup {e}) /\ Cardinality(S \cup {e}) <= Cardinality(S) + 1
  <1>1. IsFiniteSet(S \cup {e}) /\ Cardinality(S) \in Nat
    BY FS_AddElement, FS_CardinalityType
  <1>2. CASE e \in S
    <2> DEFINE a == Cardinality(S)
               b == Cardinality(S \cup {e})
    <2>1. S \cup {e} = S
      BY <1>2
    <2>2. b = a /\ a \in Nat
      BY <1>1, <2>1
    <2> HIDE DEF a, b
    <2>3. b <= a + 1
      BY <2>2
    <2>. QED
      BY <1>1, <2>3 DEF a, b
  <1>3. CASE e \notin S
    <2>1. Cardinality(S \cup {e}) = Cardinality(S) + 1
      BY <1>3, FS_AddElement
    <2>. QED
      BY <1>1, <2>1
  <1>. QED
    BY <1>2, <1>3

LEMMA PutsKeepCap ==
    ASSUME IInv, CapInv, NEW w \in Workers, Put(w)
    PROVE  CapInv'
  <1> DEFINE l == item[w]
             S == Storing'
  <1>1. phase[w] = "put" /\ HoldsToken(w) /\ l \in Lessons /\ w \in Storing
    BY DEF Put, PutNarration, PutMedia, PutPublished, IInv, RowsOK, IsLesson, Storing
  <1>2. /\ \A v \in Workers : v # w => /\ phase'[v] = phase[v]
                                       /\ item'[v] = item[v] /\ goal'[v] = goal[v]
        /\ phase'[w] # "put"
    BY DEF Put, PutNarration, PutMedia, PutPublished, WorkerFreed, IInv, TypeOK
  <1>3. S = Storing \ {w}
    BY <1>2 DEF Storing
  <1>4. /\ \A k \in Lessons : k # l => video'[k] = video[k] /\ narration'[k] = narration[k]
        /\ goal[w] = "narration" => video' = video
        /\ goal[w] # "narration" => narration'[l] \subseteq narration[l]
        /\ goal[w] = "narration" => narration'[l] = narration[l] \cup {held[w].script}
    BY <1>1 DEF Put, PutNarration, PutMedia, PutPublished, IInv, TypeOK
  <1>5. \A v \in S : Adds(v)' \in Nat /\ Adds(v)' <= Adds(v)
    <2> SUFFICES ASSUME NEW v \in S
                 PROVE  Adds(v)' \in Nat /\ Adds(v)' <= Adds(v)
      OBVIOUS
    <2>1. v \in Workers /\ v # w /\ phase[v] = "put"
      BY <1>3 DEF Storing
    <2>2. item[v] # l /\ item[v] \in Lessons
      BY <1>1, <2>1, OthersHoldOthers DEF IInv, RowsOK, IsLesson
    <2>3. item'[v] = item[v] /\ goal'[v] = goal[v] /\ video'[item[v]] = video[item[v]]
      BY <1>2, <1>4, <2>1, <2>2
    <2>4. Adds(v)' = Adds(v)
      BY <2>3 DEF Adds, Growth
    <2>5. Adds(v) \in Nat
      BY <2>1, StoredType
    <2>. QED
      BY <2>4, <2>5
  <1>6. Stored' \in Nat /\ Stored' <= Stored + Adds(w)
    <2>1. Stored \in Nat /\ VideoSize \in Nat /\ NarrationSize \in Nat
      BY StoredType, Sizes
    <2>2. IsFiniteSet(Filmed) /\ IsFiniteSet(Spoken) /\ Cardinality(Filmed) \in Nat /\ Cardinality(Spoken) \in Nat
      BY StoredFinite DEF Filmed, Spoken
    <2>3. CASE goal[w] = "narration"
      <3> DEFINE p == <<l, held[w].script>>
      <3>1. Filmed' = Filmed
        BY <1>4, <2>3 DEF Filmed
      <3>2. Spoken' \subseteq Spoken \cup {p}
        BY <1>4, <2>3 DEF Spoken
      <3>3. IsFiniteSet(Spoken \cup {p}) /\ Cardinality(Spoken \cup {p}) <= Cardinality(Spoken) + 1
        BY <2>2, AddedOne
      <3>4. Cardinality(Spoken') <= Cardinality(Spoken \cup {p}) /\ Cardinality(Spoken') \in Nat
        BY <3>2, <3>3, FS_Subset, FS_CardinalityType
      <3>5. Cardinality(Spoken \cup {p}) \in Nat
        BY <3>3, FS_CardinalityType
      <3>6. Cardinality(Spoken)' <= Cardinality(Spoken) + 1
        BY <2>2, <3>3, <3>4, <3>5
      <3>7. Cardinality(Filmed)' <= Cardinality(Filmed) + 0
        BY <2>2, <3>1
      <3>8. Stored' \in Nat /\ Stored' <= Stored + VideoSize * 0 + NarrationSize * 1
        BY <3>6, <3>7, StoredGrows
      <3>9. Adds(w) = NarrationSize
        BY <2>3 DEF Adds
      <3>. QED
        BY <2>1, <3>8, <3>9
    <2>4. CASE goal[w] # "narration"
      <3>1. Spoken' \subseteq Spoken
        BY <1>4, <2>4 DEF Spoken
      <3>2. Cardinality(Spoken)' <= Cardinality(Spoken) + 0
        BY <2>2, <3>1, FS_Subset, FS_CardinalityType
      <3>3. Adds(w) = Growth(l)
        BY <2>4 DEF Adds
      <3>4. CASE video[l] = NoScript
        <4>1. Filmed' \subseteq Filmed \cup {l}
          BY <1>4 DEF Filmed
        <4>2. IsFiniteSet(Filmed \cup {l}) /\ Cardinality(Filmed \cup {l}) <= Cardinality(Filmed) + 1
          BY <2>2, AddedOne
        <4>3. Cardinality(Filmed') <= Cardinality(Filmed \cup {l}) /\ Cardinality(Filmed') \in Nat
              /\ Cardinality(Filmed \cup {l}) \in Nat
          BY <4>1, <4>2, FS_Subset, FS_CardinalityType
        <4>4. Cardinality(Filmed)' <= Cardinality(Filmed) + 1
          BY <2>2, <4>2, <4>3
        <4>5. Stored' \in Nat /\ Stored' <= Stored + VideoSize * 1 + NarrationSize * 0
          BY <3>2, <4>4, StoredGrows
        <4>6. Adds(w) = VideoSize
          BY <3>3, <3>4 DEF Growth
        <4>. QED
          BY <2>1, <4>5, <4>6
      <3>5. CASE video[l] # NoScript
        <4>1. Filmed' \subseteq Filmed
          BY <1>1, <1>4, <3>5 DEF Filmed
        <4>2. Cardinality(Filmed)' <= Cardinality(Filmed) + 0
          BY <2>2, <4>1, FS_Subset, FS_CardinalityType
        <4>3. Stored' \in Nat /\ Stored' <= Stored + VideoSize * 0 + NarrationSize * 0
          BY <3>2, <4>2, StoredGrows
        <4>4. Adds(w) = 0
          BY <3>3, <3>5 DEF Growth
        <4>. QED
          BY <2>1, <4>3, <4>4
      <3>. QED
        BY <3>4, <3>5
    <2>. QED
      BY <2>3, <2>4
  <1>7. S = Storing'
    OBVIOUS
  <1> HIDE DEF S
  <1>. QED
    BY <1>1, <1>3, <1>5, <1>6, <1>7, PutKeepsCap

LEMMA FailKeepsCap ==
    ASSUME IInv, CapInv, NEW w \in Workers, Fail(w)
    PROVE  CapInv'
  <1>1. phase[w] = "fail" /\ HoldsToken(w) /\ WorkerFreed(w)
    BY DEF Fail
  <1>2. CASE UNCHANGED contentVars
    BY <1>1, <1>2, FreedStoresNothing DEF contentVars
  <1>3. CASE /\ IsLesson(w)
             /\ video' = [video EXCEPT ![item[w]] = NoScript]
             /\ narration' = [narration EXCEPT ![item[w]] = {}]
    <2> DEFINE l == item[w]
               S == Storing'
    <2>1. /\ \A k \in Lessons : k # l => video'[k] = video[k] /\ narration'[k] = narration[k]
          /\ video'[l] = NoScript /\ narration'[l] = {} /\ l \in Lessons
      BY <1>3 DEF IInv, TypeOK, IsLesson
    <2>2. \A v \in Workers : phase'[v] = "put" =>
              v # w /\ phase[v] = "put" /\ item'[v] = item[v] /\ goal'[v] = goal[v]
      BY <1>1 DEF WorkerFreed, IInv, TypeOK
    <2>3. S \subseteq Storing
      BY <2>2 DEF Storing
    <2>4. \A v \in S : Adds(v)' \in Nat /\ Adds(v)' <= Adds(v)
      <3> SUFFICES ASSUME NEW v \in S
                   PROVE  Adds(v)' \in Nat /\ Adds(v)' <= Adds(v)
        OBVIOUS
      <3>1. v \in Workers /\ v # w /\ phase[v] = "put" /\ item'[v] = item[v] /\ goal'[v] = goal[v]
        BY <2>2 DEF Storing
      <3>2. item[v] # l /\ item[v] \in Lessons
        BY <1>1, <3>1, OthersHoldOthers DEF IInv, RowsOK, IsLesson
      <3>3. Adds(v)' = Adds(v)
        BY <2>1, <3>1, <3>2 DEF Adds, Growth
      <3>4. Adds(v) \in Nat
        BY <3>1, StoredType
      <3>. QED
        BY <3>3, <3>4
    <2>5. IsFiniteSet(Filmed) /\ IsFiniteSet(Spoken) /\ Cardinality(Filmed) \in Nat /\ Cardinality(Spoken) \in Nat
      BY StoredFinite DEF Filmed, Spoken
    <2>6. Filmed' \subseteq Filmed /\ Spoken' \subseteq Spoken
      BY <2>1 DEF Filmed, Spoken
    <2>7. Cardinality(Filmed)' <= Cardinality(Filmed) + 0
      BY <2>5, <2>6, FS_Subset, FS_CardinalityType
    <2>8. Cardinality(Spoken)' <= Cardinality(Spoken) + 0
      BY <2>5, <2>6, FS_Subset, FS_CardinalityType
    <2>9. Stored' \in Nat /\ Stored' <= Stored + VideoSize * 0 + NarrationSize * 0
      BY <2>7, <2>8, StoredGrows
    <2>10. Stored' <= Stored
      BY <2>9, StoredType, Sizes
    <2>11. S = Storing'
      OBVIOUS
    <2> HIDE DEF S
    <2>. QED
      BY <2>3, <2>4, <2>9, <2>10, <2>11, QuietKeepsCap
  <1>. QED
    BY <1>2, <1>3 DEF Fail

(* At first there is only what was published before there were checks.       *)
LEMMA InitCapInv == Init => CapInv
  <1> SUFFICES ASSUME Init
               PROVE  CapInv
    OBVIOUS
  <1>1. Storing = {}
    BY DEF Init, Storing
  <1>2. Filmed = Legacy
    BY VideoOK DEF Init, Filmed
  <1>3. Spoken = {}
    BY DEF Init, Spoken
  <1>4. Cardinality(Spoken) = 0
    BY <1>3, FS_EmptySet
  <1>5. Stored = VideoSize * Cardinality(Legacy) + NarrationSize * 0
    BY <1>2, <1>4, StoredType
  <1>6. Stored <= Budget
    <2>1. NarrationSize * 0 = 0
      BY Sizes
    <2>2. VideoSize * Cardinality(Legacy) <= Budget
      BY StorageOK
    <2> DEFINE m == VideoSize * Cardinality(Legacy)
               z == NarrationSize * 0
    <2>3. Stored = m + z /\ z = 0 /\ m <= Budget /\ Stored \in Nat
      BY <1>5, <2>1, <2>2, StoredType
    <2>4. Stored = m
      <3>1. m \in Nat
        <4>1. Cardinality(Legacy) \in Nat
          BY VideoOK, StoredFinite
        <4>2. \A a, b \in Nat : a * b \in Nat
          OBVIOUS
        <4>. QED
          BY <4>1, <4>2, Sizes
      <3> HIDE DEF m, z
      <3>. QED
        BY <2>3, <3>1
    <2> HIDE DEF m, z
    <2>. QED
      BY <2>3, <2>4
  <1>7. Budget <= Cap
    <2> DEFINE m == Cardinality(Workers) - 1
               x == Largest * m
    <2>1. m \in Nat
      BY Sizes
    <2> HIDE DEF m
    <2>2. x \in Nat
      BY <2>1, TimesLargest
    <2>3. Cap = Budget + x
      BY DEF Cap, m
    <2> HIDE DEF x
    <2>. QED
      BY <2>2, <2>3, Sizes
  <1>. QED
    BY <1>1, <1>6, <1>7, StoredType, Sizes DEF CapInv

LEMMA NextKeepsCap ==
    ASSUME IInv, [Next]_vars, CapInv
    PROVE  CapInv'
  <1>1. CASE UNCHANGED <<phase, item, goal, video, narration>>
    BY <1>1, StoresNothing
  <1>2. CASE Request
    BY <1>1, <1>2
       DEF Request, Create, RetryCourse, Prepare, StaffRecover, contentVars, workerVars
  <1>3. CASE DayPasses \/ Tick
    BY <1>1, <1>3 DEF DayPasses, Tick, contentVars, workerVars
  <1>4. ASSUME NEW w \in Workers, Worker(w)
        PROVE  CapInv'
    <2>1. CASE Fill(w) \/ Renew(w)
      BY <1>1, <2>1 DEF Fill, Renew, contentVars, workerVars
    <2>2. CASE ClaimGate(w)
      <3>1. CASE Live(Items)
        BY <1>4, <2>2, <3>1, GoingStoresNothing DEF ClaimGate, contentVars
      <3>2. CASE ~Live(Items)
        BY <1>4, <2>2, <3>2, GoingStoresNothing DEF ClaimGate, contentVars
      <3>. QED
        BY <3>1, <3>2
    <2>3. CASE ClaimPick(w)
      <3>1. \A v \in Workers : phase'[v] = "put" =>
                phase[v] = "put" /\ item'[v] = item[v] /\ goal'[v] = goal[v]
        BY <2>3 DEF ClaimPick, IInv, TypeOK
      <3>2. UNCHANGED <<video, narration>>
        BY <2>3 DEF ClaimPick, contentVars
      <3>. QED
        BY <3>1, <3>2, StoresNothing
    <2>4. CASE Read(w)
      <3>1. UNCHANGED <<video, narration>>
        BY <2>4 DEF Read, contentVars
      <3>2. CASE WorkerFreed(w)
        BY <1>4, <3>1, <3>2, FreedStoresNothing
      <3>3. CASE Goes(w, "plan")
        BY <1>4, <3>1, <3>3, GoingStoresNothing DEF Goes
      <3>4. CASE Fails(w, "storage")
        BY <1>4, <3>1, <3>4, GoingStoresNothing DEF Fails
      <3>5. CASE Goes(w, NextStage(Row(item[w])))
        <4> DEFINE to == NextStage(Row(item[w]))
        <4>1. to # "put"
          BY DEF NextStage
        <4>2. phase' = [phase EXCEPT ![w] = to] /\ UNCHANGED <<item, goal>>
          BY <3>5 DEF Goes
        <4> HIDE DEF to
        <4>. QED
          BY <1>4, <3>1, <4>1, <4>2, GoingStoresNothing
      <3>. QED
        BY <2>4, <3>2, <3>3, <3>4, <3>5 DEF Read
    <2>5. CASE Works(w)
      <3>1. CASE ProviderFails(w)
        BY <1>4, <3>1, GoingStoresNothing DEF ProviderFails, Fails, contentVars
      <3>2. CASE Plan(w)
        BY <1>4, <3>2, GoingStoresNothing DEF Plan, Goes, contentVars
      <3>3. CASE Author(w)
        <4>1. CASE Leaves(w)
          BY <1>4, <4>1, FreedStoresNothing DEF Leaves, contentVars
        <4>2. CASE Goes(w, "render") /\ UNCHANGED <<video, narration>>
          BY <1>4, <4>2, GoingStoresNothing DEF Goes
        <4>. QED
          BY <3>3, <4>1, <4>2 DEF Author
      <3>4. CASE Review(w)
        BY <1>4, <3>4, GoingStoresNothing DEF Review, Goes, contentVars
      <3>5. CASE Narrate(w) \/ Render(w) \/ Publish(w)
        BY <1>4, <3>5, SumsKeepCap
      <3>6. CASE SaveCourse(w)
        <4>1. WorkerFreed(w) /\ UNCHANGED <<video, narration>>
          BY <3>6 DEF SaveCourse, Leaves, contentVars
        <4>. QED
          BY <1>4, <4>1, FreedStoresNothing
      <3>. QED
        BY <2>5, <3>1, <3>2, <3>3, <3>4, <3>5, <3>6 DEF Works
    <2>6. CASE Put(w)
      BY <1>4, <2>6, PutsKeepCap
    <2>7. CASE Fail(w)
      BY <1>4, <2>7, FailKeepsCap
    <2>8. CASE FailLost(w) \/ Crash(w)
      BY <1>4, <2>8, FreedStoresNothing DEF FailLost, Crash, Leaves, contentVars
    <2>. QED
      BY <1>4, <2>1, <2>2, <2>3, <2>4, <2>5, <2>6, <2>7, <2>8 DEF Worker
  <1>. QED
    BY <1>1, <1>2, <1>3, <1>4 DEF Next, vars, contentVars, workerVars

(* Whoever stores has added up what the others had stored by then.           *)
LEMMA CapBounds ==
    ASSUME CapInv
    PROVE  Stored <= Cap
  <1>1. CASE Storing = {}
    BY <1>1 DEF CapInv
  <1>2. CASE Storing # {}
    <2> DEFINE n == Cardinality(Storing)
               x == Largest * (n - 1)
    <2>1. PICK w \in Storing : Stored + Adds(w) + x <= Cap
      BY <1>2 DEF CapInv
    <2>2. IsFiniteSet(Storing) /\ n \in Nat /\ n # 0
      <3>1. IsFiniteSet(Storing)
        BY StoredFinite DEF Storing
      <3>. QED
        BY <1>2, <3>1, FS_EmptySet, FS_CardinalityType
    <2>3. n - 1 \in Nat
      BY <2>2
    <2>4. x \in Nat
      <3> DEFINE m == n - 1
      <3>1. m \in Nat
        BY <2>3
      <3> HIDE DEF m
      <3>2. Largest * m \in Nat
        BY <3>1, TimesLargest
      <3>. QED
        BY <3>2 DEF m
    <2>5. Adds(w) \in Nat
      BY StoredType DEF Storing
    <2> HIDE DEF x
    <2>. QED
      BY <2>1, <2>4, <2>5, StoredType, Sizes
  <1>. QED
    BY <1>1, <1>2

(* The media stored exceeds the budget by no more than one store for each    *)
(* worker beside the first, however the workers' sums and writes interleave. *)
THEOREM StorageBounded ==
    Spec => [](Stored <= Budget + Largest * (Cardinality(Workers) - 1))
  <1>1. CapInv => Stored <= Budget + Largest * (Cardinality(Workers) - 1)
    BY CapBounds DEF Cap
  <1>. QED
    BY <1>1, InitCapInv, NextKeepsCap, PartsInvariant, PTL DEF Spec

(* With one worker the media stored never exceeds the budget.                *)
THEOREM OneWorkerKeepsCap ==
    ASSUME Cardinality(Workers) = 1
    PROVE  Spec => []StorageCap
  <1>1. CapInv => StorageCap
    <2>1. Largest * (1 - 1) = 0
      BY Sizes
    <2>2. Cap = Budget + Largest * (1 - 1)
      BY DEF Cap
    <2>. QED
      BY <2>1, <2>2, CapBounds, Sizes DEF StorageCap
  <1>. QED
    BY <1>1, InitCapInv, NextKeepsCap, PartsInvariant, PTL DEF Spec
=============================================================================
