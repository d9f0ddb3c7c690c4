------------------------ MODULE AssessmentQueueProofs ------------------------
(* Theorems about AssessmentQueue, for every value of its constants.         *)
EXTENDS AssessmentQueue, FiniteSetTheorems, TLAPS

(* A retry delay is a number of ticks, whatever the error code.              *)
LEMMA RetryDelayIsNat ==
    ASSUME NEW c, NEW n
    PROVE  RetryDelay(c, n) \in Nat
  <1>1. Backoff(n) \in Nat
    BY ConstantsOK DEF Backoff
  <1>. QED
    BY <1>1, ConstantsOK DEF RetryDelay

(* Putting a job back in line keeps the two order tables well typed.         *)
LEMMA MadeAvailableType ==
    ASSUME TypeOK, NEW e \in Exams, NEW d \in Nat, MadeAvailable(e, d)
    PROVE  /\ wait' \in [Exams -> Int]
           /\ \A f \in Exams : wait'[f] >= Lapsed
           /\ ahead' \in [Exams -> SUBSET Exams]
  <1>1. wait' \in [Exams -> Int] /\ \A f \in Exams : wait'[f] >= Lapsed
    BY ConstantsOK DEF TypeOK, MadeAvailable, Lapsed
  <1>2. ahead' \in [Exams -> SUBSET Exams]
    BY DEF TypeOK, MadeAvailable, MovedBack
  <1>. QED
    BY <1>1, <1>2

(* A busy slot works on one of the exams.                                    *)
LEMMA BusySlot ==
    ASSUME TypeOK, SlotsOK, NEW w \in Workers, phase[w] # "idle"
    PROVE  exam[w] \in Exams
  BY DEF TypeOK, SlotsOK

LEMMA InitIInv == Init => IInv
  <1> SUFFICES ASSUME Init PROVE IInv
    OBVIOUS
  <1>1. TypeOK
    BY ConstantsOK DEF Init, TypeOK, Grades, JobStates, Phases, Results, Lapsed
  <1>2. SlotsOK
    BY <1>1 DEF Init, SlotsOK
  <1>3. JobsOK /\ GradedAsSubmitted /\ NoRegrading /\ CompleteHasScore
    BY DEF Init, JobsOK, GradedAsSubmitted, NoRegrading, CompleteHasScore
  <1>. QED
    BY <1>1, <1>2, <1>3 DEF IInv

-----------------------------------------------------------------------------
(* One lemma per action: the step keeps the inductive invariant.             *)

LEMMA SubmitKeepsIInv ==
    ASSUME IInv, NEW e \in Exams, NEW p \in Payloads, Submit(e, p)
    PROVE  IInv'
  <1> USE DEF IInv
  <1>1. TypeOK'
    <2>1. /\ wait' \in [Exams -> Int] /\ \A f \in Exams : wait'[f] >= Lapsed
          /\ ahead' \in [Exams -> SUBSET Exams]
      BY MadeAvailableType DEF Submit
    <2>. QED
      BY <2>1 DEF TypeOK, Submit, JobStates, controlVars, slotVars, renewVars, Lapsed
  <1>2. SlotsOK'
    BY BusySlot, ConstantsOK DEF SlotsOK, JobsOK, TypeOK, Submit, HoldsToken, slotVars, renewVars
  <1>3. JobsOK' /\ GradedAsSubmitted' /\ CompleteHasScore'
    BY ConstantsOK DEF JobsOK, GradedAsSubmitted, CompleteHasScore, TypeOK, Submit
  <1>4. NoRegrading'
    BY BusySlot DEF NoRegrading, TypeOK, Submit, HoldsToken, slotVars
  <1>. QED
    BY <1>1, <1>2, <1>3, <1>4

LEMMA RequeueKeepsIInv ==
    ASSUME IInv, NEW e \in Exams, Requeue(e), cooldown' \in [Exams -> 0..RecoveryGap]
    PROVE  IInv'
  <1> USE DEF IInv
  <1>1. TypeOK'
    <2>1. /\ wait' \in [Exams -> Int] /\ \A f \in Exams : wait'[f] >= Lapsed
          /\ ahead' \in [Exams -> SUBSET Exams]
      BY MadeAvailableType DEF Requeue
    <2>2. lease' \in [Exams -> Lapsed..Lease] /\ attempts' \in [Exams -> 0..MaxAttempts]
      BY ConstantsOK DEF TypeOK, Requeue, Lapsed
    <2>3. state' \in [Exams -> JobStates] /\ token' \in [Exams -> Workers \cup {NoWorker}]
      BY DEF TypeOK, Requeue, JobStates
    <2>. QED
      BY <2>1, <2>2, <2>3
         DEF TypeOK, Requeue, interviewVars, controlVars, slotVars, renewVars, Lapsed
  <1>2. SlotsOK'
    BY BusySlot
       DEF SlotsOK, TypeOK, Requeue, HoldsToken, interviewVars, slotVars, renewVars, RowLocked
  <1>3. JobsOK' /\ GradedAsSubmitted' /\ CompleteHasScore'
    BY DEF JobsOK, GradedAsSubmitted, CompleteHasScore, TypeOK, Requeue, interviewVars
  <1>4. NoRegrading'
    BY BusySlot, ConstantsOK
       DEF NoRegrading, TypeOK, Requeue, HoldsToken, slotVars, interviewVars
  <1>. QED
    BY <1>1, <1>2, <1>3, <1>4

LEMMA ClaimKeepsIInv ==
    ASSUME IInv, NEW w \in Workers, NEW e \in Exams, NEW lag \in 0..ClaimLag, Claim(w, e, lag)
    PROVE  IInv'
  <1> USE DEF IInv
  <1>1. TypeOK'
    BY ConstantsOK
       DEF TypeOK, Claim, Admitted, FirstOf, StartsSeen, WindowOver, JobStates, Phases, Lapsed,
           interviewVars, renewVars
  <1>2. state[e] # "none" /\ ~RowLocked(e)
    BY DEF Claim, Admitted, FirstOf, ClaimableAt
  <1>3. SlotsOK'
    BY <1>2, BusySlot, ConstantsOK
       DEF SlotsOK, TypeOK, Claim, HoldsToken, RowLocked, interviewVars, renewVars
  <1>4. JobsOK' /\ GradedAsSubmitted' /\ CompleteHasScore'
    BY <1>2 DEF JobsOK, GradedAsSubmitted, CompleteHasScore, TypeOK, Claim, interviewVars
  <1>5. NoRegrading'
    BY BusySlot DEF NoRegrading, TypeOK, Claim, HoldsToken, interviewVars
  <1>. QED
    BY <1>1, <1>3, <1>4, <1>5

LEMMA ClaimRetiresKeepsIInv ==
    ASSUME IInv, NEW w \in Workers, NEW e \in Exams, NEW lag \in 0..ClaimLag,
           ClaimRetires(w, e, lag)
    PROVE  IInv'
  <1> USE DEF IInv
  <1>1. TypeOK'
    BY ConstantsOK
       DEF TypeOK, ClaimRetires, Admitted, FirstOf, StartsSeen, WindowOver, JobStates,
           interviewVars, slotVars, renewVars, Lapsed
  <1>2. state[e] # "none" /\ ~RowLocked(e)
    BY DEF ClaimRetires, Admitted, FirstOf, ClaimableAt
  <1>3. SlotsOK'
    BY <1>2, BusySlot
       DEF SlotsOK, TypeOK, ClaimRetires, HoldsToken, RowLocked, interviewVars, slotVars, renewVars
  <1>4. JobsOK' /\ GradedAsSubmitted' /\ CompleteHasScore'
    BY <1>2 DEF JobsOK, GradedAsSubmitted, CompleteHasScore, TypeOK, ClaimRetires, interviewVars
  <1>5. NoRegrading'
    BY BusySlot DEF NoRegrading, TypeOK, ClaimRetires, HoldsToken, interviewVars, slotVars
  <1>. QED
    BY <1>1, <1>3, <1>4, <1>5

LEMMA BeginKeepsIInv ==
    ASSUME IInv, NEW w \in Workers, Begin(w)
    PROVE  IInv'
  <1> USE DEF IInv
  <1>1. TypeOK'
    BY DEF TypeOK, Begin, Phases, Results, Codes, interviewVars, jobVars, controlVars,
           renewVars, Lapsed
  <1>2. SlotsOK'
    BY BusySlot
       DEF SlotsOK, TypeOK, Begin, HoldsToken, Codes, interviewVars, jobVars, renewVars
  <1>3. JobsOK' /\ GradedAsSubmitted' /\ CompleteHasScore'
    BY DEF JobsOK, GradedAsSubmitted, CompleteHasScore, Begin, interviewVars, jobVars
  <1>4. NoRegrading'
    BY BusySlot DEF NoRegrading, TypeOK, Begin, HoldsToken, interviewVars, jobVars
  <1>. QED
    BY <1>1, <1>2, <1>3, <1>4

LEMMA AnalyseKeepsIInv ==
    ASSUME IInv, NEW w \in Workers, Analyse(w)
    PROVE  IInv'
  <1> USE DEF IInv
  <1>1. TypeOK'
    BY DEF TypeOK, Analyse, Phases, Results, Codes, interviewVars, jobVars, controlVars,
           renewVars, Lapsed
  <1>2. SlotsOK'
    BY BusySlot, ConstantsOK
       DEF SlotsOK, TypeOK, Analyse, HoldsToken, Codes, interviewVars, jobVars, renewVars
  <1>3. JobsOK' /\ GradedAsSubmitted' /\ CompleteHasScore'
    BY DEF JobsOK, GradedAsSubmitted, CompleteHasScore, Analyse, interviewVars, jobVars
  <1>4. NoRegrading'
    BY BusySlot DEF NoRegrading, TypeOK, Analyse, HoldsToken, interviewVars, jobVars
  <1>. QED
    BY <1>1, <1>2, <1>3, <1>4

(* The holder of a job's lease is the only slot that may save its result: a  *)
(* second one that analysed the exam meanwhile has lost the token.           *)
LEMMA SaveKeepsIInv ==
    ASSUME IInv, NEW w \in Workers, Save(w)
    PROVE  IInv'
  <1> USE DEF IInv
  <1>1. /\ exam[w] \in Exams /\ state[exam[w]] = "running" /\ token[exam[w]] = w
        /\ body[w] = payload[exam[w]] /\ body[w] \in Payloads
        /\ score[exam[w]] = NoGrade
    BY BusySlot, ConstantsOK
       DEF Save, HoldsLease, HoldsToken, SlotsOK, JobsOK, TypeOK, NoRegrading
  <1>2. TypeOK'
    <2>1. score' \in [Exams -> Grades \cup {NoGrade}]
      BY <1>1 DEF TypeOK, Save, Grades
    <2>2. /\ result' \in [Workers -> Results] /\ phase' \in [Workers -> Phases]
          /\ answers' \in [Exams -> Payloads \cup {NoPayload}]
      BY <1>1 DEF TypeOK, Save, Phases, Results, Codes
    <2>. QED
      BY <2>1, <2>2 DEF TypeOK, Save, jobVars, controlVars, renewVars, Lapsed
  <1>3. /\ score' \in [Exams -> Grades \cup {NoGrade}]
        /\ \A f \in Exams : f # exam[w] => score'[f] = score[f]
        /\ result'[w] = "complete" => score'[exam[w]] # NoGrade
        /\ score'[exam[w]] # NoGrade => score'[exam[w]].body = body[w]
    BY <1>1, <1>2, ConstantsOK DEF TypeOK, Save, Grades
  <1>4. SlotsOK'
    <2> SUFFICES ASSUME NEW v \in Workers
                 PROVE  /\ phase'[v] = "idle" <=> exam'[v] = NoExam
                        /\ phase'[v] # "idle" => /\ state'[exam'[v]] # "none"
                                                 /\ body'[v] = payload'[exam'[v]]
                        /\ phase'[v] = "save" => result'[v] \in Marks \cup {"incomplete"}
                        /\ phase'[v] = "finish" => result'[v] \in Codes \cup {"complete"}
                        /\ phase'[v] = "finish" /\ result'[v] = "complete"
                             => score'[exam'[v]] # NoGrade
                        /\ v \in renewing' => phase'[v] # "idle" /\ HoldsToken(v)'
      BY DEF SlotsOK
    <2>1. CASE v = w
      BY <2>1, <1>1, <1>3 DEF SlotsOK, TypeOK, Save, HoldsToken, Codes, jobVars, renewVars
    <2>2. CASE v # w
      BY <2>2, <1>1, <1>3, BusySlot
         DEF SlotsOK, TypeOK, Save, HoldsToken, jobVars, renewVars
    <2>. QED
      BY <2>1, <2>2
  <1>5. JobsOK' /\ GradedAsSubmitted' /\ CompleteHasScore'
    BY <1>1, <1>3 DEF JobsOK, GradedAsSubmitted, CompleteHasScore, TypeOK, Save, jobVars
  <1>6. NoRegrading'
    BY <1>1, <1>3, BusySlot DEF NoRegrading, TypeOK, Save, HoldsToken, jobVars
  <1>. QED
    BY <1>2, <1>4, <1>5, <1>6

LEMMA SaveRefusedKeepsIInv ==
    ASSUME IInv, NEW w \in Workers, SaveRefused(w)
    PROVE  IInv'
  <1> USE DEF IInv
  <1>1. TypeOK'
    BY DEF TypeOK, SaveRefused, Phases, Results, Codes, interviewVars, jobVars, controlVars,
           renewVars, Lapsed
  <1>2. SlotsOK'
    BY BusySlot
       DEF SlotsOK, TypeOK, SaveRefused, HoldsToken, Codes, interviewVars, jobVars, renewVars
  <1>3. JobsOK' /\ GradedAsSubmitted' /\ CompleteHasScore'
    BY DEF JobsOK, GradedAsSubmitted, CompleteHasScore, SaveRefused, interviewVars, jobVars
  <1>4. NoRegrading'
    BY BusySlot DEF NoRegrading, TypeOK, SaveRefused, HoldsToken, interviewVars, jobVars
  <1>. QED
    BY <1>1, <1>2, <1>3, <1>4

LEMMA FinishKeepsIInv ==
    ASSUME IInv, NEW w \in Workers, Finish(w)
    PROVE  IInv'
  <1> USE DEF IInv
  <1>1. /\ exam[w] \in Exams /\ state[exam[w]] = "running" /\ token[exam[w]] = w
        /\ w \notin renewing
    BY BusySlot DEF Finish, HoldsToken, RowLocked
  <1>2. TypeOK'
    <2>1. /\ wait' \in [Exams -> Int] /\ \A f \in Exams : wait'[f] >= Lapsed
          /\ ahead' \in [Exams -> SUBSET Exams]
      BY <1>1, MadeAvailableType, RetryDelayIsNat DEF Finish
    <2>2. /\ state' \in [Exams -> JobStates] /\ token' \in [Exams -> Workers \cup {NoWorker}]
          /\ lease' \in [Exams -> Lapsed..Lease]
      BY <1>1, ConstantsOK DEF TypeOK, Finish, JobStates, Lapsed
    <2>3. /\ phase' \in [Workers -> Phases] /\ exam' \in [Workers -> Exams \cup {NoExam}]
          /\ body' \in [Workers -> Payloads \cup {NoPayload}] /\ result' \in [Workers -> Results]
      BY DEF TypeOK, Finish, SlotFreed, Phases, Results
    <2>. QED
      BY <2>1, <2>2, <2>3 DEF TypeOK, Finish, interviewVars, controlVars, renewVars, Lapsed
  <1>3. SlotsOK'
    BY <1>1, BusySlot, ConstantsOK
       DEF SlotsOK, TypeOK, Finish, SlotFreed, HoldsToken, interviewVars, renewVars
  <1>4. JobsOK' /\ GradedAsSubmitted' /\ CompleteHasScore'
    BY <1>1 DEF JobsOK, GradedAsSubmitted, CompleteHasScore, SlotsOK, TypeOK, Finish,
                interviewVars
  <1>5. NoRegrading'
    BY <1>1, BusySlot
       DEF NoRegrading, TypeOK, Finish, SlotFreed, HoldsToken, interviewVars
  <1>. QED
    BY <1>2, <1>3, <1>4, <1>5

LEMMA FinishStaleKeepsIInv ==
    ASSUME IInv, NEW w \in Workers, FinishStale(w)
    PROVE  IInv'
  <1> USE DEF IInv
  <1>1. TypeOK'
    BY DEF TypeOK, FinishStale, SlotFreed, Phases, Results, interviewVars, jobVars,
           controlVars, renewVars, Lapsed
  <1>2. SlotsOK'
    BY BusySlot, ConstantsOK
       DEF SlotsOK, TypeOK, FinishStale, SlotFreed, HoldsToken, interviewVars, jobVars, renewVars
  <1>3. JobsOK' /\ GradedAsSubmitted' /\ CompleteHasScore'
    BY DEF JobsOK, GradedAsSubmitted, CompleteHasScore, FinishStale, interviewVars, jobVars
  <1>4. NoRegrading'
    BY BusySlot DEF NoRegrading, TypeOK, FinishStale, SlotFreed, HoldsToken, interviewVars, jobVars
  <1>. QED
    BY <1>1, <1>2, <1>3, <1>4

LEMMA CrashKeepsIInv ==
    ASSUME IInv, NEW w \in Workers, Crash(w)
    PROVE  IInv'
  <1> USE DEF IInv
  <1>1. TypeOK'
    BY ConstantsOK
       DEF TypeOK, Crash, SlotFreed, Phases, Results, interviewVars, jobVars, controlVars, Lapsed
  <1>2. SlotsOK'
    BY BusySlot, ConstantsOK
       DEF SlotsOK, TypeOK, Crash, SlotFreed, HoldsToken, interviewVars, jobVars
  <1>3. JobsOK' /\ GradedAsSubmitted' /\ CompleteHasScore'
    BY DEF JobsOK, GradedAsSubmitted, CompleteHasScore, Crash, interviewVars, jobVars
  <1>4. NoRegrading'
    BY BusySlot DEF NoRegrading, TypeOK, Crash, SlotFreed, HoldsToken, interviewVars, jobVars
  <1>. QED
    BY <1>1, <1>2, <1>3, <1>4

LEMMA RenewKeepsIInv ==
    ASSUME IInv, NEW w \in Workers, Renew(w) \/ RenewCommit(w)
    PROVE  IInv'
  <1> USE DEF IInv
  <1>1. TypeOK'
    <2>1. exam[w] \in Exams /\ Lease - renewAge[w] \in Lapsed..Lease
      BY BusySlot, ConstantsOK DEF Renew, RenewCommit, SlotsOK, TypeOK, Lapsed
    <2>. QED
      BY <2>1, ConstantsOK
         DEF TypeOK, Renew, RenewCommit, interviewVars, jobVars, controlVars, slotVars, Lapsed
  <1>2. SlotsOK'
    BY BusySlot
       DEF SlotsOK, TypeOK, Renew, RenewCommit, HoldsToken, HoldsLease, interviewVars,
           jobVars, slotVars
  <1>3. JobsOK' /\ GradedAsSubmitted' /\ CompleteHasScore'
    BY DEF JobsOK, GradedAsSubmitted, CompleteHasScore, Renew, RenewCommit, interviewVars, jobVars
  <1>4. NoRegrading'
    BY BusySlot
       DEF NoRegrading, TypeOK, Renew, RenewCommit, HoldsToken, interviewVars, jobVars, slotVars
  <1>. QED
    BY <1>1, <1>2, <1>3, <1>4

LEMMA TickKeepsIInv ==
    ASSUME IInv, Tick
    PROVE  IInv'
  <1> USE DEF IInv
  <1>1. TypeOK'
    <2>1. /\ wait' \in [Exams -> Int] /\ \A f \in Exams : wait'[f] >= Lapsed
          /\ lease' \in [Exams -> Lapsed..Lease]
      BY ConstantsOK DEF TypeOK, Tick, Older, Lapsed
    <2>2. /\ windowAge' \in 0..(Window + ClaimLag) /\ cooldown' \in [Exams -> 0..RecoveryGap]
          /\ renewAge' \in [Workers -> 0..Lease]
      BY ConstantsOK DEF TypeOK, Tick
    <2>. QED
      BY <2>1, <2>2 DEF TypeOK, Tick, interviewVars, slotVars, Lapsed
  <1>2. SlotsOK'
    BY BusySlot DEF SlotsOK, TypeOK, Tick, HoldsToken, interviewVars, slotVars
  <1>3. JobsOK' /\ GradedAsSubmitted' /\ CompleteHasScore'
    BY DEF JobsOK, GradedAsSubmitted, CompleteHasScore, Tick, interviewVars
  <1>4. NoRegrading'
    BY BusySlot DEF NoRegrading, TypeOK, Tick, HoldsToken, interviewVars, slotVars
  <1>. QED
    BY <1>1, <1>2, <1>3, <1>4
-----------------------------------------------------------------------------
LEMMA NextKeepsIInv == IInv /\ [Next]_vars => IInv'
  <1> SUFFICES ASSUME IInv, [Next]_vars PROVE IInv'
    OBVIOUS
  <1>1. CASE \E e \in Exams, p \in Payloads : Submit(e, p)
    BY <1>1, SubmitKeepsIInv
  <1>2. CASE \E e \in Exams : StudentRetry(e) \/ StaffRecover(e)
    <2>1. PICK e \in Exams : StudentRetry(e) \/ StaffRecover(e)
      BY <1>2
    <2>2. Requeue(e)
      BY <2>1 DEF StudentRetry, StaffRecover
    <2>3. cooldown' \in [Exams -> 0..RecoveryGap]
      BY <2>1, ConstantsOK DEF StudentRetry, StaffRecover, IInv, TypeOK
    <2>. QED
      BY <2>2, <2>3, RequeueKeepsIInv
  <1>3. CASE \E w \in Workers : Slot(w)
    <2>1. PICK w \in Workers : Slot(w)
      BY <1>3
    <2>. QED
      BY <2>1, ClaimKeepsIInv, ClaimRetiresKeepsIInv, BeginKeepsIInv, AnalyseKeepsIInv,
         SaveKeepsIInv, SaveRefusedKeepsIInv, FinishKeepsIInv, FinishStaleKeepsIInv,
         CrashKeepsIInv, RenewKeepsIInv DEF Slot
  <1>4. CASE Tick
    BY <1>4, TickKeepsIInv
  <1>5. CASE UNCHANGED vars
    BY <1>5
       DEF vars, interviewVars, jobVars, controlVars, slotVars, renewVars, IInv, TypeOK,
           SlotsOK, JobsOK, GradedAsSubmitted, NoRegrading, CompleteHasScore, HoldsToken, Lapsed
  <1>. QED
    BY <1>1, <1>2, <1>3, <1>4, <1>5 DEF Next

(* The inductive invariant holds in every state the queue reaches.           *)
THEOREM QueueInvariant == Spec => []IInv
  <1>. QED
    BY InitIInv, NextKeepsIInv, PTL DEF Spec

(* Every variable of the queue keeps its type.                               *)
THEOREM QueueTypeOK == Spec => []TypeOK
  <1>1. IInv => TypeOK
    BY DEF IInv
  <1>. QED
    BY <1>1, QueueInvariant, PTL

(* A job that finish() acknowledges as complete has its score saved.         *)
THEOREM CompleteJobsAreScored == Spec => []CompleteHasScore
  <1>1. IInv => CompleteHasScore
    BY DEF IInv
  <1>. QED
    BY <1>1, QueueInvariant, PTL

(* Whatever workers come and go, the score is of the submission on record.   *)
THEOREM ScoresAreOfTheSubmission == Spec => []GradedAsSubmitted
  <1>1. IInv => GradedAsSubmitted
    BY DEF IInv
  <1>. QED
    BY <1>1, QueueInvariant, PTL

(* No slot that holds its job's token analyses an exam that has a score.     *)
THEOREM ScoredExamsAreNotRegraded == Spec => []NoRegrading
  <1>1. IInv => NoRegrading
    BY DEF IInv
  <1>. QED
    BY <1>1, QueueInvariant, PTL

(* Only a save writes a score, and it finds none.                            *)
LEMMA ScoreStep ==
    ASSUME IInv, [Next]_vars
    PROVE  \/ score' = score
           \/ \E w \in Workers : Save(w) /\ exam[w] \in Exams /\ score[exam[w]] = NoGrade
  <1>1. ASSUME NEW w \in Workers, Save(w)
        PROVE  exam[w] \in Exams /\ score[exam[w]] = NoGrade
    BY <1>1, BusySlot DEF IInv, Save, HoldsLease, NoRegrading
  <1>. QED
    BY <1>1
       DEF Next, Slot, Submit, StudentRetry, StaffRecover, Requeue, Claim, ClaimRetires, Begin,
           Analyse, SaveRefused, Finish, FinishStale, Crash, Renew, RenewCommit, Tick, vars,
           interviewVars

(* A saved score is never changed or cleared: the fence of assert_lease and  *)
(* the look at the score when a job is begun are enough together.            *)
THEOREM SavedScoresAreFinal == Spec => ScoreFinal
  <1>1. IInv /\ [Next]_vars => [\A e \in Exams : score[e] # NoGrade => score'[e] = score[e]]_vars
    <2> SUFFICES ASSUME IInv, [Next]_vars, NEW e \in Exams, score[e] # NoGrade
                 PROVE  score'[e] = score[e]
      OBVIOUS
    <2>1. CASE score' = score
      BY <2>1
    <2>2. ASSUME NEW w \in Workers, Save(w), exam[w] \in Exams, score[exam[w]] = NoGrade
          PROVE  score'[e] = score[e]
      BY <2>2 DEF Save, IInv, TypeOK
    <2>. QED
      BY <2>1, <2>2, ScoreStep
  <1>. QED
    BY <1>1, QueueInvariant, PTL DEF Spec, ScoreFinal
-----------------------------------------------------------------------------
LiveJobs == {e \in Exams : Live(e)}

(* While a heartbeat's transaction is open, the lease it renews is alive.    *)
OpenRenewalsLive == \A w \in renewing : lease[exam[w]] > 0

(* A set of exams below the concurrency has room for one more.               *)
LEMMA RoomForOne ==
    ASSUME NEW S \in SUBSET Exams, NEW T \in SUBSET Exams, NEW e \in Exams,
           Cardinality(S) < Concurrency, T \subseteq S \cup {e}
    PROVE  Cardinality(T) <= Concurrency
  <1>1. IsFiniteSet(S)
    BY FS_Subset, ConstantsOK
  <1>2. IsFiniteSet(S \cup {e}) /\ Cardinality(S \cup {e}) <= Cardinality(S) + 1
    <2>1. Cardinality(S) \in Nat
      BY <1>1, FS_CardinalityType
    <2>2. /\ IsFiniteSet(S \cup {e})
          /\ Cardinality(S \cup {e}) = IF e \in S THEN Cardinality(S) ELSE Cardinality(S) + 1
      BY <1>1, FS_AddElement
    <2>. QED
      BY <2>1, <2>2
  <1>3. Cardinality(T) <= Cardinality(S \cup {e}) /\ IsFiniteSet(T)
    BY <1>2, FS_Subset
  <1>4. Cardinality(S) \in Nat /\ Cardinality(T) \in Nat /\ Cardinality(S \cup {e}) \in Nat
    BY <1>1, <1>2, <1>3, FS_CardinalityType
  <1>. QED
    BY <1>2, <1>3, <1>4, ConstantsOK

LEMMA FewerLive ==
    ASSUME LeaseCap, NEW T \in SUBSET Exams, T \subseteq LiveJobs
    PROVE  Cardinality(T) <= Concurrency
  <1>1. IsFiniteSet(LiveJobs)
    BY FS_Subset, ConstantsOK DEF LiveJobs
  <1>2. Cardinality(T) <= Cardinality(LiveJobs) /\ IsFiniteSet(T)
    BY <1>1, FS_Subset
  <1>3. Cardinality(T) \in Nat /\ Cardinality(LiveJobs) \in Nat
    BY <1>1, <1>2, FS_CardinalityType
  <1>. QED
    BY <1>2, <1>3, ConstantsOK DEF LeaseCap, LiveJobs

LEMMA NextKeepsCap ==
    ASSUME ~SlowCommit, IInv, IInv', LeaseCap, OpenRenewalsLive, [Next]_vars
    PROVE  LeaseCap' /\ OpenRenewalsLive'
  <1> USE DEF IInv
  <1> DEFINE Kept == LiveJobs' \subseteq LiveJobs /\ OpenRenewalsLive'
  <1>0. LiveJobs' \in SUBSET Exams
    BY DEF LiveJobs
  <1>1. ASSUME NEW e \in Exams, NEW p \in Payloads, Submit(e, p)
        PROVE  Kept
    BY <1>1 DEF Submit, LiveJobs, Live, OpenRenewalsLive, TypeOK, slotVars, renewVars
  <1>2. ASSUME NEW e \in Exams, Requeue(e)
        PROVE  Kept
    BY <1>2
       DEF Requeue, RowLocked, LiveJobs, Live, OpenRenewalsLive, TypeOK, slotVars, renewVars
  <1>3. ASSUME NEW w \in Workers, NEW e \in Exams, NEW lag \in 0..ClaimLag, Claim(w, e, lag)
        PROVE  LeaseCap' /\ OpenRenewalsLive'
    <2>1. LiveJobs' \subseteq LiveAt(lag) \cup {e}
      BY <1>3 DEF Claim, LiveJobs, LiveAt, Live, TypeOK
    <2>2. Cardinality(LiveAt(lag)) < Concurrency /\ LiveAt(lag) \in SUBSET Exams
      BY <1>3 DEF Claim, Admitted, FirstOf, LiveAt
    <2>3. OpenRenewalsLive'
      BY <1>3, BusySlot
         DEF Claim, Admitted, FirstOf, ClaimableAt, RowLocked, OpenRenewalsLive, TypeOK, SlotsOK, renewVars
    <2>. QED
      BY <1>0, <2>1, <2>2, <2>3, RoomForOne DEF LeaseCap, LiveJobs
  <1>4. ASSUME NEW w \in Workers, NEW e \in Exams, NEW lag \in 0..ClaimLag, ClaimRetires(w, e, lag)
        PROVE  Kept
    BY <1>4 DEF ClaimRetires, LiveJobs, Live, OpenRenewalsLive, TypeOK, slotVars, renewVars
  <1>5. ASSUME NEW w \in Workers, Begin(w) \/ Analyse(w) \/ SaveRefused(w)
        PROVE  Kept
    BY <1>5
       DEF Begin, Analyse, SaveRefused, LiveJobs, Live, OpenRenewalsLive, jobVars, renewVars
  <1>6. ASSUME NEW w \in Workers, Save(w)
        PROVE  Kept
    BY <1>6 DEF Save, LiveJobs, Live, OpenRenewalsLive, jobVars, renewVars
  <1>7. ASSUME NEW w \in Workers, Finish(w)
        PROVE  Kept
    BY <1>7, BusySlot
       DEF Finish, SlotFreed, RowLocked, LiveJobs, Live, OpenRenewalsLive, TypeOK, SlotsOK,
           renewVars
  <1>8. ASSUME NEW w \in Workers, FinishStale(w) \/ Crash(w)
        PROVE  Kept
    BY <1>8
       DEF FinishStale, Crash, SlotFreed, RowLocked, LiveJobs, Live, OpenRenewalsLive, TypeOK,
           jobVars, renewVars
  <1>9. ASSUME NEW w \in Workers, Renew(w)
        PROVE  Kept
    BY <1>9
       DEF Renew, HoldsLease, LiveJobs, Live, OpenRenewalsLive, jobVars, slotVars
  <1>10. ASSUME NEW w \in Workers, RenewCommit(w)
         PROVE  Kept
    <2>1. exam[w] \in Exams /\ Live(exam[w]) /\ HoldsToken(w)
      BY <1>10, BusySlot DEF RenewCommit, Live, OpenRenewalsLive, SlotsOK, HoldsToken
    <2>2. \A v \in renewing : v # w => exam[v] # exam[w]
      BY <2>1 DEF SlotsOK, HoldsToken, TypeOK
    <2>. QED
      BY <1>10, <2>1, <2>2, BusySlot
         DEF RenewCommit, LiveJobs, Live, OpenRenewalsLive, TypeOK, SlotsOK, slotVars
  <1>11. ASSUME Tick
         PROVE  Kept
    BY <1>11, ConstantsOK
       DEF Tick, Older, Lapsed, LiveJobs, Live, OpenRenewalsLive, TypeOK, slotVars
  <1>12. ASSUME UNCHANGED vars
         PROVE  Kept
    BY <1>12
       DEF vars, jobVars, slotVars, renewVars, LiveJobs, Live, OpenRenewalsLive
  <1>13. Kept => LeaseCap' /\ OpenRenewalsLive'
    <2>1. LeaseCap' <=> Cardinality(LiveJobs') <= Concurrency
      BY DEF LeaseCap, LiveJobs
    <2>2. LiveJobs' \subseteq LiveJobs => Cardinality(LiveJobs') <= Concurrency
      BY <1>0, FewerLive
    <2>. QED
      BY <2>1, <2>2
  <1> HIDE DEF Kept
  <1>14. CASE \E e \in Exams, p \in Payloads : Submit(e, p)
    BY <1>1, <1>13, <1>14
  <1>15. CASE \E e \in Exams : StudentRetry(e) \/ StaffRecover(e)
    BY <1>2, <1>13, <1>15 DEF StudentRetry, StaffRecover
  <1>16. ASSUME NEW w \in Workers, Slot(w)
         PROVE  LeaseCap' /\ OpenRenewalsLive'
    <2>1. CASE \E e \in Exams, lag \in 0..ClaimLag : Claim(w, e, lag)
      BY <1>3, <2>1
    <2>2. CASE \E e \in Exams, lag \in 0..ClaimLag : ClaimRetires(w, e, lag)
      BY <1>4, <1>13, <2>2
    <2>3. CASE \/ Begin(w) \/ Analyse(w) \/ SaveRefused(w) \/ Save(w) \/ Finish(w)
               \/ FinishStale(w) \/ Crash(w) \/ Renew(w) \/ RenewCommit(w)
      BY <1>5, <1>6, <1>7, <1>8, <1>9, <1>10, <1>13, <2>3
    <2>. QED
      BY <1>16, <2>1, <2>2, <2>3 DEF Slot
  <1>17. CASE Tick \/ UNCHANGED vars
    BY <1>11, <1>12, <1>13, <1>17
  <1>. QED
    BY <1>14, <1>15, <1>16, <1>17 DEF Next

(* As long as no heartbeat's transaction outlasts the tick it began in, the  *)
(* jobs under a live lease never exceed the configured concurrency.          *)
THEOREM ConcurrencyIsCapped ==
    ASSUME ~SlowCommit
    PROVE  Spec => []LeaseCap
  <1>1. Init => LeaseCap /\ OpenRenewalsLive
    <2> SUFFICES ASSUME Init PROVE LeaseCap /\ OpenRenewalsLive
      OBVIOUS
    <2>1. {e \in Exams : Live(e)} = {}
      BY DEF Init, Live
    <2>2. LeaseCap
      BY <2>1, FS_EmptySet, ConstantsOK DEF LeaseCap
    <2>3. OpenRenewalsLive
      BY DEF Init, OpenRenewalsLive
    <2>. QED
      BY <2>2, <2>3
  <1>2. IInv /\ LeaseCap /\ OpenRenewalsLive /\ [Next]_vars => LeaseCap' /\ OpenRenewalsLive'
    BY NextKeepsIInv, NextKeepsCap
  <1>. QED
    BY <1>1, <1>2, QueueInvariant, PTL DEF Spec
-----------------------------------------------------------------------------
(* The queue implements GradingPromise.                                      *)

LEMMA SubmitIsPromised ==
    ASSUME IInv, NEW e \in Exams, NEW p \in Payloads, Submit(e, p)
    PROVE  Promise!Submit(e)
  <1>1. answers[e] = NoPayload
    BY DEF IInv, GradedAsSubmitted, JobsOK, Submit
  <1>2. Report' = [Report EXCEPT ![e] = "pending"] /\ Report[e] = "none"
    BY DEF IInv, TypeOK, Submit, Report
  <1>. QED
    BY <1>1, <1>2 DEF Submit, Promise!Submit

(* A failed job may have a score, saved before its last attempts ran out: its *)
(* report is complete and stays so.                                           *)
LEMMA RequeueIsPromised ==
    ASSUME IInv, NEW e \in Exams, Requeue(e)
    PROVE  Promise!Revive(e) \/ UNCHANGED Promise!vars
  <1>1. CASE score[e] = NoGrade
    <2>1. Report' = [Report EXCEPT ![e] = "pending"] /\ Report[e] = "failed"
      BY <1>1 DEF IInv, TypeOK, Requeue, Report, interviewVars
    <2>. QED
      BY <2>1 DEF Requeue, Promise!Revive, interviewVars
  <1>2. CASE score[e] # NoGrade
    <2>1. Report' = Report
      BY <1>2 DEF IInv, TypeOK, Requeue, Report, interviewVars
    <2>. QED
      BY <2>1 DEF Requeue, Promise!vars, interviewVars
  <1>. QED
    BY <1>1, <1>2

LEMMA ClaimIsSilent ==
    ASSUME IInv, NEW w \in Workers, NEW e \in Exams, NEW lag \in 0..ClaimLag, Claim(w, e, lag)
    PROVE  UNCHANGED Promise!vars
  <1>1. state[e] \in {"queued", "retrying", "running"}
    BY DEF Claim, Admitted, FirstOf, ClaimableAt
  <1>2. Report' = Report
    BY <1>1 DEF IInv, TypeOK, Claim, Report, interviewVars
  <1>. QED
    BY <1>2 DEF Claim, Promise!vars, interviewVars

LEMMA ClaimRetiresIsPromised ==
    ASSUME IInv, NEW w \in Workers, NEW e \in Exams, NEW lag \in 0..ClaimLag,
           ClaimRetires(w, e, lag)
    PROVE  Promise!GiveUp(e) \/ UNCHANGED Promise!vars
  <1>1. state[e] \in {"queued", "retrying", "running"}
    BY DEF ClaimRetires, Admitted, FirstOf, ClaimableAt
  <1>2. CASE score[e] = NoGrade
    <2>1. Report' = [Report EXCEPT ![e] = "failed"] /\ Report[e] = "pending"
      BY <1>1, <1>2 DEF IInv, TypeOK, ClaimRetires, Report, interviewVars
    <2>. QED
      BY <2>1 DEF ClaimRetires, Promise!GiveUp, interviewVars
  <1>3. CASE score[e] # NoGrade
    <2>1. Report' = Report
      BY <1>1, <1>3 DEF IInv, TypeOK, ClaimRetires, Report, interviewVars
    <2>. QED
      BY <2>1 DEF ClaimRetires, Promise!vars, interviewVars
  <1>. QED
    BY <1>2, <1>3

LEMMA SaveIsPromised ==
    ASSUME IInv, NEW w \in Workers, Save(w)
    PROVE  Promise!Award(exam[w]) \/ UNCHANGED Promise!vars
  <1>1. /\ exam[w] \in Exams /\ score[exam[w]] = NoGrade
        /\ state[exam[w]] = "running" /\ body[w] = answers[exam[w]]
    BY BusySlot DEF IInv, Save, HoldsLease, HoldsToken, NoRegrading, SlotsOK, GradedAsSubmitted
  <1>2. answers' = answers
    BY <1>1 DEF Save, IInv, TypeOK
  <1>3. CASE result[w] \in Marks
    <2>1. result[w] # "incomplete"
      BY <1>3, ConstantsOK
    <2>2. score' = [score EXCEPT ![exam[w]] = [body |-> answers[exam[w]], mark |-> result[w]]]
      BY <1>1, <2>1 DEF Save
    <2>3. [body |-> answers[exam[w]], mark |-> result[w]] # NoGrade
      <3>1. [body |-> body[w], mark |-> result[w]] \in [body : Payloads, mark : Marks]
        BY <1>1, <1>3, ConstantsOK DEF IInv, SlotsOK, JobsOK, TypeOK, Save
      <3>. QED
        BY <1>1, <3>1, ConstantsOK
    <2>4. Report[exam[w]] = "pending" /\ Report' = [Report EXCEPT ![exam[w]] = "complete"]
      BY <1>1, <2>2, <2>3 DEF IInv, TypeOK, Save, Report, jobVars
    <2>. QED
      BY <1>1, <1>2, <1>3, <2>2, <2>4 DEF Promise!Award
  <1>4. CASE result[w] = "incomplete"
    <2>1. score' = score
      BY <1>1, <1>4, ConstantsOK DEF Save, IInv, TypeOK
    <2>2. Report' = Report
      BY <2>1 DEF Save, Report, jobVars
    <2>. QED
      BY <1>2, <2>1, <2>2 DEF Promise!vars
  <1>. QED
    BY <1>3, <1>4 DEF Save

LEMMA FinishIsPromised ==
    ASSUME IInv, NEW w \in Workers, Finish(w)
    PROVE  Promise!GiveUp(exam[w]) \/ UNCHANGED Promise!vars
  <1>1. exam[w] \in Exams /\ state[exam[w]] = "running"
    BY BusySlot DEF IInv, Finish, HoldsToken
  <1>2. result[w] = "complete" => score[exam[w]] # NoGrade
    BY DEF IInv, SlotsOK, Finish
  <1>3. UNCHANGED <<answers, score>>
    BY DEF Finish, interviewVars
  <1>4. CASE score[exam[w]] # NoGrade
    <2>1. Report' = Report
      BY <1>1, <1>3, <1>4 DEF IInv, TypeOK, Finish, Report
    <2>. QED
      BY <1>3, <2>1 DEF Promise!vars
  <1>5. CASE score[exam[w]] = NoGrade /\ attempts[exam[w]] >= MaxAttempts
    <2>1. Report' = [Report EXCEPT ![exam[w]] = "failed"] /\ Report[exam[w]] = "pending"
      BY <1>1, <1>2, <1>3, <1>5 DEF IInv, TypeOK, Finish, Report
    <2>. QED
      BY <1>3, <2>1 DEF Promise!GiveUp
  <1>6. CASE score[exam[w]] = NoGrade /\ ~(attempts[exam[w]] >= MaxAttempts)
    <2>1. Report' = Report
      BY <1>1, <1>2, <1>3, <1>6 DEF IInv, TypeOK, Finish, Report
    <2>. QED
      BY <1>3, <2>1 DEF Promise!vars
  <1>. QED
    BY <1>4, <1>5, <1>6

(* Every behaviour of the queue is one GradingPromise allows: a submission   *)
(* stands, is graded at most once and from what was submitted, and a report  *)
(* shown as complete, which it is as soon as a score is saved and whatever   *)
(* the job's state, is never taken back or changed.                          *)
THEOREM QueueKeepsPromise == Spec => KeepsPromise
  <1>1. Init => Promise!Init
    BY DEF Init, Promise!Init, Report
  <1>2. IInv /\ [Next]_vars => [Promise!Next]_(Promise!vars)
    <2> SUFFICES ASSUME IInv, [Next]_vars
                 PROVE  Promise!Next \/ UNCHANGED Promise!vars
      OBVIOUS
    <2>1. CASE \E e \in Exams, p \in Payloads : Submit(e, p)
      BY <2>1, SubmitIsPromised DEF Promise!Next
    <2>2. CASE \E e \in Exams : StudentRetry(e) \/ StaffRecover(e)
      BY <2>2, RequeueIsPromised DEF StudentRetry, StaffRecover, Promise!Next
    <2>3. ASSUME NEW w \in Workers, Slot(w)
          PROVE  Promise!Next \/ UNCHANGED Promise!vars
      <3>1. CASE \E e \in Exams, lag \in 0..ClaimLag : Claim(w, e, lag) \/ ClaimRetires(w, e, lag)
        BY <3>1, ClaimIsSilent, ClaimRetiresIsPromised DEF Promise!Next
      <3>2. CASE Save(w)
        BY <3>2, BusySlot, SaveIsPromised DEF Promise!Next, Save, IInv
      <3>3. CASE Finish(w)
        BY <3>3, BusySlot, FinishIsPromised DEF Promise!Next, Finish, IInv
      <3>4. CASE \/ Begin(w) \/ Analyse(w) \/ SaveRefused(w) \/ FinishStale(w) \/ Crash(w)
                 \/ Renew(w) \/ RenewCommit(w)
        BY <3>4 DEF Begin, Analyse, SaveRefused, FinishStale, Crash, Renew, RenewCommit,
                    Report, Promise!vars, interviewVars, jobVars
      <3>. QED
        BY <2>3, <3>1, <3>2, <3>3, <3>4 DEF Slot
    <2>4. CASE Tick \/ UNCHANGED vars
      BY <2>4 DEF Tick, vars, Report, Promise!vars, interviewVars, jobVars
    <2>. QED
      BY <2>1, <2>2, <2>3, <2>4 DEF Next
  <1>. QED
    BY <1>1, <1>2, QueueInvariant, PTL DEF Spec, KeepsPromise, Promise!Spec
=============================================================================
