---------------------------- MODULE CodeReceipts ----------------------------
(* Running the submitted program of an exam against its test cases
   (mock_interview_v2.py) at an execution provider that is slow, from a queue
   worker that may lose its lease or die: the receipts that
   code_execution_checkpoint.py keeps in the interview row let the next
   attempt go on where the last one stopped. *)
EXTENDS Naturals

CONSTANTS
    Cases,          \* the test cases, by the hash of what is executed
    Attempts,       \* worker threads that may hold the exam
    NoAttempt,
    MaxPosts        \* bound on the executions of one case

ASSUME ReceiptsAssumption == NoAttempt \notin Attempts /\ MaxPosts \in Nat \ {0}

VARIABLES
    leaseOf,        \* the attempt whose lease runs, if any
    receipt,        \* per case: the execution saved, 0 for none, and whether its result is
    graded,         \* the interview row has a score
    posts,          \* per case: executions created at the provider
    execution,      \* per case and execution: queued, done or broken
    attempt         \* what each attempt does, and where each of its cases is

receiptsVars == <<leaseOf, receipt, graded, posts, execution, attempt>>

At(step, run) == [step |-> step, run |-> run]
Over == [at |-> "idle", case |-> [c \in Cases |-> At("todo", 0)]]

ReceiptsInit ==
    /\ leaseOf = NoAttempt /\ graded = FALSE
    /\ receipt = [c \in Cases |-> [run |-> 0, result |-> FALSE]]
    /\ posts = [c \in Cases |-> 0]
    /\ execution = [c \in Cases |-> [k \in 1 .. MaxPosts |-> "queued"]]
    /\ attempt = [a \in Attempts |-> Over]

Case(a, c) == attempt[a].case[c]
Running(a, c, step) == attempt[a].at = "run" /\ Case(a, c).step = step

\* The case of an attempt goes to a step with an execution.
Moves(a, c, step, run) ==
    attempt' = [attempt EXCEPT ![a] = [at |-> "run", case |-> [@.case EXCEPT ![c] = At(step, run)]]]

(***************************************************************************)
(* The lease of the queue.  A claim finds it free or run out; one thread per *)
(* claim, so that an attempt that lost its lease never has it again.        *)
(***************************************************************************)
ClaimExam(a) ==
    /\ leaseOf = NoAttempt /\ ~graded /\ attempt[a].at = "idle"
    /\ leaseOf' = a
    /\ attempt' = [attempt EXCEPT ![a] = [Over EXCEPT !.at = "run"]]
    /\ UNCHANGED <<receipt, graded, posts, execution>>

LeaseRunsOut ==
    /\ leaseOf # NoAttempt
    /\ leaseOf' = NoAttempt
    /\ UNCHANGED <<receipt, graded, posts, execution, attempt>>

\* finish() lets go of the lease only while it is this attempt's.
Stops(a) ==
    /\ attempt' = [attempt EXCEPT ![a] = Over]
    /\ leaseOf' = IF leaseOf = a THEN NoAttempt ELSE leaseOf

Dies(a) ==
    /\ attempt[a].at # "idle"
    /\ attempt' = [attempt EXCEPT ![a] = Over]
    /\ UNCHANGED <<leaseOf, receipt, graded, posts, execution>>

(***************************************************************************)
(* _judge0_execute_case, one thread per case.                              *)
(***************************************************************************)
\* checkpoint.get: under the lease, a result is used, an execution is polled.
LookUp(a, c) ==
    /\ Running(a, c, "todo")
    /\ IF leaseOf # a THEN Moves(a, c, "failed", 0)
       ELSE IF receipt[c].result THEN Moves(a, c, "have", receipt[c].run)
       ELSE IF receipt[c].run # 0 THEN Moves(a, c, "poll", receipt[c].run)
       ELSE Moves(a, c, "post", 0)
    /\ UNCHANGED <<leaseOf, receipt, graded, posts, execution>>

(* The provider creates an execution whether or not its answer arrives; the
   lease is not looked at. *)
Post(a, c) ==
    /\ Running(a, c, "post") /\ posts[c] < MaxPosts
    /\ posts' = [posts EXCEPT ![c] = @ + 1]
    /\ \E answered \in BOOLEAN :
          IF answered THEN Moves(a, c, "posted", posts[c] + 1) ELSE Moves(a, c, "failed", 0)
    /\ UNCHANGED <<leaseOf, receipt, graded, execution>>

PostRefused(a, c) ==
    /\ Running(a, c, "post")
    /\ Moves(a, c, "failed", 0)
    /\ UNCHANGED <<leaseOf, receipt, graded, posts, execution>>

\* checkpoint.put: under the lease, and nothing once there is a score.
Put(a, c, result, next) ==
    IF leaseOf = a
    THEN /\ receipt' = IF graded THEN receipt
                       ELSE [receipt EXCEPT ![c] = [run |-> Case(a, c).run, result |-> result]]
         /\ Moves(a, c, next, Case(a, c).run)
    ELSE Moves(a, c, "failed", 0) /\ UNCHANGED receipt

SaveToken(a, c) ==
    /\ Running(a, c, "posted")
    /\ Put(a, c, FALSE, "poll")
    /\ UNCHANGED <<leaseOf, graded, posts, execution>>

(* Eight polls: still queued is CodeExecutionPending; an internal error of
   the provider or of the network is an unavailable service. *)
Poll(a, c) ==
    LET k == Case(a, c).run IN
    /\ Running(a, c, "poll")
    /\ \/ Moves(a, c, CASE execution[c][k] = "queued" -> "failed"
                        [] execution[c][k] = "done" -> "ran"
                        [] execution[c][k] = "broken" -> "failed", k)
       \/ Moves(a, c, "failed", 0)
    /\ UNCHANGED <<leaseOf, receipt, graded, posts, execution>>

SaveResult(a, c) ==
    /\ Running(a, c, "ran")
    /\ Put(a, c, TRUE, "have")
    /\ UNCHANGED <<leaseOf, graded, posts, execution>>

\* The provider works through what it was given, or breaks on it.
Executes(c, k) ==
    /\ k <= posts[c] /\ execution[c][k] = "queued"
    /\ \E end \in {"done", "broken"} : execution' = [execution EXCEPT ![c][k] = end]
    /\ UNCHANGED <<leaseOf, receipt, graded, posts, attempt>>

(***************************************************************************)
(* _run_code_tests waits for all of its threads; _evaluate_saved_answers    *)
(* defers the exam when a case failed, or grades the rest and saves.        *)
(***************************************************************************)
Collect(a) ==
    /\ attempt[a].at = "run"
    /\ \A c \in Cases : Case(a, c).step \in {"have", "failed"}
    /\ IF \A c \in Cases : Case(a, c).step = "have"
       THEN attempt' = [attempt EXCEPT ![a].at = "save"] /\ UNCHANGED leaseOf
       ELSE Stops(a)
    /\ UNCHANGED <<receipt, graded, posts, execution>>

\* Variant: an incomplete evaluation is saved without the receipts.
SaveWithoutReceipts(a) ==
    /\ attempt[a].at = "save"
    /\ IF leaseOf = a
       THEN \E complete \in BOOLEAN :
               /\ graded' = complete
               /\ receipt' = [c \in Cases |-> [run |-> 0, result |-> FALSE]]
       ELSE UNCHANGED <<graded, receipt>>
    /\ Stops(a)
    /\ UNCHANGED <<posts, execution>>

(* Under the lease the row is read again.  A complete evaluation replaces the
   receipts; an incomplete one is saved with them. *)
SaveEvaluation(a) ==
    /\ attempt[a].at = "save"
    /\ IF leaseOf = a
       THEN \E complete \in BOOLEAN :
               /\ graded' = complete
               /\ receipt' = IF complete THEN [c \in Cases |-> [run |-> 0, result |-> FALSE]]
                             ELSE receipt
       ELSE UNCHANGED <<graded, receipt>>
    /\ Stops(a)
    /\ UNCHANGED <<posts, execution>>

ReceiptsNext ==
    \/ LeaseRunsOut
    \/ \E a \in Attempts :
          \/ ClaimExam(a) \/ Dies(a) \/ Collect(a) \/ SaveEvaluation(a)
          \/ \E c \in Cases :
                \/ LookUp(a, c) \/ Post(a, c) \/ PostRefused(a, c)
                \/ SaveToken(a, c) \/ Poll(a, c) \/ SaveResult(a, c)
    \/ \E c \in Cases, k \in 1 .. MaxPosts : Executes(c, k)

ReceiptsSpec == ReceiptsInit /\ [][ReceiptsNext]_receiptsVars

(***************************************************************************)
(* Properties.                                                             *)
(***************************************************************************)
ReceiptsTypeOK ==
    /\ leaseOf \in Attempts \cup {NoAttempt}
    /\ receipt \in [Cases -> [run : 0 .. MaxPosts, result : BOOLEAN]]
    /\ posts \in [Cases -> 0 .. MaxPosts]

(* Work on record is not lost: a case whose execution is on record is posted
   again only by an attempt that has lost its lease.  (One whose POST was not
   answered, or whose token was not saved, is not on record and runs again.)  Until the exam has its score, what is on record stays, a
   result too, however many attempts die, overlap or are deferred; and the
   score comes only after the provider has finished every case, never from one
   that was still queued or broke. *)
ExecutedOnceStep ==
    /\ \A c \in Cases : posts'[c] # posts[c] =>
          \E a \in Attempts : Running(a, c, "post") /\ (receipt[c].run = 0 \/ leaseOf # a)
    /\ \A c \in Cases : receipt[c].run # 0 /\ ~graded' =>
          /\ receipt'[c].run = receipt[c].run
          /\ receipt[c].result => receipt'[c].result
    /\ graded' /\ ~graded =>
          \A c \in Cases : receipt[c].result /\ execution[c][receipt[c].run] = "done"

ExecutedOnce == [][ExecutedOnceStep]_receiptsVars
=============================================================================
