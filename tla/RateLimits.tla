------------------------------ MODULE RateLimits ------------------------------
(***************************************************************************)
(* One bucket of the durable rate limiter, rate_limit.py: the key of an    *)
(* account, an address or a budget of ai_rate_limit.py, limited to Limit   *)
(* requests in a window and then blocked.                                  *)
(*                                                                         *)
(* A request reads the clock, and then waits for the lock of the bucket's  *)
(* row, so that requests decide by clocks that are older than the ones the *)
(* row was last written by.  When there is no row to lock, two first       *)
(* requests insert it and one of them fails; it goes on to count in the    *)
(* row of the other.                                                       *)
(***************************************************************************)
EXTENDS Naturals, FiniteSets

CONSTANTS
  Callers,         \* requests under way at once
  Limit,           \* requests in a window
  WindowLength, BlockLength,
  MaxWait,         \* bound: how long a request may wait between its clock and the row
  LastTick         \* bound: when the clock stops

ASSUME RateLimitsAssumption ==
  /\ Limit \in Nat \ {0} /\ WindowLength \in Nat \ {0} /\ BlockLength \in Nat
  /\ MaxWait \in 0 .. WindowLength /\ LastTick \in Nat

NoBucket == [start |-> 0, count |-> 0, blockedUntil |-> 0]

VARIABLES
  clock,
  bucket,        \* the row of rate_limit_buckets; count 0 is no row
  caller,        \* where each request is, and the clock it read
  admissions     \* the requests that were let through, see Admits

limitsVars == <<clock, bucket, caller, admissions>>

LimitsTypeOK ==
  /\ clock \in 0 .. LastTick
  /\ bucket \in [start : 0 .. LastTick, count : Nat, blockedUntil : 0 .. LastTick + BlockLength]
  /\ caller \in [Callers -> [at : {"away", "waiting", "inserting", "counting"},
                             sample : 0 .. LastTick]]
  /\ admissions \subseteq [nth : Nat, at : 0 .. LastTick, start : 0 .. LastTick, count : Nat]

LimitsInit ==
  /\ clock = 0
  /\ bucket = NoBucket
  /\ caller = [c \in Callers |-> [at |-> "away", sample |-> 0]]
  /\ admissions = {}

Moves(c, to) == caller' = [caller EXCEPT ![c].at = to]
Leaves(c) == caller' = [caller EXCEPT ![c] = [at |-> "away", sample |-> 0]]
\* Each with a number of its own, the time it was let through, and what it left in the row.
Admits(c) ==
  /\ admissions' = admissions \union {[nth |-> Cardinality(admissions) + 1, at |-> clock,
                                       start |-> bucket'.start, count |-> bucket'.count]}
  /\ Leaves(c)
Refuses(c) == UNCHANGED admissions /\ Leaves(c)

Blocked(sample) == bucket.blockedUntil > sample

\* The clock is read before the row is locked.
Arrive(c) ==
  /\ caller[c].at = "away"
  /\ caller' = [caller EXCEPT ![c] = [at |-> "waiting", sample |-> clock]]
  /\ UNCHANGED <<clock, bucket, admissions>>

Refuse(c) ==
  /\ caller[c].at = "waiting"
  /\ bucket.count > 0 /\ Blocked(caller[c].sample)
  /\ Refuses(c)
  /\ UNCHANGED <<clock, bucket>>

FindNone(c) ==
  /\ caller[c].at = "waiting"
  /\ bucket.count = 0
  /\ Moves(c, "inserting")
  /\ UNCHANGED <<clock, bucket, admissions>>

\* Variant: a request that lost the race for the row takes it for its own and goes through.
InsertUncounted(c) ==
  /\ caller[c].at = "inserting"
  /\ IF bucket.count = 0
     THEN bucket' = [start |-> caller[c].sample, count |-> 1, blockedUntil |-> 0]
     ELSE UNCHANGED bucket
  /\ Admits(c)
  /\ UNCHANGED clock

Insert(c) ==
  /\ caller[c].at = "inserting"
  /\ IF bucket.count = 0
     THEN /\ bucket' = [start |-> caller[c].sample, count |-> 1, blockedUntil |-> 0]
          /\ Admits(c)
     ELSE /\ Moves(c, "counting")
          /\ UNCHANGED <<bucket, admissions>>
  /\ UNCHANGED clock

\* Under the lock; a request whose insert failed does not look at the block again.
Count(c) ==
  /\ \/ caller[c].at = "waiting" /\ bucket.count > 0 /\ ~Blocked(caller[c].sample)
     \/ caller[c].at = "counting"
  /\ LET s == caller[c].sample
         over == s >= bucket.start + WindowLength
     IN IF over
        THEN bucket' = [start |-> s, count |-> 1, blockedUntil |-> 0] /\ Admits(c)
        ELSE LET count == bucket.count + 1
             IN IF count > Limit
                THEN /\ bucket' = [bucket EXCEPT !.count = count, !.blockedUntil = s + BlockLength]
                     /\ Refuses(c)
                ELSE bucket' = [bucket EXCEPT !.count = count] /\ Admits(c)
  /\ UNCHANGED clock

\* No request waits for longer than MaxWait, which is no longer than a window.
Pass ==
  /\ clock < LastTick
  /\ \A c \in Callers : caller[c].at # "away" => clock < caller[c].sample + MaxWait
  /\ clock' = clock + 1
  /\ UNCHANGED <<bucket, caller, admissions>>

LimitsNext ==
  \/ \E c \in Callers : Arrive(c) \/ Refuse(c) \/ FindNone(c) \/ Insert(c) \/ Count(c)
  \/ Pass

-----------------------------------------------------------------------------
(* Properties *)

AdmittedIn(from, to) == Cardinality({a \in admissions : a.at \in from .. to})

\* However requests overlap, wait and race for the row (rate_limit.enforce_rate_limit), no
\* window lets more through than its limit, the one that lost the insert included.
WindowKept ==
  \A start \in 0 .. LastTick : Cardinality({a \in admissions : a.start = start}) <= Limit

\* A stretch of time as long as a window sees fewer than three windows' worth: two windows
\* may meet in it, and of a third there are at most those that decided by clocks read
\* before a wait; but then the first request of that one is not among them.
StretchKept ==
  \A t \in 0 .. LastTick : t + WindowLength - 1 <= LastTick =>
    AdmittedIn(t, t + WindowLength - 1) < 3 * Limit

BudgetKept == WindowKept /\ StretchKept
=============================================================================
