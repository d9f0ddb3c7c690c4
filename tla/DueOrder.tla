------------------------------- MODULE DueOrder -------------------------------
(***************************************************************************)
(* The order of the available_at column in a table of jobs, kept as the    *)
(* relation ahead: ahead[j] is the set of the jobs that come before j in   *)
(* ORDER BY available_at, created_at.  Delays are relative to now.         *)
(***************************************************************************)
LOCAL INSTANCE Integers

\* The order after available_at of job e became now + d, where present are the
\* jobs of the table and wait is available_at - now of each.  On a tie the job
\* that was there first keeps its place.
MovedBack(ahead, wait, present, e, d) ==
    [f \in DOMAIN ahead |->
        IF f = e THEN {g \in present \ {e} : wait[g] <= d}
        ELSE IF f \notin present THEN ahead[f]
        ELSE IF wait[f] <= d THEN ahead[f] \ {e}
        ELSE ahead[f] \cup {e}]

\* The jobs of a set that no other job of the set comes before.
FirstOf(ahead, S) == {e \in S : ahead[e] \cap S = {}}
=============================================================================
