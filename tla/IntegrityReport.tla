-------------------------- MODULE IntegrityReport --------------------------
(* The integrity report of an exam (mock_interview_v2.py): signals recorded
   one by one while the exam runs, and the browser's own list, with what it
   could not deliver, handed in with the answers. *)
EXTENDS Integers, SequencesExt, FiniteSets, FiniteSetsExt

CONSTANTS
    Signals,        \* events: [id, warning (0 for none), auto]
    Browser,        \* lists a browser may hand in
    Cap,            \* events a report keeps
    MaxSignals      \* bound on the signals recorded

ASSUME IntegrityAssumption ==
    /\ \A e \in Signals : e.warning \in Nat /\ e.auto \in BOOLEAN
    /\ \A list \in Browser :
          /\ list \in Seq(ToSet(list))
          /\ \A e \in ToSet(list) : e.warning \in Nat /\ e.auto \in BOOLEAN
    /\ {Cap, MaxSignals} \subseteq Nat

VARIABLES
    recorded,       \* audit events of the exam, oldest first
    report,         \* of the last evaluation
    counted         \* the audit events that evaluation read

integrityVars == <<recorded, report, counted>>

NoReport == [events |-> <<>>, warnings |-> 0, auto |-> FALSE, status |-> "none"]

IntegrityInit == recorded = <<>> /\ report = NoReport /\ counted = <<>>

\* record_integrity_event: at any time, again too.
Signal(e) ==
    /\ Len(recorded) < MaxSignals
    /\ recorded' = Append(recorded, e)
    /\ UNCHANGED <<report, counted>>

\* Each event once, where it came first.
Once(events) ==
    LET kept[n \in 0 .. Len(events)] ==
            IF n = 0 THEN <<>>
            ELSE IF events[n] \in ToSet(kept[n - 1]) THEN kept[n - 1]
            ELSE Append(kept[n - 1], events[n])
    IN  kept[Len(events)]
Newest(events) == SubSeq(events, IF Len(events) > Cap THEN Len(events) - Cap + 1 ELSE 1, Len(events))

\* Variant: the browser's list stands for the audit events it is sent with.
MergedFromBrowser(server, list) == Newest(Once(IF list = <<>> THEN server ELSE list))

Merged(server, list) == Newest(Once(server \o list))

Numbers(events) == {e.warning : e \in {x \in ToSet(events) : x.warning > 0}}

\* The numbered warnings count; the browser's own count only where there is no event at all.
Warnings(events, claimed) ==
    LET n == IF Numbers(events) # {} THEN Max(Numbers(events))
             ELSE IF events # <<>> THEN 0 ELSE claimed
    IN  IF n < 4 THEN n ELSE 4

\* _reconcile_integrity_events and the report made of it.
Evaluate(list, claimed, ended) ==
    LET events == Merged(recorded, list)
        warnings == Warnings(events, claimed)
        auto == ended \/ warnings >= 4 \/ \E e \in ToSet(events) : e.auto
    IN  /\ report' = [events |-> events, warnings |-> warnings, auto |-> auto,
                      status |-> IF auto THEN "auto_submitted_review_required"
                                 ELSE IF events # <<>> THEN "review_required" ELSE "clear"]
        /\ counted' = recorded
        /\ UNCHANGED recorded

IntegrityNext ==
    \/ \E e \in Signals : Signal(e)
    \/ \E list \in Browser, claimed \in {0, 5}, ended \in BOOLEAN : Evaluate(list, claimed, ended)

IntegritySpec == IntegrityInit /\ [][IntegrityNext]_integrityVars

(***************************************************************************)
(* Properties.                                                             *)
(***************************************************************************)
Overflows == Len(report.events) = Cap

(* Whatever list the browser hands in, with copies, gaps or claims of its own:
   what the server recorded is in the report and counts there, and a report is
   clear only when nothing was recorded.  Only a report that is full may have
   let the oldest go. *)
EvidenceCounts ==
    report.status # "none" /\ ~Overflows =>
        /\ ToSet(counted) \subseteq ToSet(report.events)
        /\ \A e \in ToSet(counted) :
              /\ report.warnings >= (IF e.warning < 4 THEN e.warning ELSE 4)
              /\ e.auto \/ e.warning >= 4 => report.auto
        /\ report.status = "clear" => counted = <<>>
=============================================================================
