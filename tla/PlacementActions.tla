--------------------------- MODULE PlacementActions ---------------------------
(***************************************************************************)
(* The action list of an institution (product_intelligence.py,             *)
(* routers/product_intelligence.py), about one student, one drive and one  *)
(* interview: a sync turns what is on record into rows, and staff take,    *)
(* resolve, dismiss and reopen them.  Neither locks a row: what it read    *)
(* and means to write is kept at a desk until it commits (RowWrites).      *)
(***************************************************************************)
EXTENDS RowWrites, Naturals, FiniteSets

CONSTANTS
  Situations,        \* what may be on record, see situation
  MaxActionRequests  \* bound: syncs and updates taken in all

Records == [complete : BOOLEAN, resume : BOOLEAN, optedIn : BOOLEAN, verified : BOOLEAN,
            suitable : BOOLEAN, documents : BOOLEAN, applied : BOOLEAN,
            open : BOOLEAN, interview : BOOLEAN, prepared : BOOLEAN]

ASSUME PlacementActionsAssumption ==
  Situations \subseteq Records /\ Situations # {} /\ MaxActionRequests \in Nat

VARIABLES
  situation,     \* student, drive, application and interview
  actionRow,     \* the row of each source key
  centre,        \* what each request in progress has read
  handled        \* how many requests were taken

actionsVars == <<situation, actionRow, centre, handled>>

SourceKeys == {"profile", "resume", "verification", "eligible-not-applied", "requirements", "prep"}

Row(status, owned, closed, outcome) ==
  [status |-> status, owned |-> owned, closed |-> closed, outcome |-> outcome]

NoRow == Row("none", FALSE, FALSE, "none")
OpenStates == {"open", "in_progress"}
Human == {"human_resolved", "human_dismissed"}

FreePlace == [kind |-> "free", keys |-> {}, key |-> "profile", loaded |-> [k \in SourceKeys |-> NoRow],
              to |-> [k \in SourceKeys |-> NoRow], stale |-> FALSE]

ActionsInit ==
  /\ situation \in Situations
  /\ actionRow = [k \in SourceKeys |-> NoRow]
  /\ centre = [d \in Desks |-> FreePlace]
  /\ handled = 0

-----------------------------------------------------------------------------
(* What is on record *)

\* evaluate_drive_eligibility, for a drive with documents among its rules.
Eligible(s) == s.suitable /\ s.documents

\* An open drive of an approved job, registration ahead, for a student who takes part.
Invited(s) == s.open /\ s.optedIn /\ ~s.applied

\* An interview within 72 hours without a recent scored mock for its role.
Unprepared(s) == s.applied /\ s.interview /\ ~s.prepared

ProfileKeys(s) ==
  {k \in {"profile", "resume"} : IF k = "profile" THEN ~s.complete ELSE ~s.resume}

\* One key at most for each drive and student.
DriveKeys(s) ==
  IF ~Invited(s) \/ ~s.suitable THEN {}
  ELSE IF ~Eligible(s) THEN {"requirements"}
  ELSE {IF s.verified THEN "eligible-not-applied" ELSE "verification"}

PrepKeys(s) == IF Unprepared(s) THEN {"prep"} ELSE {}

ActiveKeys(s) == ProfileKeys(s) \union DriveKeys(s) \union PrepKeys(s)

(* student_next_actions: what the student is told, from the same record.  Of
   the profile it asks for more fields than the institution does. *)
NextActions(s) ==
  {k \in SourceKeys :
     CASE k = "profile" -> ~s.complete
       [] k = "resume" -> ~s.resume
       [] k = "verification" -> ~s.verified
       [] k = "eligible-not-applied" -> s.verified /\ Invited(s) /\ Eligible(s)
       [] k = "prep" -> Unprepared(s)
       [] OTHER -> FALSE}

\* Students, staff and time: anything may come to be on record instead.
Change(s) ==
  /\ situation' = s
  /\ centre' = Outdated(centre)
  /\ UNCHANGED <<actionRow, handled>>

-----------------------------------------------------------------------------
(* sync_placement_actions *)

TakesUp(d, request) ==
  /\ handled < MaxActionRequests /\ handled' = handled + 1
  /\ centre[d].kind = "free"
  /\ centre' = [centre EXCEPT ![d] = request]
  /\ UNCHANGED <<situation, actionRow>>

\* _upsert_action looks its row up at once: a row that is open is refreshed (its
\* texts, which are no part of the model), a closed one is left alone.
Upserted(row) == IF row = NoRow THEN Row("open", FALSE, FALSE, "none") ELSE row

BeginSync(d) ==
  LET active == ActiveKeys(situation) IN
  TakesUp(d, [FreePlace EXCEPT !.kind = "sync", !.keys = active, !.loaded = actionRow,
              !.to = [k \in SourceKeys |-> IF k \in active THEN Upserted(actionRow[k])
                                           ELSE actionRow[k]]])

ClearedRow(row) == Row("resolved", row.owned, TRUE, "condition_cleared")

\* The rows of other keys are read when all conditions were gone through.
ReadOpen(d) ==
  LET desk == centre[d]
      late == {k \in SourceKeys \ desk.keys : actionRow[k].status \in OpenStates} IN
  /\ desk.kind = "sync"
  /\ centre' = [centre EXCEPT ![d] =
        [desk EXCEPT !.kind = "clear",
                     !.loaded = [k \in SourceKeys |-> IF k \in desk.keys THEN @[k] ELSE actionRow[k]],
                     !.to = [k \in SourceKeys |-> IF k \in late THEN ClearedRow(actionRow[k])
                                                  ELSE IF k \in desk.keys THEN @[k] ELSE actionRow[k]]]]
  /\ UNCHANGED <<situation, actionRow, handled>>

\* Two requests that both found no row: the key is unique, and the second fails whole.
Twice(d) == \E k \in SourceKeys : centre[d].loaded[k] = NoRow /\ centre[d].to[k] # NoRow /\ actionRow[k] # NoRow

CommitsRows(d) ==
  /\ actionRow' = [k \in SourceKeys |-> Written(centre[d].loaded[k], centre[d].to[k], actionRow[k])]
  /\ centre' = Cleared(centre, d, FreePlace)
  /\ UNCHANGED <<situation, handled>>

CommitSync(d) == centre[d].kind = "clear" /\ ~Twice(d) /\ CommitsRows(d)

FailSync(d) ==
  /\ centre[d].kind = "clear" /\ Twice(d)
  /\ centre' = [centre EXCEPT ![d] = FreePlace]
  /\ UNCHANGED <<situation, actionRow, handled>>

-----------------------------------------------------------------------------
(* update_action *)

\* Variant: taking an action up again forgets neither its end nor its outcome.
UpdatedKeepingEnd(row, status) ==
  CASE status = "in_progress" -> Row(status, TRUE, row.closed, row.outcome)
    [] status = "resolved" -> Row(status, TRUE, TRUE, "human_resolved")
    [] status = "dismissed" -> Row(status, TRUE, TRUE, "human_dismissed")
    [] status = "open" -> Row(status, row.owned, FALSE, "none")

Updated(row, status) ==
  CASE status = "in_progress" -> Row(status, TRUE, FALSE, "none")
    [] status = "resolved" -> Row(status, TRUE, TRUE, "human_resolved")
    [] status = "dismissed" -> Row(status, TRUE, TRUE, "human_dismissed")
    [] status = "open" -> Row(status, row.owned, FALSE, "none")

BeginActionUpdate(d, k, status) ==
  /\ actionRow[k] # NoRow
  /\ TakesUp(d, [FreePlace EXCEPT !.kind = "update", !.key = k, !.loaded = actionRow,
                 !.to = [actionRow EXCEPT ![k] = Updated(actionRow[k], status)]])

CommitActionUpdate(d) == centre[d].kind = "update" /\ CommitsRows(d)

-----------------------------------------------------------------------------

ActionsNext ==
  \/ \E s \in Situations \ {situation} : Change(s)
  \/ \E d \in Desks :
       \/ BeginSync(d) \/ ReadOpen(d) \/ CommitSync(d) \/ FailSync(d) \/ CommitActionUpdate(d)
       \/ \E k \in SourceKeys, status \in OpenStates \union {"resolved", "dismissed"} :
            BeginActionUpdate(d, k, status)

ActionsSpec == ActionsInit /\ [][ActionsNext]_actionsVars

-----------------------------------------------------------------------------
(* Properties *)

ActionsTypeOK ==
  /\ situation \in Situations
  /\ \A k \in SourceKeys : actionRow[k].status \in {"none", "resolved", "dismissed"} \union OpenStates
  /\ handled \in 0 .. MaxActionRequests

\* Whether a row is closed, by its status, its time and its outcome, is one answer.
Told(row) == (row.status \in {"resolved", "dismissed"}) = row.closed /\ row.closed = (row.outcome # "none")

\* The student is told to apply, or to prepare, exactly when the institution's list would
\* have it.
AdvisedAlike ==
  situation.verified =>
    \A k \in {"eligible-not-applied", "prep"} : k \in NextActions(situation) <=> k \in ActiveKeys(situation)

\* A request that nothing overtook leaves rows that say one thing; its sync leaves open
\* what holds and was open or new, and nothing that does not hold.
RecordIsListedStep ==
  \A d \in Desks : centre[d].kind # "free" /\ centre'[d].kind = "free" /\ ~centre[d].stale =>
    /\ \A k \in SourceKeys : Told(actionRow[k]) => Told(actionRow'[k])
    /\ CommitSync(d) => \A k \in SourceKeys :
          actionRow'[k].status \in OpenStates <=>
             k \in ActiveKeys(situation) /\ actionRow[k].status \in OpenStates \union {"none"}

RecordIsListed == [][RecordIsListedStep]_actionsVars

\* What a person resolved or dismissed no sync ever opens or recasts, overtaken or not, but
\* for one that read it while it was open.
PeopleDecideStep ==
  \A k \in SourceKeys : actionRow'[k] # actionRow[k] /\ actionRow[k].outcome \in Human =>
    \A d \in Desks : CommitSync(d) => centre[d].loaded[k].status \in OpenStates

PeopleDecide == [][PeopleDecideStep]_actionsVars

\* The list follows the record, and people keep the last word.
ListFollowsRecord == []AdvisedAlike /\ RecordIsListed /\ PeopleDecide
=============================================================================
