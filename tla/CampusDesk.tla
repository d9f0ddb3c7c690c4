------------------------------ MODULE CampusDesk ------------------------------
(***************************************************************************)
(* What a campus keeps for its students beside jobs and offers             *)
(* (routers/enterprise.py, document_vault.py): a document that the student *)
(* submits and withdraws, an announcement that tells each student once,    *)
(* and the stages of a drive.  About one student, one document (a          *)
(* marksheet), one announcement and one drive.  The handlers of documents  *)
(* lock their row until they commit; the others lock nothing.              *)
(***************************************************************************)
EXTENDS RowWrites, Naturals, FiniteSets

CONSTANTS
  DefaultStages,    \* DEFAULT_PIPELINE
  OwnStages,        \* keys of stages that staff add
  NoDesk,
  Horizon,          \* bound: the clock
  MaxCampusRequests \* bound: requests taken in all

ASSUME CampusDeskAssumption ==
  /\ NoDesk \notin Desks /\ IsFiniteSet(DefaultStages) /\ Horizon \in Nat /\ MaxCampusRequests \in Nat

VARIABLES
  hour,          \* the clock
  marksheet,     \* the row of student_documents
  lockedBy,      \* the request that holds its lock
  notice,        \* the row of announcements
  belongs,       \* the student is of its audience
  told,          \* number of notifications of it that the student has
  stages,        \* rows of drive_stages: order_index by key (from 1), or 0
  office,        \* what each request in progress has read
  served,        \* how many requests were taken
  opened,        \* history: what staff were shown of the document, last
  crossed        \* history: what two requests read before either wrote, or staff placed

campusVars == <<hour, marksheet, lockedBy, notice, belongs, told, stages, office, served,
                opened, crossed>>

StageKeys == DefaultStages \union OwnStages
Sheet(semester, shared) == [semester |-> semester, shared |-> shared]
NoNotice == [posted |-> FALSE, from |-> 0, to |-> 0]
FreeOffice == [kind |-> "free", sheet |-> Sheet(FALSE, FALSE), key |-> "none", count |-> 0, stale |-> FALSE]

CampusInit ==
  /\ hour = 0 /\ notice = NoNotice /\ belongs = TRUE /\ told = 0
  /\ marksheet \in {Sheet(FALSE, FALSE), Sheet(TRUE, FALSE)}
  /\ lockedBy = NoDesk
  /\ stages = [k \in StageKeys |-> 0]
  /\ office = [d \in Desks |-> FreeOffice]
  /\ served = 0 /\ opened = Sheet(TRUE, TRUE) /\ crossed = {}

HourPasses ==
  /\ hour < Horizon /\ hour' = hour + 1
  /\ UNCHANGED <<marksheet, lockedBy, notice, belongs, told, stages, office, served, opened, crossed>>

\* The student's branch or year is changed, or the student applies: the audience changes.
AudienceChanges ==
  /\ belongs' = ~belongs
  /\ UNCHANGED <<hour, marksheet, lockedBy, notice, told, stages, office, served, opened, crossed>>

Serve(d, request) ==
  /\ office[d].kind = "free" /\ served < MaxCampusRequests
  /\ served' = served + 1
  /\ office' = [office EXCEPT ![d] = request]
  /\ UNCHANGED <<hour, belongs>>

Leave(d) == office' = Cleared(office, d, FreeOffice) /\ UNCHANGED <<hour, belongs, served>>

-----------------------------------------------------------------------------
(* Documents *)

\* submit_document, update_document_metadata and revoke_document_submission.
BeginPaper(d, kind) ==
  /\ lockedBy = NoDesk /\ lockedBy' = d
  /\ Serve(d, [FreeOffice EXCEPT !.kind = kind, !.sheet = marksheet])
  /\ UNCHANGED <<marksheet, notice, told, stages, opened, crossed>>

\* A marksheet is submitted with its semester, and changed while it is not submitted.
SheetAfter(kind, sheet) ==
  CASE kind = "submit" -> IF sheet.semester THEN {Sheet(TRUE, TRUE)} ELSE {sheet}
    [] kind = "edit" -> IF sheet.shared THEN {sheet} ELSE {Sheet(TRUE, FALSE), Sheet(FALSE, FALSE)}
    [] kind = "withdraw" -> {[sheet EXCEPT !.shared = FALSE]}
    [] OTHER -> {}

CommitPaper(d) ==
  \E new \in SheetAfter(office[d].kind, office[d].sheet) :
    /\ marksheet' = Written(office[d].sheet, new, marksheet)
    /\ lockedBy' = IF lockedBy = d THEN NoDesk ELSE lockedBy
    /\ Leave(d)
    /\ UNCHANGED <<notice, told, stages, opened, crossed>>

\* download_document and the institution's lists: what staff_can_view allows.
OpenPaper ==
  /\ marksheet.shared /\ opened' = marksheet
  /\ UNCHANGED <<hour, marksheet, lockedBy, notice, belongs, told, stages, office, served, crossed>>

-----------------------------------------------------------------------------
(* Announcements *)

IsOn(n) == n.posted /\ n.from <= hour /\ hour < n.to

\* create_announcement: row and notifications are committed at once.
Announce(from, to) ==
  /\ ~notice.posted /\ from < to
  /\ notice' = [posted |-> TRUE, from |-> from, to |-> to]
  /\ told' = IF from <= hour /\ hour < to /\ belongs THEN 1 ELSE 0
  /\ UNCHANGED <<hour, marksheet, lockedBy, belongs, stages, office, served, opened, crossed>>

\* _ensure_announcement_notification
ToldMore(d) == IF office[d].count > 0 THEN 0 ELSE 1

\* list_announcements, by the student.
BeginRead(d) ==
  /\ IsOn(notice) /\ belongs
  /\ Serve(d, [FreeOffice EXCEPT !.kind = "read", !.count = told])
  /\ crossed' = IF \E e \in Desks \ {d} : office[e].kind = "read" THEN crossed \union {"read"} ELSE crossed
  /\ UNCHANGED <<marksheet, lockedBy, notice, told, stages, opened>>

CommitRead(d) ==
  /\ office[d].kind = "read"
  /\ told' = told + ToldMore(d)
  /\ Leave(d)
  /\ UNCHANGED <<marksheet, lockedBy, notice, stages, opened, crossed>>

-----------------------------------------------------------------------------
(* The stages of a drive: positions count from 1, and 0 is no stage *)

Installed == {k \in StageKeys : stages[k] > 0}

\* Any order that DEFAULT_PIPELINE may have.
DefaultOrders ==
  {order \in [DefaultStages -> 1 .. Cardinality(DefaultStages)] :
     \A j, k \in DefaultStages : order[j] = order[k] => j = k}

DefaultOrder == CHOOSE order \in DefaultOrders : TRUE

Meets(d) == \E e \in Desks \ {d} : office[e].kind \in {"install", "add"}

\* install_default_pipeline, for a drive without stages, and add_pipeline_stage for a new
\* key: last, or at a place that staff name ("placed"; the first stands for any).
BeginStages(d, kind, key, placed) ==
  /\ IF kind = "install" THEN Installed = {} ELSE key \notin Installed
  /\ Serve(d, [FreeOffice EXCEPT !.kind = kind, !.key = key,
                                 !.count = IF placed THEN 0 ELSE Cardinality(Installed)])
  /\ crossed' = IF placed \/ Meets(d) THEN crossed \union {"stages"} ELSE crossed
  /\ UNCHANGED <<marksheet, lockedBy, notice, told, stages, opened>>

\* Variant: the position of the last stage, and not the one after it.
AddedAtLast(d) ==
  IF office[d].kind = "install"
  THEN [k \in StageKeys |-> IF k \in DefaultStages THEN DefaultOrder[k] ELSE stages[k]]
  ELSE [stages EXCEPT ![office[d].key] = IF office[d].count > 0 THEN office[d].count ELSE 1]

Added(d) ==
  IF office[d].kind = "install"
  THEN [k \in StageKeys |-> IF k \in DefaultStages THEN DefaultOrder[k] ELSE stages[k]]
  ELSE [stages EXCEPT ![office[d].key] = office[d].count + 1]

\* A key is unique in its drive: a request that meets one fails as a whole.
CommitStages(d) ==
  /\ office[d].kind \in {"install", "add"}
  /\ stages' = IF (IF office[d].kind = "install" THEN DefaultStages ELSE {office[d].key})
                    \intersect Installed = {}
               THEN Added(d) ELSE stages
  /\ Leave(d)
  /\ UNCHANGED <<marksheet, lockedBy, notice, told, opened, crossed>>

-----------------------------------------------------------------------------

CampusNext ==
  \/ HourPasses \/ AudienceChanges \/ OpenPaper
  \/ \E from, to \in 0 .. Horizon : Announce(from, to)
  \/ \E d \in Desks :
       \/ \E kind \in {"submit", "edit", "withdraw"} : BeginPaper(d, kind)
       \/ CommitPaper(d) \/ BeginRead(d) \/ CommitRead(d) \/ CommitStages(d)
       \/ BeginStages(d, "install", "none", FALSE)
       \/ \E key \in StageKeys, placed \in BOOLEAN : BeginStages(d, "add", key, placed)

CampusSpec == CampusInit /\ [][CampusNext]_campusVars

-----------------------------------------------------------------------------
(* Properties *)

\* What a campus shows of its students is as they left it: a marksheet that staff see has
\* its semester, whatever the student was changing meanwhile.  The student is told of an
\* announcement once, and the stages of a drive have places of their own, unless two
\* requests read before either wrote, which no constraint of the database prevents, or
\* staff named a place themselves.
CampusRecordsHold ==
  /\ marksheet.shared => marksheet.semester
  /\ opened.semester
  /\ "read" \notin crossed => told <= 1
  /\ "stages" \notin crossed => \A j, k \in Installed : stages[j] = stages[k] => j = k
=============================================================================
