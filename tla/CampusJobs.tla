------------------------------ MODULE CampusJobs ------------------------------
(***************************************************************************)
(* One job listing of one recruiter, the placement drive the institution   *)
(* of one student runs for it, and the student's application:              *)
(* routers/jobs.py, routers/institution_secure.py, placement_access.py and *)
(* apply_to_job of routers/students.py (what becomes of an application is  *)
(* in Offers.tla).                                                         *)
(*                                                                         *)
(* No handler locks the listing.  Each reads what it decides on, and       *)
(* commits later: two actions here, with what it read and means to write   *)
(* kept at its desk.  Only what it changes is written (RowWrites).  A      *)
(* handler that overwrites one row whatever it holds is one action.        *)
(* The text of a listing is a member of Contents; whether the student      *)
(* meets the rules of the drive and the policies of the institution are    *)
(* facts that change by themselves (Offers.tla has the policies).          *)
(***************************************************************************)
EXTENDS RowWrites, Naturals

CONSTANTS
  Campuses, Home,    \* institutions; the student's
  NoCampus,          \* NULL
  Contents, NoContent,   \* what a listing may say; nothing yet
  Deadlines, NoDeadline, \* the moments a deadline may name; NULL
  Candidates,        \* what the student may be like, see candidate
  MaxJobRequests     \* bound: requests taken in all

ASSUME CampusJobsAssumption ==
  /\ Home \in Campuses
  /\ NoCampus \notin Campuses
  /\ NoContent \notin Contents
  /\ NoDeadline \notin Deadlines
  /\ Candidates \subseteq [verified : BOOLEAN, suitable : BOOLEAN, allowed : BOOLEAN]
  /\ MaxJobRequests \in Nat

VARIABLES
  listing,       \* the row of jobs
  reviewed,      \* what an approval was last given for, see Shown
  drive,         \* the row of placement_drives at Home
  passed,        \* the deadlines that are past
  candidate,     \* the student, as the checks see them
  applied,       \* the student has a row of applications
  desk,          \* what each request in progress has read
  taken          \* how many requests were taken

jobsVars == <<listing, reviewed, drive, passed, candidate, applied, desk, taken>>

Listings == [visibility : {"none", "public", "campus"}, campus : Campuses \union {NoCampus},
             approval : {"pending", "approved", "rejected"}, active : BOOLEAN,
             content : Contents \union {NoContent}, deadline : Deadlines \union {NoDeadline}]
\* "closed" stands for draft and completed too: nobody asks more than whether it is open.
DriveRows == [status : {"none", "open", "closed"}, deadline : Deadlines \union {NoDeadline}]
Reviews == [campus : Campuses \union {NoCampus}, content : Contents \union {NoContent},
            deadline : Deadlines \union {NoDeadline}]

NoListing == [visibility |-> "none", campus |-> NoCampus, approval |-> "pending",
              active |-> FALSE, content |-> NoContent, deadline |-> NoDeadline]
NoDrive == [status |-> "none", deadline |-> NoDeadline]
FreeDesk == [kind |-> "free", listing |-> NoListing, to |-> NoListing, drive |-> NoDrive,
             toDrive |-> NoDrive, stale |-> FALSE]

JobsTypeOK ==
  /\ listing \in Listings
  /\ reviewed \in Reviews
  /\ drive \in DriveRows
  /\ passed \subseteq Deadlines
  /\ candidate \in Candidates
  /\ applied \in BOOLEAN
  /\ taken \in 0 .. MaxJobRequests
  /\ desk \in [Desks -> [kind : {"free", "edit", "approve", "apply", "drive"},
                         listing : Listings, to : Listings, drive : DriveRows,
                         toDrive : DriveRows, stale : BOOLEAN]]

JobsInit ==
  /\ listing = NoListing
  /\ reviewed = [campus |-> NoCampus, content |-> NoContent, deadline |-> NoDeadline]
  /\ drive = NoDrive
  /\ passed = {}
  /\ candidate \in Candidates
  /\ applied = FALSE
  /\ desk = [d \in Desks |-> FreeDesk]
  /\ taken = 0

-----------------------------------------------------------------------------
(* What the checks ask *)

\* No deadline never passes.
HasPassed(deadline) == deadline \in passed

JobIsAvailable(l) == l.active /\ l.approval = "approved" /\ ~HasPassed(l.deadline)

DriveIsAvailable ==
  /\ candidate.verified
  /\ drive.status = "open" /\ ~HasPassed(drive.deadline)
  /\ JobIsAvailable(listing)
  /\ listing.visibility = "campus" /\ listing.campus = Home

JobIsVisible ==
  /\ JobIsAvailable(listing)
  /\ listing.visibility = "public" \/ DriveIsAvailable

MayApply ==
  /\ JobIsVisible
  /\ listing.visibility = "campus" => candidate.suitable
  /\ candidate.allowed
  /\ ~applied

-----------------------------------------------------------------------------
(* Desks *)

Takes(d, request) == /\ taken < MaxJobRequests
                     /\ taken' = taken + 1
                     /\ desk[d].kind = "free"
                     /\ desk' = [desk EXCEPT ![d] = request]

\* A commit: d is free again, and the others now work with what they read before it.
Commits(d) == /\ desk' = Cleared(desk, d, FreeDesk)
              /\ UNCHANGED taken

\* The same, of a request that read and wrote under one lock or of something outside.
Disturbs == /\ desk' = Outdated(desk)
            /\ UNCHANGED taken

-----------------------------------------------------------------------------
(* The recruiter's listing *)

CreateJob(visibility, campus, content, deadline) ==
  /\ listing.visibility = "none"
  /\ ~HasPassed(deadline)
  /\ listing' = [visibility |-> visibility,
                 campus |-> IF visibility = "campus" THEN campus ELSE NoCampus,
                 approval |-> IF visibility = "campus" THEN "pending" ELSE "approved",
                 active |-> visibility # "campus", content |-> content,
                 deadline |-> deadline]
  /\ Disturbs
  /\ UNCHANGED <<reviewed, drive, passed, candidate, applied>>

\* Variant: a new deadline is not a material change.
EditedUnnoticed(l, visibility, target, content, deadline, wanted) ==
  LET campus == IF visibility = "campus" THEN target ELSE NoCampus
      material == visibility # l.visibility \/ campus # l.campus \/ content # l.content
      Asked(default) == IF wanted = {} THEN default ELSE TRUE \in wanted
  IN [visibility |-> visibility, campus |-> campus, content |-> content, deadline |-> deadline,
      approval |-> CASE visibility = "public" -> "approved"
                     [] material -> "pending"
                     [] OTHER -> l.approval,
      active |-> CASE visibility = "public" -> Asked(visibility # l.visibility \/ l.active)
                   [] material \/ l.approval # "approved" -> FALSE
                   [] OTHER -> Asked(l.active)]

\* What update_job makes of the listing it read; wanted holds the is_active it was sent, if
\* any (FALSE is BeginArchive's).  A deadline is as material as the text, and may be past.
Edited(l, visibility, target, content, deadline, wanted) ==
  LET campus == IF visibility = "campus" THEN target ELSE NoCampus
      material == visibility # l.visibility \/ campus # l.campus
                  \/ content # l.content \/ deadline # l.deadline
      Asked(default) == IF wanted = {} THEN default ELSE TRUE \in wanted
  IN [visibility |-> visibility, campus |-> campus, content |-> content, deadline |-> deadline,
      approval |-> CASE visibility = "public" -> "approved"
                     [] material -> "pending"
                     [] OTHER -> l.approval,
      active |-> CASE visibility = "public" -> Asked(visibility # l.visibility \/ l.active)
                   [] material \/ l.approval # "approved" -> FALSE
                   [] OTHER -> Asked(l.active)]

BeginEdit(d, visibility, target, content, deadline, wanted) ==
  /\ listing.visibility # "none"
  /\ visibility = "campus" => target # NoCampus
  /\ Takes(d, [FreeDesk EXCEPT !.kind = "edit", !.listing = listing,
                               !.to = Edited(listing, visibility, target, content, deadline, wanted)])
  /\ UNCHANGED <<listing, reviewed, drive, passed, candidate, applied>>

\* delete_job keeps the row.
BeginArchive(d) ==
  /\ listing.visibility # "none"
  /\ Takes(d, [FreeDesk EXCEPT !.kind = "edit", !.listing = listing,
                               !.to = [listing EXCEPT !.active = FALSE]])
  /\ UNCHANGED <<listing, reviewed, drive, passed, candidate, applied>>

CommitEdit(d) ==
  /\ desk[d].kind = "edit"
  /\ listing' = Written(desk[d].listing, desk[d].to, listing)
  /\ Commits(d)
  /\ UNCHANGED <<reviewed, drive, passed, candidate, applied>>

-----------------------------------------------------------------------------
(* The institution's approval and its drive *)

\* What an approval is given for.
Shown(l) == [campus |-> l.campus, content |-> l.content, deadline |-> l.deadline]

BeginApproval(d, verdict) ==
  /\ listing.visibility = "campus"
  /\ verdict = "approved" => ~HasPassed(listing.deadline)
  /\ Takes(d, [FreeDesk EXCEPT !.kind = "approve", !.listing = listing,
                               !.to = [listing EXCEPT !.approval = verdict,
                                                      !.active = verdict = "approved"]])
  /\ UNCHANGED <<listing, reviewed, drive, passed, candidate, applied>>

CommitApproval(d) ==
  /\ desk[d].kind = "approve"
  /\ listing' = Written(desk[d].listing, desk[d].to, listing)
  /\ reviewed' = IF desk[d].to.approval = "approved"
                 THEN Shown(desk[d].listing)
                 ELSE reviewed
  /\ Commits(d)
  /\ UNCHANGED <<drive, passed, candidate, applied>>

\* create_drive wants a listing it could open a drive for, update_drive only when the
\* drive is to be open.
MayHost == JobIsAvailable(listing) /\ listing.visibility = "campus" /\ listing.campus = Home

BeginDrive(d, status, deadline) ==
  /\ drive.status = "none" => MayHost
  /\ status = "open" => MayHost /\ ~HasPassed(deadline)
  /\ Takes(d, [FreeDesk EXCEPT !.kind = "drive", !.drive = drive,
                               !.toDrive = [status |-> status, deadline |-> deadline]])
  /\ UNCHANGED <<listing, reviewed, drive, passed, candidate, applied>>

CommitDrive(d) ==
  /\ desk[d].kind = "drive"
  /\ drive' = Written(desk[d].drive, desk[d].toDrive, drive)
  /\ Commits(d)
  /\ UNCHANGED <<listing, reviewed, passed, candidate, applied>>

-----------------------------------------------------------------------------
(* The student's application *)

BeginApply(d) ==
  /\ MayApply
  /\ Takes(d, [FreeDesk EXCEPT !.kind = "apply"])
  /\ UNCHANGED <<listing, reviewed, drive, passed, candidate, applied>>

\* Of two requests, the unique (student, job) lets one in; the other fails.
CommitApply(d) ==
  /\ desk[d].kind = "apply"
  /\ applied' = TRUE
  /\ Commits(d)
  /\ UNCHANGED <<listing, reviewed, drive, passed, candidate>>

-----------------------------------------------------------------------------
(* What happens around it *)

\* verify_student, a new profile or placement status, the policies and the offers.
CandidateChanges(to) ==
  /\ candidate' = to
  /\ Disturbs
  /\ UNCHANGED <<listing, reviewed, drive, passed, applied>>

DeadlinePasses ==
  /\ \E t \in Deadlines \ passed : passed' = passed \union {t}
  /\ listing.visibility # "none"
  /\ Disturbs
  /\ UNCHANGED <<listing, reviewed, drive, candidate, applied>>

ListingStep ==
  \/ \E v \in {"public", "campus"}, o \in Campuses, c \in Contents,
        t \in Deadlines \union {NoDeadline} : CreateJob(v, o, c, t)
  \/ \E d \in Desks :
       \/ \E v \in {"public", "campus"}, o \in Campuses, c \in Contents,
             t \in Deadlines \union {NoDeadline},
             wanted \in {{}, {TRUE}} : BeginEdit(d, v, o, c, t, wanted)
       \/ BeginArchive(d)
       \/ CommitEdit(d)

InstitutionStep ==
  \E d \in Desks :
    \/ \E verdict \in {"pending", "approved", "rejected"} : BeginApproval(d, verdict)
    \/ CommitApproval(d)
    \/ \E s \in {"open", "closed"}, t \in Deadlines \union {NoDeadline} : BeginDrive(d, s, t)
    \/ CommitDrive(d)

ApplicationStep ==
  \E d \in Desks : BeginApply(d) \/ CommitApply(d)

JobsNext ==
  \/ ListingStep
  \/ InstitutionStep
  \/ ApplicationStep
  \/ \E to \in Candidates : CandidateChanges(to)
  \/ DeadlinePasses

-----------------------------------------------------------------------------
(* Properties *)

Approved(l) == l.visibility = "campus" /\ l.approval = "approved"

Unreviewed == Approved(listing) /\ Shown(listing) # reviewed

\* The commits that nothing stops: of an edit that read no approved campus listing, so did
\* not ask for approval again (or takes public listings to need none), over what became one;
\* and of an approval given for what the listing no longer says.
Unaware(d) ==
  /\ desk'[d].kind = "free"
  /\ \/ /\ desk[d].kind = "edit"
        /\ ~Approved(desk[d].listing)
        /\ listing # desk[d].listing
     \/ /\ desk[d].kind = "approve"
        /\ desk[d].to.approval = "approved"
        /\ Shown(listing) # Shown(desk[d].listing)

AppliesLate(d) == desk[d].kind = "apply" /\ desk[d].stale /\ desk'[d].kind = "free"

\* What students are shown of a campus listing is the text and the deadline that its
\* institution approved, for the institution that approved it: a recruiter's change takes
\* the listing off until it is approved again (jobs.update_job,
\* institution_secure.approve_job).  Of the requests that were overtaken between their read
\* and their commit, two kinds evade that and no other: an edit that had read the listing
\* before it was approved, and an approval of what was edited since.
ShownIsReviewed == [][Unreviewed' => Unreviewed \/ \E d \in Desks : Unaware(d)]_jobsVars

\* An application comes in only while the student may apply: the listing is on show, its
\* drive open and in time, rules and policies met; the checks of apply_to_job are not
\* repeated at its commit, so only an application that was itself overtaken escapes them.
AppliedWhileOpen ==
  [][~applied /\ applied' => MayApply \/ \E d \in Desks : AppliesLate(d)]_jobsVars

\* A campus keeps control of its listings: no overlap of edits, approvals, drives and
\* applications evades it, but for the commits named above.
CampusInControl == ShownIsReviewed /\ AppliedWhileOpen
=============================================================================
