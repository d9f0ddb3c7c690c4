---------------------------- MODULE StudentRecords ----------------------------
(***************************************************************************)
(* What an institution vouches for in a student's profile, and what is     *)
(* kept of the student's resume: routers/students.py, resume_evidence.py,  *)
(* parse_resume_v2 of routers/ai_experience.py, the profile approvals of   *)
(* routers/enterprise.py and verify_student of routers/institutions.py.    *)
(*                                                                         *)
(* One academic field stands for the ten that a member of an institution   *)
(* may only ask to change.  Requests read and commit later (RowWrites);    *)
(* the coaching and the parsing of a resume ask an AI provider in between, *)
(* which may take minutes.  A resume is replaced by deleting its row and   *)
(* inserting another, so it is known by its id; what is read out of it is  *)
(* its text.  Only the evidence review locks the row.                      *)
(***************************************************************************)
EXTENDS RowWrites, Naturals

CONSTANTS
  Values, NoValue,     \* what the academic field may hold; NULL
  Rows,                \* rows of profile_change_requests
  Texts, NoText,       \* what a resume may say
  Targets, NoTarget,   \* roles, with their checklists, a student may prepare for
  MaxResumes,          \* bound: resumes uploaded
  MaxRecordRequests    \* bound: requests of two steps taken in all

ASSUME StudentRecordsAssumption ==
  /\ NoValue \notin Values /\ NoText \notin Texts /\ NoTarget \notin Targets
  /\ MaxResumes \in Nat /\ MaxRecordRequests \in Nat

VARIABLES
  profile,     \* the field and is_verified, columns of the student's row
  change,      \* rows of profile_change_requests
  resume,      \* the row of resumes: 0 is no row
  uploads,     \* the resumes uploaded so far
  target,      \* target_role with role_requirements
  clerk,       \* what each request in progress has read
  opened       \* how many requests of two steps were taken

recordsVars == <<profile, change, resume, uploads, target, clerk, opened>>

NoRow == [status |-> "none", value |-> NoValue]
NoReview == [text |-> NoText, target |-> NoTarget, coached |-> NoText]
NoResume == [id |-> 0, text |-> NoText, review |-> NoReview, parsed |-> NoText]
FreeClerk == [kind |-> "free", profile |-> [field |-> NoValue, verified |-> FALSE],
              toProfile |-> [field |-> NoValue, verified |-> FALSE],
              row |-> CHOOSE r \in Rows : TRUE, change |-> NoRow, to |-> NoRow,
              resume |-> NoResume, stale |-> FALSE]

Profiles == [field : Values \union {NoValue}, verified : BOOLEAN]
Changes == [status : {"none", "pending", "approved", "rejected"}, value : Values \union {NoValue}]
Reviews == [text : Texts \union {NoText}, target : Targets \union {NoTarget},
            coached : Texts \union {NoText}]
Resumes == [id : 0 .. MaxResumes, text : Texts \union {NoText}, review : Reviews,
            parsed : Texts \union {NoText}]

RecordsTypeOK ==
  /\ profile \in Profiles
  /\ change \in [Rows -> Changes]
  /\ resume \in Resumes
  /\ uploads \in 0 .. MaxResumes
  /\ target \in Targets \union {NoTarget}
  /\ opened \in 0 .. MaxRecordRequests
  /\ clerk \in [Desks -> [kind : {"free", "ask", "verdict", "review", "coach", "coached", "parse"},
                          profile : Profiles, toProfile : Profiles, row : Rows,
                          change : Changes, to : Changes, resume : Resumes, stale : BOOLEAN]]

RecordsInit ==
  /\ profile = [field |-> NoValue, verified |-> FALSE]
  /\ change = [r \in Rows |-> NoRow]
  /\ resume = NoResume
  /\ uploads = 0
  /\ target = NoTarget
  /\ clerk = [d \in Desks |-> FreeClerk]
  /\ opened = 0

Opens(d, request) == /\ opened < MaxRecordRequests
                     /\ opened' = opened + 1
                     /\ clerk[d].kind = "free"
                     /\ clerk' = [clerk EXCEPT ![d] = request]
                     /\ UNCHANGED <<profile, change, resume, uploads, target>>

Closes(d) == clerk' = Cleared(clerk, d, FreeClerk) /\ UNCHANGED opened

Elsewhere == clerk' = Outdated(clerk) /\ UNCHANGED opened

-----------------------------------------------------------------------------
(* The academic field *)

Pending == {r \in Rows : change[r].status = "pending"}
Decided(row) == row.status \in {"approved", "rejected"}

\* update_my_profile: a second wish replaces the value of the pending one.
BeginAsk(d, value, r) ==
  /\ value # profile.field
  /\ IF Pending # {} THEN r \in Pending
     ELSE /\ change[r].status = "none"
          /\ \A e \in Desks : clerk[e].kind = "ask" => clerk[e].row # r
  /\ Opens(d, [FreeClerk EXCEPT !.kind = "ask", !.row = r, !.change = change[r],
                                !.to = [status |-> "pending", value |-> value]])

CommitAsk(d) ==
  /\ clerk[d].kind = "ask"
  /\ change' = [change EXCEPT ![clerk[d].row] = Written(clerk[d].change, clerk[d].to, @)]
  /\ Closes(d)
  /\ UNCHANGED <<profile, resume, uploads, target>>

Verdict(d, r, status) ==
  Opens(d, [FreeClerk EXCEPT
    !.kind = "verdict", !.row = r, !.change = change[r], !.to = [change[r] EXCEPT !.status = status],
    !.profile = profile,
    !.toProfile = IF status = "approved" THEN [field |-> change[r].value, verified |-> TRUE]
                  ELSE profile])

\* Variant: a request that was decided may be decided again.
BeginAnyVerdict(d, r, status) == change[r].status # "none" /\ Verdict(d, r, status)

\* review_profile_change
BeginVerdict(d, r, status) == r \in Pending /\ Verdict(d, r, status)

CommitVerdict(d) ==
  /\ clerk[d].kind = "verdict"
  /\ change' = [change EXCEPT ![clerk[d].row] = Written(clerk[d].change, clerk[d].to, @)]
  /\ profile' = Written(clerk[d].profile, clerk[d].toProfile, profile)
  /\ Closes(d)
  /\ UNCHANGED <<resume, uploads, target>>

\* verify_student overwrites the one column.
VerifyStudent(verified) ==
  /\ profile' = [profile EXCEPT !.verified = verified]
  /\ Elsewhere
  /\ UNCHANGED <<change, resume, uploads, target>>

-----------------------------------------------------------------------------
(* The resume *)

\* Of two uploads that replace one row, the second finds the unique student_id taken.
UploadResume(text) ==
  /\ uploads < MaxResumes
  /\ uploads' = uploads + 1
  /\ resume' = [NoResume EXCEPT !.id = uploads + 1, !.text = text]
  /\ Elsewhere
  /\ UNCHANGED <<profile, change, target>>

SetTarget(to) ==
  /\ target' = to
  /\ Elsewhere
  /\ UNCHANGED <<profile, change, resume, uploads>>

\* The profile is read first, and the target with it.
BeginReview(d) ==
  Opens(d, [FreeClerk EXCEPT !.kind = "review", !.resume.review.target = target])

\* Under the lock of the row, from reading the file to the commit.
CommitReview(d) ==
  /\ clerk[d].kind = "review"
  /\ resume' = IF resume.id = 0 THEN resume
               ELSE [resume EXCEPT !.review = [text |-> resume.text, coached |-> NoText,
                                               target |-> clerk[d].resume.review.target]]
  /\ Closes(d)
  /\ UNCHANGED <<profile, change, uploads, target>>

\* Coaching and parsing: the provider is asked about what was read here.
BeginCoach(d) ==
  /\ resume.review # NoReview
  /\ resume.review.target = target
  /\ Opens(d, [FreeClerk EXCEPT !.kind = "coach", !.resume = resume])

\* Everything is read again and compared.  A resume, text or target that changed
\* is a conflict.
Recheck(d) ==
  /\ clerk[d].kind = "coach"
  /\ LET asked == clerk[d].resume
         same == /\ resume.id = asked.id
                 /\ resume.review # NoReview
                 /\ resume.review.text = asked.review.text
                 /\ resume.review.target = asked.review.target
                 /\ resume.review.target = target
     IN clerk' = [clerk EXCEPT ![d] =
                    IF same THEN [@ EXCEPT !.kind = "coached", !.stale = FALSE,
                                           !.resume = [resume EXCEPT !.review.coached = asked.review.text]]
                    ELSE FreeClerk]
  /\ UNCHANGED <<profile, change, resume, uploads, target, opened>>

\* Updating a row that is gone fails.
CommitCoach(d) ==
  /\ clerk[d].kind = "coached"
  /\ resume' = IF resume.id = clerk[d].resume.id
               THEN [resume EXCEPT !.review = clerk[d].resume.review] ELSE resume
  /\ Closes(d)
  /\ UNCHANGED <<profile, change, uploads, target>>

\* parse_resume_v2
BeginParse(d) ==
  /\ resume.id # 0
  /\ Opens(d, [FreeClerk EXCEPT !.kind = "parse", !.resume = resume])

CommitParse(d) ==
  /\ clerk[d].kind = "parse"
  /\ resume' = IF resume.id = clerk[d].resume.id
               THEN [resume EXCEPT !.parsed = clerk[d].resume.text] ELSE resume
  /\ Closes(d)
  /\ UNCHANGED <<profile, change, uploads, target>>

\* The provider fails or answers nothing usable, or the process dies.
GiveUp(d) ==
  /\ clerk[d].kind # "free"
  /\ clerk' = [clerk EXCEPT ![d] = FreeClerk]
  /\ UNCHANGED <<profile, change, resume, uploads, target, opened>>

ProfileStep ==
  \/ \E d \in Desks :
       \/ \E r \in Rows : \/ \E v \in Values : BeginAsk(d, v, r)
                          \/ \E s \in {"approved", "rejected"} : BeginVerdict(d, r, s)
       \/ CommitAsk(d)
       \/ CommitVerdict(d)
  \/ \E verified \in BOOLEAN : VerifyStudent(verified)

ResumeStep ==
  \/ \E text \in Texts : UploadResume(text)
  \/ \E to \in Targets : SetTarget(to)
  \/ \E d \in Desks : \/ BeginReview(d) \/ CommitReview(d)
                      \/ BeginCoach(d) \/ Recheck(d) \/ CommitCoach(d)
                      \/ BeginParse(d) \/ CommitParse(d)

RecordsNext == ProfileStep \/ ResumeStep \/ \E d \in Desks : GiveUp(d)

-----------------------------------------------------------------------------
(* Properties *)

\* The academic field of a member changes only to the value of a request the institution
\* approves in that step, and a request stays as it was decided; save for a request that
\* was overtaken between its read and its commit (a wish renewed while its first value is
\* being approved, two verdicts at once).
VerdictsDecide ==
  [][\/ OvertakenCommit(clerk, clerk')
     \/ /\ profile'.field # profile.field =>
             \E r \in Rows : /\ ~Decided(change[r]) /\ change'[r].status = "approved"
                             /\ change'[r].value = profile'.field
        /\ \A r \in Rows : Decided(change[r]) => change'[r] = change[r]]_recordsVars

\* What is kept with a resume - review, coaching, parse - was made from that resume,
\* although each of them is made while the resume may be replaced.
KeptIsOfResume ==
  /\ resume.review.text \in {NoText, resume.text}
  /\ resume.review.coached \in {NoText, resume.text}
  /\ resume.parsed \in {NoText, resume.text}

\* A profile and a resume say what their student and its institution settled, although
\* requests, verdicts, reviews and parses of them overlap.
RecordsAgree == []KeptIsOfResume /\ VerdictsDecide
=============================================================================
