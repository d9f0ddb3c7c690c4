---------------------------- MODULE AccessRequests ----------------------------
(***************************************************************************)
(* How a recruiter who asks for access gets an account: the requests of    *)
(* one work address, their reviews by the platform and by the institution, *)
(* and the account made from an approved one, whose password is set        *)
(* through a link sent by mail: routers/access.py,                         *)
(* routers/institution_access.py, routers/platform.py and what             *)
(* routers/institutions.py and routers/auth.py do to such an account.      *)
(*                                                                         *)
(* No handler locks the request; each reads, and commits later             *)
(* (RowWrites).  Provisioning commits the account, sends the mail without  *)
(* a transaction, and then commits the outcome.                            *)
(***************************************************************************)
EXTENDS RowWrites, Naturals

CONSTANTS
  AccessRows,          \* rows of access_requests for this address
  Links, NoLink,       \* setup and reset tokens; NULL
  MaxAccessRequests    \* bound: requests of several steps taken in all

ASSUME AccessRequestsAssumption ==
  /\ NoLink \notin Links
  /\ MaxAccessRequests \in Nat

ManualStatuses == {"new", "under_review", "approved", "rejected"}
ActiveStatuses == {"new", "under_review", "approved", "provisioned"}

VARIABLES
  access,       \* access_requests.status, "none" before the row is there
  account,      \* the account of the address
  mailed,       \* links that were sent
  post,         \* what each request in progress has read and done
  begun         \* how many requests of several steps were taken

accessVars == <<access, account, mailed, post, begun>>

NoAccount == [role |-> "none", trusted |-> FALSE, link |-> NoLink, usable |-> FALSE]
FreePost == [kind |-> "free", row |-> CHOOSE r \in AccessRows : TRUE, status |-> "none",
             account |-> NoAccount, to |-> NoAccount, stale |-> FALSE]

AccountRows == [role : {"none", "recruiter", "other"}, trusted : BOOLEAN,
                link : Links \union {NoLink}, usable : BOOLEAN]

AccessTypeOK ==
  /\ access \in [AccessRows -> ActiveStatuses \union ManualStatuses \union {"none"}]
  /\ account \in AccountRows
  /\ mailed \subseteq Links
  /\ begun \in 0 .. MaxAccessRequests
  /\ post \in [Desks -> [kind : {"free", "create", "review", "provision", "mail", "reset"},
                         row : AccessRows, status : ManualStatuses \union {"none", "provisioned"},
                         account : AccountRows, to : AccountRows, stale : BOOLEAN]]

AccessInit ==
  /\ access = [r \in AccessRows |-> "none"]
  /\ account = NoAccount
  /\ mailed = {}
  /\ post = [d \in Desks |-> FreePost]
  /\ begun = 0

Receives(d, request) == /\ begun < MaxAccessRequests
                        /\ begun' = begun + 1
                        /\ post[d].kind = "free"
                        /\ post' = [post EXCEPT ![d] = request]
                        /\ UNCHANGED <<access, account, mailed>>

Ends(d) == post' = Cleared(post, d, FreePost) /\ UNCHANGED begun

NewLink == {l \in Links : /\ l \notin mailed /\ l # account.link
                          /\ \A d \in Desks : l # post[d].to.link /\ l # post[d].account.link}

-----------------------------------------------------------------------------
(* Requests and reviews *)

\* The answer is the same whether a row is inserted or not.
BeginCreate(d, r) ==
  /\ access[r] = "none"
  /\ \A e \in Desks : post[e].kind = "create" => post[e].row # r
  /\ \A q \in AccessRows : access[q] \notin ActiveStatuses
  /\ Receives(d, [FreePost EXCEPT !.kind = "create", !.row = r])

CommitCreate(d) ==
  /\ post[d].kind = "create"
  /\ access' = [access EXCEPT ![post[d].row] = "new"]
  /\ Ends(d)
  /\ UNCHANGED <<account, mailed>>

\* review_access_request and review_institution_access_request: any status of
\* ensure_manual_access_status over any other.  A review writes what it read no part of,
\* but is not written when it changes nothing of what it read.
BeginReviewing(d, r, status) ==
  /\ access[r] \notin {"none", status}
  /\ Receives(d, [FreePost EXCEPT !.kind = "review", !.row = r, !.status = status])

CommitReviewing(d) ==
  /\ post[d].kind = "review"
  /\ access' = [access EXCEPT ![post[d].row] = post[d].status]
  /\ Ends(d)
  /\ UNCHANGED <<account, mailed>>

-----------------------------------------------------------------------------
(* provision_recruiter_from_access_request *)

BeginProvision(d, r) ==
  /\ access[r] \in {"approved", "provisioned"}
  /\ account.role # "other"
  /\ \E l \in NewLink :
       Receives(d, [FreePost EXCEPT
         !.kind = "provision", !.row = r, !.account = account,
         !.to = [role |-> "recruiter", trusted |-> TRUE, link |-> l, usable |-> account.usable]])

Restated(d, status, now) == IF post[d].status \in {status, "provisioned"} THEN now ELSE status

\* Variant: provisioned as soon as there is an account.
CommitAccountAsProvisioned(d) ==
  /\ post[d].kind = "provision"
  /\ IF post[d].account.role = "none" /\ account.role # "none"
     THEN Ends(d) /\ UNCHANGED <<account, access>>
     ELSE /\ account' = Written(post[d].account, post[d].to, account)
          /\ access' = [access EXCEPT ![post[d].row] = "provisioned"]
          /\ post' = [Outdated(post) EXCEPT ![d].kind = "mail", ![d].stale = FALSE,
                                                     ![d].status = access[post[d].row]]
          /\ UNCHANGED begun
  /\ UNCHANGED mailed

\* An account another request made meanwhile is a conflict; a row that is there already
\* is updated.
CommitAccount(d) ==
  /\ post[d].kind = "provision"
  /\ IF post[d].account.role = "none" /\ account.role # "none"
     THEN Ends(d) /\ UNCHANGED account
     ELSE /\ account' = Written(post[d].account, post[d].to, account)
          /\ post' = [Outdated(post) EXCEPT ![d].kind = "mail", ![d].stale = FALSE,
                                                     ![d].status = access[post[d].row]]
          /\ UNCHANGED begun
  /\ UNCHANGED <<access, mailed>>

\* The status a reviewer has set since the account was committed is overwritten, unless
\* the request said provisioned already: a column that keeps its loaded value is not written.
MailSetup(d) ==
  /\ post[d].kind = "mail"
  /\ mailed' = mailed \union {post[d].to.link}
  /\ access' = [access EXCEPT ![post[d].row] = Restated(d, "provisioned", @)]
  /\ Ends(d)
  /\ UNCHANGED account

\* The link on the account is taken back, were it another's.
SetupMailFails(d) ==
  /\ post[d].kind = "mail"
  /\ account' = [account EXCEPT !.link = NoLink]
  /\ access' = [access EXCEPT ![post[d].row] = Restated(d, "approved", @)]
  /\ Ends(d)
  /\ UNCHANGED mailed

-----------------------------------------------------------------------------
(* What else happens to the account *)

\* create_student, import_students_csv and the administrators' own provisioning refuse
\* an address that is taken, by a check or by its unique index.
ProvisionDirectly(role) ==
  /\ account.role = "none"
  /\ account' = [role |-> role, trusted |-> role = "recruiter", link |-> NoLink, usable |-> TRUE]
  /\ post' = Outdated(post)
  /\ UNCHANGED <<access, mailed, begun>>

\* forgot_password commits the link before its mail; the mail arrives, or the link
\* before it comes back (Accounts.tla).
AskReset(d) ==
  /\ account.role # "none"
  /\ begun < MaxAccessRequests
  /\ begun' = begun + 1
  /\ post[d].kind = "free"
  /\ \E l \in NewLink :
       /\ account' = [account EXCEPT !.link = l]
       /\ post' = [Outdated(post) EXCEPT
            ![d] = [FreePost EXCEPT !.kind = "reset", !.account.link = account.link, !.to.link = l]]
  /\ UNCHANGED <<access, mailed>>

ResetMailed(d, sent) ==
  /\ post[d].kind = "reset"
  /\ mailed' = IF sent THEN mailed \union {post[d].to.link} ELSE mailed
  /\ account' = IF ~sent /\ account.link = post[d].to.link
                THEN [account EXCEPT !.link = post[d].account.link] ELSE account
  /\ Ends(d)
  /\ UNCHANGED access

\* reset_password
UseLink(l) ==
  /\ l \in mailed /\ account.link = l
  /\ account' = [account EXCEPT !.link = NoLink, !.usable = TRUE]
  /\ post' = Outdated(post)
  /\ UNCHANGED <<access, mailed, begun>>

Die(d) ==
  /\ post[d].kind # "free"
  /\ post' = [post EXCEPT ![d] = FreePost]
  /\ UNCHANGED <<access, account, mailed, begun>>

AccessNext ==
  \/ \E d \in Desks :
       \/ \E r \in AccessRows :
            \/ BeginCreate(d, r)
            \/ \E s \in ManualStatuses : BeginReviewing(d, r, s)
            \/ BeginProvision(d, r)
       \/ CommitCreate(d) \/ CommitReviewing(d) \/ CommitAccount(d)
       \/ MailSetup(d) \/ SetupMailFails(d)
       \/ AskReset(d) \/ \E sent \in BOOLEAN : ResetMailed(d, sent)
       \/ Die(d)
  \/ \E role \in {"recruiter", "other"} : ProvisionDirectly(role)
  \/ \E l \in Links : UseLink(l)

-----------------------------------------------------------------------------
(* Properties *)

\* A request says provisioned only when there is a recruiter's account for it, trusted,
\* and a link to set its password was sent, wherever provisioning was interrupted and
\* whoever reviewed the request meanwhile: reviewers cannot set that status
\* (ensure_manual_access_status), and the workflow sets it after its mail.
ProvisionedIsReal ==
  \A r \in AccessRows :
    access[r] = "provisioned" => account.role = "recruiter" /\ account.trusted /\ mailed # {}
=============================================================================
