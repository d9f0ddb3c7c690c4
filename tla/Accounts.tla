------------------------------ MODULE Accounts ------------------------------
(***************************************************************************)
(* One account of PlaceAI and everything that signs somebody in to it:     *)
(* routers/auth.py (signup, login, refresh, logout, forgotten password),   *)
(* auth_protection.py (e-mail verification, authenticator), the password   *)
(* change of routers/account_security_secure.py, google_login.py and the   *)
(* check dependencies.get_current_user makes of every access token.        *)
(*                                                                         *)
(* The row of users is read by most handlers without a lock, and used      *)
(* after other transactions have committed: such a handler is two or three *)
(* actions here, with what it read kept in op[r].  A handler that locks    *)
(* the user before it reads is one action.  Mail is sent after the commit  *)
(* by a background task that puts the previous link back when it fails.    *)
(* Links, challenges and jtis are fresh values; a code is a TOTP step or a *)
(* recovery code.  Settings are those of production.  Nothing obliges      *)
(* anybody to present a link, a challenge or an enrolment, so one that has *)
(* expired is one that is not presented any more.                          *)
(***************************************************************************)
EXTENDS Naturals, FiniteSets

CONSTANTS
  Requests,      \* requests being handled
  Passwords,     \* passwords people choose
  Random,        \* a password nobody knows
  NoPassword,    \* signed in by something else than a password
  ResetLinks, EmailLinks, Challenges,    \* random one-time tokens
  NoLink,        \* NULL
  Jtis,          \* refresh-session identifiers
  Steps,         \* TOTP counters: 0 .. n
  Recovery,      \* recovery codes of one enrolment
  Hosted,        \* Google is the authority for this mailbox
  Student,       \* the account's role is student
  MaxVersion,    \* bound: auth_version
  MaxSecrets     \* bound: authenticator enrolments

ASSUME AccountsAssumption ==
  /\ Random \notin Passwords
  /\ NoPassword \notin Passwords \union {Random}
  /\ NoLink \notin ResetLinks \union EmailLinks \union Challenges
  /\ Hosted \in BOOLEAN /\ Student \in BOOLEAN
  /\ MaxVersion \in Nat \ {0} /\ MaxSecrets \in Nat
  /\ Steps \subseteq Nat

VARIABLES
  user,         \* the row of users
  protection,   \* the row of account_protection
  google,       \* google_identities, link codes mailed
  sessions,     \* refresh_sessions, and who was let in by each
  uses,         \* history: how often each link or code was accepted
  mayReturn,    \* history: reset links used while a request for another had read them
  op            \* what each request in progress has read

vars == <<user, protection, google, sessions, uses, mayReturn, op>>

Links == ResetLinks \union EmailLinks \union Challenges
Codes == Steps \union Recovery
Secrets == 1 .. MaxSecrets
Versions == 1 .. MaxVersion
Known == Passwords \union {Random, NoPassword}

\* A random value is good for one purpose.
ASSUME TokensApart ==
  /\ ResetLinks \intersect EmailLinks = {} /\ Steps \intersect Recovery = {}
  /\ (ResetLinks \union EmailLinks \union {NoLink}) \intersect (Secrets \X Codes) = {}

Absent == [exists |-> FALSE, version |-> 1, password |-> Random, verified |-> FALSE,
           mustChange |-> FALSE, reset |-> NoLink]
Unprotected == [required |-> FALSE, email |-> NoLink, mfa |-> FALSE, pending |-> FALSE,
                secret |-> 0, counter |-> 0, recovery |-> {},
                challenge |-> NoLink, challengeVersion |-> 1]
Unissued == [issued |-> FALSE, revoked |-> FALSE, version |-> 1, proof |-> 1,
             knew |-> NoPassword, factor |-> FALSE, overtaken |-> FALSE, from |-> NoLink]
Idle == [stage |-> "idle", version |-> 1, knew |-> NoPassword, jti |-> NoLink,
         link |-> NoLink, previous |-> NoLink]

TypeOK ==
  /\ user \in [exists : BOOLEAN, version : Versions, password : Passwords \union {Random},
               verified : BOOLEAN, mustChange : BOOLEAN, reset : ResetLinks \union {NoLink}]
  /\ protection \in [required : BOOLEAN, email : EmailLinks \union {NoLink}, mfa : BOOLEAN,
                     pending : BOOLEAN, secret : 0 .. MaxSecrets,
                     counter : {0} \union {s + 1 : s \in Steps}, recovery : SUBSET Recovery,
                     challenge : Challenges \union {NoLink}, challengeVersion : Versions]
  /\ google \in [linked : BOOLEAN, mailed : SUBSET Versions]
  /\ sessions \in [Jtis -> [issued : BOOLEAN, revoked : BOOLEAN, version : Versions,
                            proof : Versions, knew : Known, factor : BOOLEAN, overtaken : BOOLEAN,
                            from : Jtis \union {NoLink}]]
  /\ uses \in [Links \union (Secrets \X Codes) -> Nat]
  /\ mayReturn \subseteq ResetLinks
  /\ op \in [Requests -> [stage : {"idle", "signup", "deliver", "mailing", "login", "google",
                                   "refresh",
                                   "change", "rotated", "forgot", "resetting"},
                          version : Versions, knew : Known, jti : Jtis \union {NoLink},
                          link : Links \union {NoLink}, previous : Links \union {NoLink}]]

\* No account yet, or one an administrator provisioned with a temporary password.
Init ==
  /\ user \in {Absent} \union
       {[Absent EXCEPT !.exists = TRUE, !.password = p, !.mustChange = TRUE] : p \in Passwords}
  /\ protection = Unprotected
  /\ google = [linked |-> FALSE, mailed |-> {}]
  /\ sessions = [j \in Jtis |-> Unissued]
  /\ uses = [u \in Links \union (Secrets \X Codes) |-> 0]
  /\ mayReturn = {}
  /\ op = [r \in Requests |-> Idle]

-----------------------------------------------------------------------------
(* Helpers *)

Done(r) == op' = [op EXCEPT ![r] = Idle]

\* A link or code is a fresh random value: nobody has used it, nothing holds it.
Minted(l) ==
  \/ l \in {user.reset, protection.email, protection.challenge}
  \/ uses[l] > 0
  \/ \E r \in Requests : l \in {op[r].link, op[r].previous}

Accepted(u) == uses' = [uses EXCEPT ![u] = @ + 1]

\* A session's row, as _token_response adds it; proof, knew, factor and overtaken are
\* kept here only: the version and the password in force when its holder proved who
\* they were, whether a second factor was given, and whether it goes back to a password
\* change that another revocation overtook.  from is the session it was rotated from.
Grant(version, proof, knew, factor, overtaken) ==
  [issued |-> TRUE, revoked |-> FALSE, version |-> version, proof |-> proof,
   knew |-> knew, factor |-> factor, overtaken |-> overtaken, from |-> NoLink]

Revoked == [j \in Jtis |-> [sessions[j] EXCEPT !.revoked = sessions[j].issued]]

Unused == {j \in Jtis : ~sessions[j].issued}

Blocked == protection.required /\ ~user.verified

\* The access token issued beside j passes get_current_user; Workspace is what it
\* asks of every path but /auth/me, security-status and change-password.
Access(j) == /\ user.exists
             /\ sessions[j].issued
             /\ sessions[j].version = user.version
Workspace(j) == Access(j) /\ ~Blocked /\ ~user.mustChange

Bump == user.version < MaxVersion

-----------------------------------------------------------------------------
(* Registration and verification of the mailbox *)

\* The e-mail was free when it was read; a signup for a taken one is a resend.
BeginSignup(r, p) ==
  /\ op[r].stage = "idle"
  /\ ~user.exists
  /\ op' = [op EXCEPT ![r] = [Idle EXCEPT !.stage = "signup", !.knew = p]]
  /\ UNCHANGED <<user, protection, google, sessions, uses>>

\* The unique e-mail decides between two signups; the loser only sends a link.
CommitSignup(r) ==
  /\ op[r].stage = "signup"
  /\ IF user.exists
     THEN UNCHANGED <<user, protection>>
     ELSE /\ user' = [user EXCEPT !.exists = TRUE, !.password = op[r].knew]
          /\ protection' = [protection EXCEPT !.required = TRUE]
  /\ op' = [op EXCEPT ![r] = [Idle EXCEPT !.stage = "deliver"]]
  /\ UNCHANGED <<google, sessions, uses>>

\* deliver_verification, from a signup or a resend: user and row are locked.
DeliverVerification(r, l) ==
  /\ op[r].stage \in {"idle", "deliver"}
  /\ user.exists
  /\ ~user.verified
  /\ ~Minted(l)
  /\ protection' = [protection EXCEPT !.email = l]
  /\ op' = [op EXCEPT ![r] = [Idle EXCEPT !.stage = "mailing", !.link = l,
                                          !.previous = protection.email]]
  /\ UNCHANGED <<user, google, sessions, uses>>

SkipVerification(r) ==
  /\ op[r].stage = "deliver"
  /\ user.verified
  /\ Done(r)
  /\ UNCHANGED <<user, protection, google, sessions, uses>>

\* The mail failed: the previous link comes back unless the row moved on.
VerificationFailed(r) ==
  /\ op[r].stage = "mailing"
  /\ protection' = IF protection.email = op[r].link
                   THEN [protection EXCEPT !.email = op[r].previous] ELSE protection
  /\ Done(r)
  /\ UNCHANGED <<user, google, sessions, uses>>

MailSent(r) ==
  /\ op[r].stage \in {"mailing", "resetting"}
  /\ Done(r)
  /\ UNCHANGED <<user, protection, google, sessions, uses>>

ConfirmEmail(l) ==
  /\ user.exists
  /\ l = protection.email
  /\ user' = [user EXCEPT !.verified = TRUE]
  /\ protection' = [protection EXCEPT !.required = FALSE, !.email = NoLink]
  /\ Accepted(l)
  /\ UNCHANGED <<google, sessions, op>>

-----------------------------------------------------------------------------
(* Sessions *)

\* _authenticate reads the user without a lock and checks the password.
BeginLogin(r, p) ==
  /\ op[r].stage = "idle"
  /\ user.exists
  /\ user.password = p
  /\ ~Blocked
  /\ op' = [op EXCEPT ![r] = [Idle EXCEPT !.stage = "login", !.version = user.version,
                                          !.knew = p]]
  /\ UNCHANGED <<user, protection, google, sessions, uses>>

\* Variant: the version is read again when the session is written.
SignInAfresh(version, knew, row, base) ==
  \/ /\ row.mfa
     /\ \E l \in Challenges :
          /\ ~Minted(l)
          /\ protection' = [row EXCEPT !.challenge = l, !.challengeVersion = user'.version]
     /\ sessions' = base
  \/ /\ ~row.mfa
     /\ \E j \in Unused :
          sessions' = [base EXCEPT ![j] = Grant(user'.version, version, knew, FALSE, FALSE)]
     /\ protection' = row

\* _token_response without a second factor: a challenge when an authenticator is
\* enrolled, else a session; both carry the version the handler read.
SignIn(version, knew, row, base) ==
  \/ /\ row.mfa
     /\ \E l \in Challenges :
          /\ ~Minted(l)
          /\ protection' = [row EXCEPT !.challenge = l, !.challengeVersion = version]
     /\ sessions' = base
  \/ /\ ~row.mfa
     /\ \E j \in Unused :
          sessions' = [base EXCEPT ![j] = Grant(version, version, knew, FALSE, FALSE)]
     /\ protection' = row

CommitLogin(r) ==
  /\ op[r].stage = "login"
  /\ UNCHANGED user
  /\ SignIn(op[r].version, op[r].knew, protection, sessions)
  /\ Done(r)
  /\ UNCHANGED <<google, uses>>

BeginRefresh(r, j) ==
  /\ op[r].stage = "idle"
  /\ Access(j)
  /\ op' = [op EXCEPT ![r] = [Idle EXCEPT !.stage = "refresh", !.version = user.version,
                                          !.jti = j]]
  /\ UNCHANGED <<user, protection, google, sessions, uses>>

\* Variant: the row of the session is not read again under its lock.
CommitRefreshUnchecked(r, j) ==
  /\ op[r].stage = "refresh"
  /\ j \in Unused
  /\ sessions' = [sessions EXCEPT ![op[r].jti].revoked = TRUE,
       ![j] = [sessions[op[r].jti] EXCEPT !.from = op[r].jti, !.revoked = FALSE]]
  /\ Done(r)
  /\ UNCHANGED <<user, protection, google, uses>>

\* The session's row is locked; the user is the one read before.
CommitRefresh(r, j) ==
  /\ op[r].stage = "refresh"
  /\ ~sessions[op[r].jti].revoked
  /\ sessions[op[r].jti].version = op[r].version
  /\ j \in Unused
  /\ sessions' = [sessions EXCEPT ![op[r].jti].revoked = TRUE,
       ![j] = [sessions[op[r].jti] EXCEPT !.from = op[r].jti, !.revoked = FALSE]]
  /\ Done(r)
  /\ UNCHANGED <<user, protection, google, uses>>

RejectRefresh(r) ==
  /\ op[r].stage = "refresh"
  /\ sessions[op[r].jti].revoked
  /\ Done(r)
  /\ UNCHANGED <<user, protection, google, sessions, uses>>

\* logout, by the cookie of an unrevoked session of any version or by a bearer token
\* of the current one.
Logout(j) ==
  /\ sessions[j].issued
  /\ ~sessions[j].revoked \/ sessions[j].version = user.version
  /\ Bump
  /\ user' = [user EXCEPT !.version = @ + 1]
  /\ sessions' = Revoked
  /\ protection' = [protection EXCEPT !.challenge = NoLink]
  /\ UNCHANGED <<google, uses, op>>

-----------------------------------------------------------------------------
(* Password change: the lock is released before the new session is issued *)

BeginChange(r, j, p) ==
  /\ op[r].stage = "idle"
  /\ Access(j)
  /\ op' = [op EXCEPT ![r] = [Idle EXCEPT !.stage = "change", !.version = user.version,
                                          !.knew = p]]
  /\ UNCHANGED <<user, protection, google, sessions, uses>>

CommitChange(r, p) ==
  /\ op[r].stage = "change"
  /\ user.password = op[r].knew
  /\ Bump
  /\ p # user.password
  /\ user' = [user EXCEPT !.password = p, !.mustChange = FALSE, !.reset = NoLink,
                          !.version = @ + 1]
  /\ sessions' = Revoked
  /\ op' = [op EXCEPT ![r] = [Idle EXCEPT !.stage = "rotated", !.version = user.version + 1,
                                          !.knew = p]]
  /\ UNCHANGED <<protection, google, uses>>

RejectChange(r) ==
  /\ op[r].stage = "change"
  /\ user.password # op[r].knew
  /\ Done(r)
  /\ UNCHANGED <<user, protection, google, sessions, uses>>

\* A second transaction: refresh(locked_user), the challenge cleared, a session of the
\* version the row has now, which may be that of a revocation after the change.
IssueChanged(r, j) ==
  /\ op[r].stage = "rotated"
  /\ j \in Unused
  /\ protection' = [protection EXCEPT !.challenge = NoLink]
  /\ sessions' = [sessions EXCEPT ![j] =
       Grant(user.version, op[r].version, op[r].knew, TRUE, user.version # op[r].version)]
  /\ Done(r)
  /\ UNCHANGED <<user, google, uses>>

-----------------------------------------------------------------------------
(* Forgotten password *)

BeginForgot(r) ==
  /\ op[r].stage = "idle"
  /\ user.exists
  /\ op' = [op EXCEPT ![r] = [Idle EXCEPT !.stage = "forgot", !.previous = user.reset]]
  /\ UNCHANGED <<user, protection, google, sessions, uses>>

CommitForgot(r, l) ==
  /\ op[r].stage = "forgot"
  /\ ~Minted(l)
  /\ user' = [user EXCEPT !.reset = l]
  /\ op' = [op EXCEPT ![r].stage = "resetting", ![r].link = l]
  /\ UNCHANGED <<protection, google, sessions, uses>>

\* The previous link is put back unless the account has another by now; nothing is
\* asked of the link itself, which may have been used since the request read it.
ResetMailFailed(r) ==
  /\ op[r].stage = "resetting"
  /\ user' = IF user.reset = op[r].link THEN [user EXCEPT !.reset = op[r].previous] ELSE user
  /\ Done(r)
  /\ UNCHANGED <<protection, google, sessions, uses>>

\* Some request for a new link has l as the one to put back.
InHand(l) == \E r \in Requests : op[r].stage \in {"forgot", "resetting"} /\ op[r].previous = l

\* Variant: the link is not taken out of the row.
ResetKeepsLink(l, p) ==
  /\ user.exists
  /\ l = user.reset
  /\ Bump
  /\ user' = [user EXCEPT !.password = p, !.mustChange = FALSE, !.verified = TRUE,
                          !.version = @ + 1]
  /\ protection' = [protection EXCEPT !.required = FALSE, !.challenge = NoLink, !.email = NoLink]
  /\ sessions' = Revoked
  /\ Accepted(l)
  /\ mayReturn' = IF InHand(l) THEN mayReturn \union {l} ELSE mayReturn
  /\ UNCHANGED <<google, op>>

\* reset_password: the user is found by the link, and locked.
Reset(l, p) ==
  /\ user.exists
  /\ l = user.reset
  /\ Bump
  /\ user' = [user EXCEPT !.password = p, !.mustChange = FALSE, !.verified = TRUE,
                          !.reset = NoLink, !.version = @ + 1]
  /\ protection' = [protection EXCEPT !.required = FALSE, !.challenge = NoLink, !.email = NoLink]
  /\ sessions' = Revoked
  /\ Accepted(l)
  /\ mayReturn' = IF InHand(l) THEN mayReturn \union {l} ELSE mayReturn
  /\ UNCHANGED <<google, op>>

-----------------------------------------------------------------------------
(* Authenticator.  Every operation locks the user and checks the version. *)

Enroll(j, p) ==
  /\ Workspace(j)
  /\ user.password = p
  /\ ~protection.mfa
  /\ user.verified
  /\ protection.secret < MaxSecrets
  /\ protection' = [protection EXCEPT !.pending = TRUE, !.secret = @ + 1]
  /\ UNCHANGED <<user, google, sessions, uses, op>>

\* consume_factor with a TOTP code: only a step after the last one is accepted.
StepTaken(row, c) ==
  /\ c \in Steps
  /\ c + 1 > row.counter
  /\ protection' = [row EXCEPT !.counter = c + 1]

RecoveryTaken(row, c) ==
  /\ c \in row.recovery
  /\ protection' = [row EXCEPT !.recovery = @ \ {c}]

Consumed(row, c) ==
  /\ StepTaken(row, c) \/ RecoveryTaken(row, c)
  /\ Accepted(<<protection.secret, c>>)

\* The pending secret becomes the authenticator, every session ends, one begins.
ConfirmMfa(j, k, c) ==
  /\ Workspace(j)
  /\ ~protection.mfa
  /\ protection.pending
  /\ Bump
  /\ k \in Unused
  /\ StepTaken([protection EXCEPT !.mfa = TRUE, !.pending = FALSE, !.recovery = Recovery,
                                  !.challenge = NoLink], c)
  /\ Accepted(<<protection.secret, c>>)
  /\ user' = [user EXCEPT !.version = @ + 1]
  /\ sessions' = [Revoked EXCEPT ![k] =
       Grant(user.version + 1, user.version + 1, sessions[j].knew, TRUE, sessions[j].overtaken)]
  /\ UNCHANGED <<google, op>>

Verify(l, k, c) ==
  /\ user.exists
  /\ l = protection.challenge
  /\ protection.challengeVersion = user.version
  /\ k \in Unused
  /\ Consumed([protection EXCEPT !.challenge = NoLink], c)
  /\ sessions' = [sessions EXCEPT ![k] =
       Grant(user.version, protection.challengeVersion, NoPassword, TRUE, FALSE)]
  /\ UNCHANGED <<user, google, op>>

DisableMfa(j, k, p, c) ==
  /\ Workspace(j)
  /\ user.password = p
  /\ protection.mfa
  /\ Bump
  /\ k \in Unused
  /\ c \in protection.recovery \/ (c \in Steps /\ c + 1 > protection.counter)
  /\ protection' = [protection EXCEPT !.mfa = FALSE, !.pending = FALSE, !.recovery = {},
                                      !.counter = 0, !.challenge = NoLink]
  /\ Accepted(<<protection.secret, c>>)
  /\ user' = [user EXCEPT !.version = @ + 1]
  /\ sessions' = [Revoked EXCEPT ![k] =
       Grant(user.version + 1, user.version + 1, p, TRUE, FALSE)]
  /\ UNCHANGED <<google, op>>

-----------------------------------------------------------------------------
(* Google *)

\* An identity already linked: the user is read without a lock.
BeginGoogle(r) ==
  /\ op[r].stage = "idle"
  /\ user.exists /\ google.linked
  /\ op' = [op EXCEPT ![r] = [Idle EXCEPT !.stage = "google", !.version = user.version]]
  /\ UNCHANGED <<user, protection, google, sessions, uses>>

CommitGoogle(r) ==
  /\ op[r].stage = "google"
  /\ user' = [user EXCEPT !.verified = TRUE]
  /\ SignIn(op[r].version, NoPassword, protection, sessions)
  /\ Done(r)
  /\ UNCHANGED <<google, uses>>

\* The first sign-in of a mailbox without an account.
GoogleSignup ==
  /\ ~user.exists
  /\ user' = [user EXCEPT !.exists = TRUE, !.verified = TRUE]
  /\ google' = [google EXCEPT !.linked = TRUE]
  /\ SignIn(user.version, NoPassword, protection, sessions)
  /\ UNCHANGED <<uses, op>>

NeedsCode == ~Hosted \/ (~user.verified /\ ~Student)

\* _confirm_email_link without a code: one bound to the account's version is mailed.
MailLinkCode ==
  /\ user.exists /\ ~google.linked /\ NeedsCode
  /\ google' = [google EXCEPT !.mailed = {user.version}]
  /\ UNCHANGED <<user, protection, sessions, uses, op>>

\* Linking an existing account under the lock of its row; a code claimed or left over
\* is of no use to a linked account.
MayLink ==
  /\ user.exists /\ ~google.linked
  /\ NeedsCode => user.version \in google.mailed
  /\ google' = [linked |-> TRUE, mailed |-> {}]

GoogleLink ==
  /\ MayLink
  /\ user.verified \/ ~Student
  /\ user' = [user EXCEPT !.verified = TRUE]
  /\ SignIn(user.version, NoPassword, protection, sessions)
  /\ UNCHANGED <<uses, op>>

\* _reclaim_unverified_student: the local credentials are replaced first.
GoogleReclaim ==
  /\ MayLink
  /\ ~user.verified /\ Student
  /\ Bump
  /\ user' = [user EXCEPT !.verified = TRUE, !.password = Random, !.mustChange = FALSE,
                          !.reset = NoLink, !.version = @ + 1]
  /\ SignIn(user.version + 1, NoPassword,
            [protection EXCEPT !.email = NoLink, !.required = FALSE, !.pending = FALSE,
                               !.challenge = NoLink],
            Revoked)
  /\ UNCHANGED <<uses, op>>

-----------------------------------------------------------------------------
\* Everything but the use of a reset link.
Others ==
  \/ \E r \in Requests, p \in Passwords : BeginSignup(r, p) \/ BeginLogin(r, p) \/ CommitChange(r, p)
  \/ \E r \in Requests :
       \/ CommitSignup(r) \/ SkipVerification(r) \/ VerificationFailed(r) \/ MailSent(r)
       \/ CommitLogin(r) \/ RejectRefresh(r) \/ RejectChange(r) \/ BeginForgot(r) \/ ResetMailFailed(r)
       \/ \E l \in EmailLinks : DeliverVerification(r, l)
       \/ \E l \in ResetLinks : CommitForgot(r, l)
       \/ \E j \in Jtis : \/ BeginRefresh(r, j) \/ CommitRefresh(r, j)
                          \/ IssueChanged(r, j)
                          \/ \E p \in Passwords : BeginChange(r, j, p)
       \/ BeginGoogle(r) \/ CommitGoogle(r)
  \/ GoogleSignup \/ GoogleLink \/ GoogleReclaim
  \/ \E l \in EmailLinks : ConfirmEmail(l)
  \/ \E j \in Jtis : Logout(j) \/ \E p \in Passwords : Enroll(j, p)
  \/ \E j, k \in Jtis, c \in Codes :
       ConfirmMfa(j, k, c) \/ \E p \in Passwords : DisableMfa(j, k, p, c)
  \/ \E l \in Challenges, k \in Jtis, c \in Codes : Verify(l, k, c)
  \/ MailLinkCode

Next ==
  \/ Others /\ UNCHANGED mayReturn
  \/ \E l \in ResetLinks, p \in Passwords : Reset(l, p)

Spec == Init /\ [][Next]_vars

-----------------------------------------------------------------------------
(* Properties *)

Live(j) == Access(j)

\* Whoever holds a session that is still accepted proved themselves under the version
\* now in force, with the password now in force if it was by password, and with a
\* second factor if one is enrolled: no login, refresh, challenge or Google sign-in
\* that read the account before a revocation outlives it.  The session of a password change
\* is one of them, although it is issued in a second transaction, unless another revocation
\* came between the two: then it has the version of that one (IssueChanged), and it and what
\* it is rotated or enrolled into are left out.
LiveIsProven ==
  \A j \in Jtis : Live(j) /\ ~sessions[j].overtaken =>
    /\ sessions[j].proof = user.version
    /\ sessions[j].knew \in {user.password, NoPassword}
    /\ protection.mfa => sessions[j].factor

\* A refresh token is rotated once, however many requests present it together.
RotatedOnce ==
  \A j, k \in Jtis : sessions[j].from = sessions[k].from /\ j # k => sessions[j].from = NoLink

\* A verification link, a TOTP step and a recovery code are accepted once, whatever
\* restores, re-enrolments and concurrent requests do.  So is a reset link, however many
\* requests issue, replace and put back links, except one that was used while a request
\* for a new link had already read it: forgot_password reads the link without a lock, and
\* puts it back, good for another use, when its own mail fails.
UsedOnce ==
  /\ \A u \in EmailLinks \union (Secrets \X Codes) : uses[u] <= 1
  /\ \A l \in ResetLinks \ mayReturn : uses[l] <= 1

\* A secret that is good for one use is used once.
OneUse == RotatedOnce /\ UsedOnce

\* What the requests in progress and the sessions carry is never ahead of the account,
\* and what carries its version was read under the password and factor in force: the
\* inductive invariant behind LiveIsProven.
OpsBehind ==
  \A r \in Requests :
    /\ op[r].version <= user.version
    /\ op[r].stage \in {"login", "rotated"} /\ op[r].version = user.version
         => op[r].knew = user.password

SessionsBehind ==
  \A j \in Jtis : sessions[j].issued =>
    /\ sessions[j].version <= user.version
    /\ ~sessions[j].overtaken => sessions[j].proof = sessions[j].version
    /\ ~sessions[j].overtaken /\ sessions[j].version = user.version =>
         /\ sessions[j].knew \in {user.password, NoPassword}
         /\ protection.mfa => sessions[j].factor

NobodyYet ==
  ~user.exists => /\ \A j \in Jtis : ~sessions[j].issued
                  /\ \A r \in Requests : op[r].stage \in {"idle", "signup"}
                  /\ ~protection.mfa

IInv == TypeOK /\ OpsBehind /\ SessionsBehind /\ NobodyYet

=============================================================================
