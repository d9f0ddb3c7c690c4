---------------------------- MODULE AccountsProofs ----------------------------
(* Theorems about Accounts, for every value of its constants.                *)
EXTENDS Accounts, TLAPS

(***************************************************************************)
(* The inductive invariant: what Accounts says of the account, of each     *)
(* request and of each session, and what each stage has put where.         *)
(***************************************************************************)
OpFits(o) ==
  /\ o.stage = "refresh" => o.jti \in Jtis
  /\ o.stage \in {"signup", "login", "change", "rotated"} => o.knew \in Passwords
  /\ o.stage = "mailing" => o.link \in EmailLinks /\ o.previous \in EmailLinks \union {NoLink}
  /\ o.stage = "forgot" => o.previous \in ResetLinks \union {NoLink}
  /\ o.stage = "resetting" => o.link \in ResetLinks /\ o.previous \in ResetLinks \union {NoLink}

UserType ==
  [exists : BOOLEAN, version : Versions, password : Passwords \union {Random},
   verified : BOOLEAN, mustChange : BOOLEAN, reset : ResetLinks \union {NoLink}]
ProtectionType ==
  [required : BOOLEAN, email : EmailLinks \union {NoLink}, mfa : BOOLEAN,
   pending : BOOLEAN, secret : 0 .. MaxSecrets,
   counter : {0} \union {s + 1 : s \in Steps}, recovery : SUBSET Recovery,
   challenge : Challenges \union {NoLink}, challengeVersion : Versions]
SessionType ==
  [issued : BOOLEAN, revoked : BOOLEAN, version : Versions, proof : Versions, knew : Known,
   factor : BOOLEAN, overtaken : BOOLEAN, from : Jtis \union {NoLink}]
OpType ==
  [stage : {"idle", "signup", "deliver", "mailing", "login", "google", "refresh",
            "change", "rotated", "forgot", "resetting"},
   version : Versions, knew : Known, jti : Jtis \union {NoLink},
   link : Links \union {NoLink}, previous : Links \union {NoLink}]

(* The four parts of a request, and of a session, that an account may outrun. *)
OpHolds(o, account) ==
  /\ o.version <= account.version
  /\ o.stage \in {"login", "rotated"} /\ o.version = account.version => o.knew = account.password
  /\ ~account.exists => o.stage \in {"idle", "signup"}

SessionHolds(s, account, mfa) ==
  /\ s.issued =>
       /\ s.version <= account.version
       /\ ~s.overtaken => s.proof = s.version
       /\ ~s.overtaken /\ s.version = account.version =>
            /\ s.knew \in {account.password, NoPassword}
            /\ mfa => s.factor
  /\ ~account.exists => ~s.issued

AccountsInv ==
  /\ user \in UserType /\ protection \in ProtectionType
  /\ google \in [linked : BOOLEAN, mailed : SUBSET Versions]
  /\ sessions \in [Jtis -> SessionType]
  /\ uses \in [Links \union (Secrets \X Codes) -> Nat]
  /\ op \in [Requests -> OpType]
  /\ \A r \in Requests : OpFits(op[r]) /\ OpHolds(op[r], user)
  /\ \A j \in Jtis : SessionHolds(sessions[j], user, protection.mfa)
  /\ ~user.exists => ~protection.mfa

(* With the history of the links, it is the invariant that Accounts states.  *)
LEMMA RowByRow ==
    ASSUME AccountsInv, mayReturn \subseteq ResetLinks
    PROVE  IInv
  BY DEF AccountsInv, IInv, TypeOK, OpsBehind, SessionsBehind, NobodyYet, UserType,
         ProtectionType, SessionType, OpType, OpHolds, SessionHolds

(* Revocation changes nothing else of a session.                             *)
Kept(s, t) ==
  /\ t.issued = s.issued /\ t.version = s.version /\ t.proof = s.proof
  /\ t.knew = s.knew /\ t.factor = s.factor /\ t.overtaken = s.overtaken

GoogleType == [linked : BOOLEAN, mailed : SUBSET Versions]
UsesType == [Links \union (Secrets \X Codes) -> Nat]

(***************************************************************************)
(* What is enough of a step: the account is the same in what binds the     *)
(* others, or its version is raised, and every new row holds.              *)
(***************************************************************************)
TypedStep ==
  /\ user' \in UserType /\ protection' \in ProtectionType
  /\ google' \in GoogleType /\ uses' \in UsesType
  /\ sessions' \in [Jtis -> SessionType] /\ op' \in [Requests -> OpType]

AccountStep ==
  /\ user.exists => user'.exists
  /\ \/ user'.version = user.version + 1
     \/ /\ user'.version = user.version
        /\ user'.password = user.password \/ ~user.exists
        /\ protection'.mfa => protection.mfa
  /\ ~user'.exists => ~protection'.mfa

OpsStep ==
  \A r \in Requests : op'[r] = op[r] \/ (OpFits(op'[r]) /\ OpHolds(op'[r], user'))

SessionsStep ==
  \A j \in Jtis : Kept(sessions[j], sessions'[j])
                  \/ SessionHolds(sessions'[j], user', protection'.mfa)

LEMMA StepKeeps ==
    ASSUME AccountsInv, TypedStep, AccountStep, OpsStep, SessionsStep
    PROVE  AccountsInv'
  <1>1. /\ user \in UserType /\ protection \in ProtectionType
        /\ sessions \in [Jtis -> SessionType] /\ op \in [Requests -> OpType]
        /\ \A r \in Requests : OpFits(op[r]) /\ OpHolds(op[r], user)
        /\ \A j \in Jtis : SessionHolds(sessions[j], user, protection.mfa)
        /\ ~user.exists => ~protection.mfa
    BY DEF AccountsInv
  <1>2. ASSUME NEW r \in Requests
        PROVE  OpFits(op'[r]) /\ OpHolds(op'[r], user')
    <2>1. /\ op[r].version \in Nat /\ user.version \in Nat /\ user'.version \in Nat
          /\ OpFits(op[r]) /\ OpHolds(op[r], user)
      BY <1>1 DEF TypedStep, OpType, UserType, Versions
    <2>2. OpHolds(op[r], user')
      BY <2>1 DEF AccountStep, OpHolds
    <2>. QED
      BY <2>1, <2>2 DEF OpsStep
  <1>3. ASSUME NEW j \in Jtis
        PROVE  SessionHolds(sessions'[j], user', protection'.mfa)
    <2>1. /\ sessions[j].version \in Nat /\ user.version \in Nat /\ user'.version \in Nat
          /\ SessionHolds(sessions[j], user, protection.mfa)
      BY <1>1 DEF TypedStep, SessionType, UserType, Versions
    <2>2. CASE Kept(sessions[j], sessions'[j])
      BY <2>1, <2>2 DEF AccountStep, SessionHolds, Kept
    <2>. QED
      BY <2>2 DEF SessionsStep
  <1>. QED
    BY <1>2, <1>3 DEF AccountsInv, TypedStep, AccountStep, GoogleType, UsesType

(* Facts of the current state that every action uses.                        *)
LEMMA Facts ==
    ASSUME AccountsInv
    PROVE  /\ user \in UserType /\ protection \in ProtectionType
           /\ google \in GoogleType /\ uses \in UsesType
           /\ sessions \in [Jtis -> SessionType] /\ op \in [Requests -> OpType]
           /\ user.version \in Nat /\ 1 <= user.version /\ user.version <= MaxVersion
           /\ 1 \in Versions
           /\ \A r \in Requests : OpFits(op[r]) /\ OpHolds(op[r], user)
           /\ \A j \in Jtis : SessionHolds(sessions[j], user, protection.mfa)
           /\ ~user.exists => ~protection.mfa
  BY AccountsAssumption DEF AccountsInv, UserType, Versions, GoogleType, UsesType

LEMMA IdleFits ==
    ASSUME AccountsInv, NEW account, account.version \in Nat, 1 <= account.version
    PROVE  Idle \in OpType /\ OpFits(Idle) /\ OpHolds(Idle, account)
  BY Facts DEF Idle, OpType, OpFits, OpHolds, Known

LEMMA OpWritten ==
    ASSUME AccountsInv, NEW r \in Requests, NEW o \in OpType,
           OpFits(o), OpHolds(o, user'), op' = [op EXCEPT ![r] = o]
    PROVE  op' \in [Requests -> OpType] /\ OpsStep
  <1>. HIDE DEF OpFits, OpHolds, OpType
  <1>. QED
    BY Facts DEF OpsStep

LEMMA OpDone ==
    ASSUME AccountsInv, NEW r \in Requests, Done(r), user' \in UserType
    PROVE  op' \in [Requests -> OpType] /\ OpsStep
  <1>1. user'.version \in Nat /\ 1 <= user'.version
    BY AccountsAssumption DEF UserType, Versions
  <1>2. Idle \in OpType /\ OpFits(Idle) /\ OpHolds(Idle, user')
    BY <1>1, IdleFits
  <1>. QED
    BY <1>2, OpWritten DEF Done

LEMMA RevokedKept ==
    ASSUME AccountsInv
    PROVE  /\ Revoked \in [Jtis -> SessionType]
           /\ \A j \in Jtis : Kept(sessions[j], Revoked[j])
  BY Facts DEF Revoked, SessionType, Kept

LEMMA GrantType ==
    ASSUME NEW v \in Versions, NEW p \in Versions, NEW k \in Known,
           NEW f \in BOOLEAN, NEW c \in BOOLEAN
    PROVE  Grant(v, p, k, f, c) \in SessionType
  BY DEF Grant, SessionType

(* A session is added to rows that are kept.                                 *)
LEMMA SessionAdded ==
    ASSUME AccountsInv, NEW base \in [Jtis -> SessionType], NEW j \in Jtis,
           \A i \in Jtis : Kept(sessions[i], base[i]),
           NEW s \in SessionType, SessionHolds(s, user', protection'.mfa),
           sessions' = [base EXCEPT ![j] = s]
    PROVE  sessions' \in [Jtis -> SessionType] /\ SessionsStep
  <1>. HIDE DEF SessionHolds, SessionType, Kept
  <1>. QED
    BY DEF SessionsStep

(* _token_response, for an account that exists and whose rows are kept.      *)
LEMMA SignInKeeps ==
    ASSUME AccountsInv, NEW version \in Versions, NEW knew \in Known,
           NEW row \in ProtectionType, NEW base \in [Jtis -> SessionType],
           \A i \in Jtis : Kept(sessions[i], base[i]),
           user' \in UserType, user'.exists, version <= user'.version,
           version = user'.version => knew \in {user'.password, NoPassword},
           SignIn(version, knew, row, base)
    PROVE  /\ protection' \in ProtectionType /\ protection'.mfa = row.mfa
           /\ sessions' \in [Jtis -> SessionType] /\ SessionsStep
  <1>1. CASE row.mfa
    <2>1. sessions' = base /\ protection' \in ProtectionType /\ protection'.mfa = row.mfa
      BY <1>1 DEF SignIn, ProtectionType
    <2>. QED
      BY <2>1 DEF SessionsStep
  <1>2. CASE ~row.mfa
    <2>1. PICK j \in Unused : sessions' = [base EXCEPT ![j] = Grant(version, version, knew, FALSE, FALSE)]
      BY <1>2 DEF SignIn
    <2>2. protection' = row /\ j \in Jtis
      BY <1>2 DEF SignIn, Unused
    <2>3. Grant(version, version, knew, FALSE, FALSE) \in SessionType
      BY GrantType
    <2>4. SessionHolds(Grant(version, version, knew, FALSE, FALSE), user', protection'.mfa)
      BY <1>2, <2>2 DEF Grant, SessionHolds
    <2>. QED
      BY <2>1, <2>2, <2>3, <2>4, SessionAdded
  <1>. QED
    BY <1>1, <1>2 DEF ProtectionType

LEMMA OneMore ==
    ASSUME NEW D, NEW f \in [D -> Nat], NEW u
    PROVE  [f EXCEPT ![u] = @ + 1] \in [D -> Nat]
  <1> DEFINE g == [f EXCEPT ![u] = @ + 1]
  <1>1. g = [x \in D |-> IF x = u THEN f[x] + 1 ELSE f[x]]
    BY Zenon
  <1>2. \A x \in D : (IF x = u THEN f[x] + 1 ELSE f[x]) \in Nat
    OBVIOUS
  <1>. QED
    BY <1>1, <1>2

LEMMA AcceptedType ==
    ASSUME AccountsInv, NEW u, Accepted(u)
    PROVE  uses' \in UsesType
  <1>1. uses \in [Links \union (Secrets \X Codes) -> Nat]
    BY Facts DEF UsesType
  <1>2. uses' = [uses EXCEPT ![u] = @ + 1]
    BY DEF Accepted
  <1>. QED
    BY <1>1, <1>2, OneMore DEF UsesType
-----------------------------------------------------------------------------
(* The steps.  A handler that only reads notes what it read.                 *)
LEMMA ReaderKeeps ==
    ASSUME AccountsInv, NEW r \in Requests, NEW o \in OpType, OpFits(o), OpHolds(o, user),
           op' = [op EXCEPT ![r] = o], UNCHANGED <<user, protection, google, sessions, uses>>
    PROVE  AccountsInv'
  <1>1. user' = user /\ protection' = protection /\ google' = google /\ uses' = uses
        /\ sessions' = sessions
    OBVIOUS
  <1>2. op' \in [Requests -> OpType] /\ OpsStep
    BY <1>1, OpWritten
  <1>3. TypedStep
    BY <1>1, <1>2, Facts DEF TypedStep
  <1>4. AccountStep /\ SessionsStep
    BY <1>1, Facts DEF AccountStep, SessionsStep, Kept
  <1>. QED
    BY <1>2, <1>3, <1>4, StepKeeps

LEMMA ReadersKeep ==
    ASSUME AccountsInv, NEW r \in Requests, NEW p, NEW j,
           \/ p \in Passwords /\ (BeginSignup(r, p) \/ BeginLogin(r, p))
           \/ j \in Jtis /\ BeginRefresh(r, j)
           \/ j \in Jtis /\ p \in Passwords /\ BeginChange(r, j, p)
           \/ BeginForgot(r) \/ BeginGoogle(r)
    PROVE  AccountsInv'
  <1> DEFINE signup == [Idle EXCEPT !.stage = "signup", !.knew = p]
             login == [Idle EXCEPT !.stage = "login", !.version = user.version, !.knew = p]
             refresh == [Idle EXCEPT !.stage = "refresh", !.version = user.version, !.jti = j]
             change == [Idle EXCEPT !.stage = "change", !.version = user.version, !.knew = p]
             forgot == [Idle EXCEPT !.stage = "forgot", !.previous = user.reset]
             signin == [Idle EXCEPT !.stage = "google", !.version = user.version]
  <1>1. /\ user \in UserType /\ user.version \in Versions /\ 1 \in Versions
        /\ user.version \in Nat /\ 1 <= user.version
        /\ user.reset \in ResetLinks \union {NoLink}
    BY Facts DEF UserType
  <1>2. CASE p \in Passwords /\ BeginSignup(r, p)
    <2>1. signup \in OpType /\ OpFits(signup) /\ OpHolds(signup, user)
      BY <1>1, <1>2 DEF OpType, OpFits, OpHolds, Idle, Known
    <2>. QED
      BY <1>2, <2>1, ReaderKeeps DEF BeginSignup
  <1>3. CASE p \in Passwords /\ BeginLogin(r, p)
    <2>1. login \in OpType /\ OpFits(login)
      BY <1>1, <1>3 DEF OpType, OpFits, Idle, Known
    <2>2. OpHolds(login, user)
      BY <1>1, <1>3 DEF BeginLogin, OpHolds, Idle
    <2>. QED
      BY <1>3, <2>1, <2>2, ReaderKeeps DEF BeginLogin
  <1>4. CASE j \in Jtis /\ BeginRefresh(r, j)
    <2>1. refresh \in OpType /\ OpFits(refresh)
      BY <1>1, <1>4 DEF OpType, OpFits, Idle, Known
    <2>2. OpHolds(refresh, user)
      BY <1>1, <1>4 DEF OpHolds, Idle, BeginRefresh, Access
    <2>. QED
      BY <2>2, <1>4, <2>1, ReaderKeeps DEF BeginRefresh
  <1>5. CASE j \in Jtis /\ p \in Passwords /\ BeginChange(r, j, p)
    <2>1. change \in OpType /\ OpFits(change)
      BY <1>1, <1>5 DEF OpType, OpFits, Idle, Known
    <2>2. OpHolds(change, user)
      BY <1>1, <1>5 DEF OpHolds, Idle, BeginChange, Access
    <2>. QED
      BY <2>2, <1>5, <2>1, ReaderKeeps DEF BeginChange
  <1>6. CASE BeginForgot(r)
    <2>1. forgot \in OpType /\ OpFits(forgot)
      BY <1>1 DEF OpType, OpFits, Idle, Known, Links
    <2>2. OpHolds(forgot, user)
      BY <1>1, <1>6 DEF OpHolds, Idle, BeginForgot
    <2>. QED
      BY <2>2, <1>6, <2>1, ReaderKeeps DEF BeginForgot
  <1>7. CASE BeginGoogle(r)
    <2>1. signin \in OpType /\ OpFits(signin)
      BY <1>1 DEF OpType, OpFits, Idle, Known
    <2>2. OpHolds(signin, user)
      BY <1>1, <1>7 DEF OpHolds, Idle, BeginGoogle
    <2>. QED
      BY <2>2, <1>7, <2>1, ReaderKeeps DEF BeginGoogle
  <1>. QED
    BY <1>2, <1>3, <1>4, <1>5, <1>6, <1>7

LEMMA LeaversKeep ==
    ASSUME AccountsInv, NEW r \in Requests,
           SkipVerification(r) \/ MailSent(r) \/ RejectRefresh(r) \/ RejectChange(r)
    PROVE  AccountsInv'
  <1>1. Done(r) /\ UNCHANGED <<user, protection, google, sessions, uses>>
    BY DEF SkipVerification, MailSent, RejectRefresh, RejectChange
  <1>2. Idle \in OpType /\ OpFits(Idle) /\ OpHolds(Idle, user)
    BY Facts, IdleFits
  <1>. QED
    BY <1>1, <1>2, ReaderKeeps DEF Done

LEMMA SignupKeeps ==
    ASSUME AccountsInv, NEW r \in Requests, CommitSignup(r)
    PROVE  AccountsInv'
  <1> DEFINE deliver == [Idle EXCEPT !.stage = "deliver"]
  <1>1. op[r].knew \in Passwords /\ op' = [op EXCEPT ![r] = deliver]
        /\ google' = google /\ sessions' = sessions /\ uses' = uses
    BY Facts DEF CommitSignup, OpFits
  <1>2. CASE user.exists
    <2>1. user' = user /\ protection' = protection
      BY <1>2 DEF CommitSignup
    <2>2. deliver \in OpType /\ OpFits(deliver)
      BY Facts DEF OpType, OpFits, Idle, Known
    <2>3. OpHolds(deliver, user)
      BY <1>2, Facts DEF OpHolds, Idle
    <2>. QED
      BY <1>1, <2>1, <2>2, <2>3, ReaderKeeps
  <1>3. CASE ~user.exists
    <2>1. /\ user' = [user EXCEPT !.exists = TRUE, !.password = op[r].knew]
          /\ protection' = [protection EXCEPT !.required = TRUE]
      BY <1>3 DEF CommitSignup
    <2>2. /\ user' \in UserType /\ user'.version = user.version /\ user'.exists
          /\ protection' \in ProtectionType /\ protection'.mfa = protection.mfa
      BY <1>1, <2>1, Facts DEF UserType, ProtectionType
    <2>3. deliver \in OpType /\ OpFits(deliver) /\ OpHolds(deliver, user')
      BY <2>2, Facts DEF OpType, OpFits, OpHolds, Idle, Known
    <2>4. op' \in [Requests -> OpType] /\ OpsStep
      BY <1>1, <2>3, OpWritten
    <2>5. TypedStep
      BY <1>1, <2>2, <2>4, Facts DEF TypedStep
    <2>6. AccountStep /\ SessionsStep
      BY <1>1, <1>3, <2>2, Facts DEF AccountStep, SessionsStep, Kept
    <2>. QED
      BY <2>4, <2>5, <2>6, StepKeeps
  <1>. QED
    BY <1>2, <1>3

(* Only the links of the account, and its flags, change.                     *)
LEMMA LinksKeep ==
    ASSUME AccountsInv, user' \in UserType, protection' \in ProtectionType,
           uses' \in UsesType, google' \in GoogleType, op' \in [Requests -> OpType], OpsStep,
           sessions' = sessions,
           user'.exists = user.exists, user'.version = user.version,
           user'.password = user.password, protection'.mfa = protection.mfa
    PROVE  AccountsInv'
  <1>1. TypedStep
    BY Facts DEF TypedStep
  <1>2. AccountStep /\ SessionsStep
    BY Facts DEF AccountStep, SessionsStep, Kept
  <1>. QED
    BY <1>1, <1>2, StepKeeps

LEMMA VerificationKeeps ==
    ASSUME AccountsInv, NEW r \in Requests, NEW l,
           (l \in EmailLinks /\ DeliverVerification(r, l)) \/ VerificationFailed(r)
    PROVE  AccountsInv'
  <1>1. user' = user /\ google' = google /\ sessions' = sessions /\ uses' = uses
    BY DEF DeliverVerification, VerificationFailed
  <1>2. CASE l \in EmailLinks /\ DeliverVerification(r, l)
    <2> DEFINE o == [Idle EXCEPT !.stage = "mailing", !.link = l, !.previous = protection.email]
    <2>1. op' = [op EXCEPT ![r] = o] /\ protection' = [protection EXCEPT !.email = l]
      BY <1>2 DEF DeliverVerification
    <2>2. protection' \in ProtectionType /\ protection'.mfa = protection.mfa
          /\ protection.email \in EmailLinks \union {NoLink}
      BY <1>2, <2>1, Facts DEF ProtectionType
    <2>3. o \in OpType /\ OpFits(o)
      BY <1>2, <2>2, Facts DEF OpType, OpFits, Idle, Known, Links
    <2>4. OpHolds(o, user')
      BY <1>1, <1>2, Facts DEF OpHolds, Idle, DeliverVerification
    <2>5. op' \in [Requests -> OpType] /\ OpsStep
      BY <2>1, <2>3, <2>4, OpWritten
    <2>. QED
      BY <1>1, <2>2, <2>5, Facts, LinksKeep
  <1>3. CASE VerificationFailed(r)
    <2>1. op[r].previous \in EmailLinks \union {NoLink}
      BY <1>3, Facts DEF VerificationFailed, OpFits
    <2>2. protection' \in ProtectionType /\ protection'.mfa = protection.mfa
      BY <1>3, <2>1, Facts DEF VerificationFailed, ProtectionType
    <2>3. op' \in [Requests -> OpType] /\ OpsStep
      BY <1>1, <1>3, Facts, OpDone DEF VerificationFailed
    <2>. QED
      BY <1>1, <2>2, <2>3, Facts, LinksKeep
  <1>. QED
    BY <1>2, <1>3

LEMMA ConfirmEmailKeeps ==
    ASSUME AccountsInv, NEW l \in EmailLinks, ConfirmEmail(l)
    PROVE  AccountsInv'
  <1>1. /\ user' = [user EXCEPT !.verified = TRUE]
        /\ protection' = [protection EXCEPT !.required = FALSE, !.email = NoLink]
        /\ google' = google /\ sessions' = sessions /\ op' = op /\ Accepted(l)
    BY DEF ConfirmEmail
  <1>2. /\ user' \in UserType /\ user'.version = user.version /\ user'.exists = user.exists
        /\ user'.password = user.password
        /\ protection' \in ProtectionType /\ protection'.mfa = protection.mfa
    BY <1>1, Facts DEF UserType, ProtectionType
  <1>3. uses' \in UsesType
    BY <1>1, AcceptedType
  <1>4. op' \in [Requests -> OpType] /\ OpsStep
    BY <1>1, Facts DEF OpsStep
  <1>. QED
    BY <1>1, <1>2, <1>3, <1>4, Facts, LinksKeep

LEMMA ForgotKeeps ==
    ASSUME AccountsInv, NEW r \in Requests, NEW l,
           (l \in ResetLinks /\ CommitForgot(r, l)) \/ ResetMailFailed(r)
    PROVE  AccountsInv'
  <1>1. protection' = protection /\ google' = google /\ sessions' = sessions
    BY DEF CommitForgot, ResetMailFailed
  <1>2. CASE l \in ResetLinks /\ CommitForgot(r, l)
    <2> DEFINE o == [op[r] EXCEPT !.stage = "resetting", !.link = l]
    <2>1. /\ op' = [op EXCEPT ![r] = o] /\ user' = [user EXCEPT !.reset = l] /\ uses' = uses
          /\ op[r].stage = "forgot"
      BY <1>2, Facts DEF CommitForgot, OpType
    <2>2. /\ user' \in UserType /\ user'.version = user.version /\ user'.exists = user.exists
          /\ user'.password = user.password
      BY <1>2, <2>1, Facts DEF UserType
    <2>3. op[r] \in OpType /\ OpFits(op[r]) /\ OpHolds(op[r], user)
      BY Facts
    <2>4. o \in OpType
      BY <1>2, <2>3 DEF OpType, Links
    <2>5. OpFits(o) /\ OpHolds(o, user')
      BY <1>2, <2>1, <2>2, <2>3 DEF OpType, OpFits, OpHolds
    <2>6. op' \in [Requests -> OpType] /\ OpsStep
      BY <2>1, <2>4, <2>5, OpWritten
    <2>. QED
      BY <1>1, <2>1, <2>2, <2>6, Facts, LinksKeep
  <1>3. CASE ResetMailFailed(r)
    <2>1. op[r].previous \in ResetLinks \union {NoLink}
      BY <1>3, Facts DEF ResetMailFailed, OpFits
    <2>2. /\ user' \in UserType /\ user'.version = user.version /\ user'.exists = user.exists
          /\ user'.password = user.password
      BY <1>3, <2>1, Facts DEF ResetMailFailed, UserType
    <2>3. uses' \in UsesType
      BY <1>3, Facts DEF ResetMailFailed, UsesType
    <2>4. op' \in [Requests -> OpType] /\ OpsStep
      BY <1>3, <2>2, OpDone DEF ResetMailFailed
    <2>. QED
      BY <1>1, <2>2, <2>3, <2>4, Facts, LinksKeep
  <1>. QED
    BY <1>2, <1>3

(* An action that ends every session but one raises the version.             *)
LEMMA RaisedKeeps ==
    ASSUME AccountsInv, TypedStep, SessionsStep, OpsStep,
           user.exists, user'.exists, user'.version = user.version + 1
    PROVE  AccountsInv'
  <1>1. AccountStep
    BY DEF AccountStep
  <1>. QED
    BY <1>1, StepKeeps

LEMMA SameOps ==
    ASSUME AccountsInv, UNCHANGED op
    PROVE  op' \in [Requests -> OpType] /\ OpsStep
  BY Facts DEF OpsStep

LEMMA RevokedStep ==
    ASSUME AccountsInv, sessions' = Revoked
    PROVE  sessions' \in [Jtis -> SessionType] /\ SessionsStep
  BY RevokedKept DEF SessionsStep

LEMMA LoginKeeps ==
    ASSUME AccountsInv, NEW r \in Requests, CommitLogin(r) \/ CommitGoogle(r)
    PROVE  AccountsInv'
  <1> DEFINE knew == IF op[r].stage = "login" THEN op[r].knew ELSE NoPassword
  <1>1. /\ op[r] \in OpType /\ OpFits(op[r]) /\ OpHolds(op[r], user)
        /\ op[r].stage \in {"login", "google"} /\ Done(r)
        /\ google' = google /\ uses' = uses
    BY Facts DEF CommitLogin, CommitGoogle
  <1>2. /\ op[r].version \in Versions /\ knew \in Known /\ op[r].version <= user.version
        /\ op[r].version = user.version => knew \in {user.password, NoPassword}
        /\ user.exists
    BY <1>1 DEF OpType, OpHolds, Known
  <1>3. SignIn(op[r].version, knew, protection, sessions)
    BY <1>1 DEF CommitLogin, CommitGoogle
  <1>4. /\ user' \in UserType /\ user'.exists = user.exists /\ user'.version = user.version
        /\ user'.password = user.password
    BY <1>1, Facts DEF CommitLogin, CommitGoogle, UserType
  <1>5. \A i \in Jtis : Kept(sessions[i], sessions[i])
    BY DEF Kept
  <1>6. /\ protection' \in ProtectionType /\ protection'.mfa = protection.mfa
        /\ sessions' \in [Jtis -> SessionType] /\ SessionsStep
    <2>. HIDE DEF knew
    <2>. QED
      BY <1>2, <1>3, <1>4, <1>5, Facts, SignInKeeps
  <1>7. op' \in [Requests -> OpType] /\ OpsStep
    BY <1>1, <1>4, OpDone
  <1>8. TypedStep
    BY <1>1, <1>4, <1>6, <1>7, Facts DEF TypedStep
  <1>9. AccountStep
    BY <1>2, <1>4, <1>6 DEF AccountStep
  <1>. QED
    BY <1>6, <1>7, <1>8, <1>9, StepKeeps

LEMMA GoogleKeeps ==
    ASSUME AccountsInv, GoogleSignup \/ GoogleLink
    PROVE  AccountsInv'
  <1>1. /\ uses' = uses /\ op' = op
        /\ SignIn(user.version, NoPassword, protection, sessions)
        /\ user' = IF user.exists THEN [user EXCEPT !.verified = TRUE]
                   ELSE [user EXCEPT !.exists = TRUE, !.verified = TRUE]
    BY DEF GoogleSignup, GoogleLink, MayLink
  <1>2. /\ user' \in UserType /\ user'.exists /\ user'.version = user.version
        /\ user'.password = user.password
    BY <1>1, Facts DEF UserType
  <1>3. user.version \in Versions /\ user.version <= user'.version /\ NoPassword \in Known
    BY <1>2, Facts DEF UserType, Known
  <1>4. \A i \in Jtis : Kept(sessions[i], sessions[i])
    BY DEF Kept
  <1>5. /\ protection' \in ProtectionType /\ protection'.mfa = protection.mfa
        /\ sessions' \in [Jtis -> SessionType] /\ SessionsStep
    <2>1. protection \in ProtectionType /\ sessions \in [Jtis -> SessionType]
          /\ NoPassword \in {user'.password, NoPassword}
      BY Facts
    <2>. QED
      BY <1>1, <1>2, <1>3, <1>4, <2>1, SignInKeeps
  <1>6. google' \in GoogleType
    <2>1. [google EXCEPT !.linked = TRUE] \in GoogleType
      BY Facts DEF GoogleType
    <2>2. [linked |-> TRUE, mailed |-> {}] \in GoogleType
      BY DEF GoogleType
    <2>3. google' = [google EXCEPT !.linked = TRUE] \/ google' = [linked |-> TRUE, mailed |-> {}]
      BY DEF GoogleSignup, GoogleLink, MayLink
    <2>. QED
      BY <2>1, <2>2, <2>3
  <1>7. op' \in [Requests -> OpType] /\ OpsStep
    BY <1>1, SameOps
  <1>8. TypedStep
    BY <1>1, <1>2, <1>5, <1>6, <1>7, Facts DEF TypedStep
  <1>9. AccountStep
    BY <1>2, <1>5 DEF AccountStep
  <1>. QED
    BY <1>5, <1>7, <1>8, <1>9, StepKeeps

LEMMA ReclaimKeeps ==
    ASSUME AccountsInv, GoogleReclaim
    PROVE  AccountsInv'
  <1> DEFINE row == [protection EXCEPT !.email = NoLink, !.required = FALSE, !.pending = FALSE,
                                       !.challenge = NoLink]
  <1>1. /\ uses' = uses /\ op' = op /\ user.exists
        /\ SignIn(user.version + 1, NoPassword, row, Revoked)
        /\ user' = [user EXCEPT !.verified = TRUE, !.password = Random, !.mustChange = FALSE,
                                !.reset = NoLink, !.version = @ + 1]
        /\ user.version < MaxVersion
    BY DEF GoogleReclaim, MayLink, Bump
  <1>2. user.version + 1 \in Versions /\ NoPassword \in Known
    BY <1>1, Facts, AccountsAssumption DEF Versions, Known
  <1>3. /\ user' \in UserType /\ user'.exists /\ user'.version = user.version + 1
    BY <1>1, <1>2, Facts DEF UserType
  <1>4. row \in ProtectionType
    BY Facts DEF ProtectionType
  <1>5. user.version + 1 <= user'.version /\ NoPassword \in {user'.password, NoPassword}
    BY <1>3, Facts
  <1>6. protection' \in ProtectionType /\ sessions' \in [Jtis -> SessionType] /\ SessionsStep
    <2>. HIDE DEF row
    <2>. QED
      BY <1>1, <1>2, <1>3, <1>4, <1>5, RevokedKept, SignInKeeps
  <1>7. google' \in GoogleType
    BY DEF GoogleReclaim, MayLink, GoogleType
  <1>8. op' \in [Requests -> OpType] /\ OpsStep
    BY <1>1, SameOps
  <1>9. TypedStep
    BY <1>1, <1>3, <1>6, <1>7, <1>8, Facts DEF TypedStep
  <1>. QED
    BY <1>1, <1>3, <1>6, <1>8, <1>9, RaisedKeeps

LEMMA MailLinkCodeKeeps ==
    ASSUME AccountsInv, MailLinkCode
    PROVE  AccountsInv'
  <1>1. user' = user /\ protection' = protection /\ sessions' = sessions /\ uses' = uses
        /\ op' = op /\ google' = [google EXCEPT !.mailed = {user.version}]
    BY DEF MailLinkCode
  <1>2. google' \in GoogleType
    BY <1>1, Facts DEF GoogleType, UserType
  <1>. QED
    BY <1>1, <1>2, Facts, SameOps, LinksKeep

LEMMA RefreshKeeps ==
    ASSUME AccountsInv, NEW r \in Requests, NEW j \in Jtis, CommitRefresh(r, j)
    PROVE  AccountsInv'
  <1> DEFINE old == op[r].jti
             new == [sessions[old] EXCEPT !.from = old, !.revoked = FALSE]
  <1>1. /\ op[r].stage = "refresh" /\ Done(r) /\ j \in Unused /\ j \in Jtis
        /\ user' = user /\ protection' = protection /\ google' = google /\ uses' = uses
        /\ sessions' = [sessions EXCEPT ![old].revoked = TRUE, ![j] = new]
    BY DEF CommitRefresh
  <1>2. old \in Jtis
    BY <1>1, Facts DEF OpFits
  <1>3. sessions[old] \in SessionType /\ SessionHolds(sessions[old], user, protection.mfa)
    BY <1>2, Facts
  <1>4. new \in SessionType /\ Kept(sessions[old], new)
    BY <1>2, <1>3 DEF SessionType, Kept
  <1>5. SessionHolds(new, user, protection.mfa)
    BY <1>3, <1>4 DEF SessionHolds, Kept
  <1> DEFINE base == [sessions EXCEPT ![old].revoked = TRUE]
  <1>6. base \in [Jtis -> SessionType] /\ \A i \in Jtis : Kept(sessions[i], base[i])
    <2> DEFINE ended == [sessions[old] EXCEPT !.revoked = TRUE]
    <2>1. ended \in SessionType /\ Kept(sessions[old], ended)
      BY <1>3 DEF SessionType, Kept
    <2>2. base = [sessions EXCEPT ![old] = ended] /\ sessions \in [Jtis -> SessionType]
      BY <1>2, Facts
    <2>3. ASSUME NEW i \in Jtis PROVE Kept(sessions[i], sessions[i])
      BY DEF Kept
    <2>. HIDE DEF base, ended
    <2>. QED
      BY <1>2, <2>1, <2>2, <2>3
  <1>7. sessions' = [base EXCEPT ![j] = new]
    BY <1>1
  <1>8. sessions' \in [Jtis -> SessionType] /\ SessionsStep
    <2>. HIDE DEF base, new
    <2>. QED
      BY <1>1, <1>4, <1>5, <1>6, <1>7, SessionAdded
  <1>9. op' \in [Requests -> OpType] /\ OpsStep
    BY <1>1, Facts, OpDone
  <1>10. TypedStep
    BY <1>1, <1>8, <1>9, Facts DEF TypedStep
  <1>11. AccountStep
    BY <1>1, Facts DEF AccountStep
  <1>. QED
    BY <1>8, <1>9, <1>10, <1>11, StepKeeps

LEMMA LogoutKeeps ==
    ASSUME AccountsInv, NEW j \in Jtis, Logout(j)
    PROVE  AccountsInv'
  <1>1. /\ sessions[j].issued /\ user.version < MaxVersion
        /\ user' = [user EXCEPT !.version = @ + 1] /\ sessions' = Revoked
        /\ protection' = [protection EXCEPT !.challenge = NoLink]
        /\ google' = google /\ uses' = uses /\ op' = op
    BY DEF Logout, Bump
  <1>2. user.exists
    BY <1>1, Facts DEF SessionHolds
  <1>3. /\ user' \in UserType /\ user'.exists /\ user'.version = user.version + 1
        /\ protection' \in ProtectionType
    BY <1>1, <1>2, Facts, AccountsAssumption DEF UserType, ProtectionType, Versions
  <1>4. /\ sessions' \in [Jtis -> SessionType] /\ SessionsStep
        /\ op' \in [Requests -> OpType] /\ OpsStep
    BY <1>1, RevokedStep, SameOps
  <1>5. TypedStep
    BY <1>1, <1>3, <1>4, Facts DEF TypedStep
  <1>. QED
    BY <1>2, <1>3, <1>4, <1>5, RaisedKeeps

LEMMA ChangeKeeps ==
    ASSUME AccountsInv, NEW r \in Requests, NEW p \in Passwords, CommitChange(r, p)
    PROVE  AccountsInv'
  <1> DEFINE o == [Idle EXCEPT !.stage = "rotated", !.version = user.version + 1, !.knew = p]
  <1>1. /\ op[r].stage = "change" /\ user.version < MaxVersion
        /\ user' = [user EXCEPT !.password = p, !.mustChange = FALSE, !.reset = NoLink,
                                !.version = @ + 1]
        /\ sessions' = Revoked /\ op' = [op EXCEPT ![r] = o]
        /\ protection' = protection /\ google' = google /\ uses' = uses
    BY DEF CommitChange, Bump
  <1>2. user.exists /\ user.version + 1 \in Versions
    BY <1>1, Facts, AccountsAssumption DEF OpHolds, Versions
  <1>3. user' \in UserType /\ user'.exists /\ user'.version = user.version + 1
    BY <1>1, <1>2, Facts DEF UserType
  <1>4. o \in OpType /\ OpFits(o)
    BY <1>2, Facts DEF OpType, OpFits, Idle, Known
  <1>5. OpHolds(o, user')
    <2>1. user'.password = p /\ o.version = user'.version /\ o.knew = p
      BY <1>1, <1>3, Facts DEF UserType, Idle
    <2>. QED
      BY <1>3, <2>1, Facts DEF OpHolds
  <1>6. op' \in [Requests -> OpType] /\ OpsStep
    <2>. HIDE DEF o
    <2>. QED
      BY <1>1, <1>4, <1>5, OpWritten
  <1>7. sessions' \in [Jtis -> SessionType] /\ SessionsStep
    BY <1>1, RevokedStep
  <1>8. TypedStep
    BY <1>1, <1>3, <1>6, <1>7, Facts DEF TypedStep
  <1>. QED
    BY <1>2, <1>3, <1>6, <1>7, <1>8, RaisedKeeps

LEMMA IssueKeeps ==
    ASSUME AccountsInv, NEW r \in Requests, NEW j \in Jtis, IssueChanged(r, j)
    PROVE  AccountsInv'
  <1> DEFINE new == Grant(user.version, op[r].version, op[r].knew, TRUE,
                          user.version # op[r].version)
  <1>1. /\ op[r].stage = "rotated" /\ Done(r)
        /\ protection' = [protection EXCEPT !.challenge = NoLink]
        /\ sessions' = [sessions EXCEPT ![j] = new]
        /\ user' = user /\ google' = google /\ uses' = uses
    BY DEF IssueChanged
  <1>2. user.exists /\ op[r].version \in Versions /\ op[r].knew \in Known /\ user.version \in Versions
    BY <1>1, Facts DEF OpHolds, OpType, UserType
  <1>3. new \in SessionType
    BY <1>2, GrantType
  <1>4. SessionHolds(new, user', protection'.mfa)
    <2>1. op[r].version = user.version => op[r].knew = user.password
      BY <1>1, Facts DEF OpHolds
    <2>. QED
      <3>1. /\ new.issued /\ new.version = user.version /\ new.proof = op[r].version
            /\ new.knew = op[r].knew /\ new.factor
            /\ new.overtaken = (user.version # op[r].version)
        BY DEF Grant
      <3>2. user' = user /\ user.version <= user.version
        BY <1>1, Facts
      <3>. HIDE DEF new
      <3>. QED
        BY <1>2, <2>1, <3>1, <3>2 DEF SessionHolds
  <1>5. protection' \in ProtectionType /\ protection'.mfa = protection.mfa
    BY <1>1, Facts DEF ProtectionType
  <1>6. \A i \in Jtis : Kept(sessions[i], sessions[i])
    BY DEF Kept
  <1>7. sessions' \in [Jtis -> SessionType] /\ SessionsStep
    <2>. HIDE DEF new
    <2>. QED
      BY <1>1, <1>3, <1>4, <1>6, Facts, SessionAdded
  <1>8. op' \in [Requests -> OpType] /\ OpsStep
    BY <1>1, Facts, OpDone
  <1>9. TypedStep
    BY <1>1, <1>5, <1>7, <1>8, Facts DEF TypedStep
  <1>10. AccountStep
    BY <1>1, <1>2, <1>5, Facts DEF AccountStep
  <1>. QED
    BY <1>7, <1>8, <1>9, <1>10, StepKeeps

(* Reset, and the operations of the authenticator that raise the version.    *)
LEMMA ResetKeeps ==
    ASSUME AccountsInv, NEW l \in ResetLinks, NEW p \in Passwords, Reset(l, p)
    PROVE  AccountsInv'
  <1>1. /\ user.exists /\ user.version < MaxVersion
        /\ user' = [user EXCEPT !.password = p, !.mustChange = FALSE, !.verified = TRUE,
                                !.reset = NoLink, !.version = @ + 1]
        /\ protection' = [protection EXCEPT !.required = FALSE, !.challenge = NoLink,
                                            !.email = NoLink]
        /\ sessions' = Revoked /\ google' = google /\ op' = op /\ Accepted(l)
    BY DEF Reset, Bump
  <1>2. user.version + 1 \in Versions
    BY <1>1, Facts, AccountsAssumption DEF Versions
  <1>3. user' \in UserType /\ user'.exists /\ user'.version = user.version + 1
    BY <1>1, <1>2, Facts DEF UserType
  <1>4. protection' \in ProtectionType
    BY <1>1, Facts DEF ProtectionType
  <1>5. /\ sessions' \in [Jtis -> SessionType] /\ SessionsStep /\ uses' \in UsesType
        /\ op' \in [Requests -> OpType] /\ OpsStep
    BY <1>1, RevokedStep, SameOps, AcceptedType
  <1>6. TypedStep
    BY <1>1, <1>3, <1>4, <1>5, Facts DEF TypedStep
  <1>. QED
    BY <1>1, <1>3, <1>5, <1>6, RaisedKeeps

LEMMA EnrollKeeps ==
    ASSUME AccountsInv, NEW j \in Jtis, NEW p \in Passwords, Enroll(j, p)
    PROVE  AccountsInv'
  <1>1. /\ protection.secret < MaxSecrets
        /\ protection' = [protection EXCEPT !.pending = TRUE, !.secret = @ + 1]
        /\ user' = user /\ google' = google /\ sessions' = sessions /\ uses' = uses /\ op' = op
    BY DEF Enroll
  <1>2. protection.secret \in 0 .. MaxSecrets /\ MaxSecrets \in Nat
    BY Facts, AccountsAssumption DEF ProtectionType
  <1>3. protection.secret + 1 \in 0 .. MaxSecrets
    BY <1>1, <1>2
  <1>4. protection' \in ProtectionType /\ protection'.mfa = protection.mfa
    BY <1>1, <1>3, Facts DEF ProtectionType
  <1>. QED
    BY <1>1, <1>4, Facts, SameOps, LinksKeep

LEMMA StepTakenType ==
    ASSUME NEW row \in ProtectionType, NEW c, StepTaken(row, c) \/ RecoveryTaken(row, c)
    PROVE  protection' \in ProtectionType /\ protection'.mfa = row.mfa
  <1>1. CASE StepTaken(row, c)
    <2>1. c \in Steps /\ protection' = [row EXCEPT !.counter = c + 1]
      BY <1>1 DEF StepTaken
    <2>2. c + 1 \in {0} \union {s + 1 : s \in Steps}
      BY <2>1
    <2>. QED
      BY <2>1, <2>2 DEF ProtectionType
  <1>2. CASE RecoveryTaken(row, c)
    <2>1. protection' = [row EXCEPT !.recovery = @ \ {c}]
      BY <1>2 DEF RecoveryTaken
    <2>. QED
      BY <2>1 DEF ProtectionType
  <1>. QED
    BY <1>1, <1>2

LEMMA ConfirmMfaKeeps ==
    ASSUME AccountsInv, NEW j \in Jtis, NEW k \in Jtis, NEW c, ConfirmMfa(j, k, c)
    PROVE  AccountsInv'
  <1> DEFINE row == [protection EXCEPT !.mfa = TRUE, !.pending = FALSE, !.recovery = Recovery,
                                       !.challenge = NoLink]
             s == sessions[j]
             new == Grant(user.version + 1, user.version + 1, s.knew, TRUE, s.overtaken)
  <1>1. /\ Access(j) /\ user.version < MaxVersion
        /\ StepTaken(row, c) /\ Accepted(<<protection.secret, c>>)
        /\ user' = [user EXCEPT !.version = @ + 1]
        /\ sessions' = [Revoked EXCEPT ![k] = new] /\ google' = google /\ op' = op
    BY DEF ConfirmMfa, Workspace, Bump
  <1>2. user.version + 1 \in Versions /\ user.exists
    BY <1>1, Facts, AccountsAssumption DEF Versions, Access
  <1>3. /\ user' \in UserType /\ user'.exists /\ user'.version = user.version + 1
        /\ user'.password = user.password
    BY <1>1, <1>2, Facts DEF UserType
  <1>4. /\ s.knew \in Known /\ s.overtaken \in BOOLEAN
        /\ ~s.overtaken => s.knew \in {user.password, NoPassword}
    BY <1>1, Facts DEF SessionType, SessionHolds, Access
  <1>5. new \in SessionType
    BY <1>2, <1>4, GrantType
  <1>6. SessionHolds(new, user', protection'.mfa)
    BY <1>3, <1>4, Facts DEF SessionHolds, Grant
  <1>7. sessions' \in [Jtis -> SessionType] /\ SessionsStep
    <2>. HIDE DEF new
    <2>. QED
      BY <1>1, <1>5, <1>6, RevokedKept, SessionAdded
  <1>8. row \in ProtectionType
    BY Facts DEF ProtectionType
  <1>9. protection' \in ProtectionType
    <2>. HIDE DEF row
    <2>. QED
      BY <1>1, <1>8, StepTakenType
  <1>10. uses' \in UsesType /\ op' \in [Requests -> OpType] /\ OpsStep
    BY <1>1, SameOps, AcceptedType
  <1>11. TypedStep
    BY <1>1, <1>3, <1>7, <1>9, <1>10, Facts DEF TypedStep
  <1>. QED
    BY <1>2, <1>3, <1>7, <1>10, <1>11, RaisedKeeps

LEMMA DisableMfaKeeps ==
    ASSUME AccountsInv, NEW j \in Jtis, NEW k \in Jtis, NEW p \in Passwords, NEW c,
           DisableMfa(j, k, p, c)
    PROVE  AccountsInv'
  <1> DEFINE new == Grant(user.version + 1, user.version + 1, p, TRUE, FALSE)
  <1>1. /\ user.password = p /\ user.exists /\ user.version < MaxVersion
        /\ protection' = [protection EXCEPT !.mfa = FALSE, !.pending = FALSE, !.recovery = {},
                                            !.counter = 0, !.challenge = NoLink]
        /\ Accepted(<<protection.secret, c>>) /\ user' = [user EXCEPT !.version = @ + 1]
        /\ sessions' = [Revoked EXCEPT ![k] = new] /\ google' = google /\ op' = op
    BY DEF DisableMfa, Workspace, Access, Bump
  <1>2. user.version + 1 \in Versions /\ p \in Known
    BY <1>1, Facts, AccountsAssumption DEF Versions, Known
  <1>3. /\ user' \in UserType /\ user'.exists /\ user'.version = user.version + 1
        /\ user'.password = p
    BY <1>1, <1>2, Facts DEF UserType
  <1>4. protection' \in ProtectionType
    BY <1>1, Facts DEF ProtectionType
  <1>5. new \in SessionType
    BY <1>2, GrantType
  <1>6. SessionHolds(new, user', protection'.mfa)
    BY <1>3, Facts DEF SessionHolds, Grant
  <1>7. sessions' \in [Jtis -> SessionType] /\ SessionsStep
    <2>. HIDE DEF new
    <2>. QED
      BY <1>1, <1>5, <1>6, RevokedKept, SessionAdded
  <1>8. uses' \in UsesType /\ op' \in [Requests -> OpType] /\ OpsStep
    BY <1>1, SameOps, AcceptedType
  <1>9. TypedStep
    BY <1>1, <1>3, <1>4, <1>7, <1>8, Facts DEF TypedStep
  <1>. QED
    BY <1>1, <1>3, <1>7, <1>8, <1>9, RaisedKeeps

LEMMA VerifyKeeps ==
    ASSUME AccountsInv, NEW l \in Challenges, NEW k \in Jtis, NEW c, Verify(l, k, c)
    PROVE  AccountsInv'
  <1> DEFINE row == [protection EXCEPT !.challenge = NoLink]
             new == Grant(user.version, protection.challengeVersion, NoPassword, TRUE, FALSE)
  <1>1. /\ user.exists /\ protection.challengeVersion = user.version
        /\ StepTaken(row, c) \/ RecoveryTaken(row, c)
        /\ Accepted(<<protection.secret, c>>)
        /\ sessions' = [sessions EXCEPT ![k] = new]
        /\ user' = user /\ google' = google /\ op' = op
    BY DEF Verify, Consumed
  <1>2. user.version \in Versions /\ NoPassword \in Known
    BY Facts DEF UserType, Known
  <1>3. row \in ProtectionType /\ row.mfa = protection.mfa
    BY Facts DEF ProtectionType
  <1>4. protection' \in ProtectionType /\ protection'.mfa = protection.mfa
    <2>. HIDE DEF row
    <2>. QED
      BY <1>1, <1>3, StepTakenType
  <1>5. new \in SessionType
    BY <1>1, <1>2, GrantType
  <1>6. SessionHolds(new, user', protection'.mfa)
    BY <1>1, Facts DEF SessionHolds, Grant
  <1>7. \A i \in Jtis : Kept(sessions[i], sessions[i])
    BY DEF Kept
  <1>8. sessions' \in [Jtis -> SessionType] /\ SessionsStep
    <2>. HIDE DEF new
    <2>. QED
      BY <1>1, <1>5, <1>6, <1>7, Facts, SessionAdded
  <1>9. uses' \in UsesType /\ op' \in [Requests -> OpType] /\ OpsStep
    BY <1>1, SameOps, AcceptedType
  <1>10. TypedStep
    BY <1>1, <1>4, <1>8, <1>9, Facts DEF TypedStep
  <1>11. AccountStep
    BY <1>1, <1>4, Facts DEF AccountStep
  <1>. QED
    BY <1>8, <1>9, <1>10, <1>11, StepKeeps

-----------------------------------------------------------------------------
LEMMA InitKeeps == Init => AccountsInv
  <1> SUFFICES ASSUME Init PROVE AccountsInv
    OBVIOUS
  <1>1. 1 \in Versions
    BY AccountsAssumption DEF Versions
  <1>2. Absent \in UserType /\ Absent.version = 1
    BY <1>1 DEF Absent, UserType
  <1>3. /\ user \in UserType /\ user.version = 1
    BY <1>2 DEF Init, UserType
  <1>4. protection \in ProtectionType /\ ~protection.mfa
    <2>1. 0 \in {0} \union {s + 1 : s \in Steps} /\ 0 \in 0 .. MaxSecrets
      BY AccountsAssumption
    <2>2. protection = Unprotected
      BY DEF Init
    <2>. QED
      BY <1>1, <2>1, <2>2 DEF Unprotected, ProtectionType
  <1>5. google \in [linked : BOOLEAN, mailed : SUBSET Versions]
    BY DEF Init
  <1>6. sessions \in [Jtis -> SessionType] /\ \A j \in Jtis : ~sessions[j].issued
    BY <1>1 DEF Init, Unissued, SessionType, Known
  <1>7. uses \in [Links \union (Secrets \X Codes) -> Nat]
    BY DEF Init
  <1>8. /\ op \in [Requests -> OpType]
        /\ \A r \in Requests : OpFits(op[r]) /\ OpHolds(op[r], user)
    <2>1. Idle \in OpType /\ OpFits(Idle)
      BY <1>1 DEF Idle, OpType, OpFits, Known
    <2>2. OpHolds(Idle, user)
      BY <1>3 DEF Idle, OpHolds
    <2>3. op = [r \in Requests |-> Idle]
      BY DEF Init
    <2>. HIDE DEF Idle, OpType, OpFits, OpHolds
    <2>. QED
      BY <2>1, <2>2, <2>3
  <1>9. \A j \in Jtis : SessionHolds(sessions[j], user, protection.mfa)
    BY <1>6 DEF SessionHolds
  <1>. QED
    BY <1>3, <1>4, <1>5, <1>6, <1>7, <1>8, <1>9 DEF AccountsInv

LEMMA StutterKeeps == AccountsInv /\ UNCHANGED vars => AccountsInv'
  <1> SUFFICES ASSUME AccountsInv, UNCHANGED vars PROVE AccountsInv'
    OBVIOUS
  <1>. QED
    BY Facts, SameOps, LinksKeep DEF vars

LEMMA NextKeeps == AccountsInv /\ Next => AccountsInv'
  <1> SUFFICES ASSUME AccountsInv, Next PROVE AccountsInv'
    OBVIOUS
  <1>1. ASSUME NEW r \in Requests, NEW p \in Passwords,
               BeginSignup(r, p) \/ BeginLogin(r, p) \/ CommitChange(r, p)
        PROVE  AccountsInv'
    BY <1>1, ReadersKeep, ChangeKeeps
  <1>2. ASSUME NEW r \in Requests,
               \/ CommitSignup(r) \/ SkipVerification(r) \/ VerificationFailed(r) \/ MailSent(r)
               \/ CommitLogin(r) \/ RejectRefresh(r) \/ RejectChange(r) \/ BeginForgot(r)
               \/ ResetMailFailed(r) \/ BeginGoogle(r) \/ CommitGoogle(r)
        PROVE  AccountsInv'
    BY <1>2, SignupKeeps, LeaversKeep, VerificationKeeps, LoginKeeps, ReadersKeep, ForgotKeeps
  <1>3. ASSUME NEW r \in Requests,
               \/ \E l \in EmailLinks : DeliverVerification(r, l)
               \/ \E l \in ResetLinks : CommitForgot(r, l)
        PROVE  AccountsInv'
    BY <1>3, VerificationKeeps, ForgotKeeps
  <1>4. ASSUME NEW r \in Requests, NEW j \in Jtis,
               \/ BeginRefresh(r, j) \/ CommitRefresh(r, j) \/ IssueChanged(r, j)
               \/ \E p \in Passwords : BeginChange(r, j, p)
        PROVE  AccountsInv'
    BY <1>4, ReadersKeep, RefreshKeeps, IssueKeeps
  <1>5. ASSUME GoogleSignup \/ GoogleLink \/ GoogleReclaim \/ MailLinkCode
        PROVE  AccountsInv'
    BY <1>5, GoogleKeeps, ReclaimKeeps, MailLinkCodeKeeps
  <1>6. ASSUME \/ \E l \in EmailLinks : ConfirmEmail(l)
               \/ \E l \in ResetLinks, p \in Passwords : Reset(l, p)
               \/ \E j \in Jtis : Logout(j) \/ \E p \in Passwords : Enroll(j, p)
        PROVE  AccountsInv'
    BY <1>6, ConfirmEmailKeeps, ResetKeeps, LogoutKeeps, EnrollKeeps
  <1>7. ASSUME \/ \E j, k \in Jtis, c \in Codes :
                    ConfirmMfa(j, k, c) \/ \E p \in Passwords : DisableMfa(j, k, p, c)
               \/ \E l \in Challenges, k \in Jtis, c \in Codes : Verify(l, k, c)
        PROVE  AccountsInv'
    BY <1>7, ConfirmMfaKeeps, DisableMfaKeeps, VerifyKeeps
  <1>. QED
    BY <1>1, <1>2, <1>3, <1>4, <1>5, <1>6, <1>7 DEF Next, Others

(* The inductive invariant holds of every account.                           *)
THEOREM AccountsHold == Spec => []AccountsInv
  BY InitKeeps, NextKeeps, StutterKeeps, PTL DEF Spec

(***************************************************************************)
(* A session that still signs somebody in was granted under the version    *)
(* and the password now in force, with a second factor where there is one. *)
(***************************************************************************)
THEOREM LiveSessionsAreProven == Spec => []LiveIsProven
  <1>1. AccountsInv => LiveIsProven
    BY DEF AccountsInv, SessionHolds, LiveIsProven, Live, Access
  <1>. QED
    BY <1>1, AccountsHold, PTL

HistoryTyped == mayReturn \subseteq ResetLinks

(* Types.                                                                    *)
THEOREM AccountsTyped == Spec => []TypeOK
  <1>1. Init => HistoryTyped
    BY DEF Init, HistoryTyped
  <1>2. HistoryTyped /\ [Next]_vars => HistoryTyped'
    <2>1. \A l \in ResetLinks, p \in Passwords :
            Reset(l, p) /\ mayReturn \subseteq ResetLinks => mayReturn' \subseteq ResetLinks
      BY DEF Reset
    <2>2. Next => \/ mayReturn' = mayReturn
                  \/ \E l \in ResetLinks, p \in Passwords : Reset(l, p)
      BY DEF Next
    <2>3. UNCHANGED vars => mayReturn' = mayReturn
      BY DEF vars
    <2>. QED
      BY <2>1, <2>2, <2>3 DEF HistoryTyped
  <1>3. AccountsInv /\ HistoryTyped => TypeOK
    BY RowByRow DEF IInv, HistoryTyped
  <1>. QED
    BY <1>1, <1>2, <1>3, AccountsHold, PTL DEF Spec

-----------------------------------------------------------------------------
(***************************************************************************)
(* Rotation.  Who was rotated from a session revoked it, and no row that   *)
(* was revoked is rotated again; a refresh has read a row that is there.   *)
(***************************************************************************)
RotationInv ==
  /\ \A j \in Jtis : sessions[j].from # NoLink =>
       /\ sessions[j].issued /\ sessions[j].from \in Jtis
       /\ sessions[sessions[j].from].issued /\ sessions[sessions[j].from].revoked
  /\ RotatedOnce
  /\ \A r \in Requests : op[r].stage = "refresh" => sessions[op[r].jti].issued

(* Rows grow: what was issued stays so, what was revoked stays so, and only  *)
(* a row that was unused may change its origin, to none.                     *)
Grown ==
  \A j \in Jtis :
    \/ /\ sessions'[j].from = sessions[j].from
       /\ sessions[j].issued => sessions'[j].issued
       /\ sessions[j].issued /\ sessions[j].revoked => sessions'[j].revoked
    \/ ~sessions[j].issued /\ sessions'[j].issued /\ sessions'[j].from = NoLink

(* No request but one that finds the row starts a refresh.                   *)
RefreshesKept ==
  \A r \in Requests : op'[r].stage = "refresh" =>
    \/ op[r].stage = "refresh" /\ op'[r].jti = op[r].jti
    \/ sessions[op'[r].jti].issued /\ op'[r].jti \in Jtis

LEMMA GrownKeeps ==
    ASSUME AccountsInv, RotationInv, Grown, RefreshesKept PROVE RotationInv'
  <1>1. \A j \in Jtis : sessions'[j].from # NoLink =>
          /\ sessions'[j].issued /\ sessions'[j].from \in Jtis
          /\ sessions'[sessions'[j].from].issued /\ sessions'[sessions'[j].from].revoked
    BY DEF RotationInv, Grown
  <1>2. RotatedOnce'
    BY DEF RotationInv, RotatedOnce, Grown
  <1>3. \A r \in Requests : op[r].stage = "refresh" => op[r].jti \in Jtis
    BY Facts DEF OpFits
  <1>4. \A r \in Requests : op'[r].stage = "refresh" => sessions'[op'[r].jti].issued
    BY <1>3 DEF RotationInv, Grown, RefreshesKept
  <1>. QED
    BY <1>1, <1>2, <1>4 DEF RotationInv

LEMMA GrantGrows ==
    ASSUME AccountsInv, NEW base \in {sessions, Revoked}, NEW j \in Unused, NEW v, NEW p, NEW k,
           NEW f, NEW c, sessions' = [base EXCEPT ![j] = Grant(v, p, k, f, c)]
    PROVE  Grown
  <1>1. \A i \in Jtis : base[i].from = sessions[i].from /\ base[i].issued = sessions[i].issued
                        /\ (sessions[i].issued /\ sessions[i].revoked => base[i].revoked)
    BY Facts DEF Revoked, SessionType
  <1>2. j \in Jtis /\ ~sessions[j].issued /\ base \in [Jtis -> SessionType]
    BY Facts, RevokedKept DEF Unused
  <1>3. Grant(v, p, k, f, c).from = NoLink /\ Grant(v, p, k, f, c).issued
    BY DEF Grant
  <1>4. \A i \in Jtis : sessions'[i] = IF i = j THEN Grant(v, p, k, f, c) ELSE base[i]
    BY <1>2
  <1>. QED
    BY <1>1, <1>2, <1>3, <1>4 DEF Grown

LEMMA SameGrows ==
    ASSUME AccountsInv, sessions' \in {sessions, Revoked} PROVE Grown
  BY Facts DEF Grown, Revoked, SessionType

LEMMA SignInGrows ==
    ASSUME AccountsInv, NEW v, NEW k, NEW row, NEW base \in {sessions, Revoked},
           SignIn(v, k, row, base)
    PROVE  Grown
  <1>1. CASE row.mfa
    BY <1>1, SameGrows DEF SignIn
  <1>2. CASE ~row.mfa
    BY <1>2, GrantGrows DEF SignIn
  <1>. QED
    BY <1>1, <1>2

(* A request that is written, by anything but a refresh, and one that ends.  *)
LEMMA WrittenRefreshes ==
    ASSUME AccountsInv, NEW r \in Requests, NEW o, op' = [op EXCEPT ![r] = o],
           o.stage = "refresh" => sessions[o.jti].issued /\ o.jti \in Jtis
    PROVE  RefreshesKept
  BY Facts DEF RefreshesKept

LEMMA EndedRefreshes ==
    ASSUME AccountsInv, NEW r \in Requests, Done(r) PROVE RefreshesKept
  <1>1. Idle.stage = "idle" /\ op' = [op EXCEPT ![r] = Idle]
    BY DEF Idle, Done
  <1>2. \A i \in Requests : op'[i] = IF i = r THEN Idle ELSE op[i]
    BY <1>1, Facts
  <1>. QED
    BY <1>1, <1>2 DEF RefreshesKept

LEMMA SameRefreshes ==
    ASSUME AccountsInv, op' = op PROVE RefreshesKept
  BY DEF RefreshesKept

LEMMA RefreshRotates ==
    ASSUME AccountsInv, RotationInv, NEW r \in Requests, NEW j \in Jtis, CommitRefresh(r, j)
    PROVE  RotationInv'
  <1> DEFINE old == op[r].jti
             base == [sessions EXCEPT ![old].revoked = TRUE]
             row == [sessions[old] EXCEPT !.from = old, !.revoked = FALSE]
  <1>1. /\ op[r].stage = "refresh" /\ ~sessions[old].revoked /\ ~sessions[j].issued
        /\ sessions' = [base EXCEPT ![j] = row]
    BY DEF CommitRefresh, Unused
  <1>2. old \in Jtis /\ sessions \in [Jtis -> SessionType] /\ sessions[old].issued /\ j # old
    BY <1>1, Facts DEF OpFits, RotationInv
  <1>3. /\ base[old].revoked /\ base[old].from = sessions[old].from
        /\ base[old].issued = sessions[old].issued
        /\ \A i \in Jtis \ {old} : base[i] = sessions[i]
        /\ DOMAIN base = Jtis
    BY <1>2 DEF SessionType
  <1>4. row.from = old /\ row.issued
    BY <1>2 DEF SessionType
  <1> HIDE DEF base, row
  <1>5. \A i \in Jtis : sessions'[i] = IF i = j THEN row ELSE base[i]
    BY <1>1, <1>3
  <1>6. /\ sessions'[j].from = old /\ sessions'[j].issued
        /\ sessions'[old].revoked /\ sessions'[old].from = sessions[old].from
        /\ sessions'[old].issued
        /\ \A i \in Jtis \ {j, old} : sessions'[i] = sessions[i]
    BY <1>2, <1>3, <1>4, <1>5
  <1> HIDE DEF old
  <1>7. \A i \in Jtis : sessions'[i].from # NoLink =>
          /\ sessions'[i].issued /\ sessions'[i].from \in Jtis
          /\ sessions'[sessions'[i].from].issued /\ sessions'[sessions'[i].from].revoked
    BY <1>1, <1>2, <1>6 DEF RotationInv
  <1>8. \A i \in Jtis \ {j} : /\ sessions'[i].from = sessions[i].from
                              /\ (sessions[i].from # old \/ sessions[i].from = NoLink)
    BY <1>1, <1>2, <1>6 DEF RotationInv, old
  <1>9. RotatedOnce'
    BY <1>6, <1>8 DEF RotationInv, RotatedOnce
  <1>10. \A i \in Requests : op'[i].stage = "refresh" => sessions'[op'[i].jti].issued
    <2>1. RefreshesKept
      BY EndedRefreshes DEF CommitRefresh
    <2>2. \A i \in Requests : op[i].stage = "refresh" => op[i].jti \in Jtis
      BY Facts DEF OpFits
    <2>. QED
      BY <1>2, <1>6, <2>1, <2>2 DEF RotationInv, RefreshesKept
  <1>. QED
    BY <1>7, <1>9, <1>10 DEF RotationInv

(* The requests that only read, and the ones that leave.                     *)
LEMMA ReadersRotate ==
    ASSUME AccountsInv, NEW r \in Requests, NEW p, NEW j, NEW l,
           \/ BeginSignup(r, p) \/ BeginLogin(r, p) \/ BeginForgot(r) \/ BeginGoogle(r)
           \/ (j \in Jtis /\ BeginRefresh(r, j)) \/ BeginChange(r, j, p)
           \/ DeliverVerification(r, l) \/ CommitForgot(r, l)
    PROVE  Grown /\ RefreshesKept
  <1>1. sessions' = sessions
    BY DEF BeginSignup, BeginLogin, BeginForgot, BeginGoogle, BeginRefresh, BeginChange,
           DeliverVerification, CommitForgot
  <1>2. ASSUME NEW o, op' = [op EXCEPT ![r] = o], o.stage # "refresh"
        PROVE  RefreshesKept
    BY <1>2, WrittenRefreshes
  <1>3. CASE BeginSignup(r, p)
    <2> DEFINE o == [Idle EXCEPT !.stage = "signup", !.knew = p]
    <2>1. op' = [op EXCEPT ![r] = o] /\ o.stage # "refresh"
      BY <1>3 DEF BeginSignup, Idle
    <2> HIDE DEF o
    <2>. QED
      BY <1>1, <1>2, <2>1, SameGrows
  <1>4. CASE BeginLogin(r, p)
    <2> DEFINE o == [Idle EXCEPT !.stage = "login", !.version = user.version, !.knew = p]
    <2>1. op' = [op EXCEPT ![r] = o] /\ o.stage # "refresh"
      BY <1>4 DEF BeginLogin, Idle
    <2> HIDE DEF o
    <2>. QED
      BY <1>1, <1>2, <2>1, SameGrows
  <1>5. CASE BeginForgot(r)
    <2> DEFINE o == [Idle EXCEPT !.stage = "forgot", !.previous = user.reset]
    <2>1. op' = [op EXCEPT ![r] = o] /\ o.stage # "refresh"
      BY <1>5 DEF BeginForgot, Idle
    <2> HIDE DEF o
    <2>. QED
      BY <1>1, <1>2, <2>1, SameGrows
  <1>6. CASE BeginGoogle(r)
    <2> DEFINE o == [Idle EXCEPT !.stage = "google", !.version = user.version]
    <2>1. op' = [op EXCEPT ![r] = o] /\ o.stage # "refresh"
      BY <1>6 DEF BeginGoogle, Idle
    <2> HIDE DEF o
    <2>. QED
      BY <1>1, <1>2, <2>1, SameGrows
  <1>7. CASE j \in Jtis /\ BeginRefresh(r, j)
    <2> DEFINE o == [Idle EXCEPT !.stage = "refresh", !.version = user.version, !.jti = j]
    <2>1. op' = [op EXCEPT ![r] = o] /\ o.jti = j /\ j \in Jtis /\ sessions[j].issued
      BY <1>7 DEF BeginRefresh, Access, Idle
    <2> HIDE DEF o
    <2>2. RefreshesKept
      BY <2>1, WrittenRefreshes
    <2>. QED
      BY <1>1, <2>2, SameGrows
  <1>8. CASE BeginChange(r, j, p)
    <2> DEFINE o == [Idle EXCEPT !.stage = "change", !.version = user.version, !.knew = p]
    <2>1. op' = [op EXCEPT ![r] = o] /\ o.stage # "refresh"
      BY <1>8 DEF BeginChange, Idle
    <2> HIDE DEF o
    <2>. QED
      BY <1>1, <1>2, <2>1, SameGrows
  <1>9. CASE DeliverVerification(r, l)
    <2> DEFINE o == [Idle EXCEPT !.stage = "mailing", !.link = l, !.previous = protection.email]
    <2>1. op' = [op EXCEPT ![r] = o] /\ o.stage # "refresh"
      BY <1>9 DEF DeliverVerification, Idle
    <2> HIDE DEF o
    <2>. QED
      BY <1>1, <1>2, <2>1, SameGrows
  <1>10. CASE CommitForgot(r, l)
    <2> DEFINE o == [op[r] EXCEPT !.stage = "resetting", !.link = l]
    <2>1. op' = [op EXCEPT ![r] = o] /\ o.stage # "refresh"
      BY <1>10, Facts DEF CommitForgot, OpType
    <2> HIDE DEF o
    <2>. QED
      BY <1>1, <1>2, <2>1, SameGrows
  <1>. QED
    BY <1>3, <1>4, <1>5, <1>6, <1>7, <1>8, <1>9, <1>10

LEMMA CommitsRotate ==
    ASSUME AccountsInv, NEW r \in Requests, NEW p,
           \/ CommitSignup(r) \/ CommitChange(r, p)
    PROVE  Grown /\ RefreshesKept
  <1>1. CASE CommitSignup(r)
    <2> DEFINE o == [Idle EXCEPT !.stage = "deliver"]
    <2>1. op' = [op EXCEPT ![r] = o] /\ o.stage # "refresh" /\ sessions' = sessions
      BY <1>1 DEF CommitSignup, Idle
    <2> HIDE DEF o
    <2>. QED
      BY <2>1, SameGrows, WrittenRefreshes
  <1>2. CASE CommitChange(r, p)
    <2> DEFINE o == [Idle EXCEPT !.stage = "rotated", !.version = user.version + 1, !.knew = p]
    <2>1. op' = [op EXCEPT ![r] = o] /\ o.stage # "refresh" /\ sessions' = Revoked
      BY <1>2 DEF CommitChange, Idle
    <2> HIDE DEF o
    <2>. QED
      BY <2>1, SameGrows, WrittenRefreshes
  <1>. QED
    BY <1>1, <1>2

LEMMA EndingsRotate ==
    ASSUME AccountsInv, NEW r \in Requests, NEW j,
           \/ SkipVerification(r) \/ VerificationFailed(r) \/ MailSent(r) \/ RejectRefresh(r)
           \/ RejectChange(r) \/ ResetMailFailed(r) \/ CommitLogin(r) \/ CommitGoogle(r)
           \/ IssueChanged(r, j)
    PROVE  Grown /\ RefreshesKept
  <1>1. CASE CommitLogin(r)
    <2>1. SignIn(op[r].version, op[r].knew, protection, sessions) /\ Done(r)
      BY <1>1 DEF CommitLogin
    <2>. QED
      BY <2>1, SignInGrows, EndedRefreshes
  <1>2. CASE CommitGoogle(r)
    <2>1. Done(r) /\ \E v, k : SignIn(v, k, protection, sessions)
      BY <1>2 DEF CommitGoogle
    <2>. QED
      BY <2>1, SignInGrows, EndedRefreshes
  <1>3. CASE IssueChanged(r, j)
    <2>1. /\ j \in Unused /\ Done(r)
          /\ sessions' = [sessions EXCEPT ![j] =
               Grant(user.version, op[r].version, op[r].knew, TRUE,
                     user.version # op[r].version)]
      BY <1>3 DEF IssueChanged
    <2>. QED
      BY <2>1, GrantGrows, EndedRefreshes
  <1>4. CASE \/ SkipVerification(r) \/ VerificationFailed(r) \/ MailSent(r) \/ RejectRefresh(r)
             \/ RejectChange(r) \/ ResetMailFailed(r)
    <2>1. Done(r) /\ sessions' = sessions
      BY <1>4 DEF SkipVerification, VerificationFailed, MailSent, RejectRefresh, RejectChange,
                 ResetMailFailed
    <2>. QED
      BY <2>1, SameGrows, EndedRefreshes
  <1>. QED
    BY <1>1, <1>2, <1>3, <1>4

LEMMA AccountRotates ==
    ASSUME AccountsInv, NEW j, NEW k, NEW l, NEW p, NEW c,
           \/ GoogleSignup \/ GoogleLink \/ GoogleReclaim \/ MailLinkCode
           \/ ConfirmEmail(l) \/ Reset(l, p) \/ Logout(j) \/ Enroll(j, p)
           \/ ConfirmMfa(j, k, c) \/ DisableMfa(j, k, p, c) \/ Verify(l, k, c)
    PROVE  Grown /\ RefreshesKept
  <1>1. CASE GoogleSignup
    <2>1. SignIn(user.version, NoPassword, protection, sessions) /\ op' = op
      BY <1>1 DEF GoogleSignup
    <2>. QED
      BY <2>1, SignInGrows, SameRefreshes
  <1>2. CASE GoogleLink
    <2>1. SignIn(user.version, NoPassword, protection, sessions) /\ op' = op
      BY <1>2 DEF GoogleLink
    <2>. QED
      BY <2>1, SignInGrows, SameRefreshes
  <1>3. CASE GoogleReclaim
    <2> DEFINE row == [protection EXCEPT !.email = NoLink, !.required = FALSE,
                                         !.pending = FALSE, !.challenge = NoLink]
    <2>1. SignIn(user.version + 1, NoPassword, row, Revoked) /\ op' = op
      BY <1>3 DEF GoogleReclaim
    <2> HIDE DEF row
    <2>. QED
      BY <2>1, SignInGrows, SameRefreshes
  <1>4. CASE MailLinkCode \/ ConfirmEmail(l) \/ Enroll(j, p)
    <2>1. op' = op /\ sessions' = sessions
      BY <1>4 DEF MailLinkCode, ConfirmEmail, Enroll
    <2>. QED
      BY <2>1, SameGrows, SameRefreshes
  <1>5. CASE Reset(l, p) \/ Logout(j)
    <2>1. op' = op /\ sessions' = Revoked
      BY <1>5 DEF Reset, Logout
    <2>. QED
      BY <2>1, SameGrows, SameRefreshes
  <1>6. CASE ConfirmMfa(j, k, c)
    <2>1. /\ op' = op /\ k \in Unused
          /\ sessions' = [Revoked EXCEPT ![k] =
               Grant(user.version + 1, user.version + 1, sessions[j].knew, TRUE,
                     sessions[j].overtaken)]
      BY <1>6 DEF ConfirmMfa
    <2>. QED
      BY <2>1, GrantGrows, SameRefreshes
  <1>7. CASE DisableMfa(j, k, p, c)
    <2>1. /\ op' = op /\ k \in Unused
          /\ sessions' = [Revoked EXCEPT ![k] =
               Grant(user.version + 1, user.version + 1, p, TRUE, FALSE)]
      BY <1>7 DEF DisableMfa
    <2>. QED
      BY <2>1, GrantGrows, SameRefreshes
  <1>8. CASE Verify(l, k, c)
    <2>1. /\ op' = op /\ k \in Unused
          /\ sessions' = [sessions EXCEPT ![k] =
               Grant(user.version, protection.challengeVersion, NoPassword, TRUE, FALSE)]
      BY <1>8 DEF Verify
    <2>. QED
      BY <2>1, GrantGrows, SameRefreshes
  <1>. QED
    BY <1>1, <1>2, <1>3, <1>4, <1>5, <1>6, <1>7, <1>8

LEMMA NextRotates == AccountsInv /\ RotationInv /\ Next => RotationInv'
  <1> SUFFICES ASSUME AccountsInv, RotationInv, Next PROVE RotationInv'
    OBVIOUS
  <1> USE GrownKeeps
  <1>1. ASSUME NEW r \in Requests, NEW p \in Passwords,
               BeginSignup(r, p) \/ BeginLogin(r, p) \/ CommitChange(r, p)
        PROVE  RotationInv'
    BY <1>1, ReadersRotate, CommitsRotate
  <1>2. ASSUME NEW r \in Requests,
               \/ CommitSignup(r) \/ SkipVerification(r) \/ VerificationFailed(r) \/ MailSent(r)
               \/ CommitLogin(r) \/ RejectRefresh(r) \/ RejectChange(r) \/ BeginForgot(r)
               \/ ResetMailFailed(r) \/ BeginGoogle(r) \/ CommitGoogle(r)
        PROVE  RotationInv'
    BY <1>2, ReadersRotate, CommitsRotate, EndingsRotate
  <1>3. ASSUME NEW r \in Requests,
               \/ \E l \in EmailLinks : DeliverVerification(r, l)
               \/ \E l \in ResetLinks : CommitForgot(r, l)
        PROVE  RotationInv'
    BY <1>3, ReadersRotate
  <1>4. ASSUME NEW r \in Requests, NEW j \in Jtis,
               \/ BeginRefresh(r, j) \/ CommitRefresh(r, j) \/ IssueChanged(r, j)
               \/ \E p \in Passwords : BeginChange(r, j, p)
        PROVE  RotationInv'
    BY <1>4, ReadersRotate, RefreshRotates, EndingsRotate
  <1>5. ASSUME GoogleSignup \/ GoogleLink \/ GoogleReclaim \/ MailLinkCode
        PROVE  RotationInv'
    BY <1>5, AccountRotates
  <1>6. ASSUME \/ \E l \in EmailLinks : ConfirmEmail(l)
               \/ \E l \in ResetLinks, p \in Passwords : Reset(l, p)
               \/ \E j \in Jtis : Logout(j) \/ \E p \in Passwords : Enroll(j, p)
        PROVE  RotationInv'
    BY <1>6, AccountRotates
  <1>7. ASSUME \/ \E j, k \in Jtis, c \in Codes :
                    ConfirmMfa(j, k, c) \/ \E p \in Passwords : DisableMfa(j, k, p, c)
               \/ \E l \in Challenges, k \in Jtis, c \in Codes : Verify(l, k, c)
        PROVE  RotationInv'
    BY <1>7, AccountRotates
  <1>. QED
    BY <1>1, <1>2, <1>3, <1>4, <1>5, <1>6, <1>7 DEF Next, Others

LEMMA InitRotates == Init => RotationInv
  <1> SUFFICES ASSUME Init PROVE RotationInv
    OBVIOUS
  <1>1. \A j \in Jtis : sessions[j].from = NoLink
    BY DEF Init, Unissued
  <1>2. \A r \in Requests : op[r].stage = "idle"
    BY DEF Init, Idle
  <1>. QED
    BY <1>1, <1>2 DEF RotationInv, RotatedOnce

(***************************************************************************)
(* A refresh token is rotated once, however many requests present it.      *)
(***************************************************************************)
THEOREM TokensRotateOnce == Spec => []RotatedOnce
  <1>1. AccountsInv /\ RotationInv /\ UNCHANGED vars => RotationInv'
    BY DEF RotationInv, RotatedOnce, vars
  <1>2. RotationInv => RotatedOnce
    BY DEF RotationInv
  <1>. QED
    BY <1>1, <1>2, InitRotates, NextRotates, AccountsHold, PTL DEF Spec

-----------------------------------------------------------------------------
(***************************************************************************)
(* What can still be presented has not been accepted: the link a mailbox   *)
(* holds and the one a failed mail puts back, which nobody else holds.     *)
(***************************************************************************)
EmailsFresh ==
  /\ protection.email \in EmailLinks => uses[protection.email] = 0
  /\ \A r \in Requests : op[r].stage = "mailing" /\ op[r].previous \in EmailLinks =>
       /\ uses[op[r].previous] = 0 /\ op[r].previous # protection.email
       /\ \A q \in Requests : op[q].stage = "mailing" /\ op[q].previous = op[r].previous => q = r

(* A reset link that was accepted is held by nobody, unless it may return.   *)
ResetFresh ==
  \A l \in ResetLinks \ mayReturn : uses[l] > 0 => user.reset # l /\ ~InHand(l)

(* A code of the enrolment in force that was accepted is behind its counter  *)
(* or has left its recovery codes; no code of a later one was accepted.      *)
CodesFresh ==
  /\ \A s \in Secrets, c \in Codes : uses[<<s, c>>] > 0 =>
       /\ s <= protection.secret
       /\ s = protection.secret => ~protection.pending
       /\ s = protection.secret /\ protection.mfa =>
            /\ c \in Steps => c < protection.counter
            /\ c \notin protection.recovery
  /\ protection.challenge \in Challenges => protection.mfa
  /\ protection.pending => ~protection.mfa
  /\ protection.mfa \/ protection.pending => protection.secret \in Secrets

OnceInv == EmailsFresh /\ ResetFresh /\ CodesFresh /\ UsedOnce

-----------------------------------------------------------------------------
(* Steps that leave each kind alone.                                         *)
EmailQuiet ==
  /\ protection'.email \in {protection.email, NoLink}
  /\ \A l \in EmailLinks : uses'[l] = uses[l]
  /\ \A r \in Requests : op'[r].stage = "mailing" =>
       op[r].stage = "mailing" /\ op'[r].previous = op[r].previous

PreviousQuiet ==
  \A r \in Requests : op'[r].stage \in {"forgot", "resetting"} =>
    \/ op[r].stage \in {"forgot", "resetting"} /\ op'[r].previous = op[r].previous
    \/ op'[r].previous = user.reset

ResetQuiet ==
  /\ user'.reset \in {user.reset, NoLink}
  /\ \A l \in ResetLinks : uses'[l] = uses[l]
  /\ PreviousQuiet
  /\ mayReturn' = mayReturn

CodesQuiet ==
  /\ protection'.secret = protection.secret /\ protection'.mfa = protection.mfa
  /\ protection'.counter = protection.counter /\ protection'.recovery = protection.recovery
  /\ protection'.pending => protection.pending
  /\ protection'.challenge \in Challenges => protection.challenge \in Challenges \/ protection.mfa
  /\ \A s \in Secrets, c \in Codes : uses'[<<s, c>>] = uses[<<s, c>>]

LEMMA EmailQuietKeeps ==
    ASSUME EmailsFresh, EmailQuiet PROVE EmailsFresh'
  BY AccountsAssumption DEF EmailsFresh, EmailQuiet

LEMMA ResetQuietKeeps ==
    ASSUME ResetFresh, ResetQuiet PROVE ResetFresh'
  BY AccountsAssumption DEF ResetFresh, ResetQuiet, PreviousQuiet, InHand

LEMMA CodesQuietKeeps ==
    ASSUME CodesFresh, CodesQuiet PROVE CodesFresh'
  BY DEF CodesFresh, CodesQuiet

(* Accepting one of them counts that one.                                    *)
LEMMA OneAccepted ==
    ASSUME AccountsInv, NEW u, Accepted(u)
    PROVE  /\ \A x \in EmailLinks \union ResetLinks \union (Secrets \X Codes) :
                uses'[x] = IF x = u THEN uses[x] + 1 ELSE uses[x]
           /\ \A x \in EmailLinks \union ResetLinks \union (Secrets \X Codes) : uses[x] \in Nat
  <1>1. uses \in [Links \union (Secrets \X Codes) -> Nat]
    BY Facts DEF UsesType
  <1>2. uses' = [uses EXCEPT ![u] = @ + 1]
    BY DEF Accepted
  <1>3. \A x \in DOMAIN uses : uses'[x] = IF x = u THEN uses[x] + 1 ELSE uses[x]
    BY <1>2, Zenon
  <1>4. \A x \in EmailLinks \union ResetLinks \union (Secrets \X Codes) : x \in DOMAIN uses
    BY <1>1 DEF Links
  <1>5. \A x \in DOMAIN uses : uses[x] \in Nat
    BY <1>1
  <1>. QED
    BY <1>3, <1>4, <1>5

(* Nothing is counted twice when what is accepted was not accepted before.   *)
LEMMA FirstUse ==
    ASSUME AccountsInv, UsedOnce, NEW u, Accepted(u), mayReturn \subseteq mayReturn',
           u \in EmailLinks \union (ResetLinks \ mayReturn') \union (Secrets \X Codes)
             => uses[u] = 0
    PROVE  UsedOnce'
  <1>1. ASSUME NEW x \in EmailLinks \union (ResetLinks \ mayReturn') \union (Secrets \X Codes)
        PROVE  uses'[x] <= 1
    <2>1. uses'[x] = IF x = u THEN uses[x] + 1 ELSE uses[x]
      BY OneAccepted
    <2>2. uses[x] <= 1
      BY DEF UsedOnce
    <2>3. CASE x = u
      BY <2>1, <2>3
    <2>4. CASE x # u
      BY <2>1, <2>2, <2>4
    <2>. QED
      BY <2>3, <2>4
  <1>. QED
    BY <1>1 DEF UsedOnce

LEMMA NoneUsed ==
    ASSUME UsedOnce, uses' = uses, mayReturn' = mayReturn PROVE UsedOnce'
  BY DEF UsedOnce

-----------------------------------------------------------------------------
(* Verification of the mailbox.                                              *)
LEMMA OpsAt ==
    ASSUME AccountsInv, NEW r \in Requests, NEW o, op' = [op EXCEPT ![r] = o]
    PROVE  \A q \in Requests : op'[q] = IF q = r THEN o ELSE op[q]
  BY Facts

LEMMA DeliverFresh ==
    ASSUME AccountsInv, EmailsFresh, NEW r \in Requests, NEW l \in EmailLinks,
           DeliverVerification(r, l)
    PROVE  EmailsFresh'
  <1> DEFINE o == [Idle EXCEPT !.stage = "mailing", !.link = l, !.previous = protection.email]
  <1>1. /\ op' = [op EXCEPT ![r] = o] /\ protection' = [protection EXCEPT !.email = l]
        /\ uses' = uses /\ op[r].stage # "mailing" /\ ~Minted(l)
    BY DEF DeliverVerification
  <1>2. o.stage = "mailing" /\ o.previous = protection.email
    BY DEF Idle
  <1>3. protection'.email = l
    BY <1>1, Facts DEF ProtectionType
  <1> HIDE DEF o
  <1>4. \A q \in Requests : op'[q] = IF q = r THEN o ELSE op[q]
    BY <1>1, OpsAt
  <1>5. /\ l # protection.email /\ \A q \in Requests : l # op[q].previous
        /\ ~(uses[l] > 0) /\ uses[l] \in Nat
    BY <1>1, Facts DEF Minted, UsesType, Links
  <1>. QED
    BY <1>1, <1>2, <1>3, <1>4, <1>5 DEF EmailsFresh

LEMMA FailedFresh ==
    ASSUME AccountsInv, EmailsFresh, NEW r \in Requests, VerificationFailed(r)
    PROVE  EmailsFresh'
  <1>1. /\ op[r].stage = "mailing" /\ op' = [op EXCEPT ![r] = Idle] /\ uses' = uses
        /\ protection' = IF protection.email = op[r].link
                         THEN [protection EXCEPT !.email = op[r].previous] ELSE protection
    BY DEF VerificationFailed, Done
  <1>2. protection'.email \in {protection.email, op[r].previous}
    BY <1>1, Facts DEF ProtectionType
  <1>3. Idle.stage # "mailing" /\ \A q \in Requests : op'[q] = IF q = r THEN Idle ELSE op[q]
    BY <1>1, OpsAt DEF Idle
  <1>4. protection'.email \in EmailLinks => uses'[protection'.email] = 0
    BY <1>1, <1>2 DEF EmailsFresh
  <1>5. ASSUME NEW q \in Requests, op'[q].stage = "mailing", op'[q].previous \in EmailLinks
        PROVE  /\ q # r /\ op'[q] = op[q]
               /\ uses'[op'[q].previous] = 0 /\ op'[q].previous # protection'.email
    <2>1. q # r /\ op'[q] = op[q]
      BY <1>3, <1>5
    <2>. QED
      BY <1>1, <1>2, <1>5, <2>1 DEF EmailsFresh
  <1>6. ASSUME NEW p \in Requests, NEW q \in Requests, op[p].stage = "mailing",
               op[q].stage = "mailing", op[q].previous \in EmailLinks,
               op[p].previous = op[q].previous
        PROVE  p = q
    BY <1>6 DEF EmailsFresh
  <1>. QED
    BY <1>4, <1>5, <1>6 DEF EmailsFresh

LEMMA ConfirmFresh ==
    ASSUME AccountsInv, OnceInv, NEW l \in EmailLinks, ConfirmEmail(l), mayReturn' = mayReturn
    PROVE  OnceInv'
  <1>1. /\ l = protection.email /\ user' = [user EXCEPT !.verified = TRUE]
        /\ protection' = [protection EXCEPT !.required = FALSE, !.email = NoLink]
        /\ op' = op /\ Accepted(l) /\ uses[l] = 0
    BY DEF ConfirmEmail, OnceInv, EmailsFresh
  <1>2. protection'.email = NoLink /\ NoLink \notin EmailLinks
    BY <1>1, Facts, AccountsAssumption DEF ProtectionType
  <1>3. EmailsFresh'
    <2>1. \A x \in EmailLinks : x # l => uses'[x] = uses[x]
      BY <1>1, OneAccepted
    <2>. QED
      BY <1>1, <1>2, <2>1 DEF OnceInv, EmailsFresh
  <1>4. ResetQuiet
    <2>1. \A x \in ResetLinks : uses'[x] = uses[x]
      BY <1>1, OneAccepted, TokensApart
    <2>. QED
      BY <1>1, <2>1, Facts DEF ResetQuiet, PreviousQuiet, UserType
  <1>5. CodesQuiet
    <2>1. \A s \in Secrets, c \in Codes : uses'[<<s, c>>] = uses[<<s, c>>]
      BY <1>1, OneAccepted, TokensApart
    <2>. QED
      BY <1>1, <2>1, Facts DEF CodesQuiet, ProtectionType
  <1>. QED
    BY <1>1, <1>3, <1>4, <1>5, ResetQuietKeeps, CodesQuietKeeps, FirstUse DEF OnceInv

-----------------------------------------------------------------------------
(* The reset link.                                                           *)
LEMMA ForgotFresh ==
    ASSUME AccountsInv, ResetFresh, NEW r \in Requests, NEW l \in ResetLinks,
           CommitForgot(r, l), mayReturn' = mayReturn
    PROVE  ResetFresh'
  <1> DEFINE o == [op[r] EXCEPT !.stage = "resetting", !.link = l]
  <1>1. user'.reset = l /\ uses' = uses /\ op' = [op EXCEPT ![r] = o] /\ op[r].stage = "forgot"
    BY Facts DEF CommitForgot, UserType, OpType
  <1>2. ~(uses[l] > 0)
    BY DEF CommitForgot, Minted
  <1>3. o.previous = op[r].previous
    BY Facts DEF OpType
  <1> HIDE DEF o
  <1>4. \A q \in Requests : op'[q] = IF q = r THEN o ELSE op[q]
    BY <1>1, OpsAt
  <1>5. \A k \in ResetLinks : ~InHand(k) => ~InHand(k)'
    BY <1>1, <1>3, <1>4 DEF InHand
  <1>. QED
    BY <1>1, <1>2, <1>5 DEF ResetFresh

(* The link put back is the one the request read, whatever happened to it.   *)
LEMMA MailFailedFresh ==
    ASSUME AccountsInv, OnceInv, NEW r \in Requests, ResetMailFailed(r), mayReturn' = mayReturn
    PROVE  OnceInv'
  <1>1. /\ op[r].stage = "resetting" /\ op' = [op EXCEPT ![r] = Idle] /\ protection' = protection
        /\ user' = IF user.reset = op[r].link THEN [user EXCEPT !.reset = op[r].previous] ELSE user
        /\ uses' = uses
    BY DEF ResetMailFailed, Done
  <1>2. user'.reset \in {user.reset, op[r].previous}
    BY <1>1, Facts DEF UserType
  <1>3. /\ Idle.stage = "idle"
        /\ \A q \in Requests : op'[q] = IF q = r THEN Idle ELSE op[q]
    BY <1>1, OpsAt DEF Idle
  <1>4. \A l \in ResetLinks : ~InHand(l) => ~InHand(l)' /\ op[r].previous # l
    BY <1>1, <1>3 DEF InHand
  <1>5. ResetFresh'
    BY <1>1, <1>2, <1>4 DEF OnceInv, ResetFresh
  <1>6. EmailQuiet /\ CodesQuiet
    BY <1>1, <1>3 DEF EmailQuiet, CodesQuiet
  <1>. QED
    BY <1>1, <1>5, <1>6, EmailQuietKeeps, CodesQuietKeeps, NoneUsed DEF OnceInv

LEMMA ResetUsedOnce ==
    ASSUME AccountsInv, OnceInv, NEW l \in ResetLinks, NEW p, Reset(l, p)
    PROVE  OnceInv'
  <1>1. /\ l = user.reset /\ op' = op /\ Accepted(l)
        /\ user'.reset = NoLink /\ protection'.email = NoLink
        /\ protection' = [protection EXCEPT !.required = FALSE, !.challenge = NoLink,
                                            !.email = NoLink]
    BY Facts DEF Reset, UserType, ProtectionType
  <1>2. /\ l \notin mayReturn' => uses[l] = 0 /\ ~InHand(l)
        /\ mayReturn \subseteq mayReturn' /\ NoLink \notin ResetLinks \union EmailLinks
    <2>1. uses[l] \in Nat
      BY OneAccepted, <1>1
    <2>. QED
      BY <1>1, <2>1, AccountsAssumption DEF OnceInv, ResetFresh, Reset
  <1>3. ResetFresh'
    <2>1. \A x \in ResetLinks : x # l => uses'[x] = uses[x]
      BY <1>1, OneAccepted
    <2>2. \A x \in ResetLinks : InHand(x)' <=> InHand(x)
      BY <1>1 DEF InHand
    <2>. QED
      BY <1>1, <1>2, <2>1, <2>2 DEF OnceInv, ResetFresh
  <1>4. EmailQuiet
    <2>1. \A x \in EmailLinks : uses'[x] = uses[x]
      BY <1>1, OneAccepted, TokensApart
    <2>. QED
      BY <1>1, <2>1 DEF EmailQuiet
  <1>5. CodesQuiet
    <2>1. \A s \in Secrets, c \in Codes : uses'[<<s, c>>] = uses[<<s, c>>]
      BY <1>1, OneAccepted, TokensApart
    <2>. QED
      BY <1>1, <2>1, Facts, AccountsAssumption DEF CodesQuiet, ProtectionType
  <1>. QED
    <2>1. l \in EmailLinks \union (ResetLinks \ mayReturn') \union (Secrets \X Codes) => uses[l] = 0
      BY <1>2, TokensApart
    <2>2. UsedOnce'
      BY <1>1, <1>2, <2>1, FirstUse DEF OnceInv
    <2>. QED
      BY <1>3, <1>4, <1>5, <2>2, EmailQuietKeeps, CodesQuietKeeps DEF OnceInv

-----------------------------------------------------------------------------
(* The authenticator: what is enough of a step that accepts a code.          *)
LEMMA EnrollFresh ==
    ASSUME AccountsInv, CodesFresh, NEW j, NEW p, Enroll(j, p)
    PROVE  CodesFresh'
  <1>1. /\ protection'.pending /\ protection'.secret = protection.secret + 1
        /\ protection'.mfa = protection.mfa /\ protection'.challenge = protection.challenge
        /\ ~protection.mfa /\ uses' = uses
        /\ protection.secret \in Nat /\ protection.secret < MaxSecrets /\ MaxSecrets \in Nat
    BY Facts, AccountsAssumption DEF Enroll, ProtectionType
  <1>. QED
    BY <1>1 DEF CodesFresh, Secrets

LEMMA AcceptedElsewhere ==
    ASSUME AccountsInv, NEW s \in Secrets, NEW c \in Codes, Accepted(<<s, c>>)
    PROVE  /\ \A l \in EmailLinks \union ResetLinks : uses'[l] = uses[l]
           /\ \A t \in Secrets, d \in Codes : uses[<<t, d>>] \in Nat
                /\ uses'[<<t, d>>] = IF t = s /\ d = c THEN uses[<<t, d>>] + 1
                                     ELSE uses[<<t, d>>]
  <1>1. \A l \in EmailLinks \union ResetLinks : uses'[l] = uses[l]
    BY OneAccepted, TokensApart
  <1>2. ASSUME NEW t \in Secrets, NEW d \in Codes
        PROVE  uses[<<t, d>>] \in Nat
               /\ uses'[<<t, d>>] = IF t = s /\ d = c THEN uses[<<t, d>>] + 1 ELSE uses[<<t, d>>]
    BY OneAccepted
  <1>. QED
    BY <1>1, <1>2

LEMMA ConfirmMfaFresh ==
    ASSUME AccountsInv, CodesFresh, NEW j, NEW k, NEW c \in Codes, ConfirmMfa(j, k, c)
    PROVE  CodesFresh' /\ protection.secret \in Secrets /\ uses[<<protection.secret, c>>] = 0
  <1> DEFINE row == [protection EXCEPT !.mfa = TRUE, !.pending = FALSE, !.recovery = Recovery,
                                       !.challenge = NoLink]
             s == protection.secret
  <1>1. /\ protection.pending /\ c \in Steps /\ protection' = [row EXCEPT !.counter = c + 1]
        /\ Accepted(<<s, c>>)
    BY DEF ConfirmMfa, StepTaken
  <1>2. /\ protection'.mfa /\ ~protection'.pending /\ protection'.secret = s
        /\ protection'.counter = c + 1 /\ protection'.recovery = Recovery
        /\ protection'.challenge = NoLink
    BY <1>1, Facts DEF ProtectionType
  <1>3. s \in Secrets
    BY <1>1 DEF CodesFresh
  <1>5. \A t \in Secrets, d \in Codes : uses[<<t, d>>] \in Nat
          /\ uses'[<<t, d>>] = IF t = s /\ d = c THEN uses[<<t, d>>] + 1 ELSE uses[<<t, d>>]
    <2> HIDE DEF s
    <2>. QED
      BY <1>1, <1>3, AcceptedElsewhere
  <1>4. \A d \in Codes : uses[<<s, d>>] = 0
    BY <1>1, <1>3, <1>5 DEF CodesFresh
  <1>6. c < c + 1 /\ c \notin Recovery /\ s \in Nat
    BY <1>1, <1>3, AccountsAssumption, TokensApart DEF Secrets
  <1>7. ASSUME NEW t \in Secrets, NEW d \in Codes, uses'[<<t, d>>] > 0
        PROVE  t <= s /\ (t = s => d = c)
    BY <1>3, <1>4, <1>5, <1>6, <1>7 DEF CodesFresh
  <1>. QED
    BY <1>2, <1>3, <1>4, <1>6, <1>7, AccountsAssumption DEF CodesFresh

(* A challenge answered, by a step or by a recovery code.                    *)
LEMMA VerifyFresh ==
    ASSUME AccountsInv, CodesFresh, NEW l \in Challenges, NEW k, NEW c \in Codes, Verify(l, k, c)
    PROVE  CodesFresh' /\ protection.secret \in Secrets /\ uses[<<protection.secret, c>>] = 0
  <1> DEFINE row == [protection EXCEPT !.challenge = NoLink]
             s == protection.secret
  <1>1. /\ l = protection.challenge
        /\ StepTaken(row, c) \/ RecoveryTaken(row, c)
        /\ Accepted(<<s, c>>)
    BY DEF Verify, Consumed
  <1>2. protection.mfa /\ ~protection.pending /\ s \in Secrets
    <2>1. protection.challenge \in Challenges
      BY <1>1
    <2>. QED
      BY <2>1 DEF CodesFresh
  <1>3. /\ row.mfa /\ ~row.pending /\ row.secret = s /\ row.counter = protection.counter
        /\ row.recovery = protection.recovery /\ row.challenge = NoLink /\ row \in ProtectionType
        /\ row.counter \in Nat /\ row.recovery \subseteq Recovery
    BY <1>2, Facts, AccountsAssumption DEF ProtectionType
  <1> HIDE DEF row
  <1>4. /\ protection'.mfa /\ ~protection'.pending /\ protection'.secret = s
        /\ protection'.challenge = NoLink
        /\ \/ /\ c \in Steps /\ c + 1 > protection.counter
              /\ protection'.counter = c + 1 /\ protection'.recovery = protection.recovery
           \/ /\ c \in protection.recovery
              /\ protection'.counter = protection.counter
              /\ protection'.recovery = protection.recovery \ {c}
    BY <1>1, <1>3 DEF StepTaken, RecoveryTaken, ProtectionType
  <1>5. \A t \in Secrets, d \in Codes : uses[<<t, d>>] \in Nat
          /\ uses'[<<t, d>>] = IF t = s /\ d = c THEN uses[<<t, d>>] + 1 ELSE uses[<<t, d>>]
    <2> HIDE DEF s
    <2>. QED
      BY <1>1, <1>2, AcceptedElsewhere
  <1>6. c \in Steps => c \in Nat
    BY AccountsAssumption
  <1>7. uses[<<s, c>>] = 0
    BY <1>2, <1>3, <1>4, <1>5, <1>6 DEF CodesFresh
  <1>8. s <= s /\ (c \in Steps => c < c + 1)
    BY <1>2, <1>6 DEF Secrets
  <1>9. ASSUME NEW t \in Secrets, NEW d \in Codes, uses'[<<t, d>>] > 0
        PROVE  /\ t <= s
               /\ t = s => (d \in Steps => d < protection'.counter) /\ d \notin protection'.recovery
    <2>1. CASE t = s /\ d = c
      BY <1>3, <1>4, <1>8, <2>1, TokensApart, AccountsAssumption
    <2>2. CASE ~(t = s /\ d = c)
      <3>1. uses[<<t, d>>] > 0
        BY <1>5, <1>9, <2>2
      <3>2. t <= s /\ (t = s => (d \in Steps => d < protection.counter) /\ d \notin protection.recovery)
        BY <1>2, <3>1 DEF CodesFresh
      <3>3. d \in Steps => d \in Nat
        BY AccountsAssumption
      <3>. QED
        BY <1>3, <1>4, <1>6, <3>2, <3>3
    <2>. QED
      BY <2>1, <2>2
  <1>. QED
    BY <1>2, <1>4, <1>7, <1>9, AccountsAssumption DEF CodesFresh

LEMMA DisableMfaFresh ==
    ASSUME AccountsInv, CodesFresh, NEW j, NEW k, NEW p, NEW c \in Codes, DisableMfa(j, k, p, c)
    PROVE  CodesFresh' /\ protection.secret \in Secrets /\ uses[<<protection.secret, c>>] = 0
  <1> DEFINE s == protection.secret
  <1>1. /\ protection.mfa /\ Accepted(<<s, c>>)
        /\ c \in protection.recovery \/ (c \in Steps /\ c + 1 > protection.counter)
        /\ ~protection'.mfa /\ ~protection'.pending /\ protection'.secret = s
        /\ protection'.challenge = NoLink
    BY Facts DEF DisableMfa, ProtectionType
  <1>2. s \in Secrets /\ protection.counter \in Nat /\ (c \in Steps => c \in Nat)
    <2>1. protection.counter \in Nat /\ (c \in Steps => c \in Nat)
      <3>1. protection.counter \in {0} \union {x + 1 : x \in Steps}
        BY Facts DEF ProtectionType
      <3>2. \A x \in Steps : x \in Nat /\ x + 1 \in Nat
        BY AccountsAssumption
      <3>. QED
        BY <3>1, <3>2
    <2>. QED
      BY <1>1, <2>1 DEF CodesFresh
  <1>3. \A t \in Secrets, d \in Codes : uses[<<t, d>>] \in Nat
          /\ uses'[<<t, d>>] = IF t = s /\ d = c THEN uses[<<t, d>>] + 1 ELSE uses[<<t, d>>]
    BY <1>1, <1>2, AcceptedElsewhere
  <1>4. uses[<<s, c>>] = 0
    BY <1>1, <1>2, <1>3 DEF CodesFresh
  <1>5. \A t \in Secrets, d \in Codes : uses'[<<t, d>>] > 0 => t <= s
    BY <1>2, <1>3 DEF CodesFresh, Secrets
  <1>. QED
    BY <1>1, <1>2, <1>4, <1>5, AccountsAssumption DEF CodesFresh

(* An accepted code touches no link.                                         *)
LEMMA CodeKeeps ==
    ASSUME AccountsInv, OnceInv, NEW s \in Secrets, NEW c \in Codes, Accepted(<<s, c>>),
           uses[<<s, c>>] = 0, CodesFresh', op' = op, user'.reset = user.reset,
           mayReturn' = mayReturn,
           protection'.email = protection.email
    PROVE  OnceInv'
  <1>1. EmailQuiet /\ ResetQuiet
    BY AcceptedElsewhere DEF EmailQuiet, ResetQuiet, PreviousQuiet
  <1>2. <<s, c>> \in Secrets \X Codes
    OBVIOUS
  <1>. QED
    BY <1>1, <1>2, EmailQuietKeeps, ResetQuietKeeps, FirstUse DEF OnceInv

LEMMA FactorsOnce ==
    ASSUME AccountsInv, OnceInv, NEW j, NEW k, NEW p, NEW l, NEW c \in Codes,
           mayReturn' = mayReturn,
           \/ ConfirmMfa(j, k, c) \/ DisableMfa(j, k, p, c)
           \/ (l \in Challenges /\ Verify(l, k, c))
    PROVE  OnceInv'
  <1>1. /\ op' = op /\ user'.reset = user.reset /\ Accepted(<<protection.secret, c>>)
    BY Facts DEF ConfirmMfa, DisableMfa, Verify, Consumed, UserType
  <1>2. protection'.email = protection.email
    BY Facts DEF ConfirmMfa, DisableMfa, Verify, Consumed, StepTaken, RecoveryTaken, ProtectionType
  <1>3. CodesFresh' /\ protection.secret \in Secrets /\ uses[<<protection.secret, c>>] = 0
    BY ConfirmMfaFresh, DisableMfaFresh, VerifyFresh DEF OnceInv
  <1>. QED
    BY <1>1, <1>2, <1>3, CodeKeeps

-----------------------------------------------------------------------------
(* Everything else is quiet.                                                 *)
OpsQuiet ==
  /\ \A r \in Requests : op'[r].stage = "mailing" =>
       op[r].stage = "mailing" /\ op'[r].previous = op[r].previous
  /\ PreviousQuiet
  /\ mayReturn' = mayReturn

LEMMA WrittenQuiet ==
    ASSUME AccountsInv, NEW r \in Requests, NEW o, op' = [op EXCEPT ![r] = o], o.stage # "mailing",
           o.stage \in {"forgot", "resetting"} =>
             o.previous = user.reset
             \/ (op[r].stage \in {"forgot", "resetting"} /\ o.previous = op[r].previous),
           mayReturn' = mayReturn
    PROVE  OpsQuiet
  BY OpsAt DEF OpsQuiet, PreviousQuiet

LEMMA DoneQuiet ==
    ASSUME AccountsInv, NEW r \in Requests, Done(r), mayReturn' = mayReturn PROVE OpsQuiet
  BY OpsAt DEF OpsQuiet, PreviousQuiet, Done, Idle

LEMMA QuietKeeps ==
    ASSUME OnceInv, OpsQuiet, uses' = uses,
           protection'.email \in {protection.email, NoLink}, ResetQuiet, CodesQuiet
    PROVE  OnceInv'
  BY EmailQuietKeeps, ResetQuietKeeps, CodesQuietKeeps, NoneUsed
     DEF OnceInv, EmailQuiet, OpsQuiet

(* Neither the account's link nor its factors, nor what was used.            *)
LEMMA ReadQuiet ==
    ASSUME OnceInv, OpsQuiet, uses' = uses, user'.reset = user.reset, protection' = protection
    PROVE  OnceInv'
  BY QuietKeeps DEF ResetQuiet, CodesQuiet, OpsQuiet

LEMMA ReadersOnce ==
    ASSUME AccountsInv, OnceInv, NEW r \in Requests, NEW p, NEW j,
           mayReturn' = mayReturn,
           \/ BeginSignup(r, p) \/ BeginLogin(r, p) \/ BeginForgot(r) \/ BeginGoogle(r)
           \/ BeginRefresh(r, j) \/ BeginChange(r, j, p)
    PROVE  OnceInv'
  <1>1. user' = user /\ protection' = protection /\ uses' = uses
    BY DEF BeginSignup, BeginLogin, BeginForgot, BeginGoogle, BeginRefresh, BeginChange
  <1>2. PICK o \in {[Idle EXCEPT !.stage = "signup", !.knew = p],
                    [Idle EXCEPT !.stage = "login", !.version = user.version, !.knew = p],
                    [Idle EXCEPT !.stage = "forgot", !.previous = user.reset],
                    [Idle EXCEPT !.stage = "google", !.version = user.version],
                    [Idle EXCEPT !.stage = "refresh", !.version = user.version, !.jti = j],
                    [Idle EXCEPT !.stage = "change", !.version = user.version, !.knew = p]} :
          op' = [op EXCEPT ![r] = o]
    BY DEF BeginSignup, BeginLogin, BeginForgot, BeginGoogle, BeginRefresh, BeginChange
  <1>3. o.stage # "mailing" /\ (o.stage \in {"forgot", "resetting"} => o.previous = user.reset)
    BY DEF Idle
  <1>. QED
    <2>1. OpsQuiet
      BY <1>2, <1>3, OpsAt DEF OpsQuiet, PreviousQuiet
    <2>. QED
      BY <1>1, <2>1, ReadQuiet

LEMMA LeaversOnce ==
    ASSUME AccountsInv, OnceInv, NEW r \in Requests, mayReturn' = mayReturn,
           SkipVerification(r) \/ MailSent(r) \/ RejectRefresh(r) \/ RejectChange(r)
    PROVE  OnceInv'
  BY DoneQuiet, ReadQuiet DEF SkipVerification, MailSent, RejectRefresh, RejectChange

(* Signing in: a challenge is written only where there is a second factor.   *)
LEMMA SignInOnce ==
    ASSUME AccountsInv, OnceInv, OpsQuiet, NEW v, NEW k, NEW row, NEW base,
           SignIn(v, k, row, base), uses' = uses, user'.reset \in {user.reset, NoLink},
           row \in ProtectionType, row.email \in {protection.email, NoLink},
           row.secret = protection.secret, row.mfa = protection.mfa,
           row.counter = protection.counter, row.recovery = protection.recovery,
           row.pending => protection.pending, row.challenge \in {protection.challenge, NoLink}
    PROVE  OnceInv'
  <1>1. /\ protection'.email = row.email /\ protection'.secret = row.secret
        /\ protection'.mfa = row.mfa /\ protection'.counter = row.counter
        /\ protection'.recovery = row.recovery /\ protection'.pending = row.pending
        /\ protection'.challenge = row.challenge \/ row.mfa
    BY DEF SignIn, ProtectionType
  <1>2. CodesQuiet /\ ResetQuiet
    BY <1>1, AccountsAssumption DEF CodesQuiet, ResetQuiet, OpsQuiet
  <1>. QED
    BY <1>1, <1>2, QuietKeeps

LEMMA LoginsOnce ==
    ASSUME AccountsInv, OnceInv, NEW r \in Requests, CommitLogin(r) \/ CommitGoogle(r),
           mayReturn' = mayReturn
    PROVE  OnceInv'
  <1>1. Done(r) /\ uses' = uses /\ user'.reset = user.reset
    BY Facts DEF CommitLogin, CommitGoogle, UserType
  <1>2. \E k : SignIn(op[r].version, k, protection, sessions)
    BY DEF CommitLogin, CommitGoogle
  <1>. QED
    BY <1>1, <1>2, Facts, DoneQuiet, SignInOnce

LEMMA GooglesOnce ==
    ASSUME AccountsInv, OnceInv, GoogleSignup \/ GoogleLink \/ GoogleReclaim \/ MailLinkCode,
           mayReturn' = mayReturn
    PROVE  OnceInv'
  <1>1. OpsQuiet /\ uses' = uses
    BY DEF OpsQuiet, PreviousQuiet, GoogleSignup, GoogleLink, GoogleReclaim, MailLinkCode
  <1>2. CASE MailLinkCode
    BY <1>1, <1>2, ReadQuiet DEF MailLinkCode
  <1>3. CASE GoogleSignup \/ GoogleLink
    <2>1. user'.reset = user.reset /\ SignIn(user.version, NoPassword, protection, sessions)
      BY <1>3, Facts DEF GoogleSignup, GoogleLink, UserType
    <2>. QED
      BY <1>1, <2>1, Facts, SignInOnce
  <1>4. CASE GoogleReclaim
    <2> DEFINE row == [protection EXCEPT !.email = NoLink, !.required = FALSE,
                                         !.pending = FALSE, !.challenge = NoLink]
    <2>1. user'.reset = NoLink /\ SignIn(user.version + 1, NoPassword, row, Revoked)
      BY <1>4, Facts DEF GoogleReclaim, UserType
    <2>2. /\ row \in ProtectionType /\ row.email = NoLink
          /\ row.secret = protection.secret /\ row.mfa = protection.mfa
          /\ row.counter = protection.counter /\ row.recovery = protection.recovery
          /\ ~row.pending /\ row.challenge = NoLink
      BY Facts DEF ProtectionType
    <2> HIDE DEF row
    <2>. QED
      BY <1>1, <2>1, <2>2, SignInOnce
  <1>. QED
    BY <1>2, <1>3, <1>4

LEMMA CommitsOnce ==
    ASSUME AccountsInv, OnceInv, NEW r \in Requests, NEW p, NEW j,
           mayReturn' = mayReturn,
           \/ CommitSignup(r) \/ CommitChange(r, p) \/ CommitRefresh(r, j) \/ IssueChanged(r, j)
    PROVE  OnceInv'
  <1>1. /\ uses' = uses /\ user'.reset \in {user.reset, NoLink}
        /\ protection'.email = protection.email
    BY Facts DEF CommitSignup, CommitChange, CommitRefresh, IssueChanged, UserType,
                 ProtectionType
  <1>2. CodesQuiet
    BY <1>1, Facts, AccountsAssumption DEF CommitSignup, CommitChange, CommitRefresh, IssueChanged,
                 ProtectionType, CodesQuiet
  <1>3. OpsQuiet
    <2>1. CASE CommitRefresh(r, j) \/ IssueChanged(r, j)
      BY <2>1, DoneQuiet DEF CommitRefresh, IssueChanged
    <2>3. CASE CommitSignup(r) \/ CommitChange(r, p)
      <3>1. PICK o \in {[Idle EXCEPT !.stage = "deliver"],
                        [Idle EXCEPT !.stage = "rotated", !.version = user.version + 1, !.knew = p]} :
              op' = [op EXCEPT ![r] = o]
        BY <2>3 DEF CommitSignup, CommitChange
      <3>2. o.stage \notin {"mailing", "forgot", "resetting"}
        BY DEF Idle
      <3>. QED
        BY <3>1, <3>2, WrittenQuiet
    <2>. QED
      BY <2>1, <2>3
  <1>. QED
    BY <1>1, <1>2, <1>3, QuietKeeps DEF ResetQuiet, OpsQuiet

LEMMA VerificationOnce ==
    ASSUME AccountsInv, OnceInv, NEW r \in Requests, NEW l, mayReturn' = mayReturn,
           (l \in EmailLinks /\ DeliverVerification(r, l)) \/ VerificationFailed(r)
    PROVE  OnceInv'
  <1>1. user' = user /\ uses' = uses
    BY DEF DeliverVerification, VerificationFailed
  <1>2. CodesQuiet
    BY <1>1, Facts DEF DeliverVerification, VerificationFailed, ProtectionType, CodesQuiet
  <1>3. EmailsFresh'
    BY DeliverFresh, FailedFresh DEF OnceInv
  <1>4. PreviousQuiet
    <2>1. PICK o : op' = [op EXCEPT ![r] = o] /\ o.stage \in {"idle", "mailing"}
      BY DEF DeliverVerification, VerificationFailed, Done, Idle
    <2>. QED
      BY <2>1, OpsAt DEF PreviousQuiet
  <1>. QED
    BY <1>1, <1>2, <1>3, <1>4, CodesQuietKeeps, ResetQuietKeeps, NoneUsed DEF OnceInv, ResetQuiet

LEMMA ForgotOnce ==
    ASSUME AccountsInv, OnceInv, NEW r \in Requests, NEW l \in ResetLinks, CommitForgot(r, l),
           mayReturn' = mayReturn
    PROVE  OnceInv'
  <1>1. protection' = protection /\ uses' = uses
    BY DEF CommitForgot
  <1>2. OpsQuiet
    <2> DEFINE o == [op[r] EXCEPT !.stage = "resetting", !.link = l]
    <2>1. /\ op' = [op EXCEPT ![r] = o] /\ o.stage = "resetting" /\ op[r].stage = "forgot"
          /\ o.previous = op[r].previous
      BY Facts DEF CommitForgot, OpType
    <2> HIDE DEF o
    <2>. QED
      BY <2>1, WrittenQuiet
  <1>3. EmailQuiet /\ CodesQuiet
    BY <1>1, <1>2 DEF EmailQuiet, CodesQuiet, OpsQuiet
  <1>. QED
    BY <1>1, <1>3, ForgotFresh, EmailQuietKeeps, CodesQuietKeeps, NoneUsed DEF OnceInv

LEMMA EnrollOnce ==
    ASSUME AccountsInv, OnceInv, NEW j, NEW p, Enroll(j, p), mayReturn' = mayReturn
    PROVE  OnceInv'
  <1>1. /\ user' = user /\ uses' = uses /\ op' = op /\ protection'.email = protection.email
    BY Facts DEF Enroll, ProtectionType
  <1>2. EmailQuiet /\ ResetQuiet
    BY <1>1 DEF EmailQuiet, ResetQuiet, PreviousQuiet
  <1>. QED
    BY <1>1, <1>2, EnrollFresh, EmailQuietKeeps, ResetQuietKeeps, NoneUsed DEF OnceInv

LEMMA OthersOnce ==
    ASSUME AccountsInv, OnceInv, Others, mayReturn' = mayReturn
    PROVE  OnceInv'
  <1>1. ASSUME NEW r \in Requests, NEW p \in Passwords,
               BeginSignup(r, p) \/ BeginLogin(r, p) \/ CommitChange(r, p)
        PROVE  OnceInv'
    BY <1>1, ReadersOnce, CommitsOnce
  <1>2. ASSUME NEW r \in Requests,
               \/ CommitSignup(r) \/ SkipVerification(r) \/ VerificationFailed(r) \/ MailSent(r)
               \/ CommitLogin(r) \/ RejectRefresh(r) \/ RejectChange(r) \/ BeginForgot(r)
               \/ ResetMailFailed(r) \/ BeginGoogle(r) \/ CommitGoogle(r)
        PROVE  OnceInv'
    BY <1>2, CommitsOnce, LeaversOnce, VerificationOnce, LoginsOnce, ReadersOnce, MailFailedFresh
  <1>3. ASSUME NEW r \in Requests,
               \/ \E l \in EmailLinks : DeliverVerification(r, l)
               \/ \E l \in ResetLinks : CommitForgot(r, l)
        PROVE  OnceInv'
    BY <1>3, VerificationOnce, ForgotOnce
  <1>4. ASSUME NEW r \in Requests, NEW j \in Jtis,
               \/ BeginRefresh(r, j) \/ CommitRefresh(r, j) \/ IssueChanged(r, j)
               \/ \E p \in Passwords : BeginChange(r, j, p)
        PROVE  OnceInv'
    BY <1>4, ReadersOnce, CommitsOnce
  <1>5. ASSUME GoogleSignup \/ GoogleLink \/ GoogleReclaim \/ MailLinkCode
        PROVE  OnceInv'
    BY <1>5, GooglesOnce
  <1>6. ASSUME NEW j \in Jtis, Logout(j) \/ \E p \in Passwords : Enroll(j, p)
        PROVE  OnceInv'
    <2>1. CASE Logout(j)
      <3>1. OpsQuiet /\ uses' = uses /\ user'.reset = user.reset
            /\ protection'.email = protection.email
        BY <2>1, Facts DEF Logout, OpsQuiet, PreviousQuiet, UserType, ProtectionType
      <3>2. CodesQuiet
        BY <2>1, Facts, AccountsAssumption DEF Logout, CodesQuiet, ProtectionType
      <3>. QED
        BY <3>1, <3>2, QuietKeeps DEF ResetQuiet, OpsQuiet
    <2>. QED
      BY <1>6, <2>1, EnrollOnce
  <1>7. ASSUME NEW l \in EmailLinks, ConfirmEmail(l)
        PROVE  OnceInv'
    BY <1>7, ConfirmFresh
  <1>8. ASSUME \/ \E j, k \in Jtis, c \in Codes :
                    ConfirmMfa(j, k, c) \/ \E p \in Passwords : DisableMfa(j, k, p, c)
               \/ \E l \in Challenges, k \in Jtis, c \in Codes : Verify(l, k, c)
        PROVE  OnceInv'
    BY <1>8, FactorsOnce
  <1>. QED
    BY <1>1, <1>2, <1>3, <1>4, <1>5, <1>6, <1>7, <1>8 DEF Others

LEMMA NextOnce == AccountsInv /\ OnceInv /\ Next => OnceInv'
  BY OthersOnce, ResetUsedOnce DEF Next

LEMMA InitOnce == Init => OnceInv
  <1> SUFFICES ASSUME Init PROVE OnceInv
    OBVIOUS
  <1>1. \A u \in EmailLinks \union ResetLinks \union (Secrets \X Codes) : uses[u] = 0
    BY DEF Init, Links
  <1>2. protection = Unprotected /\ \A r \in Requests : op[r] = Idle
    BY DEF Init
  <1>3. user.reset = NoLink
    <2>1. CASE user = Absent
      BY <2>1 DEF Absent
    <2>2. CASE \E p \in Passwords :
                 user = [Absent EXCEPT !.exists = TRUE, !.password = p, !.mustChange = TRUE]
      BY <2>2 DEF Absent
    <2>. QED
      BY <2>1, <2>2 DEF Init
  <1>. QED
    BY <1>1, <1>2, <1>3, AccountsAssumption
       DEF OnceInv, EmailsFresh, ResetFresh, CodesFresh, UsedOnce, InHand, Unprotected, Idle

LEMMA StutterOnce == OnceInv /\ UNCHANGED vars => OnceInv'
  BY DEF OnceInv, EmailsFresh, ResetFresh, CodesFresh, UsedOnce, InHand, vars

(***************************************************************************)
(* A refresh token is rotated once; a verification link, a TOTP step and a *)
(* recovery code are accepted once, and so is a reset link unless it was   *)
(* used while a request for a new one had read it.                         *)
(***************************************************************************)
THEOREM SecretsServeOnce == Spec => []OneUse
  <1>1. OnceInv /\ RotatedOnce => OneUse
    BY DEF OnceInv, OneUse
  <1>2. Spec => []OnceInv
    BY InitOnce, NextOnce, StutterOnce, AccountsHold, PTL DEF Spec
  <1>. QED
    BY <1>1, <1>2, TokensRotateOnce, PTL
=============================================================================
