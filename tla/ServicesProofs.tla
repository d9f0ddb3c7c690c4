----------------------------- MODULE ServicesProofs -----------------------------
(***************************************************************************)
(* Proofs about the services around an exam and an account that need no    *)
(* others: the copies of a recording at the provider (ProviderMedia), the  *)
(* accounts made from requests for access (AccessRequests), the profile    *)
(* and resume of a student (StudentRecords), the recordings of an exam     *)
(* (ExamRecordings), the chain of text providers (ProviderChain) and one    *)
(* bucket of the rate limiter (RateLimits).                                *)
(***************************************************************************)
EXTENDS ProviderMedia, AccessRequests, StudentRecords, ExamRecordings, ProviderChain,
        RateLimits, FiniteSetTheorems, SequenceTheorems, TLAPS

-----------------------------------------------------------------------------
(* The copies of a recording.                                              *)

MediaTypeOK ==
  /\ held \in [Copies -> CopyStates]
  /\ named \in Copies \union {NoCopy}
  /\ worker \in [at : Steps, copy : Copies \union {NoCopy}, polls : Nat, ok : BOOLEAN]

\* What a worker at each step knows of the name in the row.  An upload begins when no copy
\* is named; from the poll on the copy in use is the named one; what is deleted is either the
\* named copy or one that could not be named; it is gone before its name is forgotten.
StageInv ==
  /\ worker.at = "resting" => worker.copy = NoCopy
  /\ worker.at = "finding" => worker.copy = NoCopy /\ named # NoCopy
  /\ worker.at = "uploading" => worker.copy = NoCopy /\ named = NoCopy
  /\ worker.at = "naming" => worker.copy # NoCopy /\ named = NoCopy
  /\ worker.at \in {"waiting", "asking"} => worker.copy # NoCopy /\ named = worker.copy
  /\ worker.at \in {"cleaning", "forgetting"} =>
        worker.copy # NoCopy /\ named \in {worker.copy, NoCopy}
  /\ worker.at = "forgetting" => held[worker.copy] = "absent"

MediaInv == MediaTypeOK /\ StageInv

LEMMA MediaInvInit == MediaInit => MediaInv
BY ProviderMediaAssumption
   DEF MediaInit, MediaInv, MediaTypeOK, StageInv, Resting, Steps, CopyStates

\* A copy goes out of sight only while it has no name.
KeptInSight == \A c \in Copies : Unsighted(c)' => Unsighted(c) \/ Nameless

LEMMA MediaInvNext ==
  ASSUME MediaInv, [MediaNext]_mediaVars
  PROVE  MediaInv' /\ KeptInSight
<1> USE ProviderMediaAssumption DEF MediaTypeOK, Steps, CopyStates, At, GoTo, Resting
<1>0. MediaTypeOK /\ StageInv BY DEF MediaInv
<1>1. CASE StartMedia
  <2>1. MediaTypeOK' BY <1>0, <1>1 DEF StartMedia, StageInv
  <2>2. StageInv' BY <1>0, <1>1 DEF StartMedia, StageInv
  <2>3. KeptInSight BY <1>0, <1>1 DEF StartMedia, StageInv, KeptInSight, Unsighted, Nameless
  <2> QED BY <2>1, <2>2, <2>3 DEF MediaInv
<1>2. CASE FindCopy
  <2>1. CASE held[named] # "absent" /\ worker' = [worker EXCEPT !.at = "waiting", !.copy = named]
              /\ UNCHANGED named
    <3>1. MediaTypeOK' BY <1>0, <1>2, <2>1 DEF FindCopy, StageInv
    <3>2. StageInv' BY <1>0, <1>2, <2>1 DEF FindCopy, StageInv
    <3>3. KeptInSight BY <1>0, <1>2, <2>1 DEF FindCopy, StageInv, KeptInSight, Unsighted, Nameless
    <3> QED BY <3>1, <3>2, <3>3 DEF MediaInv
  <2>2. CASE GoTo("uploading") /\ named' = NoCopy
    <3>1. MediaTypeOK' BY <1>0, <1>2, <2>2 DEF FindCopy, StageInv
    <3>2. StageInv' BY <1>0, <1>2, <2>2 DEF FindCopy, StageInv
    <3>3. KeptInSight BY <1>0, <1>2, <2>2 DEF FindCopy, StageInv, KeptInSight, Unsighted, Nameless
    <3> QED BY <3>1, <3>2, <3>3 DEF MediaInv
  <2>3. CASE worker' = Resting /\ UNCHANGED named
    <3>1. MediaTypeOK' BY <1>0, <1>2, <2>3 DEF FindCopy, StageInv
    <3>2. StageInv' BY <1>0, <1>2, <2>3 DEF FindCopy, StageInv
    <3>3. KeptInSight BY <1>0, <1>2, <2>3 DEF FindCopy, StageInv, KeptInSight, Unsighted, Nameless
    <3> QED BY <3>1, <3>2, <3>3 DEF MediaInv
  <2> QED BY <1>2, <2>1, <2>2, <2>3 DEF FindCopy
<1>3. CASE NameCopy
  <2>1. MediaTypeOK' BY <1>0, <1>3 DEF NameCopy, StageInv
  <2>2. StageInv' BY <1>0, <1>3 DEF NameCopy, StageInv
  <2>3. KeptInSight BY <1>0, <1>3 DEF NameCopy, StageInv, KeptInSight, Unsighted, Nameless
  <2> QED BY <2>1, <2>2, <2>3 DEF MediaInv
<1>4. CASE Poll
  <2>1. CASE held[worker.copy] = "active" /\ GoTo("asking")
    <3>1. MediaTypeOK' BY <1>0, <1>4, <2>1 DEF Poll, StageInv
    <3>2. StageInv' BY <1>0, <1>4, <2>1 DEF Poll, StageInv
    <3>3. KeptInSight BY <1>0, <1>4, <2>1 DEF Poll, StageInv, KeptInSight, Unsighted, Nameless
    <3> QED BY <3>1, <3>2, <3>3 DEF MediaInv
  <2>2. CASE worker' = Resting
    <3>1. MediaTypeOK' BY <1>0, <1>4, <2>2 DEF Poll, StageInv
    <3>2. StageInv' BY <1>0, <1>4, <2>2 DEF Poll, StageInv
    <3>3. KeptInSight BY <1>0, <1>4, <2>2 DEF Poll, StageInv, KeptInSight, Unsighted, Nameless
    <3> QED BY <3>1, <3>2, <3>3 DEF MediaInv
  <2>3. CASE GoTo("cleaning")
    <3>1. MediaTypeOK' BY <1>0, <1>4, <2>3 DEF Poll, StageInv
    <3>2. StageInv' BY <1>0, <1>4, <2>3 DEF Poll, StageInv
    <3>3. KeptInSight BY <1>0, <1>4, <2>3 DEF Poll, StageInv, KeptInSight, Unsighted, Nameless
    <3> QED BY <3>1, <3>2, <3>3 DEF MediaInv
  <2>4. CASE worker' = [worker EXCEPT !.polls = @ + 1]
    <3>1. MediaTypeOK' BY <1>0, <1>4, <2>4 DEF Poll, StageInv
    <3>2. StageInv' BY <1>0, <1>4, <2>4 DEF Poll, StageInv
    <3>3. KeptInSight BY <1>0, <1>4, <2>4 DEF Poll, StageInv, KeptInSight, Unsighted, Nameless
    <3> QED BY <3>1, <3>2, <3>3 DEF MediaInv
  <2> QED BY <1>4, <2>1, <2>2, <2>3, <2>4 DEF Poll
<1>5. CASE DeleteCopy
  <2>1. CASE held[worker.copy] # "absent" /\ GoTo("forgetting")
              /\ held' = [held EXCEPT ![worker.copy] = "absent"]
    <3>1. MediaTypeOK' BY <1>0, <1>5, <2>1 DEF DeleteCopy, StageInv
    <3>2. StageInv' BY <1>0, <1>5, <2>1 DEF DeleteCopy, StageInv
    <3>3. KeptInSight BY <1>0, <1>5, <2>1 DEF DeleteCopy, StageInv, KeptInSight, Unsighted, Nameless
    <3> QED BY <3>1, <3>2, <3>3 DEF MediaInv
  <2>2. CASE worker' = Resting /\ UNCHANGED held
    <3>1. MediaTypeOK' BY <1>0, <1>5, <2>2 DEF DeleteCopy, StageInv
    <3>2. StageInv' BY <1>0, <1>5, <2>2 DEF DeleteCopy, StageInv
    <3>3. KeptInSight BY <1>0, <1>5, <2>2 DEF DeleteCopy, StageInv, KeptInSight, Unsighted, Nameless
    <3> QED BY <3>1, <3>2, <3>3 DEF MediaInv
  <2> QED BY <1>5, <2>1, <2>2 DEF DeleteCopy
<1>6. CASE ForgetCopy
  <2>1. CASE named' = NoCopy
    <3>1. MediaTypeOK' BY <1>0, <1>6, <2>1 DEF ForgetCopy, StageInv
    <3>2. StageInv' BY <1>0, <1>6, <2>1 DEF ForgetCopy, StageInv
    <3>3. KeptInSight BY <1>0, <1>6, <2>1 DEF ForgetCopy, StageInv, KeptInSight, Unsighted, Nameless
    <3> QED BY <3>1, <3>2, <3>3 DEF MediaInv
  <2>2. CASE UNCHANGED named
    <3>1. MediaTypeOK' BY <1>0, <1>6, <2>2 DEF ForgetCopy, StageInv
    <3>2. StageInv' BY <1>0, <1>6, <2>2 DEF ForgetCopy, StageInv
    <3>3. KeptInSight BY <1>0, <1>6, <2>2 DEF ForgetCopy, StageInv, KeptInSight, Unsighted, Nameless
    <3> QED BY <3>1, <3>2, <3>3 DEF MediaInv
  <2> QED BY <1>6, <2>1, <2>2 DEF ForgetCopy
<1>7. CASE MediaCrash
  <2>1. MediaTypeOK' BY <1>0, <1>7 DEF MediaCrash, StageInv
  <2>2. StageInv' BY <1>0, <1>7 DEF MediaCrash, StageInv
  <2>3. KeptInSight BY <1>0, <1>7 DEF MediaCrash, StageInv, KeptInSight, Unsighted, Nameless
  <2> QED BY <2>1, <2>2, <2>3 DEF MediaInv
<1>8. ASSUME NEW c \in Copies, Upload(c) PROVE MediaInv' /\ KeptInSight
  <2>1. CASE held' = [held EXCEPT ![c] = "processing"]
              /\ worker' = [worker EXCEPT !.at = "naming", !.copy = c]
    <3>1. MediaTypeOK' BY <1>0, <1>8, <2>1 DEF Upload, StageInv
    <3>2. StageInv' BY <1>0, <1>8, <2>1 DEF Upload, StageInv
    <3>3. KeptInSight BY <1>0, <1>8, <2>1 DEF Upload, StageInv, KeptInSight, Unsighted, Nameless
    <3> QED BY <3>1, <3>2, <3>3 DEF MediaInv
  <2>2. CASE held' = [held EXCEPT ![c] = "processing"] /\ worker' = Resting
    <3>1. MediaTypeOK' BY <1>0, <1>8, <2>2 DEF Upload, StageInv
    <3>2. StageInv' BY <1>0, <1>8, <2>2 DEF Upload, StageInv
    <3>3. KeptInSight BY <1>0, <1>8, <2>2 DEF Upload, StageInv, KeptInSight, Unsighted, Nameless
    <3> QED BY <3>1, <3>2, <3>3 DEF MediaInv
  <2>3. CASE worker' = Resting /\ UNCHANGED held
    <3>1. MediaTypeOK' BY <1>0, <1>8, <2>3 DEF Upload, StageInv
    <3>2. StageInv' BY <1>0, <1>8, <2>3 DEF Upload, StageInv
    <3>3. KeptInSight BY <1>0, <1>8, <2>3 DEF Upload, StageInv, KeptInSight, Unsighted, Nameless
    <3> QED BY <3>1, <3>2, <3>3 DEF MediaInv
  <2> QED BY <1>8, <2>1, <2>2, <2>3 DEF Upload
<1>9. ASSUME NEW c \in Copies, NEW state \in CopyStates, Provider(c, state) PROVE MediaInv' /\ KeptInSight
  <2>1. MediaTypeOK' BY <1>0, <1>9 DEF Provider, StageInv
  <2>2. StageInv' BY <1>0, <1>9 DEF Provider, StageInv
  <2>3. KeptInSight BY <1>0, <1>9 DEF Provider, StageInv, KeptInSight, Unsighted, Nameless
  <2> QED BY <2>1, <2>2, <2>3 DEF MediaInv
<1>10. ASSUME NEW ok \in BOOLEAN, AskForAnalysis(ok) PROVE MediaInv' /\ KeptInSight
  <2>1. MediaTypeOK' BY <1>0, <1>10 DEF AskForAnalysis, StageInv
  <2>2. StageInv' BY <1>0, <1>10 DEF AskForAnalysis, StageInv
  <2>3. KeptInSight BY <1>0, <1>10 DEF AskForAnalysis, StageInv, KeptInSight, Unsighted, Nameless
  <2> QED BY <2>1, <2>2, <2>3 DEF MediaInv
<1>11. CASE UNCHANGED mediaVars
  BY <1>0, <1>11 DEF mediaVars, MediaInv, StageInv, KeptInSight, Unsighted
<1> QED BY <1>1, <1>2, <1>3, <1>4, <1>5, <1>6, <1>7, <1>8, <1>9, <1>10, <1>11 DEF MediaNext

\* A set with at most one element has a cardinality of at most one.
LEMMA AtMostOne ==
  ASSUME NEW S, \A x, y \in S : x = y
  PROVE  IsFiniteSet(S) /\ Cardinality(S) \in Nat /\ Cardinality(S) <= 1
<1>1. CASE S = {} BY <1>1, FS_EmptySet
<1>2. CASE S # {}
  <2>1. PICK x \in S : TRUE BY <1>2
  <2>2. S = {x} BY <2>1
  <2> QED BY <2>2, FS_Singleton
<1> QED BY <1>1, <1>2

\* A worker is at the named copy, or at one when none is named, or at none.
LEMMA OneInSight == MediaInv => Cardinality(Sighted) <= 1
<1> SUFFICES ASSUME MediaInv PROVE Cardinality(Sighted) <= 1 OBVIOUS
<1>1. \A c, d \in Sighted : c = d
  BY ProviderMediaAssumption DEF MediaInv, MediaTypeOK, StageInv, Sighted, Steps
<1> QED BY <1>1, AtMostOne

\* Whatever fails and wherever a worker dies (hr_video.py:293-330), a copy whose name was saved
\* stays in sight while the provider holds it, and an attempt uploads none while one is in sight;
\* what is lost sight of was lost before its name was saved.
THEOREM MediaIsAccounted == MediaSpec => MediaAccounted
<1>1. MediaInit => MediaInv BY MediaInvInit
<1>2. MediaInv /\ [MediaNext]_mediaVars => MediaInv' BY MediaInvNext
<1>3. MediaInv => Cardinality(Sighted) <= 1 BY OneInSight
<1>4. MediaInv /\ [MediaNext]_mediaVars
        => [\A c \in Copies : Unsighted(c)' => Unsighted(c) \/ Nameless]_mediaVars
  BY MediaInvNext DEF KeptInSight
<1> QED BY <1>1, <1>2, <1>3, <1>4, PTL DEF MediaSpec, MediaAccounted

-----------------------------------------------------------------------------
(* Accounts made from requests for access.                                 *)

\* FreePost names a row also where there is none.
PostRows == AccessRows \union {FreePost.row}

Posts == [kind : {"free", "create", "review", "provision", "mail", "reset"},
          row : PostRows, status : ManualStatuses \union {"none", "provisioned"},
          account : AccountRows, to : AccountRows, stale : BOOLEAN]

PostTypeOK ==
  /\ access \in [AccessRows -> ManualStatuses \union {"none", "provisioned"}]
  /\ account \in AccountRows
  /\ post \in [Desks -> Posts]

\* An account is trusted just when it is a recruiter's, and stays one.
RecruiterTrusted(a) == a.role = "recruiter" <=> a.trusted

\* What a request p at a desk has read and means to write, against the account a as it is now.
Provisions(p, a) ==
  /\ p.kind = "review" => p.status \in ManualStatuses
  /\ p.kind = "provision" =>
        /\ p.row \in AccessRows
        /\ p.to.role = "recruiter" /\ p.to.trusted
        /\ p.account.role # "other" /\ RecruiterTrusted(p.account)
        /\ p.account.role = "recruiter" => a.role = "recruiter"
  /\ p.kind = "mail" => a.role = "recruiter"

AccessInv ==
  /\ PostTypeOK
  /\ RecruiterTrusted(account)
  /\ \A d \in Desks : Provisions(post[d], account)
  /\ \A r \in AccessRows :
        access[r] = "provisioned" => account.role = "recruiter" /\ mailed # {}

LEMMA FreePostTyped == FreePost \in Posts /\ FreePost.kind = "free"
BY DEF FreePost, Posts, PostRows, NoAccount, AccountRows

LEMMA AccessInvInit == AccessInit => AccessInv
<1> SUFFICES ASSUME AccessInit PROVE AccessInv OBVIOUS
<1>1. account \in AccountRows /\ RecruiterTrusted(account)
  BY DEF AccessInit, NoAccount, AccountRows, RecruiterTrusted
<1>2. post \in [Desks -> Posts] BY FreePostTyped DEF AccessInit
<1>3. \A d \in Desks : post[d].kind = "free" BY FreePostTyped DEF AccessInit
<1>4. access \in [AccessRows -> {"none"}] BY DEF AccessInit
<1> QED BY <1>1, <1>2, <1>3, <1>4 DEF AccessInv, PostTypeOK, Provisions

\* A commit that leaves the account as it is, or only changes its link, its password or its
\* being there at all, keeps what the other desks rely on.
RoleStays == account.role # "none" => account'.role = account.role

\* The desks after a step: each is free, or begins something that fits the account, or
\* is as it was but for its staleness.
DeskStep(d) ==
  \/ post'[d].kind \in {"free", "create", "reset"}
  \/ Provisions(post'[d], account')
  \/ /\ post'[d].kind = post[d].kind /\ post'[d].status = post[d].status
     /\ post'[d].account = post[d].account /\ post'[d].to = post[d].to
     /\ post'[d].row = post[d].row

LEMMA DesksKeep ==
  ASSUME \A d \in Desks : Provisions(post[d], account), RoleStays,
         \A d \in Desks : DeskStep(d)
  PROVE  \A d \in Desks : Provisions(post'[d], account')
BY DEF Provisions, RoleStays, DeskStep, RecruiterTrusted

LEMMA AccountKeeps ==
  ASSUME AccessInv, PostTypeOK', RoleStays, RecruiterTrusted(account'),
         \A d \in Desks : DeskStep(d),
         \A r \in AccessRows : access'[r] = "provisioned" =>
            access[r] = "provisioned" \/ (account'.role = "recruiter" /\ mailed' # {}),
         mailed \subseteq mailed'
  PROVE  AccessInv'
<1>1. \A d \in Desks : Provisions(post'[d], account') BY DesksKeep DEF AccessInv
<1>2. ASSUME NEW r \in AccessRows, access'[r] = "provisioned"
      PROVE  account'.role = "recruiter" /\ mailed' # {}
  BY <1>2 DEF AccessInv, RoleStays
<1> QED BY <1>1, <1>2 DEF AccessInv

\* A request that begins at a free desk.
LEMMA Begins ==
  ASSUME AccessInv, NEW d \in Desks, NEW request \in Posts, Provisions(request, account),
         Receives(d, request)
  PROVE  AccessInv'
<1>1. PostTypeOK' BY DEF AccessInv, PostTypeOK, Receives
<1>2. \A e \in Desks : DeskStep(e) BY DEF AccessInv, PostTypeOK, Receives, DeskStep
<1>3. RoleStays /\ RecruiterTrusted(account') BY DEF AccessInv, Receives, RoleStays
<1> QED BY <1>1, <1>2, <1>3, AccountKeeps DEF Receives

LEMMA OutdatedTyped ==
  ASSUME post \in [Desks -> Posts]
  PROVE  /\ Outdated(post) \in [Desks -> Posts]
         /\ \A d \in Desks : /\ Outdated(post)[d].kind = post[d].kind
                             /\ Outdated(post)[d].row = post[d].row
                             /\ Outdated(post)[d].status = post[d].status
                             /\ Outdated(post)[d].account = post[d].account
                             /\ Outdated(post)[d].to = post[d].to
BY DEF Outdated, Posts

\* A step that lets others know of a commit, without a desk of its own.
LEMMA OthersOutdated ==
  ASSUME post \in [Desks -> Posts], post' = Outdated(post)
  PROVE  post' \in [Desks -> Posts] /\ \A e \in Desks : DeskStep(e)
BY OutdatedTyped DEF DeskStep

LEMMA DeskEnds ==
  ASSUME post \in [Desks -> Posts], NEW d \in Desks, Ends(d)
  PROVE  post' \in [Desks -> Posts] /\ \A e \in Desks : DeskStep(e)
<1>1. post' = [Outdated(post) EXCEPT ![d] = FreePost] BY DEF Ends, Cleared
<1> QED BY <1>1, OutdatedTyped, FreePostTyped DEF DeskStep

\* What a request changed, over the row as others left it.
LEMMA WrittenAccount ==
  ASSUME NEW loaded \in AccountRows, NEW new \in AccountRows, NEW now \in AccountRows
  PROVE  /\ Written(loaded, new, now) \in AccountRows
         /\ Written(loaded, new, now).role = IF new.role = loaded.role THEN now.role ELSE new.role
         /\ Written(loaded, new, now).trusted =
               IF new.trusted = loaded.trusted THEN now.trusted ELSE new.trusted
<1>1. DOMAIN now = {"role", "trusted", "link", "usable"} BY DEF AccountRows
<1> QED BY <1>1 DEF Written, AccountRows

\* The account is there, or updated with what the request read, and its request goes on to the
\* mail.
LEMMA AccountCommitted ==
  ASSUME AccessInv, NEW d \in Desks, CommitAccount(d)
  PROVE  AccessInv'
<1> DEFINE p == post[d]
<1>1. /\ p \in Posts /\ p.kind = "provision" /\ Provisions(p, account) /\ account \in AccountRows
      /\ post \in [Desks -> Posts] /\ access \in [AccessRows -> ManualStatuses \union {"none", "provisioned"}]
      /\ access' = access /\ mailed' = mailed /\ RecruiterTrusted(account)
  BY DEF AccessInv, PostTypeOK, CommitAccount
<1>2. p.to.role = "recruiter" /\ p.to.trusted /\ p.account.role # "other"
      /\ RecruiterTrusted(p.account) /\ (p.account.role = "recruiter" => account.role = "recruiter")
      /\ p.to \in AccountRows /\ p.account \in AccountRows /\ p.row \in AccessRows
  BY <1>1 DEF Provisions, Posts
<1>3. CASE p.account.role = "none" /\ account.role # "none"
  <2>1. Ends(d) /\ account' = account BY <1>3 DEF CommitAccount
  <2>2. post' \in [Desks -> Posts] /\ \A e \in Desks : DeskStep(e) BY <2>1, <1>1, DeskEnds
  <2> QED BY <1>1, <2>1, <2>2, AccountKeeps DEF RoleStays, PostTypeOK
<1>4. CASE ~(p.account.role = "none" /\ account.role # "none")
  <2>1. account' = Written(p.account, p.to, account) BY <1>4 DEF CommitAccount
  <2>2. account' \in AccountRows /\ account'.role = "recruiter" /\ account'.trusted
    <3>1. p.account.role \in {"none", "recruiter"} BY <1>2 DEF AccountRows
    <3>2. account'.role = "recruiter" BY <2>1, <1>1, <1>2, <1>4, <3>1, WrittenAccount
    <3>3. p.account.trusted \in BOOLEAN /\ p.to.trusted \in BOOLEAN /\ account.trusted \in BOOLEAN
      BY <1>1, <1>2 DEF AccountRows
    <3>4. account'.trusted
      BY <2>1, <1>1, <1>2, <3>1, <3>3, WrittenAccount DEF RecruiterTrusted
    <3>5. account' \in AccountRows BY <2>1, <1>1, <1>2, WrittenAccount
    <3> QED BY <3>2, <3>4, <3>5
  <2>3. post' = [Outdated(post) EXCEPT ![d].kind = "mail", ![d].stale = FALSE,
                                       ![d].status = access[p.row]]
    BY <1>4 DEF CommitAccount
  <2> DEFINE others == Outdated(post)
             q == [others[d] EXCEPT !.kind = "mail", !.stale = FALSE, !.status = access[p.row]]
  <2>4. others \in [Desks -> Posts] BY <1>1, OutdatedTyped
  <2>5. access[p.row] \in ManualStatuses \union {"none", "provisioned"} BY <1>1, <1>2
  <2>6. q \in Posts /\ q.kind = "mail" BY <2>4, <2>5 DEF Posts
  <2>7. post' = [others EXCEPT ![d] = q] BY <2>3, <2>4 DEF Posts
  <2>8. \A e \in Desks : others[e].kind = post[e].kind /\ others[e].row = post[e].row
            /\ others[e].status = post[e].status /\ others[e].account = post[e].account
            /\ others[e].to = post[e].to
    BY <1>1, OutdatedTyped
  <2> HIDE DEF others, q
  <2>9. post' \in [Desks -> Posts] BY <2>4, <2>6, <2>7
  <2>10. post'[d] = q /\ \A e \in Desks \ {d} : post'[e] = others[e] BY <2>4, <2>7
  <2>11. DeskStep(d) BY <2>2, <2>6, <2>10 DEF DeskStep, Provisions
  <2>12. \A e \in Desks : DeskStep(e) BY <2>8, <2>10, <2>11 DEF DeskStep
  <2>13. RoleStays /\ RecruiterTrusted(account')
    <3>1. account.role # "none" => account.role = "recruiter"
      BY <1>1, <1>2, <1>4 DEF AccountRows
    <3> QED BY <2>2, <3>1 DEF RoleStays, RecruiterTrusted
  <2>14. PostTypeOK' BY <1>1, <2>2, <2>9 DEF PostTypeOK
  <2> QED BY <1>1, <2>12, <2>13, <2>14, AccountKeeps
<1> QED BY <1>3, <1>4

LEMMA AccessInvNext == AccessInv /\ [AccessNext]_accessVars => AccessInv'
<1> SUFFICES ASSUME AccessInv, [AccessNext]_accessVars PROVE AccessInv' OBVIOUS
<1> DEFINE Statuses == ManualStatuses \union {"none", "provisioned"}
<1>0. /\ access \in [AccessRows -> Statuses] /\ account \in AccountRows
      /\ post \in [Desks -> Posts] /\ RecruiterTrusted(account)
      /\ \A d \in Desks : Provisions(post[d], account)
  BY DEF AccessInv, PostTypeOK
<1>1. ASSUME NEW d \in Desks, NEW r \in AccessRows, BeginCreate(d, r) PROVE AccessInv'
  <2> DEFINE request == [FreePost EXCEPT !.kind = "create", !.row = r]
  <2>1. request \in Posts /\ request.kind = "create" BY FreePostTyped DEF Posts, PostRows
  <2>2. Receives(d, request) BY <1>1 DEF BeginCreate
  <2> HIDE DEF request
  <2>3. Provisions(request, account) BY <2>1 DEF Provisions
  <2> QED BY <2>1, <2>2, <2>3, Begins
<1>2. ASSUME NEW d \in Desks, NEW r \in AccessRows, NEW s \in ManualStatuses,
             BeginReviewing(d, r, s)
      PROVE  AccessInv'
  <2> DEFINE request == [FreePost EXCEPT !.kind = "review", !.row = r, !.status = s]
  <2>1. request \in Posts /\ request.kind = "review" /\ request.status = s
    BY FreePostTyped DEF Posts, PostRows
  <2>2. Receives(d, request) BY <1>2 DEF BeginReviewing
  <2> HIDE DEF request
  <2>3. Provisions(request, account) BY <2>1 DEF Provisions
  <2> QED BY <2>1, <2>2, <2>3, Begins
<1>3. ASSUME NEW d \in Desks, NEW r \in AccessRows, BeginProvision(d, r) PROVE AccessInv'
  <2>1. PICK l \in NewLink : Receives(d, [FreePost EXCEPT
          !.kind = "provision", !.row = r, !.account = account,
          !.to = [role |-> "recruiter", trusted |-> TRUE, link |-> l, usable |-> account.usable]])
    BY <1>3 DEF BeginProvision
  <2> DEFINE to == [role |-> "recruiter", trusted |-> TRUE, link |-> l, usable |-> account.usable]
             request == [FreePost EXCEPT !.kind = "provision", !.row = r, !.account = account,
                                         !.to = to]
  <2>2. to \in AccountRows /\ to.role = "recruiter" /\ to.trusted
    BY <1>0 DEF NewLink, AccountRows
  <2>3. Receives(d, request) BY <2>1
  <2> HIDE DEF to
  <2>4. /\ request \in Posts /\ request.kind = "provision" /\ request.row = r
        /\ request.account = account /\ request.to = to
    BY <1>0, <2>2, FreePostTyped DEF Posts, PostRows
  <2> HIDE DEF request
  <2>5. Provisions(request, account)
    BY <1>0, <1>3, <2>2, <2>4 DEF Provisions, BeginProvision
  <2> QED BY <2>3, <2>4, <2>5, Begins
<1>4. ASSUME NEW d \in Desks, CommitCreate(d) PROVE AccessInv'
  <2>1. post' \in [Desks -> Posts] /\ \A e \in Desks : DeskStep(e)
    BY <1>0, <1>4, DeskEnds DEF CommitCreate
  <2>2. access' \in [AccessRows -> Statuses]
        /\ \A r \in AccessRows : access'[r] = "provisioned" => access[r] = "provisioned"
    BY <1>0, <1>4 DEF CommitCreate, ManualStatuses
  <2> QED BY <1>0, <1>4, <2>1, <2>2, AccountKeeps DEF CommitCreate, PostTypeOK, RoleStays
<1>5. ASSUME NEW d \in Desks, CommitReviewing(d) PROVE AccessInv'
  <2>1. post' \in [Desks -> Posts] /\ \A e \in Desks : DeskStep(e)
    BY <1>0, <1>5, DeskEnds DEF CommitReviewing
  <2>2. post[d].status \in ManualStatuses BY <1>0, <1>5 DEF CommitReviewing, Provisions
  <2>3. access' \in [AccessRows -> Statuses]
        /\ \A r \in AccessRows : access'[r] = "provisioned" => access[r] = "provisioned"
    BY <1>0, <1>5, <2>2 DEF CommitReviewing, ManualStatuses
  <2> QED BY <1>0, <1>5, <2>1, <2>3, AccountKeeps DEF CommitReviewing, PostTypeOK, RoleStays
<1>6. ASSUME NEW d \in Desks, CommitAccount(d) PROVE AccessInv' BY <1>6, AccountCommitted
<1>7. ASSUME NEW d \in Desks, MailSetup(d) PROVE AccessInv'
  <2>1. post' \in [Desks -> Posts] /\ \A e \in Desks : DeskStep(e)
    BY <1>0, <1>7, DeskEnds DEF MailSetup
  <2>2. account'.role = "recruiter" /\ account' = account
    BY <1>0, <1>7 DEF MailSetup, Provisions
  <2>3. mailed \subseteq mailed' /\ mailed' # {} BY <1>7 DEF MailSetup
  <2>4. access' \in [AccessRows -> Statuses] BY <1>0, <1>7 DEF MailSetup, Restated
  <2> QED BY <1>0, <2>1, <2>2, <2>3, <2>4, AccountKeeps DEF PostTypeOK, RoleStays
<1>8. ASSUME NEW d \in Desks, SetupMailFails(d) PROVE AccessInv'
  <2>1. post' \in [Desks -> Posts] /\ \A e \in Desks : DeskStep(e)
    BY <1>0, <1>8, DeskEnds DEF SetupMailFails
  <2>2. account' \in AccountRows /\ account'.role = account.role
        /\ account'.trusted = account.trusted
    BY <1>0, <1>8 DEF SetupMailFails, AccountRows
  <2>3. access' \in [AccessRows -> Statuses]
        /\ \A r \in AccessRows : access'[r] = "provisioned" => access[r] = "provisioned"
    BY <1>0, <1>8 DEF SetupMailFails, Restated, ManualStatuses
  <2> QED BY <1>0, <1>8, <2>1, <2>2, <2>3, AccountKeeps
          DEF SetupMailFails, PostTypeOK, RoleStays, RecruiterTrusted
<1>9. ASSUME NEW d \in Desks, AskReset(d) PROVE AccessInv'
  <2>1. PICK l \in NewLink :
          /\ account' = [account EXCEPT !.link = l]
          /\ post' = [Outdated(post) EXCEPT
               ![d] = [FreePost EXCEPT !.kind = "reset", !.account.link = account.link, !.to.link = l]]
    BY <1>9 DEF AskReset
  <2> DEFINE request == [FreePost EXCEPT !.kind = "reset", !.account.link = account.link,
                                         !.to.link = l]
  <2>2. request \in Posts /\ request.kind = "reset"
    BY <1>0, FreePostTyped DEF Posts, AccountRows, NewLink
  <2>3. post' = [Outdated(post) EXCEPT ![d] = request] BY <2>1
  <2> HIDE DEF request
  <2>4. post' \in [Desks -> Posts] /\ \A e \in Desks : DeskStep(e)
    BY <1>0, <2>2, <2>3, OutdatedTyped DEF DeskStep
  <2>5. account' \in AccountRows /\ account'.role = account.role
        /\ account'.trusted = account.trusted
    BY <1>0, <2>1 DEF NewLink, AccountRows
  <2> QED BY <1>0, <1>9, <2>4, <2>5, AccountKeeps
          DEF AskReset, PostTypeOK, RoleStays, RecruiterTrusted
<1>10. ASSUME NEW d \in Desks, NEW sent \in BOOLEAN, ResetMailed(d, sent) PROVE AccessInv'
  <2>1. post' \in [Desks -> Posts] /\ \A e \in Desks : DeskStep(e)
    BY <1>0, <1>10, DeskEnds DEF ResetMailed
  <2>2. account' \in AccountRows /\ account'.role = account.role
        /\ account'.trusted = account.trusted
    BY <1>0, <1>10 DEF ResetMailed, AccountRows, Posts
  <2>3. access' = access /\ mailed \subseteq mailed' BY <1>10 DEF ResetMailed
  <2> QED BY <1>0, <2>1, <2>2, <2>3, AccountKeeps DEF PostTypeOK, RoleStays, RecruiterTrusted
<1>11. ASSUME NEW d \in Desks, Die(d) PROVE AccessInv'
  <2>1. post' \in [Desks -> Posts] /\ \A e \in Desks : DeskStep(e)
    BY <1>0, <1>11, FreePostTyped DEF Die, DeskStep
  <2> QED BY <1>0, <1>11, <2>1, AccountKeeps DEF Die, PostTypeOK, RoleStays
<1>12. ASSUME NEW role \in {"recruiter", "other"}, ProvisionDirectly(role) PROVE AccessInv'
  <2>1. post' \in [Desks -> Posts] /\ \A e \in Desks : DeskStep(e)
    BY <1>0, <1>12, OthersOutdated DEF ProvisionDirectly
  <2>2. account' \in AccountRows /\ RecruiterTrusted(account') /\ account.role = "none"
    BY <1>12 DEF ProvisionDirectly, AccountRows, RecruiterTrusted
  <2> QED BY <1>0, <1>12, <2>1, <2>2, AccountKeeps DEF ProvisionDirectly, PostTypeOK, RoleStays
<1>13. ASSUME NEW l \in Links, UseLink(l) PROVE AccessInv'
  <2>1. post' \in [Desks -> Posts] /\ \A e \in Desks : DeskStep(e)
    BY <1>0, <1>13, OthersOutdated DEF UseLink
  <2>2. account' \in AccountRows /\ account'.role = account.role
        /\ account'.trusted = account.trusted
    BY <1>0, <1>13 DEF UseLink, AccountRows
  <2> QED BY <1>0, <1>13, <2>1, <2>2, AccountKeeps
          DEF UseLink, PostTypeOK, RoleStays, RecruiterTrusted
<1>14. CASE UNCHANGED accessVars
  <2>1. \A d \in Desks : DeskStep(d) BY <1>14 DEF accessVars, DeskStep
  <2> QED BY <1>0, <1>14, <2>1, AccountKeeps DEF accessVars, PostTypeOK, RoleStays
<1> QED BY <1>1, <1>2, <1>3, <1>4, <1>5, <1>6, <1>7, <1>8, <1>9, <1>10, <1>11, <1>12, <1>13,
           <1>14 DEF AccessNext

\* Wherever provisioning is interrupted, between the account and its mail or between the mail and
\* the status, and whatever reviewers, resets and other requests commit meanwhile
\* (routers/platform.py), a request that says provisioned has a trusted recruiter's account, whose
\* role no later step takes back, and a link that was sent.
THEOREM ProvisionedStays == AccessInit /\ [][AccessNext]_accessVars => []ProvisionedIsReal
<1>1. AccessInv => ProvisionedIsReal
  BY DEF AccessInv, RecruiterTrusted, ProvisionedIsReal
<1> QED BY <1>1, AccessInvInit, AccessInvNext, PTL

-----------------------------------------------------------------------------
(* Profiles and resumes.                                                   *)

KeptResumes == [id : Nat, text : Texts \union {NoText}, review : Reviews,
                parsed : Texts \union {NoText}]
Clerks == [kind : {"free", "ask", "verdict", "review", "coach", "coached", "parse"},
           profile : Profiles, toProfile : Profiles, row : Rows \union {FreeClerk.row},
           change : Changes, to : Changes, resume : KeptResumes, stale : BOOLEAN]

KeptTypeOK ==
  /\ profile \in Profiles
  /\ change \in [Rows -> Changes]
  /\ resume \in KeptResumes
  /\ uploads \in Nat
  /\ target \in Targets \union {NoTarget}
  /\ clerk \in [Desks -> Clerks]

\* What is kept with resume r was made from it.
MadeFrom(r) ==
  /\ r.review.text \in {NoText, r.text}
  /\ r.review.coached \in {NoText, r.text}
  /\ r.parsed \in {NoText, r.text}

\* A resume that a request has read is an earlier upload, or the present one with its text.
ReadInv ==
  /\ MadeFrom(resume) /\ resume.id <= uploads
  /\ \A d \in Desks : clerk[d].kind \in {"coach", "coached", "parse"} =>
        /\ clerk[d].resume.id <= uploads /\ MadeFrom(clerk[d].resume)
        /\ clerk[d].resume.id = resume.id => clerk[d].resume.text = resume.text

\* What a wish or a verdict that nobody has overtaken read still stands.
DecidesOn(p) ==
  /\ p.kind \in {"ask", "verdict"} =>
        p.row \in Rows /\ p.change = change[p.row] /\ ~Decided(p.change)
  /\ p.kind = "verdict" =>
        /\ p.profile = profile /\ p.to.value = p.change.value
        /\ \/ p.to.status = "approved" /\ p.toProfile.field = p.change.value
           \/ p.to.status = "rejected" /\ p.toProfile = profile

VerdictInv == \A d \in Desks : clerk[d].stale \/ DecidesOn(clerk[d])

RecordsInv == KeptTypeOK /\ ReadInv /\ VerdictInv

LEMMA FreeClerkTyped ==
  /\ FreeClerk \in Clerks /\ FreeClerk.kind = "free" /\ FreeClerk.resume = NoResume
  /\ NoResume \in KeptResumes /\ MadeFrom(NoResume)
BY DEF FreeClerk, Clerks, NoRow, NoResume, NoReview, Profiles, Changes, Reviews, KeptResumes, MadeFrom

LEMMA RecordsInvInit == RecordsInit => RecordsInv
<1> SUFFICES ASSUME RecordsInit PROVE RecordsInv OBVIOUS
<1>1. clerk \in [Desks -> Clerks] /\ \A d \in Desks : clerk[d].kind = "free"
  BY FreeClerkTyped DEF RecordsInit
<1>2. profile \in Profiles /\ change \in [Rows -> Changes]
  BY DEF RecordsInit, Profiles, Changes, NoRow
<1>3. resume \in KeptResumes /\ MadeFrom(resume) /\ resume.id = 0
  BY FreeClerkTyped DEF RecordsInit, NoResume
<1> QED BY <1>1, <1>2, <1>3 DEF RecordsInit, RecordsInv, KeptTypeOK, ReadInv, VerdictInv, DecidesOn

LEMMA WrittenChange ==
  ASSUME NEW loaded \in Changes, NEW new \in Changes, NEW now \in Changes
  PROVE  /\ Written(loaded, new, now) \in Changes
         /\ loaded = now => /\ Written(loaded, new, now).status = new.status
                            /\ Written(loaded, new, now).value = new.value
<1>1. DOMAIN now = {"status", "value"} BY DEF Changes
<1> QED BY <1>1 DEF Written, Changes

LEMMA WrittenProfile ==
  ASSUME NEW loaded \in Profiles, NEW new \in Profiles, NEW now \in Profiles
  PROVE  /\ Written(loaded, new, now) \in Profiles
         /\ loaded = now => Written(loaded, new, now).field = new.field
<1>1. DOMAIN now = {"field", "verified"} BY DEF Profiles
<1> QED BY <1>1 DEF Written, Profiles

\* The requests of the others keep what they hold, and are overtaken.
LEMMA ClerksOutdated ==
  ASSUME clerk \in [Desks -> Clerks]
  PROVE  /\ Outdated(clerk) \in [Desks -> Clerks]
         /\ \A d \in Desks : /\ Outdated(clerk)[d].kind = clerk[d].kind
                             /\ Outdated(clerk)[d].resume = clerk[d].resume
                             /\ Outdated(clerk)[d].stale \/ Outdated(clerk)[d].kind = "free"
<1>1. ASSUME NEW d \in Desks
      PROVE  /\ Outdated(clerk)[d].kind = clerk[d].kind
             /\ Outdated(clerk)[d].resume = clerk[d].resume
             /\ Outdated(clerk)[d].stale \/ Outdated(clerk)[d].kind = "free"
             /\ Outdated(clerk)[d] \in Clerks
  <2>1. Outdated(clerk)[d] = [clerk[d] EXCEPT !.stale = clerk[d].kind # "free"] BY DEF Outdated
  <2>2. clerk[d] \in Clerks OBVIOUS
  <2>3. Outdated(clerk)[d].stale = (clerk[d].kind # "free") BY <2>1, <2>2 DEF Clerks
  <2> QED BY <2>1, <2>2, <2>3 DEF Clerks
<1> QED BY <1>1 DEF Outdated

\* A step of the records: it keeps the invariant, and decides as it may.
RecordsStep ==
  /\ RecordsInv'
  /\ \/ OvertakenCommit(clerk, clerk')
     \/ /\ profile'.field # profile.field =>
             \E r \in Rows : /\ ~Decided(change[r]) /\ change'[r].status = "approved"
                             /\ change'[r].value = profile'.field
        /\ \A r \in Rows : Decided(change[r]) => change'[r] = change[r]

\* After a commit elsewhere or of a desk that is free now.
LEMMA AfterRecordsCommit ==
  ASSUME RecordsInv, clerk' = Outdated(clerk) \/ \E d \in Desks : Closes(d),
         profile' \in Profiles, change' \in [Rows -> Changes], resume' \in KeptResumes,
         uploads' \in Nat, target' \in Targets \union {NoTarget}, MadeFrom(resume'),
         uploads <= uploads', resume'.id <= uploads',
         \/ resume'.id = resume.id /\ resume'.text = resume.text
         \/ resume'.id > uploads
  PROVE  RecordsInv'
<1>0. clerk \in [Desks -> Clerks] /\ uploads \in Nat /\ resume \in KeptResumes
  BY DEF RecordsInv, KeptTypeOK
<1>1. /\ clerk' \in [Desks -> Clerks]
      /\ \A e \in Desks : \/ clerk'[e].kind = "free"
                          \/ /\ clerk'[e].kind = clerk[e].kind
                             /\ clerk'[e].resume = clerk[e].resume /\ clerk'[e].stale
  <2>1. CASE clerk' = Outdated(clerk) BY <1>0, <2>1, ClerksOutdated
  <2>2. ASSUME NEW d \in Desks, Closes(d)
        PROVE  /\ clerk' \in [Desks -> Clerks]
               /\ \A e \in Desks : \/ clerk'[e].kind = "free"
                                   \/ /\ clerk'[e].kind = clerk[e].kind
                                      /\ clerk'[e].resume = clerk[e].resume /\ clerk'[e].stale
    <3>1. clerk' = [Outdated(clerk) EXCEPT ![d] = FreeClerk] BY <2>2 DEF Closes, Cleared
    <3> QED BY <1>0, <3>1, ClerksOutdated, FreeClerkTyped
  <2> QED BY <2>1, <2>2
<1>2. KeptTypeOK' BY <1>1 DEF KeptTypeOK
<1>3. VerdictInv' BY <1>1 DEF VerdictInv, DecidesOn
<1>4. ASSUME NEW e \in Desks, clerk'[e].kind \in {"coach", "coached", "parse"}
      PROVE  /\ clerk'[e].resume.id <= uploads' /\ MadeFrom(clerk'[e].resume)
             /\ clerk'[e].resume.id = resume'.id => clerk'[e].resume.text = resume'.text
  <2>1. clerk[e].kind = clerk'[e].kind /\ clerk'[e].resume = clerk[e].resume BY <1>1, <1>4
  <2>2. /\ clerk[e].resume.id <= uploads /\ MadeFrom(clerk[e].resume)
        /\ clerk[e].resume.id = resume.id => clerk[e].resume.text = resume.text
    BY <1>4, <2>1 DEF RecordsInv, ReadInv
  <2>3. clerk[e].resume.id \in Nat /\ resume'.id \in Nat BY <1>0 DEF Clerks, KeptResumes
  <2>4. clerk[e].resume.id <= uploads' BY <1>0, <2>2, <2>3
  <2>5. resume'.id > uploads => clerk[e].resume.id # resume'.id BY <1>0, <2>2, <2>3
  <2> QED BY <2>1, <2>2, <2>4, <2>5
<1>5. ReadInv' BY <1>4 DEF ReadInv
<1> QED BY <1>2, <1>3, <1>5 DEF RecordsInv

\* A desk comes to hold something else, and the rows stay.
LEMMA AtOneDesk ==
  ASSUME RecordsInv, NEW d \in Desks, NEW request \in Clerks,
         clerk' = [clerk EXCEPT ![d] = request],
         UNCHANGED <<profile, change, resume, uploads, target>>,
         request.kind \notin {"free", "review", "parse", "coach", "coached"} => DecidesOn(request),
         request.kind \in {"coach", "coached", "parse"} =>
            /\ request.resume.id <= uploads /\ MadeFrom(request.resume)
            /\ request.resume.id = resume.id => request.resume.text = resume.text
  PROVE  RecordsStep
<1>1. clerk \in [Desks -> Clerks] BY DEF RecordsInv, KeptTypeOK
<1>2. clerk' \in [Desks -> Clerks] BY <1>1
<1>3. clerk'[d] = request /\ \A e \in Desks \ {d} : clerk'[e] = clerk[e] BY <1>1
<1>4. KeptTypeOK' BY <1>2 DEF RecordsInv, KeptTypeOK
<1>5. ReadInv' BY <1>3 DEF RecordsInv, ReadInv
<1>6. \A e \in Desks \ {d} : clerk'[e].stale \/ DecidesOn(clerk[e])'
  BY <1>3 DEF RecordsInv, VerdictInv, DecidesOn
<1>7. DecidesOn(clerk[d])' BY <1>3 DEF DecidesOn
<1>8. VerdictInv' BY <1>6, <1>7 DEF VerdictInv
<1> QED BY <1>4, <1>5, <1>8 DEF RecordsStep, RecordsInv

LEMMA ProfileRequests ==
  ASSUME RecordsInv, NEW d \in Desks, NEW r \in Rows
  PROVE  /\ \A v \in Values : BeginAsk(d, v, r) => RecordsStep
         /\ \A s \in {"approved", "rejected"} : BeginVerdict(d, r, s) => RecordsStep
<1>0. change[r] \in Changes /\ profile \in Profiles BY DEF RecordsInv, KeptTypeOK
<1>1. ASSUME NEW v \in Values, BeginAsk(d, v, r) PROVE RecordsStep
  <2> DEFINE to == [status |-> "pending", value |-> v]
             request == [FreeClerk EXCEPT !.kind = "ask", !.row = r, !.change = change[r], !.to = to]
  <2>1. to \in Changes BY DEF Changes
  <2>2. Opens(d, request) BY <1>1 DEF BeginAsk
  <2>3. ~Decided(change[r])
    BY <1>1 DEF BeginAsk, Pending, Decided
  <2> HIDE DEF to
  <2>4. /\ request \in Clerks /\ request.kind = "ask" /\ request.row = r
        /\ request.change = change[r]
    BY <1>0, <2>1, FreeClerkTyped DEF Clerks
  <2> HIDE DEF request
  <2>5. DecidesOn(request) BY <2>3, <2>4 DEF DecidesOn
  <2>6. clerk' = [clerk EXCEPT ![d] = request]
        /\ UNCHANGED <<profile, change, resume, uploads, target>>
    BY <2>2 DEF Opens
  <2> QED BY <2>4, <2>5, <2>6, AtOneDesk
<1>2. ASSUME NEW s \in {"approved", "rejected"}, BeginVerdict(d, r, s) PROVE RecordsStep
  <2> DEFINE to == [change[r] EXCEPT !.status = s]
             toProfile == IF s = "approved" THEN [field |-> change[r].value, verified |-> TRUE]
                          ELSE profile
             request == [FreeClerk EXCEPT !.kind = "verdict", !.row = r, !.change = change[r],
                           !.to = to, !.profile = profile, !.toProfile = toProfile]
  <2>1. to \in Changes /\ to.status = s /\ to.value = change[r].value BY <1>0 DEF Changes
  <2>2. toProfile \in Profiles /\ (s = "approved" => toProfile.field = change[r].value)
        /\ (s = "rejected" => toProfile = profile)
    BY <1>0 DEF Changes, Profiles
  <2>3. Opens(d, request) /\ change[r].status = "pending"
    BY <1>2 DEF BeginVerdict, Verdict, Pending
  <2> HIDE DEF to, toProfile
  <2>4. /\ request \in Clerks /\ request.kind = "verdict" /\ request.row = r
        /\ request.change = change[r] /\ request.to = to
        /\ request.profile = profile /\ request.toProfile = toProfile
    BY <1>0, <2>1, <2>2, FreeClerkTyped DEF Clerks
  <2> HIDE DEF request
  <2>5. DecidesOn(request) BY <2>1, <2>2, <2>3, <2>4 DEF DecidesOn, Decided
  <2>6. clerk' = [clerk EXCEPT ![d] = request]
        /\ UNCHANGED <<profile, change, resume, uploads, target>>
    BY <2>3 DEF Opens
  <2> QED BY <2>4, <2>5, <2>6, AtOneDesk
<1> QED BY <1>1, <1>2

LEMMA ResumeRequests ==
  ASSUME RecordsInv, NEW d \in Desks, BeginReview(d) \/ BeginCoach(d) \/ BeginParse(d)
  PROVE  RecordsStep
<1>0. /\ resume \in KeptResumes /\ MadeFrom(resume) /\ resume.id <= uploads
      /\ target \in Targets \union {NoTarget}
  BY DEF RecordsInv, KeptTypeOK, ReadInv
<1>1. CASE BeginReview(d)
  <2> DEFINE request == [FreeClerk EXCEPT !.kind = "review", !.resume.review.target = target]
  <2>1. request \in Clerks /\ request.kind = "review"
    BY <1>0, FreeClerkTyped DEF Clerks, KeptResumes, Reviews
  <2>2. clerk' = [clerk EXCEPT ![d] = request]
        /\ UNCHANGED <<profile, change, resume, uploads, target>>
    BY <1>1 DEF BeginReview, Opens
  <2> HIDE DEF request
  <2> QED BY <2>1, <2>2, AtOneDesk
<1>2. ASSUME NEW kind \in {"coach", "parse"},
             Opens(d, [FreeClerk EXCEPT !.kind = kind, !.resume = resume])
      PROVE  RecordsStep
  <2> DEFINE request == [FreeClerk EXCEPT !.kind = kind, !.resume = resume]
  <2>1. request \in Clerks /\ request.kind = kind /\ request.resume = resume
    BY <1>0, FreeClerkTyped DEF Clerks
  <2>2. clerk' = [clerk EXCEPT ![d] = request]
        /\ UNCHANGED <<profile, change, resume, uploads, target>>
    BY <1>2 DEF Opens
  <2> HIDE DEF request
  <2> QED BY <1>0, <2>1, <2>2, AtOneDesk
<1> QED BY <1>1, <1>2 DEF BeginCoach, BeginParse

LEMMA CoachingRechecked ==
  ASSUME RecordsInv, NEW d \in Desks, Recheck(d)
  PROVE  RecordsStep
<1> DEFINE asked == clerk[d].resume
           same == /\ resume.id = asked.id
                   /\ resume.review # NoReview
                   /\ resume.review.text = asked.review.text
                   /\ resume.review.target = asked.review.target
                   /\ resume.review.target = target
           kept == [resume EXCEPT !.review.coached = asked.review.text]
           request == [clerk[d] EXCEPT !.kind = "coached", !.stale = FALSE, !.resume = kept]
<1>0. /\ resume \in KeptResumes /\ MadeFrom(resume) /\ resume.id <= uploads
      /\ clerk \in [Desks -> Clerks] /\ asked \in KeptResumes
      /\ UNCHANGED <<profile, change, resume, uploads, target>>
  BY DEF RecordsInv, KeptTypeOK, ReadInv, Clerks, Recheck
<1>1. CASE same
  <2>1. clerk' = [clerk EXCEPT ![d] = request] BY <1>0, <1>1 DEF Recheck
  <2>2. asked.review.text \in Texts \union {NoText} /\ asked.review.text \in {NoText, resume.text}
    BY <1>0, <1>1 DEF KeptResumes, Reviews, MadeFrom
  <2>3. /\ kept \in KeptResumes /\ kept.id = resume.id /\ kept.text = resume.text
        /\ kept.review.text = resume.review.text /\ kept.review.coached = asked.review.text
        /\ kept.parsed = resume.parsed
    BY <1>0, <2>2 DEF KeptResumes, Reviews
  <2> HIDE DEF asked, kept
  <2>4. MadeFrom(kept) BY <1>0, <2>2, <2>3 DEF MadeFrom
  <2>5. request \in Clerks /\ request.kind = "coached" /\ request.resume = kept
    BY <1>0, <2>3 DEF Clerks
  <2> HIDE DEF request
  <2> QED BY <1>0, <2>1, <2>3, <2>4, <2>5, AtOneDesk
<1>2. CASE ~same
  <2>1. clerk' = [clerk EXCEPT ![d] = FreeClerk] BY <1>0, <1>2 DEF Recheck
  <2> QED BY <1>0, <2>1, FreeClerkTyped, AtOneDesk
<1> QED BY <1>1, <1>2

\* A commit of desk d that was overtaken says so.
LEMMA ClosesOvertaken ==
  ASSUME clerk \in [Desks -> Clerks], NEW d \in Desks, Closes(d), clerk[d].stale
  PROVE  OvertakenCommit(clerk, clerk')
<1>1. clerk' = [Outdated(clerk) EXCEPT ![d] = FreeClerk] BY DEF Closes, Cleared
<1>2. clerk'[d] = FreeClerk BY <1>1, ClerksOutdated
<1> QED BY <1>2, FreeClerkTyped DEF OvertakenCommit

LEMMA ProfileCommits ==
  ASSUME RecordsInv, NEW d \in Desks, CommitAsk(d) \/ CommitVerdict(d)
  PROVE  RecordsStep
<1> DEFINE p == clerk[d]
<1>0. /\ resume \in KeptResumes /\ MadeFrom(resume) /\ resume.id <= uploads /\ uploads \in Nat
      /\ profile \in Profiles /\ change \in [Rows -> Changes]
      /\ target \in Targets \union {NoTarget} /\ clerk \in [Desks -> Clerks]
      /\ p.stale \/ DecidesOn(p)
  BY DEF RecordsInv, KeptTypeOK, ReadInv, VerdictInv
<1>1. /\ Closes(d) /\ UNCHANGED <<resume, uploads, target>> /\ p.kind \in {"ask", "verdict"}
      /\ change' = [change EXCEPT ![p.row] = Written(p.change, p.to, @)]
      /\ profile' = IF p.kind = "ask" THEN profile ELSE Written(p.profile, p.toProfile, profile)
  BY DEF CommitAsk, CommitVerdict
<1>2. /\ p.change \in Changes /\ p.to \in Changes /\ p.profile \in Profiles
      /\ p.toProfile \in Profiles
  BY <1>0 DEF Clerks
<1>3. profile' \in Profiles /\ (p.kind = "verdict" /\ p.profile = profile => profile'.field = p.toProfile.field)
  BY <1>0, <1>1, <1>2, WrittenProfile
<1>4. ASSUME NEW r \in Rows
      PROVE  /\ change'[r] \in Changes
             /\ r # p.row => change'[r] = change[r]
             /\ r = p.row /\ p.change = change[r] => change'[r].status = p.to.status
                                                     /\ change'[r].value = p.to.value
  <2>1. change'[r] = IF r = p.row THEN Written(p.change, p.to, change[r]) ELSE change[r]
    BY <1>0, <1>1
  <2>2. change[r] \in Changes BY <1>0
  <2> QED BY <1>2, <2>1, <2>2, WrittenChange
<1>5. change' \in [Rows -> Changes] BY <1>0, <1>1, <1>4
<1>6. RecordsInv'
  <2>1. uploads <= uploads BY <1>0
  <2> QED BY <1>0, <1>1, <1>3, <1>5, <2>1, AfterRecordsCommit
<1>7. CASE p.stale BY <1>0, <1>1, <1>6, <1>7, ClosesOvertaken DEF RecordsStep
<1>8. CASE ~p.stale
  <2>1. p.row \in Rows /\ p.change = change[p.row] /\ ~Decided(change[p.row])
    BY <1>0, <1>1, <1>8 DEF DecidesOn
  <2>2. \A r \in Rows : Decided(change[r]) => change'[r] = change[r] BY <1>4, <2>1
  <2>3. ASSUME profile'.field # profile.field
        PROVE  change'[p.row].status = "approved" /\ change'[p.row].value = profile'.field
    <3>1. p.kind = "verdict" BY <1>1, <2>3
    <3>2. /\ p.profile = profile /\ p.to.value = p.change.value
          /\ \/ p.to.status = "approved" /\ p.toProfile.field = p.change.value
             \/ p.toProfile = profile
      BY <1>0, <1>8, <3>1 DEF DecidesOn
    <3>3. profile'.field = p.toProfile.field BY <1>3, <3>1, <3>2
    <3> QED BY <1>4, <2>1, <2>3, <3>2, <3>3
  <2> QED BY <1>6, <2>1, <2>2, <2>3 DEF RecordsStep
<1> QED BY <1>7, <1>8

\* A commit that changes only the resume, its uploads or the target decides nothing.
LEMMA ResumeCommits ==
  ASSUME RecordsInv, clerk' = Outdated(clerk) \/ \E d \in Desks : Closes(d),
         UNCHANGED change, profile' \in Profiles, profile'.field = profile.field,
         resume' \in KeptResumes, uploads' \in Nat, target' \in Targets \union {NoTarget},
         MadeFrom(resume'), uploads <= uploads', resume'.id <= uploads',
         \/ resume'.id = resume.id /\ resume'.text = resume.text
         \/ resume'.id > uploads
  PROVE  RecordsStep
<1>1. change' \in [Rows -> Changes] BY DEF RecordsInv, KeptTypeOK
<1>2. RecordsInv' BY <1>1, AfterRecordsCommit
<1> QED BY <1>2 DEF RecordsStep

LEMMA RecordsNextStep ==
  ASSUME RecordsInv, [RecordsNext]_recordsVars
  PROVE  RecordsStep
<1>0. /\ resume \in KeptResumes /\ MadeFrom(resume) /\ resume.id <= uploads /\ uploads \in Nat
      /\ profile \in Profiles /\ change \in [Rows -> Changes] /\ uploads <= uploads
      /\ target \in Targets \union {NoTarget} /\ clerk \in [Desks -> Clerks]
  BY DEF RecordsInv, KeptTypeOK, ReadInv
<1>1. ASSUME NEW d \in Desks, NEW r \in Rows, NEW v \in Values, BeginAsk(d, v, r)
      PROVE  RecordsStep
  BY <1>1, ProfileRequests
<1>2. ASSUME NEW d \in Desks, NEW r \in Rows, NEW s \in {"approved", "rejected"},
             BeginVerdict(d, r, s)
      PROVE  RecordsStep
  BY <1>2, ProfileRequests
<1>3. ASSUME NEW d \in Desks, CommitAsk(d) \/ CommitVerdict(d) PROVE RecordsStep
  BY <1>3, ProfileCommits
<1>4. ASSUME NEW verified \in BOOLEAN, VerifyStudent(verified) PROVE RecordsStep
  <2>1. profile' \in Profiles /\ profile'.field = profile.field
    BY <1>0, <1>4 DEF VerifyStudent, Profiles
  <2> QED BY <1>0, <1>4, <2>1, ResumeCommits DEF VerifyStudent, Elsewhere
<1>5. ASSUME NEW text \in Texts, UploadResume(text) PROVE RecordsStep
  <2>1. /\ resume' \in KeptResumes /\ MadeFrom(resume') /\ resume'.id = uploads + 1
        /\ uploads' = uploads + 1
    <3>1. NoResume \in KeptResumes BY FreeClerkTyped
    <3>2. resume' = [NoResume EXCEPT !.id = uploads + 1, !.text = text] BY <1>5 DEF UploadResume
    <3>3. /\ resume'.id = uploads + 1 /\ resume'.text = text /\ resume'.parsed = NoText
          /\ resume'.review.text = NoText /\ resume'.review.coached = NoText
      BY <3>2 DEF NoResume, NoReview
    <3>4. resume' \in KeptResumes
      <4>1. uploads + 1 \in Nat BY <1>0
      <4> QED BY <3>1, <3>2, <4>1 DEF KeptResumes
    <3> QED BY <1>5, <3>3, <3>4 DEF UploadResume, MadeFrom
  <2>2. uploads' \in Nat /\ uploads <= uploads' /\ resume'.id <= uploads' /\ resume'.id > uploads
    BY <1>0, <2>1
  <2> QED BY <1>0, <1>5, <2>1, <2>2, ResumeCommits DEF UploadResume, Elsewhere
<1>6. ASSUME NEW to \in Targets, SetTarget(to) PROVE RecordsStep
  BY <1>0, <1>6, ResumeCommits DEF SetTarget, Elsewhere
<1>7. ASSUME NEW d \in Desks, BeginReview(d) \/ BeginCoach(d) \/ BeginParse(d)
      PROVE  RecordsStep
  BY <1>7, ResumeRequests
<1>8. ASSUME NEW d \in Desks, Recheck(d) PROVE RecordsStep BY <1>8, CoachingRechecked
<1>9. ASSUME NEW d \in Desks, CommitReview(d) PROVE RecordsStep
  <2> DEFINE review == [text |-> resume.text, coached |-> NoText,
                        target |-> clerk[d].resume.review.target]
  <2>1. clerk[d].resume.review.target \in Targets \union {NoTarget}
    BY <1>0 DEF Clerks, KeptResumes, Reviews
  <2>2. review \in Reviews /\ review.text = resume.text /\ review.coached = NoText
    BY <1>0, <2>1 DEF KeptResumes, Reviews
  <2>3. resume' = resume \/ resume' = [resume EXCEPT !.review = review]
    BY <1>9 DEF CommitReview
  <2> HIDE DEF review
  <2>4. resume' \in KeptResumes /\ resume'.id = resume.id /\ resume'.text = resume.text
        /\ resume'.parsed = resume.parsed /\ resume'.review \in {resume.review, review}
    BY <1>0, <2>2, <2>3 DEF KeptResumes
  <2>5. MadeFrom(resume') BY <1>0, <2>2, <2>4 DEF MadeFrom
  <2> QED BY <1>0, <1>9, <2>4, <2>5, ResumeCommits DEF CommitReview
<1>10. ASSUME NEW d \in Desks, CommitCoach(d) PROVE RecordsStep
  <2> DEFINE read == clerk[d].resume
  <2>1. /\ read \in KeptResumes /\ MadeFrom(read)
        /\ read.id = resume.id => read.text = resume.text
    BY <1>0, <1>10 DEF CommitCoach, RecordsInv, ReadInv, Clerks
  <2>2. resume' = resume \/ (read.id = resume.id /\ resume' = [resume EXCEPT !.review = read.review])
    BY <1>10 DEF CommitCoach
  <2> HIDE DEF read
  <2>3. resume' \in KeptResumes /\ resume'.id = resume.id /\ resume'.text = resume.text
        /\ resume'.parsed = resume.parsed
        /\ (resume'.review = resume.review \/ (read.id = resume.id /\ resume'.review = read.review))
    BY <1>0, <2>1, <2>2 DEF KeptResumes
  <2>4. MadeFrom(resume') BY <1>0, <2>1, <2>3 DEF MadeFrom
  <2> QED BY <1>0, <1>10, <2>3, <2>4, ResumeCommits DEF CommitCoach
<1>11. ASSUME NEW d \in Desks, CommitParse(d) PROVE RecordsStep
  <2> DEFINE read == clerk[d].resume
  <2>1. read \in KeptResumes /\ (read.id = resume.id => read.text = resume.text)
    BY <1>0, <1>11 DEF CommitParse, RecordsInv, ReadInv, Clerks
  <2>2. resume' = resume \/ (read.id = resume.id /\ resume' = [resume EXCEPT !.parsed = read.text])
    BY <1>11 DEF CommitParse
  <2> HIDE DEF read
  <2>3. resume' \in KeptResumes /\ resume'.id = resume.id /\ resume'.text = resume.text
        /\ resume'.review = resume.review /\ resume'.parsed \in {resume.parsed, resume.text}
    BY <1>0, <2>1, <2>2 DEF KeptResumes
  <2>4. MadeFrom(resume') BY <1>0, <2>3 DEF MadeFrom
  <2> QED BY <1>0, <1>11, <2>3, <2>4, ResumeCommits DEF CommitParse
<1>12. ASSUME NEW d \in Desks, GiveUp(d) PROVE RecordsStep
  BY <1>12, FreeClerkTyped, AtOneDesk DEF GiveUp
<1>13. CASE UNCHANGED recordsVars
  <2>1. UNCHANGED <<profile, change, resume, uploads, target, clerk>> BY <1>13 DEF recordsVars
  <2>2. KeptTypeOK' BY <2>1 DEF RecordsInv, KeptTypeOK
  <2>3. ReadInv' BY <2>1 DEF RecordsInv, ReadInv
  <2>4. VerdictInv' BY <2>1 DEF RecordsInv, VerdictInv, DecidesOn
  <2> QED BY <2>1, <2>2, <2>3, <2>4 DEF RecordsStep, RecordsInv
<1> QED BY <1>1, <1>2, <1>3, <1>4, <1>5, <1>6, <1>7, <1>8, <1>9, <1>10, <1>11, <1>12, <1>13
        DEF RecordsNext, ProfileStep, ResumeStep

\* Whatever is uploaded, reviewed, coached and parsed at once (resume_evidence.py), what is kept with a
\* resume was made from it; and however wishes and verdicts overlap (enterprise.py
\* review_profile_change), the academic field changes only by a verdict and a verdict stands, but
\* for a request that was overtaken.
THEOREM RecordsStayAgreed == RecordsInit /\ [][RecordsNext]_recordsVars => RecordsAgree
<1>1. RecordsInv /\ [RecordsNext]_recordsVars => RecordsInv' BY RecordsNextStep DEF RecordsStep
<1>2. RecordsInv => KeptIsOfResume BY DEF RecordsInv, ReadInv, MadeFrom, KeptIsOfResume
<1>3. RecordsInv /\ [RecordsNext]_recordsVars =>
        [\/ OvertakenCommit(clerk, clerk')
         \/ /\ profile'.field # profile.field =>
                 \E r \in Rows : /\ ~Decided(change[r]) /\ change'[r].status = "approved"
                                 /\ change'[r].value = profile'.field
            /\ \A r \in Rows : Decided(change[r]) => change'[r] = change[r]]_recordsVars
  BY RecordsNextStep DEF RecordsStep
<1> QED BY <1>1, <1>2, <1>3, RecordsInvInit, PTL DEF RecordsAgree, VerdictsDecide

-----------------------------------------------------------------------------
(***************************************************************************)
(* The recordings of an exam (ExamRecordings).                             *)
(***************************************************************************)

\* What a row of any recording says.
RowSane(c, row, now) ==
  /\ row.status = "ready" => c = Film
  /\ row.status = "none" => c # Film
  /\ row.status = "recorded" => c = Film
  /\ ~Active(row) => row.segs = <<>> /\ row.data = <<>> /\ ~row.sealed
  /\ Active(row) => row.segs # <<>> /\ row.started <= now

\* What an active row says that no start wrote over.
RowFits(c, row, now) ==
  /\ row.sealed <=> row.status = "submitted"
  /\ row.started <= row.deadline
  /\ Len(row.segs) \in 1 .. QuestionCount(c)
  /\ \A i \in 1 .. Len(row.segs) :
       /\ row.segs[i].open <=> (i = Len(row.segs) /\ row.status = "recording")
       /\ row.segs[i].start <= now - row.started
       /\ ValidSegment(row, c, i)

\* A start that goes on after its consent commit, has read the clock before.
StartsInv ==
  \A r \in Starters :
    /\ starting[r].step # "idle" => groq
    /\ starting[r].step = "film read" => starting[r].at <= time

FilmedInv ==
  \A c \in Recorders :
    /\ RowSane(c, rec[c], time)
    /\ Exclusive(c) /\ Active(rec[c]) => RowFits(c, rec[c], time)

RecordingsInv ==
  CaptureTypeOK /\ FilmedInv /\ StartsInv /\ AckedChunksKept /\ SubmissionStaysAnalysable

LEMMA RowFields ==
  ASSUME NEW status, NEW mime, NEW started, NEW deadline, NEW segs, NEW data, NEW size, NEW sealed,
         NEW row, row = Row(status, mime, started, deadline, segs, data, size, sealed)
  PROVE  /\ row.status = status /\ row.mime = mime /\ row.started = started
         /\ row.deadline = deadline /\ row.segs = segs /\ row.data = data
         /\ row.size = size /\ row.sealed = sealed
BY DEF Row

LEMMA RowTyped ==
  ASSUME NEW status \in {"none", "ready", "recording", "recorded", "submitted"},
         NEW mime \in Formats \cup {NoFormat}, NEW started \in Nat, NEW deadline \in Nat,
         NEW segs \in Seq(Segment), NEW data \in Seq(Data), NEW size \in Nat,
         NEW sealed \in BOOLEAN
  PROVE  Row(status, mime, started, deadline, segs, data, size, sealed) \in Recording
<1>1. \A S, T : \A a \in Seq(S), b \in Seq(T) :
        [status |-> status, mime |-> mime, started |-> started, deadline |-> deadline,
         segs |-> a, data |-> b, size |-> size, sealed |-> sealed] \in
        [status : {"none", "ready", "recording", "recorded", "submitted"},
         mime : Formats \cup {NoFormat}, started : Nat, deadline : Nat,
         segs : Seq(S), data : Seq(T), size : Nat, sealed : BOOLEAN]
  BY Zenon
<1> QED BY <1>1 DEF Row, Recording

LEMMA RecordingFields ==
  ASSUME NEW row \in Recording
  PROVE  /\ row.status \in {"none", "ready", "recording", "recorded", "submitted"}
         /\ row.mime \in Formats \cup {NoFormat} /\ row.started \in Nat /\ row.deadline \in Nat
         /\ row.segs \in Seq(Segment) /\ row.data \in Seq(Data)
         /\ row.size \in Nat /\ row.sealed \in BOOLEAN
BY DEF Recording

LEMMA SegmentFields ==
  ASSUME NEW s \in Segment
  PROVE  /\ s.q \in Spoken \cup 1 .. 4 /\ s.start \in Nat /\ s.end \in Nat /\ s.open \in BOOLEAN
BY DEF Segment

\* Closing the open segment of a row.
LEMMA ClosedSegments ==
  ASSUME NEW row \in Recording, row.segs # <<>>, row.started <= time, time \in Nat
  PROVE  /\ Closed(row) \in Seq(Segment) /\ Len(Closed(row)) = Len(row.segs)
         /\ Len(row.segs) \in Nat \ {0}
         /\ \A i \in 1 .. Len(row.segs) : i # Len(row.segs) => Closed(row)[i] = row.segs[i]
         /\ LET n == Len(row.segs)
                s == row.segs[n]
                t == Closed(row)[n]
            IN  /\ s \in Segment /\ t \in Segment
                /\ t.q = s.q /\ t.start = s.start /\ t.open = FALSE
                /\ t.end >= t.start /\ t.end <= t.start + QuestionTime
                /\ s.start <= time - row.started => t.end <= time - row.started
                /\ s.start <= row.deadline - row.started => t.end <= row.deadline - row.started
<1> DEFINE n == Len(row.segs)
           s == Last(row.segs)
           to == Greatest(s.start, Least(Elapsed(row), Least(s.start + QuestionTime, Section(row))))
           t == [q |-> s.q, start |-> s.start, open |-> FALSE, end |-> to]
<1>1. row.segs \in Seq(Segment) /\ row.started \in Nat /\ row.deadline \in Nat BY RecordingFields
<1>2. n \in Nat \ {0} BY <1>1, EmptySeq
<1>3. s = row.segs[n] BY DEF Last
<1>4. s \in Segment
  <2>1. n \in 1 .. Len(row.segs) BY <1>2
  <2> QED BY <1>1, <1>3, <2>1, ElementOfSeq
<1>5. /\ s.q \in Spoken \cup 1 .. 4 /\ s.start \in Nat
  BY <1>4, SegmentFields
<1>6. QuestionTime \in Nat \ {0} BY RecordingsOK
<1>7. /\ to \in Nat /\ to >= s.start /\ to <= s.start + QuestionTime
      /\ s.start <= time - row.started => to <= time - row.started
      /\ s.start <= row.deadline - row.started => to <= row.deadline - row.started
  <2> DEFINE now == time - row.started
             over == row.deadline - row.started
             from == s.start
             late == s.start + QuestionTime
  <2>1. from \in Nat /\ now \in Int /\ late \in Nat /\ over \in Int /\ from <= late BY <1>1, <1>5, <1>6
  <2>2. to = Greatest(from, Least(now, Least(late, over))) BY DEF Elapsed, Section
  <2> HIDE DEF s, to, now, over, from, late
  <2>3. /\ to \in Nat /\ to >= from /\ to <= late
        /\ from <= now => to <= now
        /\ from <= over => to <= over
    <3> DEFINE a == Least(late, over)
               b == Least(now, a)
    <3>1. a \in Int /\ a <= late /\ a <= over BY <2>1 DEF Least
    <3> HIDE DEF a
    <3>2. b \in Int /\ b <= now /\ b <= a BY <2>1, <3>1 DEF Least
    <3> HIDE DEF b
    <3>3. to = IF from >= b THEN from ELSE b BY <2>2 DEF Greatest, a, b
    <3> QED BY <2>1, <3>1, <3>2, <3>3
  <2> QED BY <2>3 DEF now, over, from, late
<1>8. t \in Segment /\ t.q = s.q /\ t.start = s.start /\ t.open = FALSE /\ t.end = to
  <2> HIDE DEF s, to
  <2> QED BY <1>5, <1>7 DEF Segment
<1>9. Closed(row) = [row.segs EXCEPT ![n] = t] BY DEF Closed
<1> HIDE DEF t, to, s
<1>10. /\ Closed(row) \in Seq(Segment) /\ Len(Closed(row)) = n
       /\ \A i \in 1 .. n : Closed(row)[i] = IF i = n THEN t ELSE row.segs[i]
  <2>1. n \in 1 .. Len(row.segs) BY <1>2
  <2> QED BY <1>1, <1>8, <1>9, <2>1, ExceptSeq
<1>11. Closed(row)[n] = t BY <1>2, <1>10
<1> QED BY <1>2, <1>3, <1>4, <1>7, <1>8, <1>10, <1>11

-----------------------------------------------------------------------------
LEMMA BegunFits ==
  ASSUME NEW c \in Recorders, NEW row \in Recording, NEW q, NEW format \in Formats,
         NEW at \in Nat, NEW end \in Nat, time \in Nat,
         q = QuestionOf(c, 1), at <= time
  PROVE  LET new == Begun(row, q, format, at, end) IN
         /\ new \in Recording /\ new.status = "recording" /\ new.data = row.data
         /\ new.mime = format /\ new.sealed = row.sealed /\ new.size = row.size
         /\ RowSane(c, new, time)
         /\ ~row.sealed /\ at <= end => RowFits(c, new, time)
<1> DEFINE s == SegmentFrom(q, 0)
           new == Begun(row, q, format, at, end)
<1>1. /\ s.q = q /\ s.start = 0 /\ s.end = 0 /\ s.open = TRUE BY DEF SegmentFrom
<1>2. q \in Spoken \cup 1 .. 4
  <2>1. CASE c = Film BY <2>1 DEF QuestionOf
  <2>2. CASE c # Film BY <2>2 DEF QuestionOf, Recorders
  <2> QED BY <2>1, <2>2
<1>3. s \in Segment BY <1>2 DEF SegmentFrom, Segment
<1> HIDE DEF s
<1>4. <<s>> \in Seq(Segment) /\ Len(<<s>>) = 1 /\ <<s>>[1] = s /\ <<s>> # <<>> BY <1>3
<1>5. new = Row("recording", format, at, end, <<s>>, row.data, row.size, row.sealed) BY DEF Begun, s
<1>6. row.data \in Seq(Data) /\ row.size \in Nat /\ row.sealed \in BOOLEAN BY RecordingFields
<1> HIDE DEF new
<1>7. new \in Recording BY <1>4, <1>5, <1>6, RowTyped
<1>8. /\ new.status = "recording" /\ new.mime = format /\ new.started = at /\ new.deadline = end
      /\ new.segs = <<s>> /\ new.data = row.data /\ new.size = row.size /\ new.sealed = row.sealed
  BY <1>5, RowFields
<1>9. RowSane(c, new, time) BY <1>4, <1>8 DEF RowSane, Active
<1>10. ASSUME ~row.sealed, at <= end PROVE RowFits(c, new, time)
  <2>1. 1 \in 1 .. QuestionCount(c)
    <3>1. QuestionCount(c) = 1 \/ QuestionCount(c) = Filmed BY DEF QuestionCount
    <3> QED BY <3>1, RecordingsOK
  <2>2. ASSUME NEW i \in 1 .. Len(new.segs)
        PROVE  /\ new.segs[i].open <=> (i = Len(new.segs) /\ new.status = "recording")
               /\ new.segs[i].start <= time - new.started
               /\ ValidSegment(new, c, i)
    <3>1. i = 1 /\ Len(new.segs) = 1 /\ new.segs[i] = s BY <1>4, <1>8
    <3>2. QuestionTime \in Nat BY RecordingsOK
    <3>3. ValidSegment(new, c, i)
      BY <1>1, <1>8, <1>10, <3>1, <3>2 DEF ValidSegment, Section
    <3> QED BY <1>1, <1>8, <3>1, <3>3
  <2> QED BY <1>4, <1>8, <1>10, <2>1, <2>2 DEF RowFits
<1> QED BY <1>7, <1>8, <1>9, <1>10 DEF new

\* Stopping or sealing a row.
LEMMA ClosedFits ==
  ASSUME NEW c \in Recorders, NEW row \in Recording, time \in Nat, RowSane(c, row, time),
         RowFits(c, row, time), Active(row), NEW segs, NEW i \in 1 .. Len(segs),
         segs = Closed(row) \/ segs = row.segs
  PROVE  /\ segs \in Seq(Segment) /\ Len(segs) = Len(row.segs) /\ segs # <<>>
         /\ segs[i].start <= time - row.started
         /\ segs[i].open <=> (segs = row.segs /\ row.segs[i].open)
         /\ LET s == segs[i] IN
            /\ s.q = QuestionOf(c, i)
            /\ s.start <= s.end /\ s.end <= Section(row)
            /\ s.end <= s.start + QuestionTime
            /\ (i > 1 => segs[i - 1].end <= s.start)
<1>1. row.segs # <<>> /\ row.started <= time BY DEF RowSane
<1>2. row.segs \in Seq(Segment) /\ row.started \in Nat /\ row.deadline \in Nat BY RecordingFields
<1>3. Len(row.segs) \in Nat \ {0} BY <1>1, <1>2, EmptySeq
<1>4. ASSUME NEW j \in 1 .. Len(row.segs)
      PROVE  /\ row.segs[j].open <=> (j = Len(row.segs) /\ row.status = "recording")
             /\ row.segs[j].start <= time - row.started
             /\ row.segs[j].q = QuestionOf(c, j)
             /\ row.segs[j].start <= row.segs[j].end /\ row.segs[j].end <= Section(row)
             /\ row.segs[j].end <= row.segs[j].start + QuestionTime
             /\ (j > 1 => row.segs[j - 1].end <= row.segs[j].start)
             /\ row.segs[j].start \in Nat /\ row.segs[j].end \in Nat
             /\ row.segs[j].open \in BOOLEAN
  <2>1. row.segs[j] \in Segment BY <1>2, ElementOfSeq
  <2>2. ValidSegment(row, c, j) BY DEF RowFits
  <2>3. row.segs[j].start \in Nat /\ row.segs[j].end \in Nat /\ row.segs[j].open \in BOOLEAN
    BY <2>1, SegmentFields
  <2> QED BY <2>2, <2>3 DEF ValidSegment, RowFits
<1>5. CASE segs = row.segs BY <1>1, <1>2, <1>4, <1>5
<1>6. CASE segs = Closed(row) /\ segs # row.segs
  <2> DEFINE n == Len(row.segs)
  <2>1. /\ segs \in Seq(Segment) /\ Len(segs) = n
        /\ \A j \in 1 .. n : j # n => segs[j] = row.segs[j]
        /\ segs[n].q = row.segs[n].q /\ segs[n].start = row.segs[n].start
        /\ segs[n].open = FALSE
        /\ segs[n].end >= segs[n].start /\ segs[n].end <= segs[n].start + QuestionTime
        /\ row.segs[n].start <= row.deadline - row.started => segs[n].end <= row.deadline - row.started
    BY <1>1, <1>6, ClosedSegments
  <2>2. i \in 1 .. n BY <2>1
  <2>3. segs # <<>> BY <1>3, <2>1, EmptySeq
  <2>4. CASE i # n
    <3>1. segs[i] = row.segs[i] BY <2>1, <2>2, <2>4
    <3>2. ~row.segs[i].open BY <1>4, <2>2, <2>4
    <3>3. i > 1 => segs[i - 1] = row.segs[i - 1] BY <1>3, <2>1, <2>2
    <3> QED BY <1>4, <1>6, <2>1, <2>2, <2>3, <3>1, <3>2, <3>3
  <2>5. CASE i = n
    <3>1. i > 1 => segs[i - 1] = row.segs[i - 1] BY <1>3, <2>1, <2>2
    <3>2. row.segs[i].start <= row.deadline - row.started
      <4>1. row.segs[i].start <= row.segs[i].end /\ row.segs[i].end <= Section(row)
            /\ row.segs[i].start \in Nat /\ row.segs[i].end \in Nat
        BY <1>4, <2>2
      <4> QED BY <1>2, <4>1, SMT DEF Section
    <3>3. segs[i].end <= Section(row) BY <2>1, <2>5, <3>2 DEF Section
    <3> QED BY <1>4, <1>6, <2>1, <2>2, <2>3, <2>5, <3>1, <3>3
  <2> QED BY <2>4, <2>5
<1> QED BY <1>5, <1>6

LEMMA SealedRow ==
  ASSUME NEW c \in Recorders, NEW row \in Recording, time \in Nat, RowSane(c, row, time),
         row.status \in {"recording", "recorded"}
  PROVE  LET new == Sealed(row) IN
         /\ new \in Recording /\ new.status = "submitted" /\ new.data = row.data
         /\ new.mime = row.mime /\ new.started = row.started /\ new.deadline = row.deadline
         /\ new.sealed = TRUE
         /\ RowSane(c, new, time)
         /\ RowFits(c, row, time) => RowFits(c, new, time)
<1> DEFINE new == Sealed(row)
           segs == IF Last(row.segs).open THEN Closed(row) ELSE row.segs
<1>1. Active(row) /\ row.segs # <<>> /\ row.started <= time BY DEF Active, RowSane
<1>2. /\ row.segs \in Seq(Segment) /\ row.started \in Nat /\ row.deadline \in Nat
      /\ row.data \in Seq(Data) /\ row.size \in Nat /\ row.mime \in Formats \cup {NoFormat}
  BY RecordingFields
<1>3. segs = Closed(row) \/ (segs = row.segs /\ ~Last(row.segs).open) OBVIOUS
<1>4. new = Row("submitted", row.mime, row.started, row.deadline, segs, row.data, row.size, TRUE)
  BY DEF Sealed
<1> HIDE DEF new, segs
<1>5. segs \in Seq(Segment) /\ segs # <<>> /\ Len(segs) = Len(row.segs)
  BY <1>1, <1>2, <1>3, ClosedSegments, EmptySeq
<1>6. new \in Recording BY <1>2, <1>4, <1>5, RowTyped
<1>7. /\ new.status = "submitted" /\ new.mime = row.mime /\ new.started = row.started
      /\ new.deadline = row.deadline /\ new.segs = segs /\ new.data = row.data
      /\ new.sealed = TRUE
  BY <1>4 DEF Row
<1>8. RowSane(c, new, time) BY <1>1, <1>5, <1>7 DEF RowSane, Active
<1>9. ASSUME RowFits(c, row, time) PROVE RowFits(c, new, time)
  <2>1. ASSUME NEW i \in 1 .. Len(new.segs)
        PROVE  /\ new.segs[i].open <=> (i = Len(new.segs) /\ new.status = "recording")
               /\ new.segs[i].start <= time - new.started
               /\ ValidSegment(new, c, i)
    <3>1. i \in 1 .. Len(segs) BY <1>7
    <3>2. /\ segs[i].start <= time - row.started
          /\ segs[i].open <=> (segs = row.segs /\ row.segs[i].open)
          /\ segs[i].q = QuestionOf(c, i)
          /\ segs[i].start <= segs[i].end /\ segs[i].end <= Section(row)
          /\ segs[i].end <= segs[i].start + QuestionTime
          /\ (i > 1 => segs[i - 1].end <= segs[i].start)
      BY <1>1, <1>3, <1>9, <3>1, ClosedFits
    <3>3. ValidSegment(new, c, i) BY <1>7, <3>2 DEF ValidSegment, Section
    <3>4. ~segs[i].open
      <4>1. CASE segs # row.segs BY <3>2, <4>1
      <4>2. CASE segs = row.segs /\ ~Last(row.segs).open
        <5>1. row.segs[i].open => i = Len(row.segs) BY <1>5, <1>9, <3>1 DEF RowFits
        <5> QED BY <3>2, <4>2, <5>1 DEF Last
      <4>3. CASE segs = Closed(row) /\ segs = row.segs
        <5>1. Closed(row)[Len(row.segs)].open = FALSE BY <1>1, ClosedSegments
        <5>2. row.segs[i].open => i = Len(row.segs) BY <1>5, <1>9, <3>1 DEF RowFits
        <5> QED BY <3>2, <4>3, <5>1, <5>2
      <4> QED BY <1>3, <4>1, <4>2, <4>3
    <3> QED BY <1>7, <3>2, <3>3, <3>4
  <2> QED BY <1>5, <1>7, <1>9, <2>1 DEF RowFits
<1> QED BY <1>6, <1>7, <1>8, <1>9 DEF new

\* The film goes on to its next question, or stops.
Advanced(row) ==
  LET next == Len(row.segs) + 1
      more == next <= Filmed /\ Elapsed(row) < Section(row)
  IN  Row(IF more THEN "recording" ELSE "recorded", row.mime, row.started, row.deadline,
          IF more THEN Append(Closed(row), SegmentFrom(next, Elapsed(row))) ELSE Closed(row),
          row.data, row.size, row.sealed)

LEMMA AdvancedRow ==
  ASSUME NEW row \in Recording, time \in Nat, RowSane(Film, row, time), row.status = "recording"
  PROVE  LET new == Advanced(row) IN
         /\ new \in Recording /\ new.status \in {"recording", "recorded"} /\ new.data = row.data
         /\ new.mime = row.mime /\ new.started = row.started /\ new.deadline = row.deadline
         /\ new.sealed = row.sealed
         /\ RowSane(Film, new, time)
         /\ RowFits(Film, row, time) => RowFits(Film, new, time)
<1> DEFINE new == Advanced(row)
           n == Len(row.segs)
           more == n + 1 <= Filmed /\ Elapsed(row) < Section(row)
           shut == Closed(row)
           fresh == SegmentFrom(n + 1, Elapsed(row))
           segs == IF more THEN Append(shut, fresh) ELSE shut
           status == IF more THEN "recording" ELSE "recorded"
<1>1. Active(row) /\ row.segs # <<>> /\ row.started <= time BY DEF Active, RowSane
<1>2. /\ row.segs \in Seq(Segment) /\ row.started \in Nat /\ row.deadline \in Nat
      /\ row.data \in Seq(Data) /\ row.size \in Nat /\ row.mime \in Formats \cup {NoFormat}
      /\ row.sealed \in BOOLEAN
  BY RecordingFields
<1>3. Film \in Recorders BY DEF Recorders
<1>4. /\ shut \in Seq(Segment) /\ Len(shut) = n /\ n \in Nat \ {0}
      /\ shut[n].end <= time - row.started \/ ~(row.segs[n].start <= time - row.started)
  BY <1>1, ClosedSegments
<1>5. more => fresh \in Segment /\ n + 1 \in 1 .. 4
  <2>1. Elapsed(row) \in Nat BY <1>1, <1>2 DEF Elapsed
  <2>2. Filmed \in 1 .. 4 BY RecordingsOK
  <2>3. more => n + 1 \in 1 .. 4 BY <1>4, <2>2
  <2> QED BY <2>1, <2>3 DEF SegmentFrom, Segment
<1>6. fresh.q = n + 1 /\ fresh.start = Elapsed(row) /\ fresh.end = Elapsed(row) /\ fresh.open = TRUE
  BY DEF SegmentFrom
<1>7. new = Row(status, row.mime, row.started, row.deadline, segs, row.data, row.size, row.sealed)
  BY DEF Advanced
<1>8. status \in {"recording", "recorded"} OBVIOUS
<1>9. more => segs = Append(shut, fresh) /\ status = "recording" OBVIOUS
<1>10. ~more => segs = shut /\ status = "recorded" OBVIOUS
<1>11. more => n + 1 <= Filmed /\ Elapsed(row) < Section(row) OBVIOUS
<1> HIDE DEF new, shut, fresh, segs, status, more
<1>12. /\ segs \in Seq(Segment) /\ segs # <<>>
       /\ more => /\ Len(segs) = n + 1 /\ segs[n + 1] = fresh
                  /\ \A i \in 1 .. n : segs[i] = shut[i]
  <2>1. CASE more BY <1>4, <1>5, <1>9, <2>1, AppendProperties
  <2>2. CASE ~more BY <1>4, <1>10, <2>2, EmptySeq
  <2> QED BY <2>1, <2>2
<1>13. new \in Recording BY <1>2, <1>7, <1>8, <1>12, RowTyped
<1>14. /\ new.status = status /\ new.mime = row.mime /\ new.started = row.started
       /\ new.deadline = row.deadline /\ new.segs = segs /\ new.data = row.data
       /\ new.sealed = row.sealed
  BY <1>7, RowFields
<1>15. RowSane(Film, new, time) BY <1>1, <1>8, <1>12, <1>14 DEF RowSane, Active
<1>16. ASSUME RowFits(Film, row, time) PROVE RowFits(Film, new, time)
  <2>1. /\ row.sealed <=> row.status = "submitted"
        /\ row.started <= row.deadline /\ n \in 1 .. Filmed
    BY <1>16 DEF RowFits, QuestionCount
  <2>2. Len(segs) \in 1 .. Filmed
    BY <1>4, <1>10, <1>11, <1>12, <2>1, RecordingsOK
  <2>3. ASSUME NEW i \in 1 .. n
        PROVE  /\ shut[i].start <= time - row.started
               /\ shut[i].open = FALSE
               /\ shut[i].q = i
               /\ shut[i].start <= shut[i].end /\ shut[i].end <= Section(row)
               /\ shut[i].end <= shut[i].start + QuestionTime
               /\ (i > 1 => shut[i - 1].end <= shut[i].start)
    <3>1. i \in 1 .. Len(shut) BY <1>4
    <3>2. /\ shut[i].start <= time - row.started
          /\ shut[i].open <=> (shut = row.segs /\ row.segs[i].open)
          /\ shut[i].q = QuestionOf(Film, i)
          /\ shut[i].start <= shut[i].end /\ shut[i].end <= Section(row)
          /\ shut[i].end <= shut[i].start + QuestionTime
          /\ (i > 1 => shut[i - 1].end <= shut[i].start)
      BY <1>1, <1>3, <1>16, <3>1, ClosedFits DEF shut
    <3>3. shut[i] \in Segment BY <1>4, <3>1, ElementOfSeq
    <3>4. shut[i].open \in BOOLEAN BY <3>3, SegmentFields
    <3>5. ~shut[i].open
      <4>1. row.segs[i].open => i = n BY <1>16 DEF RowFits
      <4>2. shut[n].open = FALSE BY <1>1, ClosedSegments DEF shut
      <4> QED BY <3>2, <4>1, <4>2
    <3> QED BY <3>2, <3>4, <3>5 DEF QuestionOf
  <2>4. ASSUME NEW i \in 1 .. Len(new.segs)
        PROVE  /\ new.segs[i].open <=> (i = Len(new.segs) /\ new.status = "recording")
               /\ new.segs[i].start <= time - new.started
               /\ ValidSegment(new, Film, i)
    <3>1. CASE ~more
      <4>1. i \in 1 .. n /\ segs = shut BY <1>4, <1>10, <1>14, <3>1
      <4>2. ValidSegment(new, Film, i) BY <1>14, <2>3, <4>1 DEF ValidSegment, Section, QuestionOf
      <4> QED BY <1>10, <1>14, <2>3, <3>1, <4>1, <4>2
    <3>2. CASE more /\ i # n + 1
      <4>1. i \in 1 .. n /\ segs[i] = shut[i] /\ (i > 1 => segs[i - 1] = shut[i - 1]) /\ Len(segs) = n + 1
        BY <1>4, <1>12, <1>14, <3>2
      <4>2. ValidSegment(new, Film, i) BY <1>14, <2>3, <4>1 DEF ValidSegment, Section, QuestionOf
      <4> QED BY <1>14, <2>3, <3>2, <4>1, <4>2
    <3>3. CASE more /\ i = n + 1
      <4>1. segs[i] = fresh /\ segs[i - 1] = shut[n] /\ Len(segs) = n + 1 BY <1>4, <1>12, <3>3
      <4>2. shut[n].end <= Elapsed(row)
        <5>1. row.segs[n].start <= time - row.started BY <1>4, <1>16 DEF RowFits
        <5> QED BY <1>4, <5>1 DEF Elapsed
      <4>3. Elapsed(row) \in Int /\ Elapsed(row) <= Section(row) BY <1>2, <1>11, <3>3 DEF Elapsed, Section
      <4>4. QuestionTime \in Nat BY RecordingsOK
      <4>5. ValidSegment(new, Film, i)
        <5>1. fresh.end <= fresh.start + QuestionTime BY <1>6, <4>3, <4>4
        <5>2. Section(new) = Section(row) BY <1>14 DEF Section
        <5>3. QuestionOf(Film, i) = i BY DEF QuestionOf
        <5> QED BY <1>6, <1>14, <3>3, <4>1, <4>2, <4>3, <5>1, <5>2, <5>3 DEF ValidSegment
      <4>6. fresh.start <= time - new.started BY <1>2, <1>6, <1>14 DEF Elapsed
      <4> QED BY <1>6, <1>9, <1>14, <3>3, <4>1, <4>5, <4>6
    <3> QED BY <3>1, <3>2, <3>3
  <2>5. new.sealed <=> new.status = "submitted" BY <1>8, <1>14, <2>1
  <2> QED BY <1>14, <2>1, <2>2, <2>4, <2>5 DEF RowFits, QuestionCount
<1> QED BY <1>8, <1>13, <1>14, <1>15, <1>16 DEF new

LEMMA ChunkedRow ==
  ASSUME NEW c \in Recorders, NEW row \in Recording, NEW d \in Data, time \in Nat,
         RowSane(c, row, time), Active(row)
  PROVE  LET new == WithChunk(row, d) IN
         /\ new \in Recording /\ new.status = row.status
         /\ new.mime = row.mime /\ new.started = row.started /\ new.deadline = row.deadline
         /\ new.sealed = row.sealed
         /\ \A n \in Nat, e \in Data : StoredAt(row, n, e) => StoredAt(new, n, e)
         /\ StoredAt(new, Len(row.data), d)
         /\ RowSane(c, new, time)
         /\ RowFits(c, row, time) => RowFits(c, new, time)
<1> DEFINE new == WithChunk(row, d)
           data == Append(row.data, d)
           size == row.size + Size[d]
<1>1. /\ row.segs \in Seq(Segment) /\ row.started \in Nat /\ row.deadline \in Nat
      /\ row.data \in Seq(Data) /\ row.size \in Nat /\ row.mime \in Formats \cup {NoFormat}
      /\ row.sealed \in BOOLEAN
      /\ row.status \in {"none", "ready", "recording", "recorded", "submitted"}
  BY RecordingFields
<1>2. size \in Nat
  <2>1. Size[d] \in Nat BY RecordingsOK
  <2> QED BY <1>1, <2>1
<1>3. /\ data \in Seq(Data) /\ Len(data) = Len(row.data) + 1 /\ Len(row.data) \in Nat
      /\ \A i \in 1 .. Len(row.data) : data[i] = row.data[i]
      /\ data[Len(row.data) + 1] = d
  BY <1>1, AppendProperties
<1>4. new = Row(row.status, row.mime, row.started, row.deadline, row.segs, data, size, row.sealed)
  BY DEF WithChunk
<1> HIDE DEF new, data, size
<1>5. new \in Recording BY <1>1, <1>2, <1>3, <1>4, RowTyped
<1>6. /\ new.status = row.status /\ new.mime = row.mime /\ new.started = row.started
      /\ new.deadline = row.deadline /\ new.segs = row.segs /\ new.data = data
      /\ new.sealed = row.sealed
  BY <1>4, RowFields
<1>7. RowSane(c, new, time) BY <1>6 DEF RowSane, Active
<1>8. RowFits(c, row, time) => RowFits(c, new, time)
  BY <1>6 DEF RowFits, ValidSegment, Section
<1>9. ASSUME NEW n \in Nat, NEW e \in Data, StoredAt(row, n, e)
      PROVE  StoredAt(new, n, e)
  <2>1. n + 1 \in 1 .. Len(row.data) /\ row.data[n + 1] = e BY <1>3, <1>9 DEF StoredAt
  <2> QED BY <1>3, <1>6, <2>1 DEF StoredAt
<1>10. StoredAt(new, Len(row.data), d) BY <1>3, <1>6 DEF StoredAt
<1> QED BY <1>5, <1>6, <1>7, <1>8, <1>9, <1>10 DEF new

-----------------------------------------------------------------------------
\* A step that replaces one row.
LEMMA RowReplaced ==
  ASSUME RecordingsInv, NEW c \in Recorders, NEW row \in Recording, rec' = [rec EXCEPT ![c] = row],
         RowSane(c, row, time), Exclusive(c) /\ Active(row) => RowFits(c, row, time),
         c \in Spoken /\ HandedIn =>
           (rec[c].sealed => row.sealed) /\ (row.status # "none" => row.sealed),
         UNCHANGED <<time, groq, handedIn>>
  PROVE  /\ rec' \in [Recorders -> Recording] /\ FilmedInv' /\ SubmissionStaysAnalysable'
         /\ rec'[c] = row /\ \A b \in Recorders : b # c => rec'[b] = rec[b]
<1>1. rec \in [Recorders -> Recording] BY DEF RecordingsInv, CaptureTypeOK
<1>2. rec' \in [Recorders -> Recording] /\ rec'[c] = row
      /\ \A b \in Recorders : b # c => rec'[b] = rec[b]
  BY <1>1
<1>3. FilmedInv'
  <2> SUFFICES ASSUME NEW b \in Recorders
               PROVE  /\ RowSane(b, rec'[b], time)
                      /\ Exclusive(b) /\ Active(rec'[b]) => RowFits(b, rec'[b], time)
    BY DEF FilmedInv, RowSane, RowFits, Exclusive, Active, ValidSegment, Section, QuestionOf, QuestionCount
  <2>1. CASE b = c BY <1>2, <2>1
  <2>2. CASE b # c BY <1>2, <2>2 DEF RecordingsInv, FilmedInv
  <2> QED BY <2>1, <2>2
<1>4. SubmissionStaysAnalysable'
  <2> SUFFICES ASSUME HandedIn, NEW q \in Spoken
               PROVE  /\ rec'[q].status # "none" => rec'[q].sealed
                      /\ q \in handedIn => rec'[q].sealed
    BY DEF SubmissionStaysAnalysable, SealedAnswers, HandedIn
  <2>1. q \in Recorders BY DEF Recorders
  <2>2. /\ rec[q].status # "none" => rec[q].sealed
        /\ q \in handedIn => rec[q].sealed
    BY DEF RecordingsInv, SubmissionStaysAnalysable, SealedAnswers
  <2>3. CASE q = c BY <1>2, <2>2, <2>3
  <2>4. CASE q # c BY <1>2, <2>1, <2>2, <2>4
  <2> QED BY <2>3, <2>4
<1> QED BY <1>2, <1>3, <1>4

\* Rows and what was acknowledged of them stay.
LEMMA AckedKept ==
  ASSUME RecordingsInv, UNCHANGED acked,
         \A b \in Recorders : rec'[b].data = rec[b].data
  PROVE  AckedChunksKept'
<1> SUFFICES ASSUME NEW a \in acked PROVE StoredAt(rec'[a[1]], a[2], a[3])
  BY DEF AckedChunksKept, StoredAt
<1>1. a[1] \in Recorders BY DEF RecordingsInv, CaptureTypeOK
<1>2. StoredAt(rec[a[1]], a[2], a[3]) BY DEF RecordingsInv, AckedChunksKept
<1> QED BY <1>1, <1>2 DEF StoredAt

\* What a step that writes no row and passes no time leaves as it is.
LEMMA RowsKept ==
  ASSUME RecordingsInv, UNCHANGED <<time, groq, rec, acked>>,
         HandedIn' => handedIn' = handedIn \/ SealedAnswers(handedIn')
  PROVE  FilmedInv' /\ AckedChunksKept' /\ SubmissionStaysAnalysable'
<1>1. FilmedInv'
  BY DEF RecordingsInv, FilmedInv, RowSane, RowFits, Exclusive, Active, ValidSegment, Section,
         QuestionOf, QuestionCount
<1>2. AckedChunksKept' BY DEF RecordingsInv, AckedChunksKept, StoredAt
<1>3. SubmissionStaysAnalysable'
  BY DEF RecordingsInv, SubmissionStaysAnalysable, SealedAnswers, HandedIn
<1> QED BY <1>1, <1>2, <1>3

LEMMA RecordingsInvInit == CaptureInit => RecordingsInv
<1> SUFFICES ASSUME CaptureInit PROVE RecordingsInv OBVIOUS
<1>1. NewFilm \in Recording /\ NoClip \in Recording
  <2>1. <<>> \in Seq(Segment) /\ <<>> \in Seq(Data) BY EmptySeq
  <2> QED BY <2>1, RowTyped DEF NewFilm, NoClip
<1>2. /\ NewFilm.status = "ready" /\ NewFilm.segs = <<>> /\ NewFilm.data = <<>> /\ ~NewFilm.sealed
      /\ NoClip.status = "none" /\ NoClip.segs = <<>> /\ NoClip.data = <<>> /\ ~NoClip.sealed
  BY DEF NewFilm, NoClip, Row
<1>3. \A c \in Recorders : rec[c] = IF c = Film THEN NewFilm ELSE NoClip BY DEF CaptureInit
<1>4. CaptureTypeOK
  <2>1. rec \in [Recorders -> Recording] BY <1>1 DEF CaptureInit
  <2>2. starting \in [Starters -> StartRequest] BY DEF CaptureInit, Unasked, StartRequest
  <2>3. time \in Nat \ {0} /\ examStart \in Nat BY DEF CaptureInit
  <2>6. groq \in BOOLEAN /\ consent \in BOOLEAN BY Zenon DEF CaptureInit
  <2>4. handedIn \in Answers \cup {NothingHandedIn} /\ acked = {} BY DEF CaptureInit
  <2>5. acked \subseteq Recorders \X (0 .. MaxChunks) \X Data BY <2>4
  <2> QED BY <2>1, <2>2, <2>3, <2>4, <2>5, <2>6 DEF CaptureTypeOK
<1>5. FilmedInv BY <1>2, <1>3 DEF FilmedInv, RowSane, Active
<1>6. StartsInv BY DEF CaptureInit, StartsInv, Unasked
<1>7. AckedChunksKept /\ SubmissionStaysAnalysable
  BY DEF CaptureInit, AckedChunksKept, SubmissionStaysAnalysable, HandedIn
<1> QED BY <1>4, <1>5, <1>6, <1>7 DEF RecordingsInv

LEMMA TimePassesKeeps ==
  ASSUME RecordingsInv, TimePasses
  PROVE  RecordingsInv'
<1>1. time \in Nat /\ time' = time + 1 /\ rec \in [Recorders -> Recording]
  BY DEF TimePasses, RecordingsInv, CaptureTypeOK
<1>2. UNCHANGED <<groq, consent, examStart, rec, handedIn, starting, acked>> BY DEF TimePasses
<1>3. CaptureTypeOK' BY <1>1, <1>2 DEF RecordingsInv, CaptureTypeOK
<1>4. FilmedInv'
  <2> SUFFICES ASSUME NEW c \in Recorders
               PROVE  /\ RowSane(c, rec[c], time')
                      /\ Exclusive(c) /\ Active(rec[c]) => RowFits(c, rec[c], time')
    BY <1>2 DEF FilmedInv, RowSane, RowFits, Exclusive, Active, ValidSegment, Section, QuestionOf, QuestionCount
  <2>1. RowSane(c, rec[c], time) /\ (Exclusive(c) /\ Active(rec[c]) => RowFits(c, rec[c], time))
    BY DEF RecordingsInv, FilmedInv
  <2>2. rec[c] \in Recording BY <1>1
  <2>3. rec[c].started \in Nat /\ rec[c].segs \in Seq(Segment) BY <2>2, RecordingFields
  <2>4. RowSane(c, rec[c], time') BY <1>1, <2>1, <2>3 DEF RowSane
  <2>5. ASSUME RowFits(c, rec[c], time) PROVE RowFits(c, rec[c], time')
    <3>1. ASSUME NEW i \in 1 .. Len(rec[c].segs)
          PROVE  rec[c].segs[i].start <= time' - rec[c].started
      <4>1. rec[c].segs[i] \in Segment BY <2>3, ElementOfSeq
      <4>2. rec[c].segs[i].start \in Nat BY <4>1, SegmentFields
      <4>3. rec[c].segs[i].start <= time - rec[c].started BY <2>5 DEF RowFits
      <4> QED BY <1>1, <2>3, <4>2, <4>3
    <3> QED BY <2>5, <3>1 DEF RowFits
  <2> QED BY <2>1, <2>4, <2>5
<1>5. StartsInv'
  <2> SUFFICES ASSUME NEW r \in Starters
               PROVE  /\ starting[r].step # "idle" => groq
                      /\ starting[r].step = "film read" => starting[r].at <= time'
    BY <1>2 DEF StartsInv
  <2>1. starting[r].at \in Nat BY DEF RecordingsInv, CaptureTypeOK, StartRequest
  <2>2. starting[r].step # "idle" => groq BY DEF RecordingsInv, StartsInv
  <2>3. ASSUME starting[r].step = "film read" PROVE starting[r].at <= time'
    <3>1. starting[r].at <= time BY <2>3 DEF RecordingsInv, StartsInv
    <3> QED BY <1>1, <2>1, <3>1
  <2> QED BY <2>2, <2>3
<1>6. AckedChunksKept' /\ SubmissionStaysAnalysable'
  BY <1>2 DEF RecordingsInv, AckedChunksKept, StoredAt, SubmissionStaysAnalysable, SealedAnswers, HandedIn
<1> QED BY <1>3, <1>4, <1>5, <1>6 DEF RecordingsInv

\* The film begins, under the lock or without it.
LEMMA FilmBegins ==
  ASSUME RecordingsInv, NEW format \in Formats, NEW at \in Nat, NEW exam \in Nat, at <= time,
         groq \/ (rec[Film].status = "ready" /\ at <= exam + ExamTime),
         rec' = [rec EXCEPT ![Film] = Begun(@, 1, format, at, FilmEnd(at, exam))],
         UNCHANGED <<time, groq, handedIn, acked>>
  PROVE  rec' \in [Recorders -> Recording] /\ FilmedInv' /\ AckedChunksKept' /\ SubmissionStaysAnalysable'
<1>1. Film \in Recorders /\ rec \in [Recorders -> Recording]
  BY DEF Recorders, RecordingsInv, CaptureTypeOK
<1>2. rec[Film] \in Recording BY <1>1
<1>3. time \in Nat BY DEF RecordingsInv, CaptureTypeOK
<1> DEFINE end == FilmEnd(at, exam)
           row == Begun(rec[Film], 1, format, at, end)
<1>4. end \in Nat /\ (at <= exam + ExamTime => at <= end)
  <2> DEFINE long == QuestionTime * Filmed
  <2>1. QuestionTime \in Nat /\ Filmed \in Nat /\ ExamTime \in Nat BY RecordingsOK
  <2>2. \A a, b \in Nat : a * b \in Nat OBVIOUS
  <2>3. long \in Nat BY <2>1, <2>2
  <2>4. end = Least(at + long, exam + ExamTime) BY DEF FilmEnd
  <2> HIDE DEF long, end
  <2> QED BY <2>1, <2>3, <2>4 DEF Least
<1>5. RowSane(Film, rec[Film], time) BY <1>1 DEF RecordingsInv, FilmedInv
<1>6. QuestionOf(Film, 1) = 1 BY DEF QuestionOf
<1> HIDE DEF end
<1>7. /\ row \in Recording /\ row.data = rec[Film].data
      /\ RowSane(Film, row, time)
      /\ ~rec[Film].sealed /\ at <= end => RowFits(Film, row, time)
  BY <1>1, <1>2, <1>3, <1>4, <1>6, BegunFits
<1>8. rec' = [rec EXCEPT ![Film] = row] BY DEF end
<1> HIDE DEF row
<1>9. Exclusive(Film) => RowFits(Film, row, time)
  <2> SUFFICES ASSUME Exclusive(Film) PROVE RowFits(Film, row, time) OBVIOUS
  <2>1. ~groq BY RecordingsOK DEF Exclusive
  <2>2. rec[Film].status = "ready" /\ at <= exam + ExamTime BY <2>1
  <2>3. ~rec[Film].sealed BY <1>5, <2>2 DEF RowSane, Active
  <2> QED BY <1>4, <1>7, <2>2, <2>3
<1>10. Film \notin Spoken BY RecordingsOK
<1>11. /\ rec' \in [Recorders -> Recording] /\ FilmedInv' /\ SubmissionStaysAnalysable'
       /\ rec'[Film] = row /\ \A b \in Recorders : b # Film => rec'[b] = rec[b]
  BY <1>1, <1>7, <1>8, <1>9, <1>10, RowReplaced
<1>12. \A b \in Recorders : rec'[b].data = rec[b].data BY <1>7, <1>11
<1>13. AckedChunksKept' BY <1>12, AckedKept
<1> QED BY <1>11, <1>13

\* The other variables keep their types.
LEMMA StartExamKeeps ==
  ASSUME RecordingsInv, StartExam
  PROVE  RecordingsInv'
<1>1. examStart' = time /\ UNCHANGED <<time, groq, consent, rec, handedIn, starting, acked>>
  BY DEF StartExam
<1>2. CaptureTypeOK' BY <1>1 DEF RecordingsInv, CaptureTypeOK
<1>3. FilmedInv' /\ AckedChunksKept' /\ SubmissionStaysAnalysable'
  BY <1>1, RowsKept DEF HandedIn
<1>4. StartsInv' BY <1>1 DEF RecordingsInv, StartsInv
<1> QED BY <1>2, <1>3, <1>4 DEF RecordingsInv

LEMMA BeginFilmKeeps ==
  ASSUME RecordingsInv, NEW format \in Formats, BeginFilm(format)
  PROVE  RecordingsInv'
<1>1. /\ rec' = [rec EXCEPT ![Film] = Begun(@, 1, format, time, FilmEnd(time, examStart))]
      /\ rec[Film].status = "ready" /\ ExamRuns
      /\ UNCHANGED <<time, groq, consent, examStart, handedIn, starting, acked>>
  BY DEF BeginFilm, MayBeginFilm
<1>2. time \in Nat /\ examStart \in Nat BY DEF RecordingsInv, CaptureTypeOK
<1>3. ExamTime \in Nat BY RecordingsOK
<1>4. time <= time /\ time <= examStart + ExamTime BY <1>1, <1>2, <1>3 DEF ExamRuns, ExamEnd
<1>5. rec' \in [Recorders -> Recording] /\ FilmedInv' /\ AckedChunksKept' /\ SubmissionStaysAnalysable'
  BY <1>1, <1>2, <1>4, FilmBegins
<1>6. CaptureTypeOK' BY <1>1, <1>5 DEF RecordingsInv, CaptureTypeOK
<1>7. StartsInv' BY <1>1 DEF RecordingsInv, StartsInv
<1> QED BY <1>5, <1>6, <1>7 DEF RecordingsInv

LEMMA RecordConsentKeeps ==
  ASSUME RecordingsInv, NEW r \in Starters, NEW next \in {"idle", "exam", "film"}, RecordConsent(r, next)
  PROVE  RecordingsInv'
<1>1. /\ groq /\ consent' = TRUE
      /\ starting' = [starting EXCEPT ![r] = [step |-> next, at |-> 0, exam |-> 0]]
      /\ UNCHANGED <<time, groq, examStart, rec, handedIn, acked>>
  BY DEF RecordConsent
<1>2. [step |-> next, at |-> 0, exam |-> 0] \in StartRequest BY DEF StartRequest
<1>3. starting' \in [Starters -> StartRequest] BY <1>1, <1>2 DEF RecordingsInv, CaptureTypeOK
<1>4. CaptureTypeOK' BY <1>1, <1>3 DEF RecordingsInv, CaptureTypeOK
<1>5. FilmedInv' /\ AckedChunksKept' /\ SubmissionStaysAnalysable'
  BY <1>1, RowsKept DEF HandedIn
<1>6. StartsInv'
  <2> SUFFICES ASSUME NEW s \in Starters
               PROVE  /\ starting'[s].step # "idle" => groq
                      /\ starting'[s].step = "film read" => starting'[s].at <= time
    BY <1>1 DEF StartsInv
  <2>1. starting \in [Starters -> StartRequest] BY DEF RecordingsInv, CaptureTypeOK
  <2>2. CASE s = r
    <3>1. starting'[s].step \in {"idle", "exam", "film"} BY <1>1, <2>1, <2>2
    <3> QED BY <1>1, <3>1
  <2>3. CASE s # r
    <3>1. starting'[s] = starting[s] BY <1>1, <2>1, <2>3
    <3> QED BY <1>1, <3>1 DEF RecordingsInv, StartsInv
  <2> QED BY <2>2, <2>3
<1> QED BY <1>4, <1>5, <1>6 DEF RecordingsInv

LEMMA ReadUnlockedKeeps ==
  ASSUME RecordingsInv, NEW r \in Starters, ReadUnlocked(r)
  PROVE  RecordingsInv'
<1>1. UNCHANGED <<time, groq, consent, examStart, rec, handedIn, acked>> BY DEF ReadUnlocked
<1>2. starting[r].step # "idle" BY DEF ReadUnlocked
<1> DEFINE examRead == [step |-> "exam read", at |-> time, exam |-> 0]
           filmRead == [step |-> "film read", at |-> time, exam |-> examStart]
<1>3. PICK request : /\ starting' = [starting EXCEPT ![r] = request]
                     /\ request = Unasked \/ request = examRead \/ request = filmRead
  BY DEF ReadUnlocked
<1>4. time \in Nat /\ examStart \in Nat /\ starting \in [Starters -> StartRequest]
  BY DEF RecordingsInv, CaptureTypeOK
<1>5. request \in StartRequest /\ request.at <= time
  <2>1. Unasked \in StartRequest /\ examRead \in StartRequest /\ filmRead \in StartRequest
    BY <1>4 DEF StartRequest, Unasked
  <2>2. Unasked.at = 0 /\ examRead.at = time /\ filmRead.at = time BY DEF Unasked
  <2>3. 0 <= time /\ time <= time BY <1>4
  <2> HIDE DEF examRead, filmRead
  <2> QED BY <1>3, <2>1, <2>2, <2>3
<1>6. groq BY <1>2 DEF RecordingsInv, StartsInv
<1>7. starting' \in [Starters -> StartRequest] BY <1>3, <1>4, <1>5
<1>8. CaptureTypeOK' BY <1>1, <1>7 DEF RecordingsInv, CaptureTypeOK
<1>9. FilmedInv' /\ AckedChunksKept' /\ SubmissionStaysAnalysable'
  BY <1>1, RowsKept DEF HandedIn
<1>10. StartsInv'
  <2> SUFFICES ASSUME NEW s \in Starters
               PROVE  starting'[s].step = "film read" => starting'[s].at <= time
    BY <1>1, <1>6 DEF StartsInv
  <2>1. CASE s = r BY <1>3, <1>4, <1>5, <2>1
  <2>2. CASE s # r
    <3>1. starting'[s] = starting[s] BY <1>3, <1>4, <2>2
    <3> QED BY <3>1 DEF RecordingsInv, StartsInv
  <2> QED BY <2>1, <2>2
<1> QED BY <1>8, <1>9, <1>10 DEF RecordingsInv

LEMMA WriteUnlockedKeeps ==
  ASSUME RecordingsInv, NEW r \in Starters, NEW format \in Formats, WriteUnlocked(r, format)
  PROVE  RecordingsInv'
<1>1. /\ starting' = [starting EXCEPT ![r] = Unasked]
      /\ UNCHANGED <<time, groq, consent, handedIn, acked>>
  BY DEF WriteUnlocked
<1>2. /\ starting \in [Starters -> StartRequest] /\ starting[r].at \in Nat /\ starting[r].exam \in Nat
      /\ time \in Nat /\ examStart \in Nat /\ rec \in [Recorders -> Recording]
  BY DEF RecordingsInv, CaptureTypeOK, StartRequest
<1>3. starting' \in [Starters -> StartRequest]
  <2>1. Unasked \in StartRequest BY DEF Unasked, StartRequest
  <2> QED BY <1>1, <1>2, <2>1
<1>4. StartsInv'
  <2> SUFFICES ASSUME NEW s \in Starters
               PROVE  /\ starting'[s].step # "idle" => groq
                      /\ starting'[s].step = "film read" => starting'[s].at <= time
    BY <1>1 DEF StartsInv
  <2>1. CASE s = r
    <3>1. starting'[s].step = "idle" BY <1>1, <1>2, <2>1 DEF Unasked
    <3> QED BY <3>1
  <2>2. CASE s # r
    <3>1. starting'[s] = starting[s] BY <1>1, <1>2, <2>2
    <3> QED BY <3>1 DEF RecordingsInv, StartsInv
  <2> QED BY <2>1, <2>2
<1>5. CASE starting[r].step = "exam read"
  <2>1. examStart' = starting[r].at /\ rec' = rec BY <1>5 DEF WriteUnlocked
  <2>2. CaptureTypeOK' BY <1>1, <1>2, <1>3, <2>1 DEF RecordingsInv, CaptureTypeOK
  <2>3. FilmedInv' /\ AckedChunksKept' /\ SubmissionStaysAnalysable'
    BY <1>1, <2>1, RowsKept DEF HandedIn
  <2> QED BY <1>4, <2>2, <2>3 DEF RecordingsInv
<1>6. CASE starting[r].step = "film read"
  <2>1. /\ rec' = [rec EXCEPT ![Film] = Begun(@, 1, format, starting[r].at,
                                              FilmEnd(starting[r].at, starting[r].exam))]
        /\ examStart' = examStart
    BY <1>6 DEF WriteUnlocked
  <2>2. groq /\ starting[r].at <= time BY <1>6 DEF RecordingsInv, StartsInv
  <2>3. rec' \in [Recorders -> Recording] /\ FilmedInv' /\ AckedChunksKept' /\ SubmissionStaysAnalysable'
    BY <1>1, <1>2, <2>1, <2>2, FilmBegins
  <2>4. CaptureTypeOK' BY <1>1, <1>2, <1>3, <2>1, <2>3 DEF RecordingsInv, CaptureTypeOK
  <2> QED BY <1>4, <2>3, <2>4 DEF RecordingsInv
<1> QED BY <1>5, <1>6 DEF WriteUnlocked

LEMMA BeginClipKeeps ==
  ASSUME RecordingsInv, NEW q \in Spoken, NEW format \in Formats, BeginClip(q, format)
  PROVE  RecordingsInv'
<1> DEFINE end == Least(time + AnswerTime[q], ExamEnd)
           row == Begun(rec[q], q, format, time, end)
<1>1. /\ ~HandedIn /\ rec[q].status = "none" /\ ExamRuns
      /\ rec' = [rec EXCEPT ![q] = row]
      /\ UNCHANGED <<time, groq, consent, examStart, handedIn, starting, acked>>
  BY DEF BeginClip
<1>2. q \in Recorders /\ rec \in [Recorders -> Recording] /\ time \in Nat /\ examStart \in Nat
  BY DEF Recorders, RecordingsInv, CaptureTypeOK
<1>3. end \in Nat /\ time <= end
  <2>1. AnswerTime[q] \in Nat /\ ExamTime \in Nat BY RecordingsOK
  <2>2. time < examStart + ExamTime BY <1>1 DEF ExamRuns, ExamEnd
  <2> QED BY <1>2, <2>1, <2>2 DEF Least, ExamEnd
<1>4. q = QuestionOf(q, 1) BY RecordingsOK DEF QuestionOf
<1>5. rec[q] \in Recording BY <1>2
<1>6. time <= time BY <1>2
<1> HIDE DEF end
<1>7. /\ row \in Recording /\ row.data = rec[q].data
      /\ RowSane(q, row, time)
      /\ ~rec[q].sealed /\ time <= end => RowFits(q, row, time)
  BY <1>2, <1>3, <1>4, <1>5, <1>6, BegunFits
<1> HIDE DEF row
<1>8. RowSane(q, rec[q], time) BY <1>2 DEF RecordingsInv, FilmedInv
<1>9. ~rec[q].sealed BY <1>1, <1>8 DEF RowSane, Active
<1>10. /\ rec' \in [Recorders -> Recording] /\ FilmedInv' /\ SubmissionStaysAnalysable'
       /\ rec'[q] = row /\ \A b \in Recorders : b # q => rec'[b] = rec[b]
  BY <1>1, <1>2, <1>3, <1>7, <1>9, RowReplaced
<1>11. \A b \in Recorders : rec'[b].data = rec[b].data BY <1>7, <1>10
<1>12. AckedChunksKept' BY <1>1, <1>11, AckedKept
<1>13. CaptureTypeOK' BY <1>1, <1>10 DEF RecordingsInv, CaptureTypeOK
<1>14. StartsInv' BY <1>1 DEF RecordingsInv, StartsInv
<1> QED BY <1>10, <1>12, <1>13, <1>14 DEF RecordingsInv

LEMMA AdvanceKeeps ==
  ASSUME RecordingsInv, Advance
  PROVE  RecordingsInv'
<1> DEFINE row == Advanced(rec[Film])
<1>1. /\ rec[Film].status = "recording"
      /\ rec' = [rec EXCEPT ![Film] = row]
      /\ UNCHANGED <<time, groq, consent, examStart, handedIn, starting, acked>>
  BY DEF Advance, Advanced
<1>2. Film \in Recorders /\ rec \in [Recorders -> Recording] /\ time \in Nat /\ Film \notin Spoken
  BY RecordingsOK DEF Recorders, RecordingsInv, CaptureTypeOK
<1>3. rec[Film] \in Recording BY <1>2
<1>4. RowSane(Film, rec[Film], time)
  BY <1>2 DEF RecordingsInv, FilmedInv
<1>5. /\ row \in Recording /\ row.data = rec[Film].data /\ RowSane(Film, row, time)
      /\ RowFits(Film, rec[Film], time) => RowFits(Film, row, time)
  BY <1>1, <1>2, <1>3, <1>4, AdvancedRow
<1> HIDE DEF row
<1>6. Exclusive(Film) => RowFits(Film, rec[Film], time)
  BY <1>1, <1>2 DEF RecordingsInv, FilmedInv, Active
<1>7. /\ rec' \in [Recorders -> Recording] /\ FilmedInv' /\ SubmissionStaysAnalysable'
      /\ rec'[Film] = row /\ \A b \in Recorders : b # Film => rec'[b] = rec[b]
  BY <1>1, <1>2, <1>5, <1>6, RowReplaced
<1>8. \A b \in Recorders : rec'[b].data = rec[b].data BY <1>5, <1>7
<1>9. AckedChunksKept' BY <1>1, <1>8, AckedKept
<1>10. CaptureTypeOK' BY <1>1, <1>7 DEF RecordingsInv, CaptureTypeOK
<1>11. StartsInv' BY <1>1 DEF RecordingsInv, StartsInv
<1> QED BY <1>7, <1>9, <1>10, <1>11 DEF RecordingsInv

LEMMA SealKeeps ==
  ASSUME RecordingsInv, NEW c \in Recorders, NEW expected, Seal(c, expected)
  PROVE  RecordingsInv'
<1> DEFINE row == Sealed(rec[c])
<1>1. /\ rec[c].status \in {"recording", "recorded"}
      /\ rec' = [rec EXCEPT ![c] = row]
      /\ UNCHANGED <<time, groq, consent, examStart, handedIn, starting, acked>>
  BY DEF Seal
<1>2. rec \in [Recorders -> Recording] /\ time \in Nat BY DEF RecordingsInv, CaptureTypeOK
<1>3. rec[c] \in Recording BY <1>2
<1>4. RowSane(c, rec[c], time) BY DEF RecordingsInv, FilmedInv
<1>5. /\ row \in Recording /\ row.data = rec[c].data /\ row.sealed = TRUE /\ RowSane(c, row, time)
      /\ RowFits(c, rec[c], time) => RowFits(c, row, time)
  BY <1>1, <1>2, <1>3, <1>4, SealedRow
<1> HIDE DEF row
<1>6. Exclusive(c) => RowFits(c, rec[c], time)
  BY <1>1 DEF RecordingsInv, FilmedInv, Active
<1>7. /\ rec' \in [Recorders -> Recording] /\ FilmedInv' /\ SubmissionStaysAnalysable'
      /\ rec'[c] = row /\ \A b \in Recorders : b # c => rec'[b] = rec[b]
  BY <1>1, <1>5, <1>6, RowReplaced
<1>8. \A b \in Recorders : rec'[b].data = rec[b].data BY <1>5, <1>7
<1>9. AckedChunksKept' BY <1>1, <1>8, AckedKept
<1>10. CaptureTypeOK' BY <1>1, <1>7 DEF RecordingsInv, CaptureTypeOK
<1>11. StartsInv' BY <1>1 DEF RecordingsInv, StartsInv
<1> QED BY <1>7, <1>9, <1>10, <1>11 DEF RecordingsInv

LEMMA SaveChunkKeeps ==
  ASSUME RecordingsInv, NEW c \in Recorders, NEW n \in 0 .. MaxChunks, NEW d \in Data, SaveChunk(c, n, d)
  PROVE  RecordingsInv'
<1>1. /\ acked' = acked \cup {<<c, n, d>>}
      /\ UNCHANGED <<time, groq, consent, examStart, handedIn, starting>>
  BY DEF SaveChunk
<1>2. rec \in [Recorders -> Recording] /\ time \in Nat /\ acked \subseteq Recorders \X (0 .. MaxChunks) \X Data
  BY DEF RecordingsInv, CaptureTypeOK
<1>3. rec[c] \in Recording BY <1>2
<1>4. rec' \in [Recorders -> Recording] /\ FilmedInv' /\ SubmissionStaysAnalysable'
      /\ (\A b \in Recorders, m \in Nat, e \in Data : StoredAt(rec[b], m, e) => StoredAt(rec'[b], m, e))
      /\ StoredAt(rec'[c], n, d)
  <2>1. CASE StoredAt(rec[c], n, d) /\ rec' = rec
    <3>1. FilmedInv' /\ SubmissionStaysAnalysable'
      BY <1>1, <2>1 DEF RecordingsInv, FilmedInv, RowSane, RowFits, Exclusive, Active, ValidSegment,
         Section, QuestionOf, QuestionCount, SubmissionStaysAnalysable, SealedAnswers, HandedIn
    <3> QED BY <1>2, <2>1, <3>1
  <2>2. CASE n = Len(rec[c].data) /\ UploadOpen(rec[c]) /\ rec' = [rec EXCEPT ![c] = WithChunk(@, d)]
    <3> DEFINE row == WithChunk(rec[c], d)
    <3>1. rec[c].status \in {"recording", "recorded"} /\ Active(rec[c])
      BY <2>2 DEF UploadOpen, Active
    <3>2. RowSane(c, rec[c], time) BY DEF RecordingsInv, FilmedInv
    <3>3. /\ row \in Recording /\ row.status = rec[c].status /\ row.sealed = rec[c].sealed
          /\ \A m \in Nat, e \in Data : StoredAt(rec[c], m, e) => StoredAt(row, m, e)
          /\ StoredAt(row, Len(rec[c].data), d)
          /\ RowSane(c, row, time)
          /\ RowFits(c, rec[c], time) => RowFits(c, row, time)
      BY <1>2, <1>3, <3>1, <3>2, ChunkedRow
    <3>4. rec' = [rec EXCEPT ![c] = row] BY <2>2
    <3> HIDE DEF row
    <3>5. Exclusive(c) => RowFits(c, rec[c], time) BY <3>1 DEF RecordingsInv, FilmedInv
    <3>6. c \in Spoken => ~HandedIn BY DEF SaveChunk
    <3>7. /\ rec' \in [Recorders -> Recording] /\ FilmedInv' /\ SubmissionStaysAnalysable'
          /\ rec'[c] = row /\ \A b \in Recorders : b # c => rec'[b] = rec[b]
      BY <1>1, <3>3, <3>4, <3>5, <3>6, RowReplaced
    <3> QED BY <2>2, <3>3, <3>7
  <2> QED BY <2>1, <2>2 DEF SaveChunk
<1>5. AckedChunksKept'
  <2> SUFFICES ASSUME NEW a \in acked' PROVE StoredAt(rec'[a[1]], a[2], a[3])
    BY DEF AckedChunksKept, StoredAt
  <2>1. CASE a = <<c, n, d>> BY <1>4, <2>1
  <2>2. CASE a \in acked
    <3>1. a[1] \in Recorders /\ a[2] \in Nat /\ a[3] \in Data BY <1>2, <2>2
    <3>2. StoredAt(rec[a[1]], a[2], a[3]) BY <2>2 DEF RecordingsInv, AckedChunksKept
    <3> QED BY <1>4, <3>1, <3>2
  <2> QED BY <1>1, <2>1, <2>2
<1>6. CaptureTypeOK'
  <2>1. acked' \subseteq Recorders \X (0 .. MaxChunks) \X Data BY <1>1, <1>2
  <2> QED BY <1>1, <1>4, <2>1 DEF RecordingsInv, CaptureTypeOK
<1>7. StartsInv' BY <1>1 DEF RecordingsInv, StartsInv
<1> QED BY <1>4, <1>5, <1>6, <1>7 DEF RecordingsInv

LEMMA SubmitKeeps ==
  ASSUME RecordingsInv, NEW body \in Answers, Submit(body)
  PROVE  RecordingsInv'
<1>1. /\ SealedAnswers(body) /\ handedIn' = body
      /\ UNCHANGED <<time, groq, consent, examStart, rec, starting, acked>>
  BY DEF Submit
<1>2. CaptureTypeOK' BY <1>1 DEF RecordingsInv, CaptureTypeOK
<1>3. FilmedInv' /\ AckedChunksKept' /\ SubmissionStaysAnalysable'
  <2>1. FilmedInv'
    BY <1>1 DEF RecordingsInv, FilmedInv, RowSane, RowFits, Exclusive, Active, ValidSegment, Section,
         QuestionOf, QuestionCount
  <2>2. AckedChunksKept' BY <1>1 DEF RecordingsInv, AckedChunksKept, StoredAt
  <2>3. SubmissionStaysAnalysable' BY <1>1 DEF SubmissionStaysAnalysable, SealedAnswers
  <2> QED BY <2>1, <2>2, <2>3
<1>4. StartsInv' BY <1>1 DEF RecordingsInv, StartsInv
<1> QED BY <1>2, <1>3, <1>4 DEF RecordingsInv

LEMMA RecordingsInvNext == RecordingsInv /\ [CaptureNext]_captureVars => RecordingsInv'
<1> SUFFICES ASSUME RecordingsInv, [CaptureNext]_captureVars PROVE RecordingsInv' OBVIOUS
<1>1. CASE UNCHANGED captureVars
  <2>1. UNCHANGED <<time, groq, consent, examStart, rec, handedIn, starting, acked>>
    BY <1>1 DEF captureVars
  <2>2. CaptureTypeOK' BY <2>1 DEF RecordingsInv, CaptureTypeOK
  <2>3. FilmedInv' /\ AckedChunksKept' /\ SubmissionStaysAnalysable'
    BY <2>1, RowsKept DEF HandedIn
  <2>4. StartsInv' BY <2>1 DEF RecordingsInv, StartsInv
  <2> QED BY <2>2, <2>3, <2>4 DEF RecordingsInv
<1>2. CASE TimePasses BY <1>2, TimePassesKeeps
<1>3. CASE StartExam BY <1>3, StartExamKeeps
<1>4. CASE \E f \in Formats : BeginFilm(f) BY <1>4, BeginFilmKeeps
<1>5. CASE \E r \in Starters, next \in {"idle", "exam", "film"} : RecordConsent(r, next)
  BY <1>5, RecordConsentKeeps
<1>6. CASE \E r \in Starters : ReadUnlocked(r) BY <1>6, ReadUnlockedKeeps
<1>7. CASE \E r \in Starters, f \in Formats : WriteUnlocked(r, f) BY <1>7, WriteUnlockedKeeps
<1>8. CASE \E q \in Spoken, f \in Formats : BeginClip(q, f) BY <1>8, BeginClipKeeps
<1>9. CASE Advance BY <1>9, AdvanceKeeps
<1>10. CASE \E c \in Recorders, n \in 0 .. MaxChunks, d \in Data : SaveChunk(c, n, d)
  BY <1>10, SaveChunkKeeps
<1>11. CASE \E c \in Recorders, n \in 0 .. MaxChunks : Seal(c, n) BY <1>11, SealKeeps
<1>12. CASE \E body \in Answers : Submit(body) BY <1>12, SubmitKeeps
<1> QED
  BY <1>1, <1>2, <1>3, <1>4, <1>5, <1>6, <1>7, <1>8, <1>9, <1>10, <1>11, <1>12 DEF CaptureNext

LEMMA SealedSegmentsAreValid == RecordingsInv => SealedIsAnalysable
<1> SUFFICES ASSUME RecordingsInv, NEW c \in Recorders, rec[c].sealed, Exclusive(c)
             PROVE  /\ Len(rec[c].segs) \in 1 .. QuestionCount(c)
                    /\ \A i \in 1 .. Len(rec[c].segs) :
                         ~rec[c].segs[i].open /\ ValidSegment(rec[c], c, i)
  BY DEF SealedIsAnalysable
<1>1. RowSane(c, rec[c], time) /\ (Active(rec[c]) => RowFits(c, rec[c], time))
  BY DEF RecordingsInv, FilmedInv
<1>2. Active(rec[c]) BY <1>1 DEF RowSane
<1>3. rec[c].status = "submitted" BY <1>1, <1>2 DEF RowFits
<1> QED BY <1>1, <1>2, <1>3 DEF RowFits

\* A row that is written keeps the clock of its recording, and a sealed one everything.
LEMMA StepRestartsNothing ==
  RecordingsInv /\ [CaptureNext]_captureVars => [NothingRestartsStep]_captureVars
<1> SUFFICES ASSUME RecordingsInv, CaptureNext PROVE NothingRestartsStep OBVIOUS
<1>1. rec \in [Recorders -> Recording] /\ time \in Nat BY DEF RecordingsInv, CaptureTypeOK
<1>2. ASSUME NEW c \in Recorders
      PROVE  /\ rec[c] \in Recording /\ RowSane(c, rec[c], time)
             /\ Exclusive(c) /\ Active(rec[c]) => RowFits(c, rec[c], time)
  BY <1>1 DEF RecordingsInv, FilmedInv
<1>3. ASSUME NEW c \in Recorders, Exclusive(c), rec[c].status \in {"none", "ready", "recording", "recorded"}
      PROVE  ~rec[c].sealed
  BY <1>2, <1>3 DEF RowSane, RowFits, Active
<1> DEFINE Keeps(c) ==
      /\ rec[c].sealed => rec'[c] = rec[c]
      /\ Active(rec[c]) => /\ rec'[c].mime = rec[c].mime /\ rec'[c].started = rec[c].started
                           /\ rec'[c].deadline = rec[c].deadline
           Stays == ~groq /\ examStart # 0 => examStart' = examStart
<1>4. ASSUME NEW b \in Recorders, NEW row, rec' = [rec EXCEPT ![b] = row],
             Exclusive(b) => ~rec[b].sealed,
             Exclusive(b) /\ Active(rec[b]) =>
               row.mime = rec[b].mime /\ row.started = rec[b].started /\ row.deadline = rec[b].deadline
      PROVE  \A c \in Recorders : Exclusive(c) => Keeps(c)
  <2> SUFFICES ASSUME NEW c \in Recorders, Exclusive(c) PROVE Keeps(c) OBVIOUS
  <2>1. CASE c = b BY <1>1, <1>4, <2>1
  <2>2. CASE c # b BY <1>1, <1>4, <2>2
  <2> QED BY <2>1, <2>2
<1>5. ASSUME rec' = rec PROVE \A c \in Recorders : Keeps(c) BY <1>5
<1> HIDE DEF Keeps
<1>6. CASE TimePasses BY <1>5, <1>6 DEF TimePasses, NothingRestartsStep, Keeps
<1>7. CASE StartExam BY <1>5, <1>7 DEF StartExam, MayStartExam, NothingRestartsStep, Keeps
<1>8. CASE \E f \in Formats : BeginFilm(f)
  <2> PICK f \in Formats : BeginFilm(f) BY <1>8
  <2> DEFINE row == Begun(rec[Film], 1, f, time, FilmEnd(time, examStart))
  <2>1. rec' = [rec EXCEPT ![Film] = row] /\ rec[Film].status = "ready" /\ examStart' = examStart
    BY DEF BeginFilm, MayBeginFilm
  <2> HIDE DEF row
  <2>2. Film \in Recorders BY DEF Recorders
  <2>3. ~Active(rec[Film]) BY <2>1 DEF Active
  <2>4. \A c \in Recorders : Exclusive(c) => Keeps(c) BY <1>3, <1>4, <2>1, <2>2, <2>3
  <2> QED BY <2>1, <2>4 DEF NothingRestartsStep, Keeps
<1>9. CASE \E r \in Starters, next \in {"idle", "exam", "film"} : RecordConsent(r, next)
  BY <1>5, <1>9 DEF RecordConsent, NothingRestartsStep, Keeps
<1>10. CASE \E r \in Starters : ReadUnlocked(r)
  BY <1>5, <1>10 DEF ReadUnlocked, NothingRestartsStep, Keeps
<1>11. CASE \E r \in Starters, f \in Formats : WriteUnlocked(r, f)
  <2> PICK r \in Starters, f \in Formats : WriteUnlocked(r, f) BY <1>11
  <2>1. groq BY DEF WriteUnlocked, RecordingsInv, StartsInv
  <2>2. CASE starting[r].step = "exam read"
    <3>1. rec' = rec BY <2>2 DEF WriteUnlocked
    <3> QED BY <1>5, <2>1, <3>1 DEF NothingRestartsStep, Keeps
  <2>3. CASE starting[r].step = "film read"
    <3> DEFINE row == Begun(rec[Film], 1, f, starting[r].at, FilmEnd(starting[r].at, starting[r].exam))
    <3>1. rec' = [rec EXCEPT ![Film] = row] BY <2>3 DEF WriteUnlocked
    <3> HIDE DEF row
    <3>2. Film \in Recorders /\ ~Exclusive(Film) BY <2>1, RecordingsOK DEF Recorders, Exclusive
    <3>3. \A c \in Recorders : Exclusive(c) => Keeps(c) BY <1>4, <3>1, <3>2
    <3> QED BY <2>1, <3>3 DEF NothingRestartsStep, Keeps
  <2> QED BY <2>2, <2>3 DEF WriteUnlocked
<1>12. CASE \E q \in Spoken, f \in Formats : BeginClip(q, f)
  <2> PICK q \in Spoken, f \in Formats : BeginClip(q, f) BY <1>12
  <2> DEFINE row == Begun(rec[q], q, f, time, Least(time + AnswerTime[q], ExamEnd))
  <2>1. rec' = [rec EXCEPT ![q] = row] /\ rec[q].status = "none" /\ examStart' = examStart
    BY DEF BeginClip
  <2> HIDE DEF row
  <2>2. q \in Recorders BY DEF Recorders
  <2>3. ~Active(rec[q]) BY <2>1 DEF Active
  <2>4. \A c \in Recorders : Exclusive(c) => Keeps(c) BY <1>3, <1>4, <2>1, <2>2, <2>3
  <2> QED BY <2>1, <2>4 DEF NothingRestartsStep, Keeps
<1>13. CASE Advance
  <2> DEFINE row == Advanced(rec[Film])
  <2>1. rec' = [rec EXCEPT ![Film] = row] /\ rec[Film].status = "recording" /\ examStart' = examStart
    BY <1>13 DEF Advance, Advanced
  <2>2. Film \in Recorders BY DEF Recorders
  <2>3. row.mime = rec[Film].mime /\ row.started = rec[Film].started /\ row.deadline = rec[Film].deadline
    BY <1>1, <1>2, <2>1, <2>2, AdvancedRow
  <2> HIDE DEF row
  <2>4. \A c \in Recorders : Exclusive(c) => Keeps(c) BY <1>3, <1>4, <2>1, <2>2, <2>3
  <2> QED BY <2>1, <2>4 DEF NothingRestartsStep, Keeps
<1>14. CASE \E c \in Recorders, n \in 0 .. MaxChunks, d \in Data : SaveChunk(c, n, d)
  <2> PICK b \in Recorders, n \in 0 .. MaxChunks, d \in Data : SaveChunk(b, n, d) BY <1>14
  <2>1. examStart' = examStart BY DEF SaveChunk
  <2>2. CASE rec' = rec BY <1>5, <2>1, <2>2 DEF NothingRestartsStep, Keeps
  <2>3. CASE UploadOpen(rec[b]) /\ rec' = [rec EXCEPT ![b] = WithChunk(@, d)]
    <3> DEFINE row == WithChunk(rec[b], d)
    <3>1. rec' = [rec EXCEPT ![b] = row] /\ rec[b].status \in {"recording", "recorded"}
      BY <2>3 DEF UploadOpen
    <3>2. Active(rec[b]) BY <3>1 DEF Active
    <3>3. row.mime = rec[b].mime /\ row.started = rec[b].started /\ row.deadline = rec[b].deadline
      BY <1>1, <1>2, <3>2, ChunkedRow
    <3> HIDE DEF row
    <3>4. \A c \in Recorders : Exclusive(c) => Keeps(c) BY <1>3, <1>4, <3>1, <3>3
    <3> QED BY <2>1, <3>4 DEF NothingRestartsStep, Keeps
  <2> QED BY <2>2, <2>3 DEF SaveChunk
<1>15. CASE \E c \in Recorders, n \in 0 .. MaxChunks : Seal(c, n)
  <2> PICK b \in Recorders, n \in 0 .. MaxChunks : Seal(b, n) BY <1>15
  <2> DEFINE row == Sealed(rec[b])
  <2>1. /\ rec' = [rec EXCEPT ![b] = row] /\ rec[b].status \in {"recording", "recorded"}
        /\ examStart' = examStart /\ ~rec[b].sealed
    BY DEF Seal
  <2>2. row.mime = rec[b].mime /\ row.started = rec[b].started /\ row.deadline = rec[b].deadline
    BY <1>1, <1>2, <2>1, SealedRow
  <2> HIDE DEF row
  <2>3. \A c \in Recorders : Exclusive(c) => Keeps(c) BY <1>4, <2>1, <2>2
  <2> QED BY <2>1, <2>3 DEF NothingRestartsStep, Keeps
<1>16. CASE \E body \in Answers : Submit(body)
  BY <1>5, <1>16 DEF Submit, NothingRestartsStep, Keeps
<1> QED
  BY <1>6, <1>7, <1>8, <1>9, <1>10, <1>11, <1>12, <1>13, <1>14, <1>15, <1>16 DEF CaptureNext

\* What is sealed and what is handed in can be analysed, a chunk that was acknowledged stays,
\* and neither an exam nor a recording begins again, for any number of questions, chunks and
\* start requests, whatever is sent late, twice or out of order.
THEOREM CapturesStand == CaptureSpec => CaptureStands
<1>1. CaptureSpec => []RecordingsInv
  BY RecordingsInvInit, RecordingsInvNext, PTL DEF CaptureSpec
<1>2. RecordingsInv => RecordingStands
  BY SealedSegmentsAreValid DEF RecordingsInv, RecordingStands, StaysAnalysable
<1>3. CaptureSpec => NothingRestarts
  BY <1>1, StepRestartsNothing, PTL DEF CaptureSpec, NothingRestarts
<1> QED BY <1>1, <1>2, <1>3, PTL DEF CaptureStands

-----------------------------------------------------------------------------
(***************************************************************************)
(* The chain of providers (ProviderChain).                                 *)
(***************************************************************************)

Models == {"gpt-oss", "qwen", "gemini", "terra", "luna"}
Authors == [provider : Providers, model : Models]
Places == ({"openai"} \X Nat) \union {<<"gemini", 1>>, <<"groq", 1>>, NoPlace}

ChainTypeOK ==
  /\ deployment \in Deployments
  /\ call \in [Contexts -> [kind : {"none", "text", "vision"}, place : Places, attempt : Nat]]
  /\ lastNamed \in [Contexts -> Authors \union {Nobody}]
  /\ outcome \in [Contexts -> {"none", "not configured", "answered", "no capacity", "unavailable"}]
  /\ reported \in [Contexts -> Authors \union {Nobody}]
  /\ sentTo \in [Contexts -> Seq(Authors)]

\* What a log has of a provider.
Of(log, provider) == {i \in DOMAIN log : log[i].provider = provider}
CountIn(log, provider) == Cardinality(Of(log, provider))

LEMMA LogCount ==
  ASSUME NEW log \in Seq(Authors), NEW provider
  PROVE  /\ IsFiniteSet(Of(log, provider)) /\ CountIn(log, provider) \in Nat
         /\ Of(log, provider) = {} => CountIn(log, provider) = 0
<1>1. Len(log) \in Nat /\ DOMAIN log = 1 .. Len(log) BY LenProperties
<1>2. Of(log, provider) \in SUBSET (1 .. Len(log)) BY <1>1 DEF Of
<1>3. IsFiniteSet(1 .. Len(log)) BY <1>1, FS_Interval
<1>4. IsFiniteSet(Of(log, provider)) BY <1>2, <1>3, FS_Subset
<1> QED BY <1>4, FS_CardinalityType, FS_EmptySet DEF CountIn

LEMMA LogAppend ==
  ASSUME NEW log \in Seq(Authors), NEW a \in Authors, NEW provider
  PROVE  /\ Append(log, a) \in Seq(Authors)
         /\ Len(Append(log, a)) = Len(log) + 1
         /\ a.provider = provider =>
              /\ Of(Append(log, a), provider) = Of(log, provider) \union {Len(log) + 1}
              /\ CountIn(Append(log, a), provider) = CountIn(log, provider) + 1
         /\ a.provider # provider =>
              /\ Of(Append(log, a), provider) = Of(log, provider)
              /\ CountIn(Append(log, a), provider) = CountIn(log, provider)
<1> DEFINE after == Append(log, a)
<1>1. Len(log) \in Nat /\ DOMAIN log = 1 .. Len(log) BY LenProperties
<1>2. /\ after \in Seq(Authors) /\ Len(after) = Len(log) + 1
      /\ \A i \in 1 .. Len(log) : after[i] = log[i]
      /\ after[Len(log) + 1] = a
  BY AppendProperties
<1>3. DOMAIN after = 1 .. Len(log) + 1 BY <1>2, LenProperties
<1> HIDE DEF after
<1>4. CASE a.provider = provider
  <2>1. Of(after, provider) = Of(log, provider) \union {Len(log) + 1}
    BY <1>1, <1>2, <1>3, <1>4 DEF Of
  <2>2. Len(log) + 1 \notin Of(log, provider) BY <1>1 DEF Of
  <2>3. IsFiniteSet(Of(log, provider)) BY LogCount
  <2>4. Cardinality(Of(log, provider) \union {Len(log) + 1}) = Cardinality(Of(log, provider)) + 1
    BY <2>2, <2>3, FS_AddElement
  <2>5. CountIn(after, provider) = CountIn(log, provider) + 1 BY <2>1, <2>4 DEF CountIn
  <2> QED BY <1>2, <1>4, <2>1, <2>5 DEF after
<1>5. CASE a.provider # provider
  <2>1. Of(after, provider) = Of(log, provider) BY <1>1, <1>2, <1>3, <1>5 DEF Of
  <2> QED BY <1>2, <1>5, <2>1 DEF CountIn, after
<1> QED BY <1>4, <1>5

LEMMA LogEmpty == /\ <<>> \in Seq(Authors)
                  /\ \A provider : Of(<<>>, provider) = {} /\ CountIn(<<>>, provider) = 0
<1>1. <<>> \in Seq(Authors) /\ DOMAIN <<>> = {} BY EmptySeq
<1>2. ASSUME NEW provider PROVE Of(<<>>, provider) = {} /\ CountIn(<<>>, provider) = 0
  <2>1. Of(<<>>, provider) = {} BY <1>1 DEF Of
  <2> QED BY <2>1, FS_EmptySet DEF CountIn
<1> QED BY <1>1, <1>2

\* The providers of a call that the free one does not answer: the keys, then Gemini.
LEMMA AvenuesAre ==
  ASSUME deployment \in Deployments, NEW kind \in {"text", "vision"}
  PROVE  /\ Free(kind) => Avenues(kind) = <<<<"groq", 1>>>>
         /\ ~Free(kind) =>
              LET all == deployment.keys + IF kind = "text" /\ deployment.gemini THEN 1 ELSE 0 IN
              /\ Avenues(kind) \in Seq(Places) /\ Len(Avenues(kind)) = all
              /\ DOMAIN Avenues(kind) = 1 .. all
              /\ \A i \in 1 .. deployment.keys : Avenues(kind)[i] = <<"openai", i>>
              /\ kind = "text" /\ deployment.gemini =>
                   Avenues(kind)[deployment.keys + 1] = <<"gemini", 1>>
<1>1. Free(kind) => Avenues(kind) = <<<<"groq", 1>>>> BY DEF Avenues
<1>2. ASSUME ~Free(kind)
      PROVE  LET all == deployment.keys + IF kind = "text" /\ deployment.gemini THEN 1 ELSE 0 IN
              /\ Avenues(kind) \in Seq(Places) /\ Len(Avenues(kind)) = all
              /\ DOMAIN Avenues(kind) = 1 .. all
              /\ \A i \in 1 .. deployment.keys : Avenues(kind)[i] = <<"openai", i>>
              /\ kind = "text" /\ deployment.gemini =>
                   Avenues(kind)[deployment.keys + 1] = <<"gemini", 1>>
  <2> DEFINE keyed == [slot \in 1 .. deployment.keys |-> <<"openai", slot>>]
             rest == IF kind = "text" /\ deployment.gemini THEN <<<<"gemini", 1>>>> ELSE <<>>
             all == deployment.keys + IF kind = "text" /\ deployment.gemini THEN 1 ELSE 0
  <2>1. deployment.keys \in Nat BY ProviderChainAssumption
  <2>2. keyed \in [1 .. deployment.keys -> Places] BY DEF Places
  <2>3. keyed \in Seq(Places) BY <2>1, <2>2, SeqDef
  <2>4. DOMAIN keyed = 1 .. deployment.keys OBVIOUS
  <2>5. Len(keyed) = deployment.keys BY <2>1, <2>2, <2>3, <2>4, LenProperties
  <2>6. /\ rest \in Seq(Places)
        /\ kind = "text" /\ deployment.gemini => Len(rest) = 1
        /\ ~(kind = "text" /\ deployment.gemini) => Len(rest) = 0
    <3>1. CASE kind = "text" /\ deployment.gemini
      <4>1. rest = <<<<"gemini", 1>>>> BY <3>1
      <4>2. <<"gemini", 1>> \in Places BY DEF Places
      <4> HIDE DEF rest
      <4> QED BY <3>1, <4>1, <4>2
    <3>2. CASE ~(kind = "text" /\ deployment.gemini)
      <4>1. rest = <<>> BY <3>2
      <4> HIDE DEF rest
      <4> QED BY <3>2, <4>1
    <3> QED BY <3>1, <3>2
  <2>7. kind = "text" /\ deployment.gemini => rest[1] = <<"gemini", 1>> OBVIOUS
  <2>8. Avenues(kind) = keyed \o rest BY <1>2 DEF Avenues
  <2>9. \A i \in 1 .. deployment.keys : keyed[i] = <<"openai", i>> OBVIOUS
  <2> DEFINE chain == keyed \o rest
  <2> HIDE DEF keyed, rest
  <2>10. /\ chain \in Seq(Places) /\ Len(chain) = Len(keyed) + Len(rest)
         /\ \A i \in 1 .. Len(keyed) + Len(rest) :
              chain[i] = IF i <= Len(keyed) THEN keyed[i] ELSE rest[i - Len(keyed)]
    BY <2>3, <2>6, ConcatProperties
  <2>11. Avenues(kind) = chain BY <2>8 DEF chain
  <2> HIDE DEF chain
  <2>12. Len(keyed) + Len(rest) = all /\ all \in Nat /\ deployment.keys <= all
    <3>1. CASE kind = "text" /\ deployment.gemini
      <4>1. Len(rest) = 1 /\ all = deployment.keys + 1 BY <2>6, <3>1
      <4> HIDE DEF all
      <4> QED BY <2>1, <2>5, <4>1
    <3>2. CASE ~(kind = "text" /\ deployment.gemini)
      <4>1. Len(rest) = 0 /\ all = deployment.keys + 0 BY <2>6, <3>2
      <4> HIDE DEF all
      <4> QED BY <2>1, <2>5, <4>1
    <3> QED BY <3>1, <3>2
  <2>13. Avenues(kind) \in Seq(Places) /\ Len(Avenues(kind)) = all BY <2>10, <2>12, <2>11
  <2>14. DOMAIN Avenues(kind) = 1 .. all BY <2>13, LenProperties
  <2>15. ASSUME NEW i \in 1 .. deployment.keys PROVE Avenues(kind)[i] = <<"openai", i>>
    <3>1. i \in 1 .. Len(keyed) + Len(rest) /\ i <= Len(keyed) BY <2>1, <2>5, <2>6
    <3>2. chain[i] = keyed[i] BY <2>10, <3>1
    <3> QED BY <2>9, <2>11, <3>2
  <2>16. ASSUME kind = "text", deployment.gemini
         PROVE  Avenues(kind)[deployment.keys + 1] = <<"gemini", 1>>
    <3>1. deployment.keys + 1 \in 1 .. Len(keyed) + Len(rest) /\ ~(deployment.keys + 1 <= Len(keyed))
          /\ (deployment.keys + 1) - Len(keyed) = 1
      <4>1. Len(rest) = 1 BY <2>6, <2>16
      <4> HIDE DEF all
      <4> QED BY <2>1, <2>5, <4>1
    <3>2. chain[deployment.keys + 1] = rest[(deployment.keys + 1) - Len(keyed)]
      <4> DEFINE j == deployment.keys + 1
      <4>1. j \in 1 .. Len(keyed) + Len(rest) /\ ~(j <= Len(keyed)) BY <3>1
      <4> HIDE DEF j, all
      <4>2. chain[j] = rest[j - Len(keyed)] BY <2>10, <4>1
      <4> QED BY <4>2 DEF j
    <3>3. rest[(deployment.keys + 1) - Len(keyed)] = rest[1] BY <3>1
    <3> QED BY <2>7, <2>11, <2>16, <3>2, <3>3
  <2> QED BY <2>13, <2>14, <2>15, <2>16
<1> QED BY <1>1, <1>2

\* The place of a waiting call in its chain.
LEMMA PositionIs ==
  ASSUME deployment \in Deployments, NEW c \in Contexts, call[c].kind \in {"text", "vision"}
  PROVE  /\ Free(call[c].kind) /\ call[c].place = <<"groq", 1>> =>
              Position(c) = Len(Avenues(call[c].kind))
         /\ ~Free(call[c].kind) =>
              /\ \A k \in 1 .. deployment.keys :
                   call[c].place = <<"openai", k>> => Position(c) = k
              /\ call[c].place = <<"gemini", 1>> /\ call[c].kind = "text" /\ deployment.gemini =>
                   Position(c) = deployment.keys + 1
<1> DEFINE avenues == Avenues(call[c].kind)
<1>1. deployment.keys \in Nat /\ deployment.gemini \in BOOLEAN BY ProviderChainAssumption
<1>2. ASSUME Free(call[c].kind), call[c].place = <<"groq", 1>>
      PROVE  Position(c) = Len(avenues)
  <2>1. avenues = <<<<"groq", 1>>>> BY <1>2, AvenuesAre
  <2>2. DOMAIN avenues = {1} /\ Len(avenues) = 1 /\ avenues[1] = <<"groq", 1>> BY <2>1
  <2> HIDE DEF avenues
  <2>3. Position(c) = CHOOSE i \in DOMAIN avenues : avenues[i] = call[c].place BY DEF Position, avenues
  <2> QED BY <1>2, <2>2, <2>3
<1>3. ASSUME ~Free(call[c].kind)
      PROVE  /\ \A k \in 1 .. deployment.keys : call[c].place = <<"openai", k>> => Position(c) = k
             /\ call[c].place = <<"gemini", 1>> /\ call[c].kind = "text" /\ deployment.gemini =>
                  Position(c) = deployment.keys + 1
  <2> DEFINE all == deployment.keys + IF call[c].kind = "text" /\ deployment.gemini THEN 1 ELSE 0
  <2>1. /\ DOMAIN avenues = 1 .. all
        /\ \A i \in 1 .. deployment.keys : avenues[i] = <<"openai", i>>
        /\ call[c].kind = "text" /\ deployment.gemini => avenues[deployment.keys + 1] = <<"gemini", 1>>
    BY <1>3, AvenuesAre
  <2>2. /\ call[c].kind = "text" /\ deployment.gemini => all = deployment.keys + 1
        /\ ~(call[c].kind = "text" /\ deployment.gemini) => all = deployment.keys + 0
    OBVIOUS
  <2> HIDE DEF all, avenues
  <2>3. Position(c) = CHOOSE i \in DOMAIN avenues : avenues[i] = call[c].place BY DEF Position, avenues
  <2>4. ASSUME NEW k \in 1 .. deployment.keys, call[c].place = <<"openai", k>>
        PROVE  Position(c) = k
    <3>1. k \in DOMAIN avenues /\ avenues[k] = call[c].place BY <1>1, <2>1, <2>2, <2>4
    <3>2. ASSUME NEW i \in DOMAIN avenues, avenues[i] = call[c].place PROVE i = k
      <4>1. i \in 1 .. deployment.keys \/ (i = deployment.keys + 1 /\ avenues[i] = <<"gemini", 1>>)
        BY <1>1, <2>1, <2>2
      <4> QED BY <2>1, <2>4, <3>2, <4>1
    <3> QED BY <2>3, <3>1, <3>2
  <2>5. ASSUME call[c].place = <<"gemini", 1>>, call[c].kind = "text", deployment.gemini
        PROVE  Position(c) = deployment.keys + 1
    <3> DEFINE k == deployment.keys + 1
    <3>1. k \in DOMAIN avenues /\ avenues[k] = call[c].place BY <1>1, <2>1, <2>2, <2>5
    <3>2. ASSUME NEW i \in DOMAIN avenues, avenues[i] = call[c].place PROVE i = k
      <4>1. i \in 1 .. deployment.keys \/ i = deployment.keys + 1
        BY <1>1, <2>1, <2>2
      <4> QED BY <2>1, <2>5, <3>2, <4>1
    <3> HIDE DEF k
    <3>3. Position(c) = k BY <2>3, <3>1, <3>2
    <3> QED BY <3>3 DEF k
  <2> QED BY <2>4, <2>5
<1> QED BY <1>2, <1>3 DEF avenues

-----------------------------------------------------------------------------
(* The invariant. *)

\* How often a failed request of a kind is sent again.
Again(kind) == IF kind = "text" THEN deployment.retries ELSE 0

\* What a log has when the call waits for a place: every key before it had its turn, and
\* none more than its attempts.
TurnFits(kind, place, attempt, log) ==
  IF Free(kind) THEN place = <<"groq", 1>> /\ log = <<>>
  ELSE \/ /\ place[1] = "openai" /\ place[2] \in 1 .. deployment.keys /\ attempt <= Again(kind)
          /\ place[2] - 1 <= CountIn(log, "openai")
          /\ CountIn(log, "openai") <= (place[2] - 1) * (Again(kind) + 1) + attempt
          /\ CountIn(log, "gemini") = 0
       \/ /\ place = <<"gemini", 1>> /\ kind = "text" /\ deployment.gemini
          /\ attempt <= Again(kind)
          /\ deployment.keys <= CountIn(log, "openai")
          /\ CountIn(log, "openai") <= deployment.keys * (Again(kind) + 1)
          /\ CountIn(log, "gemini") <= attempt

\* What a log has when the call is over.
EndFits(log) ==
  /\ CountIn(log, "openai") <= deployment.keys * (deployment.retries + 1)
  /\ CountIn(log, "gemini") <= deployment.retries + 1

\* Nobody is left who was not asked.
AllAsked(kind, log) ==
  IF Free(kind) THEN deployment.approved => CountIn(log, "groq") >= 1
  ELSE /\ deployment.keys <= CountIn(log, "openai")
       /\ kind = "text" /\ deployment.gemini => ~deployment.sdk \/ 1 <= CountIn(log, "gemini")

\* The free provider is alone, or not asked at all.
AloneOrNot(kind, log) ==
  IF Free(kind) THEN Len(log) <= 1 /\ Of(log, "groq") = DOMAIN log
  ELSE Of(log, "groq") = {}

CallFits(kind, place, attempt, result, log) ==
  /\ place # NoPlace => /\ result = "none" /\ kind \in {"text", "vision"}
                        /\ TurnFits(kind, place, attempt, log)
  /\ place = NoPlace => EndFits(log)
  /\ result = "unavailable" => kind \in {"text", "vision"} /\ AllAsked(kind, log)
  /\ place # NoPlace \/ result # "none" => AloneOrNot(kind, log)

AuthorFits(c) ==
  /\ outcome[c] = "answered" =>
       /\ call[c].place = NoPlace /\ sentTo[c] # <<>>
       /\ lastNamed[c] = sentTo[c][Len(sentTo[c])]
  /\ reported[c] # Nobody => outcome[c] = "answered" /\ reported[c] = lastNamed[c]

ChainInv ==
  /\ ChainTypeOK
  /\ \A c \in Contexts :
       /\ CallFits(call[c].kind, call[c].place, call[c].attempt, outcome[c], sentTo[c])
       /\ AuthorFits(c)

LEMMA ChainInvInit == ChainInit => ChainInv
<1> SUFFICES ASSUME ChainInit PROVE ChainInv
  OBVIOUS
<1>1. ChainTypeOK
  <2>1. <<>> \in Seq(Authors) BY LogEmpty
  <2>2. NoCall \in [kind : {"none", "text", "vision"}, place : Places, attempt : Nat]
    BY DEF NoCall, Places
  <2> QED BY <2>1, <2>2 DEF ChainInit, ChainTypeOK
<1>2. ASSUME NEW c \in Contexts
      PROVE  /\ CallFits(call[c].kind, call[c].place, call[c].attempt, outcome[c], sentTo[c])
             /\ AuthorFits(c)
  <2>1. call[c].place = NoPlace /\ outcome[c] = "none" /\ sentTo[c] = <<>> /\ reported[c] = Nobody
    BY <1>2 DEF ChainInit, NoCall
  <2>2. deployment.keys \in Nat /\ deployment.retries \in Nat
    BY ProviderChainAssumption DEF ChainInit
  <2>3. 0 <= deployment.keys * (deployment.retries + 1) BY <2>2
  <2>4. EndFits(<<>>) BY <2>2, <2>3, LogEmpty DEF EndFits
  <2> QED BY <2>1, <2>4 DEF CallFits, AuthorFits
<1> QED BY <1>1, <1>2 DEF ChainInv

-----------------------------------------------------------------------------
(* Counting attempts. *)

LEMMA TimesGrows ==
  ASSUME NEW k \in Nat, NEW n \in Nat, k <= n, NEW m \in Nat, NEW r \in Nat, m <= r
  PROVE  /\ k * m \in Nat /\ n * m \in Nat /\ n * r \in Nat
         /\ k * m <= n * m /\ n * m <= n * r
<1>1. \A a, b \in Nat : a * b \in Nat OBVIOUS
<1>2. n * m = k * m + (n - k) * m /\ (n - k) \in Nat OBVIOUS
<1>3. n * r = n * m + n * (r - m) /\ (r - m) \in Nat OBVIOUS
<1> QED BY <1>1, <1>2, <1>3

\* One more request of key k.
LEMMA OneMore ==
  ASSUME NEW n \in Nat, NEW k \in 1 .. n, NEW r \in Nat, NEW again \in Nat, again <= r,
         NEW attempt \in Nat, attempt <= again,
         NEW x \in Nat, x <= (k - 1) * (again + 1) + attempt
  PROVE  /\ x + 1 <= k * (again + 1)
         /\ k * (again + 1) = ((k + 1) - 1) * (again + 1)
         /\ x <= n * (r + 1) /\ x + 1 <= n * (r + 1)
<1>1. (k - 1) * (again + 1) + (again + 1) = k * (again + 1)
  <2>1. k - 1 \in Int /\ again + 1 \in Int OBVIOUS
  <2>2. \A a, b \in Int : a * b + b = (a + 1) * b OBVIOUS
  <2>3. (k - 1) + 1 = k OBVIOUS
  <2> QED BY <2>1, <2>2, <2>3
<1>2. k \in Nat /\ k <= n /\ again + 1 \in Nat /\ r + 1 \in Nat /\ again + 1 <= r + 1
  OBVIOUS
<1>3. k * (again + 1) <= n * (again + 1) /\ n * (again + 1) <= n * (r + 1)
      /\ k * (again + 1) \in Nat /\ n * (again + 1) \in Nat /\ n * (r + 1) \in Nat
  BY <1>2, TimesGrows
<1> DEFINE before == (k - 1) * (again + 1)
           upto == k * (again + 1)
           most == n * (again + 1)
           all == n * (r + 1)
<1>4. before + (again + 1) = upto /\ upto <= most /\ most <= all /\ x <= before + attempt
      /\ upto \in Nat /\ most \in Nat /\ all \in Nat
  BY <1>1, <1>3
<1>5. before \in Int OBVIOUS
<1>6. (k + 1) - 1 = k OBVIOUS
<1> HIDE DEF before, upto, most, all
<1>7. x + 1 <= upto /\ x <= all /\ x + 1 <= all BY <1>4, <1>5
<1> QED BY <1>6, <1>7 DEF upto, all

-----------------------------------------------------------------------------
(* Each step keeps the invariant. *)

CallRow == [kind : {"none", "text", "vision"}, place : Places, attempt : Nat]
Outcomes == {"none", "not configured", "answered", "no capacity", "unavailable"}

\* A step of one context leaves the others as they are.
LEMMA MoveKeeps ==
  ASSUME ChainInv, NEW c \in Contexts, NEW row \in CallRow, NEW result \in Outcomes, NEW log \in Seq(Authors),
         deployment' = deployment,
         call' = [call EXCEPT ![c] = row], outcome' = [outcome EXCEPT ![c] = result],
         sentTo' = [sentTo EXCEPT ![c] = log],
         lastNamed' \in [Contexts -> Authors \union {Nobody}],
         reported' \in [Contexts -> Authors \union {Nobody}],
         \A d \in Contexts : d # c => lastNamed'[d] = lastNamed[d] /\ reported'[d] = reported[d],
         CallFits(row.kind, row.place, row.attempt, result, log),
         result = "answered" =>
            row.place = NoPlace /\ log # <<>> /\ lastNamed'[c] = log[Len(log)],
         reported'[c] # Nobody => result = "answered" /\ reported'[c] = lastNamed'[c]
  PROVE  ChainInv'
<1>1. ChainTypeOK BY DEF ChainInv
<1>2. ChainTypeOK' BY <1>1 DEF ChainTypeOK, CallRow, Outcomes
<1>3. call'[c] = row /\ outcome'[c] = result /\ sentTo'[c] = log BY <1>1 DEF ChainTypeOK
<1>4. \A d \in Contexts : d # c => call'[d] = call[d] /\ outcome'[d] = outcome[d] /\ sentTo'[d] = sentTo[d]
  BY <1>1 DEF ChainTypeOK
<1>5. ASSUME NEW kind, NEW place, NEW attempt, NEW r, NEW l, CallFits(kind, place, attempt, r, l)
      PROVE  CallFits(kind, place, attempt, r, l)'
  BY <1>5 DEF CallFits, TurnFits, EndFits, AllAsked, AloneOrNot, Free, Again
<1>6. ASSUME NEW d \in Contexts
      PROVE  /\ CallFits(call[d].kind, call[d].place, call[d].attempt, outcome[d], sentTo[d])'
             /\ AuthorFits(d)'
  <2>1. CASE d = c
    <3>1. CallFits(row.kind, row.place, row.attempt, result, log)' BY <1>5
    <3>2. CallFits(call[d].kind, call[d].place, call[d].attempt, outcome[d], sentTo[d])'
      BY <1>3, <2>1, <3>1 DEF CallFits, TurnFits, EndFits, AllAsked, AloneOrNot, Free, Again
    <3>3. AuthorFits(d)' BY <1>3, <2>1 DEF AuthorFits
    <3> QED BY <3>2, <3>3
  <2>2. CASE d # c
    <3>1. CallFits(call[d].kind, call[d].place, call[d].attempt, outcome[d], sentTo[d]) /\ AuthorFits(d)
      BY DEF ChainInv
    <3>2. /\ call'[d] = call[d] /\ outcome'[d] = outcome[d] /\ sentTo'[d] = sentTo[d]
          /\ lastNamed'[d] = lastNamed[d] /\ reported'[d] = reported[d]
      BY <1>4, <2>2
    <3>3. AuthorFits(d)' BY <3>1, <3>2 DEF AuthorFits
    <3> QED BY <3>1, <3>2, <3>3 DEF CallFits, TurnFits, EndFits, AllAsked, AloneOrNot, Free, Again
  <2> QED BY <2>1, <2>2
<1> QED BY <1>2, <1>6 DEF ChainInv

LEMMA RowOf ==
  ASSUME ChainTypeOK, NEW c \in Contexts
  PROVE  /\ call[c] \in CallRow /\ outcome[c] \in Outcomes /\ sentTo[c] \in Seq(Authors)
         /\ call[c].kind \in {"none", "text", "vision"} /\ call[c].place \in Places /\ call[c].attempt \in Nat
         /\ deployment \in Deployments /\ deployment.keys \in Nat /\ deployment.retries \in Nat
         /\ deployment.gemini \in BOOLEAN
BY ProviderChainAssumption DEF ChainTypeOK, CallRow, Outcomes

LEMMA NamedIsNamed ==
  ASSUME NEW c, call[c].place \in Places, Waiting(c)
  PROVE  NamedBy(c) \in Authors /\ NamedBy(c).provider = call[c].place[1]
<1>1. call[c].place[1] \in Providers BY DEF Waiting, Places, Providers
<1>2. ModelAt(call[c].place, call[c].kind) \in Models
  <2>1. CASE call[c].place[1] = "openai" BY <2>1 DEF ModelAt, Models
  <2>2. CASE call[c].place[1] = "gemini" BY <2>2 DEF ModelAt, Models
  <2>3. CASE call[c].place[1] = "groq" BY <2>3 DEF ModelAt, Models
  <2> QED BY <1>1, <2>1, <2>2, <2>3 DEF Providers
<1> QED BY <1>1, <1>2 DEF NamedBy, Authors

\* The log after a place was asked or could not be.
WasAsked(c, log) ==
  \/ log = Append(sentTo[c], NamedBy(c)) /\ ~Unsendable(call[c].place)
  \/ log = sentTo[c] /\ Unsendable(call[c].place)

LEMMA FreeEnds ==
  ASSUME ChainInv, NEW c \in Contexts, Waiting(c), Free(call[c].kind), NEW log, WasAsked(c, log),
         NEW result \in Outcomes \ {"none"}
  PROVE  /\ log \in Seq(Authors) /\ call[c].place = <<"groq", 1>>
         /\ CallFits(call[c].kind, NoPlace, call[c].attempt, result, log)
<1>1. ChainTypeOK BY DEF ChainInv
<1>2. call[c].place = <<"groq", 1>> /\ sentTo[c] = <<>> /\ call[c].kind \in {"text", "vision"}
  BY DEF ChainInv, CallFits, TurnFits, Waiting
<1>3. 0 <= deployment.keys * (deployment.retries + 1) /\ 0 <= deployment.retries + 1
  BY <1>1, RowOf
<1>4. CASE log = Append(<<>>, NamedBy(c))
  <2>1. NamedBy(c) \in Authors /\ NamedBy(c).provider = "groq" BY <1>1, <1>2, RowOf, NamedIsNamed
  <2>2. /\ log \in Seq(Authors) /\ Len(log) = Len(<<>>) + 1
        /\ Of(log, "groq") = Of(<<>>, "groq") \union {Len(<<>>) + 1}
        /\ CountIn(log, "groq") = CountIn(<<>>, "groq") + 1
        /\ CountIn(log, "openai") = CountIn(<<>>, "openai")
        /\ CountIn(log, "gemini") = CountIn(<<>>, "gemini")
    <3>1. <<>> \in Seq(Authors) /\ NamedBy(c).provider # "openai" /\ NamedBy(c).provider # "gemini"
      BY <2>1, LogEmpty
    <3>2. log \in Seq(Authors) /\ Len(log) = Len(<<>>) + 1 BY <1>4, <2>1, <3>1, LogAppend
    <3>3. /\ Of(log, "groq") = Of(<<>>, "groq") \union {Len(<<>>) + 1}
          /\ CountIn(log, "groq") = CountIn(<<>>, "groq") + 1
      BY <1>4, <2>1, <3>1, LogAppend
    <3>4. CountIn(log, "openai") = CountIn(<<>>, "openai") BY <1>4, <2>1, <3>1, LogAppend
    <3>5. CountIn(log, "gemini") = CountIn(<<>>, "gemini") BY <1>4, <2>1, <3>1, LogAppend
    <3> QED BY <3>2, <3>3, <3>4, <3>5
  <2>3. /\ Len(log) = 1 /\ Of(log, "groq") = {1} /\ CountIn(log, "groq") = 1
        /\ CountIn(log, "openai") = 0 /\ CountIn(log, "gemini") = 0
    BY <2>2, LogEmpty
  <2>4. DOMAIN log = {1} BY <2>2, <2>3, LenProperties
  <2> QED BY <1>2, <1>3, <2>2, <2>3, <2>4 DEF CallFits, EndFits, AllAsked, AloneOrNot
<1>5. CASE log = <<>> /\ Unsendable(call[c].place)
  <2>1. ~deployment.approved BY <1>2, <1>5 DEF Unsendable
  <2>2. log \in Seq(Authors) /\ Len(log) = 0 /\ Of(log, "groq") = {} /\ DOMAIN log = {}
        /\ CountIn(log, "openai") = 0 /\ CountIn(log, "gemini") = 0
    BY <1>5, LogEmpty
  <2> QED BY <1>2, <1>3, <2>1, <2>2 DEF CallFits, EndFits, AllAsked, AloneOrNot
<1> QED BY <1>2, <1>4, <1>5 DEF WasAsked

\* The counts after a key was asked.
LEMMA KeyAsked ==
  ASSUME ChainInv, NEW c \in Contexts, Waiting(c), ~Free(call[c].kind), NEW k \in 1 .. deployment.keys,
         call[c].place = <<"openai", k>>, NEW log, WasAsked(c, log)
  PROVE  /\ log \in Seq(Authors) /\ call[c].kind \in {"text", "vision"}
         /\ CountIn(log, "openai") = CountIn(sentTo[c], "openai") + 1
         /\ CountIn(log, "gemini") = 0 /\ Of(log, "groq") = {}
         /\ k <= CountIn(log, "openai")
         /\ CountIn(log, "openai") <= ((k + 1) - 1) * (Again(call[c].kind) + 1)
         /\ CountIn(log, "openai") <= k * (Again(call[c].kind) + 1)
         /\ EndFits(log)
<1>1. ChainTypeOK BY DEF ChainInv
<1>2. /\ call[c].kind \in {"text", "vision"} /\ call[c].attempt <= Again(call[c].kind)
      /\ k - 1 <= CountIn(sentTo[c], "openai")
      /\ CountIn(sentTo[c], "openai") <= (k - 1) * (Again(call[c].kind) + 1) + call[c].attempt
      /\ CountIn(sentTo[c], "gemini") = 0 /\ Of(sentTo[c], "groq") = {}
  <2>1. /\ call[c].kind \in {"text", "vision"}
        /\ TurnFits(call[c].kind, call[c].place, call[c].attempt, sentTo[c])
        /\ AloneOrNot(call[c].kind, sentTo[c])
    BY DEF ChainInv, CallFits, Waiting
  <2>2. call[c].place[1] = "openai" /\ call[c].place[2] = k /\ call[c].place # <<"gemini", 1>>
    OBVIOUS
  <2> QED BY <2>1, <2>2 DEF TurnFits, AloneOrNot
<1>3. ~Unsendable(call[c].place) BY DEF Unsendable
<1>4. NamedBy(c) \in Authors /\ NamedBy(c).provider = "openai" BY <1>1, RowOf, NamedIsNamed
<1>5. log = Append(sentTo[c], NamedBy(c)) /\ sentTo[c] \in Seq(Authors)
  BY <1>1, <1>3, RowOf DEF WasAsked
<1>6. /\ log \in Seq(Authors)
      /\ CountIn(log, "openai") = CountIn(sentTo[c], "openai") + 1
      /\ CountIn(log, "gemini") = CountIn(sentTo[c], "gemini")
      /\ Of(log, "groq") = Of(sentTo[c], "groq")
  BY <1>4, <1>5, LogAppend
<1>7. CountIn(sentTo[c], "openai") \in Nat BY <1>5, LogCount
<1>8. Again(call[c].kind) \in Nat /\ Again(call[c].kind) <= deployment.retries
  BY <1>1, RowOf DEF Again
<1>9. deployment.keys \in Nat /\ deployment.retries \in Nat /\ call[c].attempt \in Nat
  BY <1>1, RowOf
<1> DEFINE x == CountIn(sentTo[c], "openai")
           again == Again(call[c].kind)
<1>10. x \in Nat /\ again \in Nat /\ again <= deployment.retries /\ call[c].attempt <= again
       /\ x <= (k - 1) * (again + 1) + call[c].attempt /\ k - 1 <= x
  BY <1>2, <1>7, <1>8
<1> HIDE DEF x, again
<1>11. /\ x + 1 <= k * (again + 1)
       /\ k * (again + 1) = ((k + 1) - 1) * (again + 1)
       /\ x + 1 <= deployment.keys * (deployment.retries + 1)
  BY <1>9, <1>10, OneMore
<1>12. CountIn(log, "openai") = x + 1 BY <1>6 DEF x
<1>13. CountIn(log, "openai") <= ((k + 1) - 1) * (again + 1) /\ CountIn(log, "openai") <= k * (again + 1)
  BY <1>11, <1>12
<1>14. CountIn(log, "gemini") = 0 /\ 0 <= deployment.retries + 1 BY <1>2, <1>6, <1>9
<1>15. EndFits(log) BY <1>11, <1>12, <1>14 DEF EndFits
<1>16. k <= CountIn(log, "openai") BY <1>10, <1>12
<1> QED BY <1>2, <1>6, <1>13, <1>14, <1>15, <1>16 DEF again

LEMMA WaitingIs ==
  ASSUME ChainInv, NEW c \in Contexts, Waiting(c)
  PROVE  /\ call[c].kind \in {"text", "vision"} /\ outcome[c] = "none" /\ reported[c] = Nobody
         /\ TurnFits(call[c].kind, call[c].place, call[c].attempt, sentTo[c])
         /\ AloneOrNot(call[c].kind, sentTo[c])
         /\ Free(call[c].kind) => call[c].place = <<"groq", 1>>
         /\ ~Free(call[c].kind) =>
              \/ \E k \in 1 .. deployment.keys : call[c].place = <<"openai", k>>
              \/ call[c].place = <<"gemini", 1>> /\ call[c].kind = "text" /\ deployment.gemini
<1>1. /\ call[c].kind \in {"text", "vision"} /\ outcome[c] = "none" /\ reported[c] = Nobody
      /\ TurnFits(call[c].kind, call[c].place, call[c].attempt, sentTo[c])
      /\ AloneOrNot(call[c].kind, sentTo[c])
  BY DEF ChainInv, CallFits, AuthorFits, Waiting
<1>2. ASSUME ~Free(call[c].kind), call[c].place[1] = "openai", call[c].place[2] \in 1 .. deployment.keys
      PROVE  call[c].place = <<"openai", call[c].place[2]>>
  BY <1>2, RowOf DEF ChainInv, Places, NoPlace
<1> QED BY <1>1, <1>2 DEF TurnFits

\* The counts after Gemini was asked.
LEMMA GeminiAsked ==
  ASSUME ChainInv, NEW c \in Contexts, Waiting(c), ~Free(call[c].kind),
         call[c].place = <<"gemini", 1>>, NEW log, WasAsked(c, log)
  PROVE  /\ log \in Seq(Authors) /\ call[c].kind = "text" /\ deployment.gemini
         /\ deployment.keys <= CountIn(log, "openai")
         /\ CountIn(log, "openai") <= deployment.keys * (Again(call[c].kind) + 1)
         /\ CountIn(log, "gemini") <= call[c].attempt + 1
         /\ ~deployment.sdk \/ 1 <= CountIn(log, "gemini")
         /\ Of(log, "groq") = {}
         /\ EndFits(log)
<1>1. ChainTypeOK BY DEF ChainInv
<1>2. /\ TurnFits(call[c].kind, call[c].place, call[c].attempt, sentTo[c])
      /\ AloneOrNot(call[c].kind, sentTo[c])
  BY WaitingIs
<1>3. call[c].place[1] = "gemini" OBVIOUS
<1>4. /\ call[c].kind = "text" /\ deployment.gemini /\ call[c].attempt <= Again(call[c].kind)
      /\ deployment.keys <= CountIn(sentTo[c], "openai")
      /\ CountIn(sentTo[c], "openai") <= deployment.keys * (Again(call[c].kind) + 1)
      /\ CountIn(sentTo[c], "gemini") <= call[c].attempt
      /\ Of(sentTo[c], "groq") = {}
  BY <1>2, <1>3 DEF TurnFits, AloneOrNot
<1>5. sentTo[c] \in Seq(Authors) /\ call[c].attempt \in Nat /\ deployment.retries \in Nat
  BY <1>1, RowOf
<1>6. CountIn(sentTo[c], "gemini") \in Nat /\ CountIn(sentTo[c], "openai") \in Nat BY <1>5, LogCount
<1>7. Again(call[c].kind) = deployment.retries BY <1>4 DEF Again
<1>8. /\ log \in Seq(Authors)
      /\ CountIn(log, "openai") = CountIn(sentTo[c], "openai")
      /\ CountIn(log, "gemini") <= call[c].attempt + 1
      /\ ~deployment.sdk \/ 1 <= CountIn(log, "gemini")
      /\ Of(log, "groq") = {}
  <2>1. CASE log = Append(sentTo[c], NamedBy(c))
    <3>1. NamedBy(c) \in Authors /\ NamedBy(c).provider = "gemini" BY <1>1, <1>3, RowOf, NamedIsNamed
    <3>2. log \in Seq(Authors) /\ CountIn(log, "gemini") = CountIn(sentTo[c], "gemini") + 1
      BY <1>5, <2>1, <3>1, LogAppend
    <3>3. NamedBy(c).provider # "openai" /\ NamedBy(c).provider # "groq" BY <3>1
    <3>4. CountIn(log, "openai") = CountIn(sentTo[c], "openai") BY <1>5, <2>1, <3>1, <3>3, LogAppend
    <3>5. Of(log, "groq") = Of(sentTo[c], "groq") BY <1>5, <2>1, <3>1, <3>3, LogAppend
    <3> QED BY <1>4, <1>5, <1>6, <3>2, <3>4, <3>5
  <2>2. CASE log = sentTo[c] /\ Unsendable(call[c].place)
    <3>1. ~deployment.sdk BY <1>3, <2>2 DEF Unsendable
    <3> QED BY <1>4, <1>5, <1>6, <2>2, <3>1
  <2> QED BY <2>1, <2>2 DEF WasAsked
<1>9. CountIn(log, "gemini") \in Nat BY <1>8, LogCount
<1>10. CountIn(log, "gemini") <= deployment.retries + 1 BY <1>4, <1>5, <1>7, <1>8, <1>9
<1>11. CountIn(log, "openai") <= deployment.keys * (deployment.retries + 1) BY <1>4, <1>7, <1>8
<1>12. EndFits(log) BY <1>10, <1>11 DEF EndFits
<1> QED BY <1>4, <1>8, <1>12

\* A call may end after any place, and a call that has nobody left asked everyone.
LEMMA MayEnd ==
  ASSUME ChainInv, NEW c \in Contexts, Waiting(c), NEW log, WasAsked(c, log)
  PROVE  /\ log \in Seq(Authors) /\ EndFits(log) /\ AloneOrNot(call[c].kind, log)
         /\ Position(c) = Len(Avenues(call[c].kind)) => AllAsked(call[c].kind, log)
<1>1. call[c].kind \in {"text", "vision"} BY WaitingIs
<1>2. ChainTypeOK BY DEF ChainInv
<1>3. deployment \in Deployments /\ deployment.keys \in Nat /\ deployment.gemini \in BOOLEAN
  BY <1>2, RowOf
<1>4. CASE Free(call[c].kind)
  <2>1. "unavailable" \in Outcomes \ {"none"} BY DEF Outcomes
  <2>2. log \in Seq(Authors) /\ CallFits(call[c].kind, NoPlace, call[c].attempt, "unavailable", log)
    BY <1>4, <2>1, FreeEnds
  <2> QED BY <2>2 DEF CallFits
<1>5. CASE ~Free(call[c].kind)
  <2>1. ASSUME NEW k \in 1 .. deployment.keys, call[c].place = <<"openai", k>>
        PROVE  /\ log \in Seq(Authors) /\ EndFits(log) /\ AloneOrNot(call[c].kind, log)
               /\ Position(c) = Len(Avenues(call[c].kind)) => AllAsked(call[c].kind, log)
    <3>1. log \in Seq(Authors) /\ EndFits(log) /\ Of(log, "groq") = {} /\ k <= CountIn(log, "openai")
      BY <1>5, <2>1, KeyAsked
    <3>2. Position(c) = k BY <1>1, <1>3, <1>5, <2>1, PositionIs
    <3>3. ASSUME k = Len(Avenues(call[c].kind))
          PROVE  k = deployment.keys /\ ~(call[c].kind = "text" /\ deployment.gemini)
      <4>1. Len(Avenues(call[c].kind))
              = deployment.keys + IF call[c].kind = "text" /\ deployment.gemini THEN 1 ELSE 0
        BY <1>1, <1>3, <1>5, AvenuesAre
      <4>2. CASE call[c].kind = "text" /\ deployment.gemini
        <5>1. Len(Avenues(call[c].kind)) = deployment.keys + 1 BY <4>1, <4>2
        <5> QED BY <1>3, <3>3, <5>1
      <4>3. CASE ~(call[c].kind = "text" /\ deployment.gemini)
        <5>1. Len(Avenues(call[c].kind)) = deployment.keys + 0 BY <4>1, <4>3
        <5> QED BY <1>3, <3>3, <4>3, <5>1
      <4> QED BY <4>2, <4>3
    <3> QED BY <1>5, <3>1, <3>2, <3>3 DEF AloneOrNot, AllAsked
  <2>2. ASSUME call[c].place = <<"gemini", 1>>
        PROVE  /\ log \in Seq(Authors) /\ EndFits(log) /\ AloneOrNot(call[c].kind, log)
               /\ AllAsked(call[c].kind, log)
    BY <1>5, <2>2, GeminiAsked DEF AloneOrNot, AllAsked
  <2> QED BY <1>5, <2>1, <2>2, WaitingIs
<1> QED BY <1>4, <1>5

LEMMA EndKeeps ==
  ASSUME ChainInv, NEW c \in Contexts, Waiting(c), NEW log, WasAsked(c, log),
         NEW result \in Outcomes \ {"none"},
         result = "unavailable" => Position(c) = Len(Avenues(call[c].kind)),
         EndCall(c, result), sentTo' = [sentTo EXCEPT ![c] = log],
         deployment' = deployment, reported' = reported,
         lastNamed' \in [Contexts -> Authors \union {Nobody}],
         \A d \in Contexts : d # c => lastNamed'[d] = lastNamed[d],
         result = "answered" => log # <<>> /\ lastNamed'[c] = log[Len(log)]
  PROVE  ChainInv'
<1>1. ChainTypeOK BY DEF ChainInv
<1>2. call[c].kind \in {"text", "vision"} /\ reported[c] = Nobody BY WaitingIs
<1>3. /\ log \in Seq(Authors) /\ EndFits(log) /\ AloneOrNot(call[c].kind, log)
      /\ Position(c) = Len(Avenues(call[c].kind)) => AllAsked(call[c].kind, log)
  BY MayEnd
<1> DEFINE row == [call[c] EXCEPT !.place = NoPlace]
<1>4. call[c] \in CallRow BY <1>1, RowOf
<1>5. row \in CallRow /\ row.kind = call[c].kind /\ row.place = NoPlace BY <1>4 DEF CallRow, Places
<1>6. call' = [call EXCEPT ![c] = row] /\ outcome' = [outcome EXCEPT ![c] = result] BY DEF EndCall
<1> HIDE DEF row
<1>7. CallFits(row.kind, row.place, row.attempt, result, log)
  BY <1>2, <1>3, <1>5 DEF CallFits
<1>8. reported' \in [Contexts -> Authors \union {Nobody}] BY <1>1 DEF ChainTypeOK
<1> QED BY <1>2, <1>3, <1>5, <1>6, <1>7, <1>8, MoveKeeps

\* Going on with another place, or with the same one again.
LEMMA GoOnKeeps ==
  ASSUME ChainInv, NEW c \in Contexts, Waiting(c), NEW log \in Seq(Authors),
         NEW place \in Places \ {NoPlace}, NEW attempt \in Nat,
         call' = [call EXCEPT ![c].place = place, ![c].attempt = attempt],
         outcome' = outcome, sentTo' = [sentTo EXCEPT ![c] = log],
         deployment' = deployment, reported' = reported, lastNamed' = lastNamed,
         TurnFits(call[c].kind, place, attempt, log), AloneOrNot(call[c].kind, log)
  PROVE  ChainInv'
<1>1. ChainTypeOK BY DEF ChainInv
<1>2. call[c].kind \in {"text", "vision"} /\ reported[c] = Nobody /\ outcome[c] = "none" BY WaitingIs
<1> DEFINE row == [call[c] EXCEPT !.place = place, !.attempt = attempt]
<1>3. call[c] \in CallRow /\ call \in [Contexts -> CallRow] BY <1>1, RowOf DEF ChainTypeOK, CallRow
<1>4. row \in CallRow /\ row.kind = call[c].kind /\ row.place = place /\ row.attempt = attempt BY <1>3 DEF CallRow
<1>5. call' = [call EXCEPT ![c] = row] BY <1>3
<1> HIDE DEF row
<1>6. outcome' = [outcome EXCEPT ![c] = "none"] /\ "none" \in Outcomes
  BY <1>1, <1>2 DEF ChainTypeOK, Outcomes
<1>7. CallFits(row.kind, row.place, row.attempt, "none", log) BY <1>2, <1>4 DEF CallFits
<1>8. /\ reported' \in [Contexts -> Authors \union {Nobody}]
      /\ lastNamed' \in [Contexts -> Authors \union {Nobody}]
  BY <1>1 DEF ChainTypeOK
<1> QED BY <1>2, <1>4, <1>5, <1>6, <1>7, <1>8, MoveKeeps

LEMMA NextAvenueKeeps ==
  ASSUME ChainInv, NEW c \in Contexts, Waiting(c), NEW log, WasAsked(c, log), NEW failure,
         NextAvenue(c, failure), sentTo' = [sentTo EXCEPT ![c] = log],
         deployment' = deployment, reported' = reported, lastNamed' = lastNamed
  PROVE  ChainInv'
<1>1. ChainTypeOK BY DEF ChainInv
<1>2. call[c].kind \in {"text", "vision"} BY WaitingIs
<1>3. deployment \in Deployments /\ deployment.keys \in Nat /\ deployment.gemini \in BOOLEAN
      /\ deployment.retries \in Nat
  BY <1>1, RowOf
<1>4. log \in Seq(Authors) /\ AloneOrNot(call[c].kind, log) BY MayEnd
<1> DEFINE avenues == Avenues(call[c].kind)
<1>5. CASE Position(c) = Len(avenues)
  <2>1. PICK result \in {"no capacity", "unavailable"} : EndCall(c, result)
    BY <1>5 DEF NextAvenue, NoneLeft
  <2>2. result \in Outcomes \ {"none"} /\ result # "answered" BY DEF Outcomes
  <2>3. lastNamed' \in [Contexts -> Authors \union {Nobody}] BY <1>1 DEF ChainTypeOK
  <2> QED BY <1>5, <2>1, <2>2, <2>3, EndKeeps
<1>6. CASE Position(c) # Len(avenues)
  <2>1. call' = [call EXCEPT ![c].place = avenues[Position(c) + 1], ![c].attempt = 0]
        /\ outcome' = outcome
    BY <1>6 DEF NextAvenue
  <2>2. ~Free(call[c].kind) BY <1>2, <1>3, <1>6, WaitingIs, PositionIs
  <2>3. /\ Len(avenues) = deployment.keys + IF call[c].kind = "text" /\ deployment.gemini THEN 1 ELSE 0
        /\ \A i \in 1 .. deployment.keys : avenues[i] = <<"openai", i>>
        /\ call[c].kind = "text" /\ deployment.gemini => avenues[deployment.keys + 1] = <<"gemini", 1>>
    BY <1>2, <1>3, <2>2, AvenuesAre
  <2>4. /\ call[c].kind = "text" /\ deployment.gemini => Len(avenues) = deployment.keys + 1
        /\ ~(call[c].kind = "text" /\ deployment.gemini) => Len(avenues) = deployment.keys
    BY <1>3, <2>3
  <2> HIDE DEF avenues
  <2>5. PICK k \in 1 .. deployment.keys : call[c].place = <<"openai", k>>
    <3>1. ASSUME call[c].place = <<"gemini", 1>>, call[c].kind = "text", deployment.gemini PROVE FALSE
      <4>1. Position(c) = deployment.keys + 1 BY <1>2, <1>3, <2>2, <3>1, PositionIs
      <4> QED BY <1>6, <2>4, <3>1, <4>1 DEF avenues
    <3> QED BY <2>2, <3>1, WaitingIs
  <2>6. Position(c) = k BY <1>2, <1>3, <2>2, <2>5, PositionIs
  <2>7. /\ CountIn(log, "gemini") = 0 /\ k <= CountIn(log, "openai")
        /\ CountIn(log, "openai") <= ((k + 1) - 1) * (Again(call[c].kind) + 1)
        /\ CountIn(log, "openai") <= k * (Again(call[c].kind) + 1)
    BY <2>2, <2>5, KeyAsked
  <2>8. Again(call[c].kind) \in Nat /\ CountIn(log, "openai") \in Nat
    BY <1>3, <1>4, LogCount DEF Again
  <2>9. CASE k < deployment.keys
    <3> DEFINE next == k + 1
               bound == ((k + 1) - 1) * (Again(call[c].kind) + 1)
    <3>1. next \in 1 .. deployment.keys /\ next \in Nat /\ next - 1 <= CountIn(log, "openai")
      BY <1>3, <2>7, <2>8, <2>9
    <3>2. bound \in Int /\ CountIn(log, "openai") <= bound BY <2>7, <2>8
    <3>3. bound = (next - 1) * (Again(call[c].kind) + 1) OBVIOUS
    <3>4. avenues[Position(c) + 1] = <<"openai", next>> BY <2>3, <2>6, <3>1
    <3> HIDE DEF next, bound
    <3>5. CountIn(log, "openai") <= (next - 1) * (Again(call[c].kind) + 1) + 0
      <4>1. (next - 1) * (Again(call[c].kind) + 1) + 0 = bound BY <3>2, <3>3
      <4> QED BY <3>2, <4>1
    <3> DEFINE place == <<"openai", next>>
    <3>6. place \in Places \ {NoPlace} /\ place[1] = "openai" /\ place[2] = next
      BY <3>1 DEF Places, NoPlace
    <3>7. avenues[Position(c) + 1] = place BY <3>4
    <3> HIDE DEF place
    <3>8. 0 <= Again(call[c].kind) /\ 0 \in Nat BY <2>8
    <3>9. TurnFits(call[c].kind, place, 0, log) BY <2>2, <2>7, <3>1, <3>5, <3>6, <3>8 DEF TurnFits
    <3>10. call' = [call EXCEPT ![c].place = place, ![c].attempt = 0] BY <2>1, <3>7
    <3> QED BY <1>4, <2>1, <3>6, <3>8, <3>9, <3>10, GoOnKeeps
  <2>10. CASE ~(k < deployment.keys)
    <3>1. k = deployment.keys BY <1>3, <2>10
    <3>2. call[c].kind = "text" /\ deployment.gemini BY <1>6, <2>4, <2>6, <3>1 DEF avenues
    <3> DEFINE place == <<"gemini", 1>>
    <3>3. avenues[Position(c) + 1] = place BY <2>3, <2>6, <3>1, <3>2
    <3>4. place \in Places \ {NoPlace} BY DEF Places, NoPlace
    <3>5. 0 <= Again(call[c].kind) /\ 0 \in Nat BY <2>8
    <3>6. TurnFits(call[c].kind, place, 0, log) BY <2>2, <2>7, <3>1, <3>2, <3>5 DEF TurnFits
    <3> HIDE DEF place
    <3>7. call' = [call EXCEPT ![c].place = place, ![c].attempt = 0] BY <2>1, <3>3
    <3> QED BY <1>4, <2>1, <3>4, <3>5, <3>6, <3>7, GoOnKeeps
  <2> QED BY <2>9, <2>10
<1> QED BY <1>5, <1>6

LEMMA SentIsAsked ==
  ASSUME ChainInv, NEW c \in Contexts, Waiting(c), ~Unsendable(call[c].place), Sent(c)
  PROVE  /\ WasAsked(c, Append(sentTo[c], NamedBy(c)))
         /\ sentTo' = [sentTo EXCEPT ![c] = Append(sentTo[c], NamedBy(c))]
BY DEF WasAsked, Sent

LEMMA SucceedKeeps == ASSUME ChainInv, NEW c \in Contexts, Succeed(c) PROVE ChainInv'
<1>1. ChainTypeOK BY DEF ChainInv
<1>2. /\ Waiting(c) /\ ~Unsendable(call[c].place) /\ Sent(c) /\ Remember(c) /\ EndCall(c, "answered")
      /\ deployment' = deployment /\ reported' = reported
  BY DEF Succeed
<1>3. NamedBy(c) \in Authors /\ sentTo[c] \in Seq(Authors) BY <1>1, <1>2, RowOf, NamedIsNamed
<1> DEFINE log == Append(sentTo[c], NamedBy(c))
<1>4. WasAsked(c, log) /\ sentTo' = [sentTo EXCEPT ![c] = log] BY <1>2, SentIsAsked
<1>5. log # <<>> /\ log[Len(log)] = NamedBy(c) BY <1>3, AppendProperties
<1>6. /\ lastNamed' \in [Contexts -> Authors \union {Nobody}]
      /\ \A d \in Contexts : d # c => lastNamed'[d] = lastNamed[d]
      /\ lastNamed'[c] = NamedBy(c)
  BY <1>1, <1>2, <1>3 DEF ChainTypeOK, Remember
<1> HIDE DEF log
<1>7. "answered" \in Outcomes \ {"none"} BY DEF Outcomes
<1> QED BY <1>2, <1>4, <1>5, <1>6, <1>7, EndKeeps

LEMMA SkipKeeps == ASSUME ChainInv, NEW c \in Contexts, SkipProvider(c) PROVE ChainInv'
<1>1. /\ Waiting(c) /\ Unsendable(call[c].place) /\ NextAvenue(c, "refused")
      /\ deployment' = deployment /\ reported' = reported /\ lastNamed' = lastNamed /\ sentTo' = sentTo
  BY DEF SkipProvider
<1>2. sentTo' = [sentTo EXCEPT ![c] = sentTo[c]] BY <1>1 DEF ChainInv, ChainTypeOK
<1>3. WasAsked(c, sentTo[c]) BY <1>1 DEF WasAsked
<1> QED BY <1>1, <1>2, <1>3, NextAvenueKeeps

LEMMA RetryKeeps ==
  ASSUME ChainInv, NEW c \in Contexts, NEW failure, ProviderFails(c, failure), TriedAgain(c, failure)
  PROVE  ChainInv'
<1>1. ChainTypeOK BY DEF ChainInv
<1>2. /\ Waiting(c) /\ ~Unsendable(call[c].place) /\ Sent(c)
      /\ call' = [call EXCEPT ![c].attempt = @ + 1] /\ outcome' = outcome
      /\ deployment' = deployment /\ reported' = reported /\ lastNamed' = lastNamed
  BY DEF ProviderFails
<1> DEFINE log == Append(sentTo[c], NamedBy(c))
           attempt == call[c].attempt + 1
           place == call[c].place
<1>3. WasAsked(c, log) /\ sentTo' = [sentTo EXCEPT ![c] = log] BY <1>2, SentIsAsked
<1>4. log \in Seq(Authors) /\ AloneOrNot(call[c].kind, log) BY <1>2, <1>3, MayEnd
<1>5. /\ call[c] \in CallRow /\ place \in Places \ {NoPlace} /\ call[c].attempt \in Nat
      /\ deployment.keys \in Nat /\ deployment.retries \in Nat
  BY <1>1, <1>2, RowOf DEF Waiting
<1>6. call[c].attempt < Retries(place, call[c].kind) BY DEF TriedAgain
<1>7. attempt \in Nat BY <1>5
<1>8. call' = [call EXCEPT ![c].place = place, ![c].attempt = attempt]
  <2>1. call \in [Contexts -> CallRow] BY <1>1 DEF ChainTypeOK, CallRow
  <2> QED BY <1>2, <2>1 DEF CallRow
<1>9. place[1] # "groq" /\ Retries(place, call[c].kind) = Again(call[c].kind)
  BY <1>5, <1>6 DEF Retries, Again
<1>10. attempt <= Again(call[c].kind) /\ Again(call[c].kind) \in Nat
  BY <1>5, <1>6, <1>9 DEF Again
<1>11. ~Free(call[c].kind) BY <1>2, <1>9, WaitingIs
<1>12. TurnFits(call[c].kind, place, attempt, log)
  <2>1. ASSUME NEW k \in 1 .. deployment.keys, place = <<"openai", k>>
        PROVE  TurnFits(call[c].kind, place, attempt, log)
    <3>1. /\ CountIn(log, "openai") = CountIn(sentTo[c], "openai") + 1 /\ CountIn(log, "gemini") = 0
          /\ k <= CountIn(log, "openai")
      BY <1>2, <1>3, <1>11, <2>1, KeyAsked
    <3>2. TurnFits(call[c].kind, place, call[c].attempt, sentTo[c]) BY <1>2, WaitingIs
    <3>3. place[1] = "openai" /\ place[2] = k /\ place # <<"gemini", 1>> BY <2>1
    <3>4. CountIn(sentTo[c], "openai") <= (k - 1) * (Again(call[c].kind) + 1) + call[c].attempt
      BY <1>11, <3>2, <3>3 DEF TurnFits
    <3>5. CountIn(sentTo[c], "openai") \in Nat /\ CountIn(log, "openai") \in Nat
      BY <1>1, <1>4, RowOf, LogCount
    <3> DEFINE before == (k - 1) * (Again(call[c].kind) + 1)
    <3>6. before \in Int BY <1>10
    <3>7. CountIn(sentTo[c], "openai") <= before + call[c].attempt BY <3>4
    <3>8. k - 1 <= CountIn(log, "openai") BY <1>5, <3>1, <3>5
    <3> HIDE DEF before
    <3>9. CountIn(log, "openai") <= before + attempt BY <1>5, <3>1, <3>5, <3>6, <3>7
    <3> HIDE DEF log, place, attempt
    <3> QED BY <1>10, <1>11, <3>1, <3>3, <3>8, <3>9 DEF TurnFits, before
  <2>2. ASSUME place = <<"gemini", 1>> PROVE TurnFits(call[c].kind, place, attempt, log)
    <3>1. /\ call[c].kind = "text" /\ deployment.gemini
          /\ deployment.keys <= CountIn(log, "openai")
          /\ CountIn(log, "openai") <= deployment.keys * (Again(call[c].kind) + 1)
          /\ CountIn(log, "gemini") <= call[c].attempt + 1
      BY <1>2, <1>3, <1>11, <2>2, GeminiAsked
    <3> QED BY <1>10, <1>11, <2>2, <3>1 DEF TurnFits
  <2> QED BY <1>2, <1>11, <2>1, <2>2, WaitingIs
<1> HIDE DEF log, attempt, place
<1> QED BY <1>2, <1>3, <1>4, <1>5, <1>7, <1>8, <1>12, GoOnKeeps

LEMMA FailsKeeps ==
  ASSUME ChainInv, NEW c \in Contexts, NEW failure, ProviderFails(c, failure) PROVE ChainInv'
<1>1. CASE TriedAgain(c, failure) BY <1>1, RetryKeeps
<1>2. CASE ~TriedAgain(c, failure)
  <2>1. /\ Waiting(c) /\ ~Unsendable(call[c].place) /\ Sent(c) /\ NextAvenue(c, failure)
        /\ deployment' = deployment /\ reported' = reported /\ lastNamed' = lastNamed
    BY <1>2 DEF ProviderFails
  <2> QED BY <2>1, SentIsAsked, NextAvenueKeeps
<1> QED BY <1>1, <1>2

LEMMA CallKeeps ==
  ASSUME ChainInv, NEW c \in Contexts, NEW kind \in {"text", "vision"}, CallProviders(c, kind)
  PROVE  ChainInv'
<1>1. ChainTypeOK BY DEF ChainInv
<1>2. /\ sentTo' = [sentTo EXCEPT ![c] = <<>>] /\ reported' = [reported EXCEPT ![c] = Nobody]
      /\ deployment' = deployment /\ lastNamed' = lastNamed
  BY DEF CallProviders
<1>3. deployment \in Deployments /\ deployment.keys \in Nat /\ deployment.retries \in Nat
      /\ deployment.gemini \in BOOLEAN
  BY <1>1, RowOf
<1>4. /\ reported' \in [Contexts -> Authors \union {Nobody}] /\ reported'[c] = Nobody
      /\ \A d \in Contexts : d # c => reported'[d] = reported[d]
      /\ lastNamed' \in [Contexts -> Authors \union {Nobody}]
  BY <1>1, <1>2 DEF ChainTypeOK
<1>5. <<>> \in Seq(Authors) /\ Of(<<>>, "groq") = {} /\ DOMAIN <<>> = {} /\ Len(<<>>) = 0
      /\ CountIn(<<>>, "openai") = 0 /\ CountIn(<<>>, "gemini") = 0
  BY LogEmpty
<1>6. AloneOrNot(kind, <<>>) BY <1>5 DEF AloneOrNot
<1>7. CASE Avenues(kind) = <<>>
  <2> DEFINE row == [NoCall EXCEPT !.kind = kind]
  <2>1. call' = [call EXCEPT ![c] = row] /\ outcome' = [outcome EXCEPT ![c] = "not configured"]
    BY <1>7 DEF CallProviders
  <2>2. row \in CallRow /\ row.place = NoPlace BY DEF CallRow, NoCall, Places
  <2>3. "not configured" \in Outcomes BY DEF Outcomes
  <2>4. 0 <= deployment.keys * (deployment.retries + 1) /\ 0 <= deployment.retries + 1 BY <1>3
  <2>5. EndFits(<<>>) BY <1>5, <2>4 DEF EndFits
  <2>6. row.kind = kind BY DEF NoCall
  <2> HIDE DEF row
  <2>7. CallFits(row.kind, row.place, row.attempt, "not configured", <<>>)
    BY <1>6, <2>2, <2>5, <2>6 DEF CallFits
  <2> QED BY <1>2, <1>4, <1>5, <2>1, <2>2, <2>3, <2>7, MoveKeeps
<1>8. CASE Avenues(kind) # <<>>
  <2> DEFINE place == Avenues(kind)[1]
             row == [kind |-> kind, place |-> place, attempt |-> 0]
  <2>1. call' = [call EXCEPT ![c] = row] /\ outcome' = [outcome EXCEPT ![c] = "none"]
    BY <1>8 DEF CallProviders
  <2>2. Again(kind) \in Nat BY <1>3 DEF Again
  <2>3. place \in Places \ {NoPlace} /\ TurnFits(kind, place, 0, <<>>)
    <3>1. CASE Free(kind)
      <4>1. place = <<"groq", 1>> BY <1>3, <3>1, AvenuesAre
      <4>2. <<"groq", 1>> \in Places \ {NoPlace} BY DEF Places, NoPlace
      <4> QED BY <3>1, <4>1, <4>2 DEF TurnFits
    <3>2. CASE ~Free(kind) /\ deployment.keys # 0
      <4>1. 1 \in 1 .. deployment.keys BY <1>3, <3>2
      <4>2. place = <<"openai", 1>> BY <1>3, <3>2, <4>1, AvenuesAre
      <4>3. place \in Places \ {NoPlace} /\ place[1] = "openai" /\ place[2] = 1
        BY <4>2 DEF Places, NoPlace
      <4>4. 1 - 1 <= 0 /\ 0 <= (1 - 1) * (Again(kind) + 1) + 0 /\ 0 <= Again(kind) BY <2>2
      <4> HIDE DEF place
      <4> QED BY <1>5, <3>2, <4>1, <4>3, <4>4 DEF TurnFits
    <3>3. CASE ~Free(kind) /\ deployment.keys = 0
      <4>1. /\ Avenues(kind) \in Seq(Places)
            /\ Len(Avenues(kind)) = deployment.keys + IF kind = "text" /\ deployment.gemini THEN 1 ELSE 0
            /\ kind = "text" /\ deployment.gemini => Avenues(kind)[deployment.keys + 1] = <<"gemini", 1>>
        BY <1>3, <3>3, AvenuesAre
      <4>2. Len(Avenues(kind)) # 0 BY <1>8, <4>1, EmptySeq
      <4>3. kind = "text" /\ deployment.gemini BY <3>3, <4>1, <4>2
      <4>4. place = <<"gemini", 1>> BY <3>3, <4>1, <4>3
      <4>5. <<"gemini", 1>> \in Places \ {NoPlace} BY DEF Places, NoPlace
      <4>6. 0 <= 0 * (Again(kind) + 1) /\ 0 <= Again(kind) BY <2>2
      <4> HIDE DEF place
      <4> QED BY <1>5, <3>3, <4>3, <4>4, <4>5, <4>6 DEF TurnFits
    <3> QED BY <3>1, <3>2, <3>3
  <2> HIDE DEF place
  <2>4. row \in CallRow /\ row.kind = kind /\ row.place = place /\ row.attempt = 0 BY <2>3 DEF CallRow
  <2>5. "none" \in Outcomes BY DEF Outcomes
  <2> HIDE DEF row
  <2>6. CallFits(row.kind, row.place, row.attempt, "none", <<>>)
    BY <1>6, <2>3, <2>4 DEF CallFits
  <2> QED BY <1>2, <1>4, <1>5, <2>1, <2>4, <2>5, <2>6, MoveKeeps
<1> QED BY <1>7, <1>8

LEMMA ReportKeeps == ASSUME ChainInv, NEW c \in Contexts, Report(c) PROVE ChainInv'
<1>1. ChainTypeOK BY DEF ChainInv
<1>2. /\ outcome[c] = "answered" /\ reported' = [reported EXCEPT ![c] = lastNamed[c]]
      /\ deployment' = deployment /\ call' = call /\ lastNamed' = lastNamed
      /\ outcome' = outcome /\ sentTo' = sentTo
  BY DEF Report
<1>3. ChainTypeOK' BY <1>1, <1>2 DEF ChainTypeOK
<1>4. ASSUME NEW d \in Contexts
      PROVE  /\ CallFits(call[d].kind, call[d].place, call[d].attempt, outcome[d], sentTo[d])'
             /\ AuthorFits(d)'
  <2>1. CallFits(call[d].kind, call[d].place, call[d].attempt, outcome[d], sentTo[d]) /\ AuthorFits(d)
    BY DEF ChainInv
  <2>2. AuthorFits(d)' BY <1>1, <1>2, <2>1 DEF AuthorFits, ChainTypeOK
  <2> QED BY <1>2, <2>1, <2>2 DEF CallFits, TurnFits, EndFits, AllAsked, AloneOrNot, Free, Again
<1> QED BY <1>3, <1>4 DEF ChainInv

LEMMA ChainInvNext == ASSUME ChainInv, [ChainNext]_chainVars PROVE ChainInv'
<1>1. CASE ChainNext
  <2>1. PICK c \in Contexts :
          \/ \E kind \in {"text", "vision"} : CallProviders(c, kind)
          \/ Succeed(c) \/ SkipProvider(c) \/ Report(c)
          \/ \E failure \in {"passing", "refused", "quota"} : ProviderFails(c, failure)
    BY <1>1 DEF ChainNext
  <2> QED BY <2>1, CallKeeps, SucceedKeeps, SkipKeeps, ReportKeeps, FailsKeeps
<1>2. CASE UNCHANGED chainVars
  <2>1. ChainTypeOK' BY <1>2 DEF ChainInv, ChainTypeOK, chainVars
  <2>2. ASSUME NEW d \in Contexts
        PROVE  /\ CallFits(call[d].kind, call[d].place, call[d].attempt, outcome[d], sentTo[d])'
               /\ AuthorFits(d)'
    <3>1. CallFits(call[d].kind, call[d].place, call[d].attempt, outcome[d], sentTo[d]) /\ AuthorFits(d)
      BY DEF ChainInv
    <3>2. AuthorFits(d)' BY <1>2, <3>1 DEF AuthorFits, chainVars
    <3> QED BY <1>2, <3>1, <3>2 DEF chainVars, CallFits, TurnFits, EndFits, AllAsked, AloneOrNot, Free, Again
  <2> QED BY <2>1, <2>2 DEF ChainInv
<1> QED BY <1>1, <1>2

LEMMA CountsBounded ==
  ASSUME ChainInv, NEW c \in Contexts
  PROVE  EndFits(sentTo[c])
<1>1. ChainTypeOK BY DEF ChainInv
<1>2. CASE ~Waiting(c) BY <1>2 DEF ChainInv, CallFits, Waiting
<1>3. CASE Waiting(c)
  <2>1. TurnFits(call[c].kind, call[c].place, call[c].attempt, sentTo[c]) BY <1>3, WaitingIs
  <2>2. /\ deployment.keys \in Nat /\ deployment.retries \in Nat /\ sentTo[c] \in Seq(Authors)
        /\ call[c].attempt \in Nat
    BY <1>1, RowOf
  <2>3. Again(call[c].kind) \in Nat /\ Again(call[c].kind) <= deployment.retries BY <2>2 DEF Again
  <2>4. 0 <= deployment.keys * (deployment.retries + 1) /\ 0 <= deployment.retries + 1 BY <2>2
  <2>5. CASE Free(call[c].kind) BY <2>1, <2>4, <2>5, LogEmpty DEF TurnFits, EndFits
  <2>6. CASE ~Free(call[c].kind) /\ call[c].place[1] = "openai"
    <3>1. call[c].place # <<"gemini", 1>> BY <2>6
    <3> DEFINE k == call[c].place[2]
               x == CountIn(sentTo[c], "openai")
               again == Again(call[c].kind)
    <3>2. /\ k \in 1 .. deployment.keys /\ call[c].attempt <= again
          /\ x <= (k - 1) * (again + 1) + call[c].attempt
          /\ CountIn(sentTo[c], "gemini") = 0
      BY <2>1, <2>6, <3>1 DEF TurnFits
    <3>3. x \in Nat BY <2>2, LogCount
    <3>4. again \in Nat /\ again <= deployment.retries BY <2>3
    <3> HIDE DEF k, x, again
    <3>5. x <= deployment.keys * (deployment.retries + 1) BY <2>2, <3>2, <3>3, <3>4, OneMore
    <3> QED BY <2>4, <3>2, <3>5 DEF EndFits, x
  <2>7. CASE ~Free(call[c].kind) /\ call[c].place[1] # "openai"
    <3>1. /\ call[c].kind = "text" /\ call[c].attempt <= Again(call[c].kind)
          /\ CountIn(sentTo[c], "openai") <= deployment.keys * (Again(call[c].kind) + 1)
          /\ CountIn(sentTo[c], "gemini") <= call[c].attempt
      BY <2>1, <2>7 DEF TurnFits
    <3>2. Again(call[c].kind) = deployment.retries BY <3>1 DEF Again
    <3>3. CountIn(sentTo[c], "gemini") \in Nat BY <2>2, LogCount
    <3>4. CountIn(sentTo[c], "gemini") <= deployment.retries + 1 BY <2>2, <3>1, <3>2, <3>3
    <3> QED BY <3>1, <3>2, <3>4 DEF EndFits
  <2> QED BY <2>5, <2>6, <2>7
<1> QED BY <1>2, <1>3

LEMMA SentByIs ==
  ASSUME NEW c, NEW provider
  PROVE  SentBy(c, provider) = Of(sentTo[c], provider) /\ TimesSent(c, provider) = CountIn(sentTo[c], provider)
BY DEF SentBy, Of, TimesSent, CountIn

LEMMA ChainInvInTurn == ASSUME ChainInv PROVE ProvidersInTurn
<1>1. ChainTypeOK BY DEF ChainInv
<1>2. NamedIsAuthor BY DEF ChainInv, AuthorFits, NamedIsAuthor
<1>3. FreeStaysFree
  <2> SUFFICES ASSUME NEW c \in Contexts, Waiting(c) \/ outcome[c] # "none"
               PROVE  IF Free(call[c].kind) THEN Len(sentTo[c]) <= 1 /\ SentBy(c, "groq") = DOMAIN sentTo[c]
                      ELSE SentBy(c, "groq") = {}
    BY DEF FreeStaysFree
  <2>1. AloneOrNot(call[c].kind, sentTo[c]) BY DEF ChainInv, CallFits, Waiting
  <2> QED BY <2>1, SentByIs DEF AloneOrNot
<1>4. EachHadItsTurn
  <2> SUFFICES ASSUME NEW c \in Contexts
               PROVE  /\ TimesSent(c, "openai") <= deployment.keys * (deployment.retries + 1)
                      /\ TimesSent(c, "gemini") <= deployment.retries + 1
                      /\ outcome[c] = "unavailable" =>
                           \A i \in DOMAIN Avenues(call[c].kind) :
                             LET place == Avenues(call[c].kind)[i] IN
                             Unsendable(place) \/ TimesSent(c, place[1]) >= place[2]
    BY DEF EachHadItsTurn
  <2>1. EndFits(sentTo[c]) BY CountsBounded
  <2>2. ASSUME outcome[c] = "unavailable", NEW i \in DOMAIN Avenues(call[c].kind)
        PROVE  LET place == Avenues(call[c].kind)[i] IN
               Unsendable(place) \/ TimesSent(c, place[1]) >= place[2]
    <3>1. call[c].kind \in {"text", "vision"} /\ AllAsked(call[c].kind, sentTo[c])
      BY <2>2 DEF ChainInv, CallFits
    <3>2. /\ deployment \in Deployments /\ deployment.keys \in Nat /\ deployment.gemini \in BOOLEAN
          /\ sentTo[c] \in Seq(Authors)
      BY <1>1, RowOf
    <3> DEFINE place == Avenues(call[c].kind)[i]
    <3>3. CASE Free(call[c].kind)
      <4>1. Avenues(call[c].kind) = <<<<"groq", 1>>>> BY <3>1, <3>2, <3>3, AvenuesAre
      <4>2. place = <<"groq", 1>> BY <2>2, <4>1
      <4> HIDE DEF place
      <4>3. place[1] = "groq" /\ place[2] = 1 BY <4>2
      <4>4. Unsendable(place) \/ TimesSent(c, place[1]) >= place[2]
        BY <3>1, <3>3, <4>3, SentByIs DEF AllAsked, Unsendable
      <4> QED BY <4>4 DEF place
    <3>4. CASE ~Free(call[c].kind)
      <4> DEFINE all == deployment.keys + IF call[c].kind = "text" /\ deployment.gemini THEN 1 ELSE 0
      <4>1. /\ DOMAIN Avenues(call[c].kind) = 1 .. all
            /\ \A j \in 1 .. deployment.keys : Avenues(call[c].kind)[j] = <<"openai", j>>
            /\ call[c].kind = "text" /\ deployment.gemini =>
                 Avenues(call[c].kind)[deployment.keys + 1] = <<"gemini", 1>>
        BY <3>1, <3>2, <3>4, AvenuesAre
      <4>2. i \in 1 .. deployment.keys
            \/ (i = deployment.keys + 1 /\ call[c].kind = "text" /\ deployment.gemini)
        <5>1. CASE call[c].kind = "text" /\ deployment.gemini
          <6>1. all = deployment.keys + 1 BY <5>1
          <6> HIDE DEF all
          <6> QED BY <2>2, <3>2, <4>1, <5>1, <6>1
        <5>2. CASE ~(call[c].kind = "text" /\ deployment.gemini)
          <6>1. all = deployment.keys + 0 BY <5>2
          <6> HIDE DEF all
          <6> QED BY <2>2, <3>2, <4>1, <6>1
        <5> QED BY <5>1, <5>2
      <4>3. CASE i \in 1 .. deployment.keys
        <5>1. place = <<"openai", i>> BY <4>1, <4>3
        <5> HIDE DEF place
        <5>2. place[1] = "openai" /\ place[2] = i BY <5>1
        <5>3. deployment.keys <= CountIn(sentTo[c], "openai") /\ CountIn(sentTo[c], "openai") \in Nat
          BY <3>1, <3>2, <3>4, LogCount DEF AllAsked
        <5>4. CountIn(sentTo[c], "openai") >= i BY <3>2, <4>3, <5>3
        <5>5. TimesSent(c, place[1]) >= place[2] BY <5>2, <5>4, SentByIs
        <5> QED BY <5>5 DEF place
      <4>4. CASE i = deployment.keys + 1 /\ call[c].kind = "text" /\ deployment.gemini
        <5>1. place = <<"gemini", 1>> BY <4>1, <4>4
        <5> HIDE DEF place
        <5>2. place[1] = "gemini" /\ place[2] = 1 BY <5>1
        <5>3. ~deployment.sdk \/ 1 <= CountIn(sentTo[c], "gemini") BY <3>1, <3>4, <4>4 DEF AllAsked
        <5>4. CountIn(sentTo[c], "gemini") \in Nat BY <3>2, LogCount
        <5>5. Unsendable(place) \/ TimesSent(c, place[1]) >= place[2]
          BY <5>2, <5>3, <5>4, SentByIs DEF Unsendable
        <5> QED BY <5>5 DEF place
      <4> QED BY <4>2, <4>3, <4>4
    <3> QED BY <3>3, <3>4
  <2> QED BY <2>1, <2>2, SentByIs DEF EndFits
<1> QED BY <1>2, <1>3, <1>4 DEF ProvidersInTurn

\* However many callers wait at the same time, whatever is configured and whichever requests
\* fail: the author of a text is the one that is told, the free provider has nobody beside
\* it, no provider is asked more than its attempts and none is left out of a failure.
THEOREM ChainInTurn == ChainSpec => []ProvidersInTurn
<1>1. ChainInv => ProvidersInTurn BY ChainInvInTurn
<1> QED BY <1>1, ChainInvInit, ChainInvNext, PTL DEF ChainSpec
-----------------------------------------------------------------------------
(* Rate limits.  Each admission is known by what it wrote in the row: the    *)
(* window it was counted in and its number there.                            *)

\* Nobody waits longer than MaxWait, the row is of the past, and it stays once it is there.
WaitsBounded ==
  /\ \A c \in Callers :
        /\ caller[c].at # "away" =>
             caller[c].sample <= clock /\ clock <= caller[c].sample + MaxWait
        /\ caller[c].at = "counting" => bucket.count > 0
  /\ bucket.start <= clock

\* Windows do not meet, and no number of one is given twice.
WindowsApart ==
  /\ IsFiniteSet(admissions)
  /\ bucket.count = 0 => admissions = {}
  /\ \A a \in admissions :
        /\ a.count \in 1 .. Limit
        /\ a.start <= a.at /\ a.at + 1 <= a.start + WindowLength + MaxWait
        /\ a.count = 1 => a.at <= a.start + MaxWait
        /\ a.start <= bucket.start
        /\ a.start = bucket.start => a.count <= bucket.count
        /\ a.start < bucket.start => a.start + WindowLength <= bucket.start
  /\ \A a, b \in admissions :
        /\ a.start = b.start /\ a.count = b.count => a = b
        /\ a.start < b.start => a.start + WindowLength <= b.start

LimitsInv == LimitsTypeOK /\ WaitsBounded /\ WindowsApart

LEMMA LimitsInvInit == LimitsInit => LimitsInv
  BY RateLimitsAssumption, FS_EmptySet
     DEF LimitsInit, LimitsInv, LimitsTypeOK, WaitsBounded, WindowsApart, NoBucket

\* A request that is counted writes the next number of its window, or the first of a new one.
LEMMA CountedKeepsWindows ==
  ASSUME LimitsInv, NEW s \in Nat, NEW c \in Callers,
         s <= clock, clock <= s + MaxWait,
         NEW new \in [start : 0 .. LastTick, count : Nat, blockedUntil : 0 .. LastTick + BlockLength],
         NEW n \in Nat, bucket' = new, new.count > 0, new.count <= Limit, clock' = clock,
         \/ admissions = {} /\ new.start = s /\ new.count = 1
         \/ s >= bucket.start + WindowLength /\ new.start = s /\ new.count = 1
         \/ /\ s < bucket.start + WindowLength /\ bucket.count > 0
            /\ new.start = bucket.start /\ new.count = bucket.count + 1,
         admissions' = admissions \union {[nth |-> n, at |-> clock, start |-> new.start,
                                           count |-> new.count]}
  PROVE  WindowsApart'
  <1> DEFINE e == [nth |-> n, at |-> clock, start |-> new.start, count |-> new.count]
  <1>1. e.at = clock /\ e.start = new.start /\ e.count = new.count /\ admissions' = admissions \union {e}
    OBVIOUS
  <1>2. /\ clock \in Nat /\ bucket.start \in Nat /\ bucket.count \in Nat /\ new.start \in Nat
        /\ new.count \in Nat /\ WindowLength \in Nat \ {0} /\ MaxWait \in Nat /\ Limit \in Nat
    BY RateLimitsAssumption DEF LimitsInv, LimitsTypeOK
  <1>3. \A a \in admissions : a.at \in Nat /\ a.start \in Nat /\ a.count \in Nat
    BY DEF LimitsInv, LimitsTypeOK
  <1> HIDE DEF e
  <1>4. /\ e.count \in 1 .. Limit /\ e.start <= e.at
        /\ e.at + 1 <= e.start + WindowLength + MaxWait
        /\ e.count = 1 => e.at <= e.start + MaxWait
    BY <1>1, <1>2 DEF LimitsInv, WaitsBounded
  <1>5. \A a \in admissions :
          /\ a.count \in 1 .. Limit
          /\ a.start <= a.at /\ a.at + 1 <= a.start + WindowLength + MaxWait
          /\ a.count = 1 => a.at <= a.start + MaxWait
          /\ a.start <= e.start
          /\ a.start = e.start => a.count < e.count
          /\ a.start < e.start => a.start + WindowLength <= e.start
    <2> SUFFICES ASSUME NEW a \in admissions
                 PROVE  /\ a.count \in 1 .. Limit
                        /\ a.start <= a.at /\ a.at + 1 <= a.start + WindowLength + MaxWait
                        /\ a.count = 1 => a.at <= a.start + MaxWait
                        /\ a.start <= e.start
                        /\ a.start = e.start => a.count < e.count
                        /\ a.start < e.start => a.start + WindowLength <= e.start
      OBVIOUS
    <2>1. /\ a.count \in 1 .. Limit
          /\ a.start <= a.at /\ a.at + 1 <= a.start + WindowLength + MaxWait
          /\ a.count = 1 => a.at <= a.start + MaxWait
          /\ a.start <= bucket.start
          /\ a.start = bucket.start => a.count <= bucket.count
          /\ a.start < bucket.start => a.start + WindowLength <= bucket.start
      BY DEF LimitsInv, WindowsApart
    <2>. QED
      BY <1>1, <1>2, <1>3, <2>1
  <1>6. \A a, b \in admissions :
          /\ a.start = b.start /\ a.count = b.count => a = b
          /\ a.start < b.start => a.start + WindowLength <= b.start
    BY DEF LimitsInv, WindowsApart
  <1>7. \A a \in admissions' : a \in admissions \/ a = e
    BY <1>1
  <1>8. \A a \in admissions' :
          /\ a.count \in 1 .. Limit
          /\ a.start <= a.at /\ a.at + 1 <= a.start + WindowLength + MaxWait
          /\ a.count = 1 => a.at <= a.start + MaxWait
          /\ a.start <= new.start
          /\ a.start = new.start => a.count <= new.count
          /\ a.start < new.start => a.start + WindowLength <= new.start
    BY <1>1, <1>2, <1>3, <1>4, <1>5, <1>7
  <1>9. \A a, b \in admissions' :
          /\ a.start = b.start /\ a.count = b.count => a = b
          /\ a.start < b.start => a.start + WindowLength <= b.start
    <2> SUFFICES ASSUME NEW a \in admissions', NEW b \in admissions'
                 PROVE  /\ a.start = b.start /\ a.count = b.count => a = b
                        /\ a.start < b.start => a.start + WindowLength <= b.start
      OBVIOUS
    <2>1. CASE a \in admissions /\ b \in admissions
      BY <1>6, <2>1
    <2>2. CASE a \in admissions /\ b = e
      BY <1>1, <1>2, <1>3, <1>5, <2>2
    <2>3. CASE a = e /\ b \in admissions
      BY <1>1, <1>2, <1>3, <1>5, <2>3
    <2>4. CASE a = e /\ b = e
      BY <1>1, <1>2, <2>4
    <2>. QED
      BY <1>7, <2>1, <2>2, <2>3, <2>4
  <1>10. IsFiniteSet(admissions')
    BY <1>1, FS_AddElement DEF LimitsInv, WindowsApart
  <1>. QED
    BY <1>2, <1>8, <1>9, <1>10 DEF WindowsApart

LEMMA LimitsStepKeeps ==
  ASSUME LimitsInv, [LimitsNext]_limitsVars
  PROVE  LimitsInv'
  <1> USE RateLimitsAssumption
  <1>1. CASE UNCHANGED limitsVars
    BY <1>1 DEF limitsVars, LimitsInv, LimitsTypeOK, WaitsBounded, WindowsApart
  <1>2. ASSUME NEW c \in Callers, Arrive(c) \/ Refuse(c) \/ FindNone(c)
        PROVE  LimitsInv'
    <2>1. UNCHANGED <<clock, bucket, admissions>>
      BY <1>2 DEF Arrive, Refuse, FindNone, Refuses
    <2>2. LimitsTypeOK'
      BY <1>2, <2>1 DEF LimitsInv, LimitsTypeOK, Arrive, Refuse, FindNone, Refuses, Moves, Leaves
    <2>3. WaitsBounded'
      BY <1>2, <2>1 DEF LimitsInv, LimitsTypeOK, WaitsBounded, Arrive, Refuse, FindNone, Refuses, Moves, Leaves
    <2>. QED
      BY <2>1, <2>2, <2>3 DEF LimitsInv, WindowsApart
  <1>3. ASSUME NEW c \in Callers, Insert(c)
        PROVE  LimitsInv'
    <2>1. CASE bucket.count # 0
      <3>1. UNCHANGED <<clock, bucket, admissions>> /\ caller' = [caller EXCEPT ![c].at = "counting"]
        BY <1>3, <2>1 DEF Insert, Moves
      <3>2. LimitsTypeOK' /\ WaitsBounded'
        BY <1>3, <3>1 DEF Insert, LimitsInv, LimitsTypeOK, WaitsBounded
      <3>. QED
        BY <3>1, <3>2 DEF LimitsInv, WindowsApart
    <2>2. CASE bucket.count = 0
      <3> DEFINE s == caller[c].sample
                 new == [start |-> s, count |-> 1, blockedUntil |-> 0]
                 n == Cardinality(admissions) + 1
      <3>0. n \in Nat
        BY FS_CardinalityType DEF LimitsInv, WindowsApart
      <3>1. /\ bucket' = new /\ clock' = clock
            /\ admissions' = admissions \union {[nth |-> n, at |-> clock, start |-> new.start,
                                                 count |-> new.count]}
            /\ caller' = [caller EXCEPT ![c] = [at |-> "away", sample |-> 0]]
        BY <1>3, <2>2 DEF Insert, Admits, Leaves
      <3>2. s \in 0 .. LastTick /\ s <= clock /\ clock <= s + MaxWait
        BY <1>3 DEF Insert, LimitsInv, LimitsTypeOK, WaitsBounded
      <3>3. /\ new \in [start : 0 .. LastTick, count : Nat, blockedUntil : 0 .. LastTick + BlockLength]
            /\ new.start = s /\ new.count = 1 /\ admissions = {}
        BY <2>2, <3>2 DEF LimitsInv, WindowsApart
      <3>4. LimitsTypeOK' /\ WaitsBounded'
        <4>1. caller' \in [Callers -> [at : {"away", "waiting", "inserting", "counting"},
                                       sample : 0 .. LastTick]]
          BY <3>1 DEF LimitsInv, LimitsTypeOK
        <4> HIDE DEF n
        <4>2. admissions' \subseteq [nth : Nat, at : 0 .. LastTick, start : 0 .. LastTick, count : Nat]
          BY <3>0, <3>1, <3>2, <3>3 DEF LimitsInv, LimitsTypeOK
        <4>3. LimitsTypeOK'
          BY <3>1, <3>3, <4>1, <4>2 DEF LimitsInv, LimitsTypeOK
        <4>4. WaitsBounded'
          BY <3>1, <3>2, <3>3 DEF LimitsInv, LimitsTypeOK, WaitsBounded
        <4>. QED
          BY <4>3, <4>4
      <3> HIDE DEF s, new, n
      <3>5. WindowsApart'
        BY <3>0, <3>1, <3>2, <3>3, CountedKeepsWindows
      <3>. QED
        BY <3>4, <3>5 DEF LimitsInv
    <2>. QED
      BY <2>1, <2>2
  <1>4. ASSUME NEW c \in Callers, Count(c)
        PROVE  LimitsInv'
    <2> DEFINE s == caller[c].sample
               fresh == [start |-> s, count |-> 1, blockedUntil |-> 0]
               next == [bucket EXCEPT !.count = bucket.count + 1]
               full == [bucket EXCEPT !.count = bucket.count + 1, !.blockedUntil = s + BlockLength]
               nth == Cardinality(admissions) + 1
    <2>0. nth \in Nat
      BY FS_CardinalityType DEF LimitsInv, WindowsApart
    <2> HIDE DEF nth
    <2>1. /\ s \in 0 .. LastTick /\ s <= clock /\ clock <= s + MaxWait
          /\ clock' = clock /\ caller' = [caller EXCEPT ![c] = [at |-> "away", sample |-> 0]]
      BY <1>4 DEF Count, Admits, Refuses, Leaves, LimitsInv, LimitsTypeOK, WaitsBounded
    <2>2. caller' \in [Callers -> [at : {"away", "waiting", "inserting", "counting"},
                                   sample : 0 .. LastTick]]
      BY <2>1 DEF LimitsInv, LimitsTypeOK
    <2>c. bucket.count > 0
      BY <1>4 DEF Count, LimitsInv, WaitsBounded
    <2>3. \A v \in Callers : caller'[v].at # "away" => caller'[v] = caller[v]
      BY <2>1 DEF LimitsInv, LimitsTypeOK
    <2>4. ASSUME NEW new, bucket' = new,
                 \/ new = fresh /\ s >= bucket.start + WindowLength
                 \/ /\ new = next /\ s < bucket.start + WindowLength
                    /\ bucket.count + 1 <= Limit,
                 admissions' = admissions \union {[nth |-> nth, at |-> clock, start |-> new.start,
                                                   count |-> new.count]}
          PROVE  LimitsInv'
      <3>1. new \in [start : 0 .. LastTick, count : Nat, blockedUntil : 0 .. LastTick + BlockLength]
        BY <2>1, <2>4 DEF LimitsInv, LimitsTypeOK
      <3>2. \/ s >= bucket.start + WindowLength /\ new.start = s /\ new.count = 1
            \/ /\ s < bucket.start + WindowLength /\ bucket.count > 0
               /\ new.start = bucket.start /\ new.count = bucket.count + 1
        BY <2>c, <2>4 DEF LimitsInv, LimitsTypeOK
      <3>3. new.count > 0 /\ new.count <= Limit /\ new.start <= clock
        BY <2>1, <2>4 DEF LimitsInv, LimitsTypeOK, WaitsBounded
      <3>4. LimitsTypeOK' /\ WaitsBounded'
        <4>1. admissions' \subseteq [nth : Nat, at : 0 .. LastTick, start : 0 .. LastTick, count : Nat]
          BY <2>0, <2>4, <3>1 DEF LimitsInv, LimitsTypeOK
        <4>2. LimitsTypeOK'
          BY <2>1, <2>2, <2>4, <3>1, <4>1 DEF LimitsInv, LimitsTypeOK
        <4>3. WaitsBounded'
          BY <2>1, <2>3, <2>4, <3>3 DEF LimitsInv, WaitsBounded
        <4>. QED
          BY <4>2, <4>3
      <3> HIDE DEF s, fresh, next
      <3>5. s \in Nat
        BY <2>1
      <3>6. WindowsApart'
        BY <2>0, <2>1, <2>4, <3>1, <3>2, <3>3, <3>5, CountedKeepsWindows
      <3>. QED
        BY <3>4, <3>6 DEF LimitsInv
    <2>5. CASE bucket' = full /\ admissions' = admissions
      <3>1. full.start = bucket.start /\ full.count = bucket.count + 1
        BY DEF LimitsInv, LimitsTypeOK
      <3>2. LimitsTypeOK'
        <4>1. s + BlockLength \in 0 .. LastTick + BlockLength
          BY <2>1
        <4>2. bucket \in [start : 0 .. LastTick, count : Nat, blockedUntil : 0 .. LastTick + BlockLength]
              /\ bucket.count + 1 \in Nat
          BY DEF LimitsInv, LimitsTypeOK
        <4> DEFINE until == s + BlockLength
                   n == bucket.count + 1
        <4>3. until \in 0 .. LastTick + BlockLength /\ n \in Nat
          BY <4>1, <4>2
        <4> HIDE DEF until, n
        <4>4. [bucket EXCEPT !.count = n, !.blockedUntil = until]
                \in [start : 0 .. LastTick, count : Nat, blockedUntil : 0 .. LastTick + BlockLength]
          BY <4>2, <4>3
        <4>5. full \in [start : 0 .. LastTick, count : Nat, blockedUntil : 0 .. LastTick + BlockLength]
          BY <4>4 DEF until, n
        <4> HIDE DEF full, s
        <4>. QED
          BY <2>1, <2>2, <2>5, <4>5 DEF LimitsInv, LimitsTypeOK
      <3>4. bucket.count \in Nat /\ \A a \in admissions : a.count \in Nat
        BY DEF LimitsInv, LimitsTypeOK
      <3> HIDE DEF full, s
      <3>0. bucket'.start = bucket.start /\ bucket'.count > 0
        BY <2>5, <3>1, <3>4
      <3>3. WaitsBounded'
        BY <2>1, <2>3, <3>0 DEF LimitsInv, WaitsBounded
      <3>5. WindowsApart'
        BY <2>5, <3>1, <3>4 DEF LimitsInv, WindowsApart
      <3>. QED
        BY <3>2, <3>3, <3>5 DEF LimitsInv
    <2>6. CASE s >= bucket.start + WindowLength
      <3>1. /\ bucket' = fresh
            /\ admissions' = admissions \union {[nth |-> nth, at |-> clock, start |-> fresh.start,
                                                 count |-> fresh.count]}
        BY <1>4, <2>6 DEF Count, Admits, nth
      <3> HIDE DEF s, fresh, next
      <3>. QED
        BY <2>4, <2>6, <3>1
    <2>7. CASE ~(s >= bucket.start + WindowLength) /\ ~(bucket.count + 1 > Limit)
      <3>1. /\ bucket' = next
            /\ admissions' = admissions \union {[nth |-> nth, at |-> clock, start |-> next.start,
                                                 count |-> next.count]}
        BY <1>4, <2>7 DEF Count, Admits, nth
      <3>2. s < bucket.start + WindowLength /\ bucket.count + 1 <= Limit
        BY <2>1, <2>7 DEF LimitsInv, LimitsTypeOK
      <3> HIDE DEF s, fresh, next
      <3>. QED
        BY <2>4, <3>1, <3>2
    <2>8. CASE ~(s >= bucket.start + WindowLength) /\ bucket.count + 1 > Limit
      BY <1>4, <2>5, <2>8 DEF Count, Refuses
    <2>. QED
      BY <2>6, <2>7, <2>8
  <1>5. CASE Pass
    <2>1. LimitsTypeOK'
      BY <1>5 DEF Pass, LimitsInv, LimitsTypeOK
    <2>2. WaitsBounded'
      BY <1>5 DEF Pass, LimitsInv, LimitsTypeOK, WaitsBounded
    <2>. QED
      BY <1>5, <2>1, <2>2 DEF Pass, LimitsInv, WindowsApart
  <1>. QED
    BY <1>1, <1>2, <1>3, <1>4, <1>5 DEF LimitsNext

(* Whatever falls into a stretch of time as long as a window was counted in  *)
(* one of three windows: the first two began before it, and of each at most  *)
(* Limit were let through.  The first request of the first of three is not   *)
(* among them: it waited for no longer than a window.                        *)
LEMMA ThreeWindows ==
  ASSUME LimitsInv, NEW t \in Nat
  PROVE  AdmittedIn(t, t + WindowLength - 1) < 3 * Limit
  <1> DEFINE seen == {a \in admissions : a.at \in t .. t + WindowLength - 1}
             turn(a) == IF a.start + WindowLength < t + 1 THEN 0 ELSE IF a.start <= t THEN 1 ELSE 2
             places == (0 .. 2) \X (1 .. Limit)
             place == [a \in seen |-> <<turn(a), a.count>>]
  <1>1. WindowLength \in Nat \ {0} /\ MaxWait \in Nat /\ MaxWait <= WindowLength /\ Limit \in Nat \ {0}
    BY RateLimitsAssumption
  <1>2. \A a \in seen : /\ a.at \in Nat /\ a.start \in Nat /\ a.count \in 1 .. Limit
                        /\ t <= a.at /\ a.at <= t + WindowLength - 1
                        /\ a.start <= a.at /\ a.at + 1 <= a.start + WindowLength + MaxWait
                        /\ a.count = 1 => a.at <= a.start + MaxWait
    BY <1>1 DEF LimitsInv, LimitsTypeOK, WindowsApart
  <1>3. \A a, b \in seen : turn(a) = turn(b) /\ a.start < b.start => b.start < a.start + WindowLength
    BY <1>1, <1>2
  <1>4. \A a, b \in seen : /\ a.start < b.start => a.start + WindowLength <= b.start
                           /\ a.start = b.start /\ a.count = b.count => a = b
    BY DEF LimitsInv, WindowsApart
  <1>5. \A a, b \in seen : turn(a) = turn(b) => a.start = b.start
    BY <1>1, <1>2, <1>3, <1>4
  <1>6. \A a \in seen : turn(a) \in 0 .. 2
    OBVIOUS
  <1>6a. ASSUME NEW a \in seen, NEW b \in seen, NEW c \in seen,
                turn(a) = 0, turn(b) = 1, turn(c) = 2, a.count = 1
         PROVE  FALSE
    <2>1. a.start + WindowLength <= t /\ b.start + WindowLength > t /\ b.start <= t /\ c.start > t
      BY <1>1, <1>2, <1>6a
    <2>2. a.start + WindowLength <= b.start /\ b.start + WindowLength <= c.start
      BY <1>1, <1>2, <1>4, <2>1
    <2>3. c.start <= t + WindowLength - 1 /\ t <= a.start + MaxWait
      BY <1>1, <1>2, <1>6a
    <2> QED BY <1>1, <1>2, <2>1, <2>2, <2>3
  <1> HIDE DEF turn
  <1>7. place \in [seen -> places]
    BY <1>2, <1>6
  <1>8. \A a, b \in seen : place[a] = place[b] => a = b
    <2> SUFFICES ASSUME NEW a \in seen, NEW b \in seen, place[a] = place[b]
                 PROVE  a = b
      OBVIOUS
    <2>1. turn(a) = turn(b) /\ a.count = b.count
      OBVIOUS
    <2>. QED
      BY <1>4, <1>5, <2>1
  <1>9. IsFiniteSet(places) /\ Cardinality(places) = 3 * Limit
    <2> DEFINE turns == 0 .. 2
               numbers == 1 .. Limit
    <2>1. IsFiniteSet(turns) /\ Cardinality(turns) = 3
      <3> DEFINE last == 2
      <3>1. last \in Int /\ 0 \in Int /\ last = 2
        OBVIOUS
      <3> HIDE DEF last
      <3>2. /\ IsFiniteSet(0 .. last)
            /\ Cardinality(0 .. last) = IF 0 > last THEN 0 ELSE last - 0 + 1
        BY <3>1, FS_Interval
      <3>. QED
        BY <3>1, <3>2
    <2>2. IsFiniteSet(numbers) /\ Cardinality(numbers) = Limit
      <3>1. /\ IsFiniteSet(numbers)
            /\ Cardinality(numbers) = IF 1 > Limit THEN 0 ELSE Limit - 1 + 1
        BY <1>1, FS_Interval
      <3> HIDE DEF numbers
      <3>. QED
        BY <1>1, <3>1
    <2> HIDE DEF turns, numbers
    <2>3. /\ IsFiniteSet(turns \X numbers)
          /\ Cardinality(turns \X numbers) = Cardinality(turns) * Cardinality(numbers)
      BY <2>1, <2>2, FS_Product
    <2>. QED
      BY <2>1, <2>2, <2>3 DEF turns, numbers
  <1>10. \E m \in places : \A a \in seen : place[a] # m
    <2> SUFFICES ASSUME \A m \in places : \E a \in seen : place[a] = m
                 PROVE  FALSE
      OBVIOUS
    <2>1. <<0, 1>> \in places /\ <<1, 1>> \in places /\ <<2, 1>> \in places
      BY <1>1
    <2>2. PICK a \in seen : place[a] = <<0, 1>>
      BY <2>1
    <2>3. PICK b \in seen : place[b] = <<1, 1>>
      BY <2>1
    <2>4. PICK c \in seen : place[c] = <<2, 1>>
      BY <2>1
    <2>5. turn(a) = 0 /\ a.count = 1 /\ turn(b) = 1 /\ turn(c) = 2
      BY <2>2, <2>3, <2>4
    <2> QED
      BY <1>6a, <2>5
  <1>11. PICK m \in places : \A a \in seen : place[a] # m
    BY <1>10
  <1>12. place \in Injection(seen, places \ {m})
    BY <1>7, <1>8, <1>11 DEF Injection, IsInjective
  <1> HIDE DEF place, places
  <1>13. IsFiniteSet(places \ {m}) /\ Cardinality(places \ {m}) = 3 * Limit - 1
    BY <1>9, FS_RemoveElement
  <1>14. Cardinality(seen) <= Cardinality(places \ {m}) /\ Cardinality(seen) \in Nat
    BY <1>12, <1>13, FS_Injection, FS_CardinalityType
  <1>. QED
    BY <1>1, <1>13, <1>14 DEF AdmittedIn

\* The numbers given in a window are those from 1 to Limit, and each is given once.
LEMMA OneWindow ==
  ASSUME LimitsInv, NEW start
  PROVE  Cardinality({a \in admissions : a.start = start}) <= Limit
  <1> DEFINE seen == {a \in admissions : a.start = start}
             number == [a \in seen |-> a.count]
             numbers == 1 .. Limit
  <1>1. Limit \in Nat \ {0}
    BY RateLimitsAssumption
  <1>2. number \in [seen -> numbers]
    BY DEF LimitsInv, WindowsApart
  <1>3. \A a, b \in seen : number[a] = number[b] => a = b
    BY DEF LimitsInv, WindowsApart
  <1>4. number \in Injection(seen, numbers)
    BY <1>2, <1>3 DEF Injection, IsInjective
  <1>5. /\ IsFiniteSet(numbers)
        /\ Cardinality(numbers) = IF 1 > Limit THEN 0 ELSE Limit - 1 + 1
    BY <1>1, FS_Interval
  <1> HIDE DEF number, numbers
  <1>6. Cardinality(seen) <= Cardinality(numbers)
    BY <1>4, <1>5, FS_Injection
  <1>. QED
    BY <1>1, <1>5, <1>6

\* However requests overlap, wait between their clock and the row, and race to insert it
\* (rate_limit.enforce_rate_limit), no window lets more through than its limit, and no stretch of
\* time as long as a window sees as many as three of them allow.
THEOREM BudgetIsKept == LimitsInit /\ [][LimitsNext]_limitsVars => []BudgetKept
  <1>1. LimitsInv => WindowKept
    BY OneWindow DEF WindowKept
  <1>2. LimitsInv => StretchKept
    <2> SUFFICES ASSUME LimitsInv, NEW t \in 0 .. LastTick
                 PROVE  AdmittedIn(t, t + WindowLength - 1) < 3 * Limit
      BY DEF StretchKept
    <2>1. t \in Nat
      OBVIOUS
    <2> QED
      BY <2>1, ThreeWindows
  <1>3. LimitsInv => BudgetKept
    BY <1>1, <1>2 DEF BudgetKept
  <1>. QED
    BY <1>3, LimitsInvInit, LimitsStepKeeps, PTL
=============================================================================
