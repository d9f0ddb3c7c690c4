------------------------- MODULE ExamEvaluationProofs -------------------------
(* Theorems about ExamEvaluation, CodeReceipts and SpokenEvidence, for every *)
(* value of their constants.                                                 *)
EXTENDS ExamEvaluation, CodeReceipts, SpokenEvidence, FiniteSetTheorems, SequenceTheorems,
        NaturalsInduction, WellFoundedInduction, TLAPS

StepNames == {"idle", "lease", "clip", "clip lease", "analyse", "clip done", "clip failed",
              "grade", "mail", "send", "audit", "release"}

ReqType == [step : StepNames, body : Bodies \union {NoBody}, until : Nat, clip : Nat,
            clipUntil : Nat, parts : Nat, first : BOOLEAN, sent : BOOLEAN]

ExamTypeOK ==
  /\ now \in Nat \ {0} /\ recorded \in BOOLEAN
  /\ submission \in Bodies \union {NoBody} /\ answers \in Bodies \union {NoBody}
  /\ evaluationLease \in Nat /\ analysisLease \in [1 .. Clips -> Nat]
  /\ analysis \in [1 .. Clips -> [parts : Nat, full : BOOLEAN]]
  /\ evaluation \in {"none", "pending", "complete"}
  /\ score \in (Bodies \X Marks) \union {NoScore}
  /\ mails \in Nat /\ sentAudit \in BOOLEAN /\ failedAt \in Nat
  /\ mailLock \in Requests \union {NoRequest}
  /\ req \in [Requests -> ReqType]
  /\ overran \in BOOLEAN /\ mailLost \in BOOLEAN
  /\ \A r \in Requests :
       /\ req[r].step = "clip" => req[r].clip # 0
       /\ req[r].step \in {"clip lease", "analyse", "clip done", "clip failed"} =>
            req[r].clip \in 1 .. Clips

LEMMA Numbers ==
    /\ Clips \in Nat
    /\ Parts \in Nat /\ EvaluationLease \in Nat /\ AnalysisLease \in Nat
    /\ Parts > 0 /\ EvaluationLease > 0 /\ AnalysisLease > 0
  BY EvaluationOK

-----------------------------------------------------------------------------
(***************************************************************************)
(* What a step does to the request that takes it, field by field.          *)
(***************************************************************************)
Becomes(r, step, body, until, clip, clipUntil, parts, first, sent) ==
  /\ req' \in [Requests -> ReqType]
  /\ req'[r].step = step /\ req'[r].body = body /\ req'[r].until = until
  /\ req'[r].clip = clip /\ req'[r].clipUntil = clipUntil /\ req'[r].parts = parts
  /\ req'[r].first = first /\ req'[r].sent = sent
  /\ \A q \in Requests : q # r => req'[q] = req[q]

LEMMA RowWritten ==
    ASSUME ExamTypeOK, NEW r \in Requests, NEW o \in ReqType, req' = [req EXCEPT ![r] = o]
    PROVE  Becomes(r, o.step, o.body, o.until, o.clip, o.clipUntil, o.parts, o.first, o.sent)
  <1>1. req \in [Requests -> ReqType]
    BY DEF ExamTypeOK
  <1> HIDE DEF ReqType
  <1>. QED
    BY <1>1 DEF Becomes

LEMMA Went ==
    ASSUME ExamTypeOK, NEW r \in Requests, NEW s \in StepNames, Goto(r, s)
    PROVE  Becomes(r, s, req[r].body, req[r].until, req[r].clip, req[r].clipUntil,
                   req[r].parts, req[r].first, req[r].sent)
  <1> DEFINE o == [req[r] EXCEPT !.step = s]
  <1>1. req \in [Requests -> ReqType] /\ req[r] \in ReqType
    BY DEF ExamTypeOK
  <1>2. /\ o \in ReqType /\ o.step = s /\ o.body = req[r].body /\ o.until = req[r].until
        /\ o.clip = req[r].clip /\ o.clipUntil = req[r].clipUntil /\ o.parts = req[r].parts
        /\ o.first = req[r].first /\ o.sent = req[r].sent
    BY <1>1 DEF ReqType
  <1>3. req' = [req EXCEPT ![r] = o]
    BY DEF Goto
  <1> HIDE DEF o
  <1>. QED
    BY <1>2, <1>3, RowWritten

LEMMA Rested ==
    ASSUME ExamTypeOK, NEW r \in Requests, Done(r)
    PROVE  Becomes(r, "idle", NoBody, 0, 0, 0, 0, FALSE, FALSE)
  <1>1. Idle \in ReqType
    BY DEF Idle, ReqType, StepNames
  <1>2. req' = [req EXCEPT ![r] = Idle]
    BY DEF Done
  <1>. QED
    BY <1>1, <1>2, RowWritten DEF Idle

LEMMA Began ==
    ASSUME ExamTypeOK, NEW r \in Requests, NEW b \in Bodies, EvaluateText(r, b)
    PROVE  Becomes(r, "grade", b, 0, 0, 0, 0, FALSE, FALSE)
  <1> DEFINE o == [Idle EXCEPT !.step = "grade", !.body = b]
  <1>1. /\ o \in ReqType /\ o.step = "grade" /\ o.body = b /\ o.until = 0 /\ o.clip = 0
        /\ o.clipUntil = 0 /\ o.parts = 0 /\ ~o.first /\ ~o.sent
        /\ o.first = FALSE /\ o.sent = FALSE
    BY DEF Idle, ReqType, StepNames
  <1>2. req' = [req EXCEPT ![r] = o]
    BY DEF EvaluateText
  <1> HIDE DEF o
  <1>. QED
    BY <1>1, <1>2, RowWritten

LEMMA Stored ==
    ASSUME ExamTypeOK, NEW r \in Requests, NEW b \in Bodies, StoreSubmission(r, b)
    PROVE  Becomes(r, "lease", b, 0, 0, 0, 0, TRUE, FALSE)
  <1> DEFINE o == [Idle EXCEPT !.step = "lease", !.body = b, !.first = TRUE]
  <1>1. /\ o \in ReqType /\ o.step = "lease" /\ o.body = b /\ o.until = 0 /\ o.clip = 0
        /\ o.clipUntil = 0 /\ o.parts = 0 /\ o.first = TRUE /\ o.sent = FALSE
    BY DEF Idle, ReqType, StepNames
  <1>2. req' = [req EXCEPT ![r] = o]
    BY DEF StoreSubmission
  <1> HIDE DEF o
  <1>. QED
    BY <1>1, <1>2, RowWritten

LEMMA BeganLeased ==
    ASSUME ExamTypeOK, NEW r \in Requests, NEW b \in Bodies \union {NoBody}, NEW f \in BOOLEAN,
           req' = Leased(r, b, f)
    PROVE  Becomes(r, "clip", b, now + EvaluationLease, 1, 0, 0, f, FALSE)
  <1> DEFINE o == [Idle EXCEPT !.step = "clip", !.body = b, !.clip = 1, !.first = f,
                               !.until = now + EvaluationLease]
  <1>1. /\ o.step = "clip" /\ o.body = b /\ o.until = now + EvaluationLease
        /\ o.clip = 1 /\ o.clipUntil = 0 /\ o.parts = 0 /\ o.first = f /\ o.sent = FALSE
    BY DEF Idle
  <1>3. o \in ReqType
    <2>1. now + EvaluationLease \in Nat
      <3>1. now \in Nat
        BY DEF ExamTypeOK
      <3>. QED
        BY <3>1, Numbers
    <2>. QED
      BY <2>1 DEF Idle, ReqType, StepNames
  <1>2. req' = [req EXCEPT ![r] = o]
    BY DEF Leased
  <1> HIDE DEF o
  <1>. QED
    BY <1>1, <1>2, <1>3, RowWritten

(* The rest of the steps write a few fields of a row.                        *)
LEMMA Audits ==
    ASSUME ExamTypeOK, NEW r \in Requests, NEW t \in BOOLEAN,
           req' = [req EXCEPT ![r].step = "audit", ![r].sent = t]
    PROVE  Becomes(r, "audit", req[r].body, req[r].until, req[r].clip, req[r].clipUntil,
                   req[r].parts, req[r].first, t)
  <1> DEFINE o == [req[r] EXCEPT !.step = "audit", !.sent = t]
  <1>1. req \in [Requests -> ReqType] /\ req[r] \in ReqType
    BY DEF ExamTypeOK
  <1>2. req' = [req EXCEPT ![r] = o]
    BY <1>1
  <1>3. /\ o.step = "audit" /\ o.body = req[r].body /\ o.until = req[r].until
        /\ o.clip = req[r].clip /\ o.clipUntil = req[r].clipUntil /\ o.parts = req[r].parts
        /\ o.first = req[r].first /\ o.sent = t /\ o \in ReqType
    BY <1>1 DEF ReqType, StepNames
  <1> HIDE DEF o
  <1>. QED
    BY <1>2, <1>3, RowWritten

LEMMA ClipLeased ==
    ASSUME ExamTypeOK, NEW r \in Requests, NEW u \in Nat, NEW p \in Nat,
           req' = [req EXCEPT ![r].step = "analyse", ![r].clipUntil = u, ![r].parts = p]
    PROVE  Becomes(r, "analyse", req[r].body, req[r].until, req[r].clip, u, p,
                   req[r].first, req[r].sent)
  <1> DEFINE o == [req[r] EXCEPT !.step = "analyse", !.clipUntil = u, !.parts = p]
  <1>1. req \in [Requests -> ReqType] /\ req[r] \in ReqType
    BY DEF ExamTypeOK
  <1>2. req' = [req EXCEPT ![r] = o]
    BY <1>1
  <1>3. /\ o.step = "analyse" /\ o.body = req[r].body /\ o.until = req[r].until
        /\ o.clip = req[r].clip /\ o.clipUntil = u /\ o.parts = p
        /\ o.first = req[r].first /\ o.sent = req[r].sent /\ o \in ReqType
    BY <1>1 DEF ReqType, StepNames
  <1> HIDE DEF o
  <1>. QED
    BY <1>2, <1>3, RowWritten

LEMMA ClipReleased ==
    ASSUME ExamTypeOK, NEW r \in Requests, NEW s \in StepNames, NEW c \in Nat,
           req' = [req EXCEPT ![r].step = s, ![r].clip = c, ![r].clipUntil = 0, ![r].parts = 0]
    PROVE  Becomes(r, s, req[r].body, req[r].until, c, 0, 0, req[r].first, req[r].sent)
  <1> DEFINE o == [req[r] EXCEPT !.step = s, !.clip = c, !.clipUntil = 0, !.parts = 0]
  <1>1. req \in [Requests -> ReqType] /\ req[r] \in ReqType
    BY DEF ExamTypeOK
  <1>2. req' = [req EXCEPT ![r] = o]
    BY <1>1
  <1>3. /\ o.step = s /\ o.body = req[r].body /\ o.until = req[r].until
        /\ o.clip = c /\ o.clipUntil = 0 /\ o.parts = 0
        /\ o.first = req[r].first /\ o.sent = req[r].sent /\ o \in ReqType
    BY <1>1 DEF ReqType, StepNames
  <1>4. req[r].body \in Bodies \union {NoBody} /\ req[r].until \in Nat /\ 0 \in Nat
        /\ req[r].first \in BOOLEAN /\ req[r].sent \in BOOLEAN
    BY <1>1 DEF ReqType
  <1> HIDE DEF o, ReqType
  <1>5. Becomes(r, o.step, o.body, o.until, o.clip, o.clipUntil, o.parts, o.first, o.sent)
    BY <1>2, <1>3, RowWritten
  <1>. QED
    BY <1>3, <1>5

LEMMA Counted ==
    ASSUME ExamTypeOK, NEW r \in Requests, NEW n \in Nat
    PROVE  /\ req' = [req EXCEPT ![r].clip = n] =>
                Becomes(r, req[r].step, req[r].body, req[r].until, n, req[r].clipUntil,
                        req[r].parts, req[r].first, req[r].sent)
           /\ req' = [req EXCEPT ![r].parts = n] =>
                Becomes(r, req[r].step, req[r].body, req[r].until, req[r].clip,
                        req[r].clipUntil, n, req[r].first, req[r].sent)
  <1>1. req \in [Requests -> ReqType] /\ req[r] \in ReqType
    BY DEF ExamTypeOK
  <1>2. ASSUME req' = [req EXCEPT ![r].clip = n]
        PROVE  Becomes(r, req[r].step, req[r].body, req[r].until, n, req[r].clipUntil,
                       req[r].parts, req[r].first, req[r].sent)
    <2> DEFINE o == [req[r] EXCEPT !.clip = n]
    <2>1. req' = [req EXCEPT ![r] = o]
      BY <1>1, <1>2
    <2>2. /\ o \in ReqType /\ o.step = req[r].step /\ o.body = req[r].body
          /\ o.until = req[r].until /\ o.clip = n /\ o.clipUntil = req[r].clipUntil
          /\ o.parts = req[r].parts /\ o.first = req[r].first /\ o.sent = req[r].sent
      BY <1>1 DEF ReqType
    <2> HIDE DEF o
    <2>. QED
      BY <2>1, <2>2, RowWritten
  <1>3. ASSUME req' = [req EXCEPT ![r].parts = n]
        PROVE  Becomes(r, req[r].step, req[r].body, req[r].until, req[r].clip,
                       req[r].clipUntil, n, req[r].first, req[r].sent)
    <2> DEFINE o == [req[r] EXCEPT !.parts = n]
    <2>1. req' = [req EXCEPT ![r] = o]
      BY <1>1, <1>3
    <2>2. /\ o \in ReqType /\ o.step = req[r].step /\ o.body = req[r].body
          /\ o.until = req[r].until /\ o.clip = req[r].clip /\ o.clipUntil = req[r].clipUntil
          /\ o.parts = n /\ o.first = req[r].first /\ o.sent = req[r].sent
      BY <1>1 DEF ReqType
    <2> HIDE DEF o
    <2>. QED
      BY <2>1, <2>2, RowWritten
  <1>. QED
    BY <1>2, <1>3

-----------------------------------------------------------------------------
(***************************************************************************)
(* The same, action by action.  Moved leaves all but the step alone.       *)
(***************************************************************************)
Moved(r, s) == Becomes(r, s, req[r].body, req[r].until, req[r].clip, req[r].clipUntil,
                       req[r].parts, req[r].first, req[r].sent)
Rests(r) == Becomes(r, "idle", NoBody, 0, 0, 0, 0, FALSE, FALSE)
Leases(r, first) ==
  Becomes(r, "clip", submission, now + EvaluationLease, 1, 0, 0, first, FALSE)

LEMMA LeaseRows ==
    ASSUME ExamTypeOK, NEW r \in Requests
    PROVE  /\ EvaluateStored(r) => Leases(r, FALSE)
           /\ Acquire(r) =>
                \/ /\ evaluationLease <= now
                   /\ Becomes(r, "clip", req[r].body, now + EvaluationLease, 1, 0, 0, TRUE, FALSE)
                \/ ~(evaluationLease <= now) /\ Rests(r)
  <1>1. /\ req[r].body \in Bodies \union {NoBody} /\ submission \in Bodies \union {NoBody}
        /\ evaluationLease \in Nat /\ now \in Nat
    BY DEF ExamTypeOK, ReqType
  <1>2. EvaluateStored(r) => Leases(r, FALSE)
    BY <1>1, BeganLeased DEF EvaluateStored, Leases
  <1>3. ASSUME Acquire(r), evaluationLease <= now
        PROVE  Becomes(r, "clip", req[r].body, now + EvaluationLease, 1, 0, 0, TRUE, FALSE)
    <2>1. req' = Leased(r, req[r].body, TRUE)
      BY <1>3 DEF Acquire
    <2>. QED
      BY <1>1, <2>1, BeganLeased
  <1>4. ASSUME Acquire(r), ~(evaluationLease <= now)
        PROVE  Rests(r)
    BY <1>4, Rested DEF Acquire, Rests
  <1>. QED
    BY <1>1, <1>2, <1>3, <1>4

LEMMA RowNumbers ==
    ASSUME ExamTypeOK, NEW r \in Requests
    PROVE  /\ req[r].clip \in Nat /\ req[r].clip + 1 \in Nat /\ req[r].parts + 1 \in Nat
           /\ now + AnalysisLease \in Nat /\ req[r].clip + 1 # 0
           /\ {"clip", "clip lease", "grade", "release", "clip done", "clip failed"} \subseteq StepNames
  <1>1. req[r] \in ReqType /\ now \in Nat
    BY DEF ExamTypeOK
  <1>2. req[r].clip \in Nat /\ req[r].parts \in Nat
    BY <1>1 DEF ReqType
  <1>. QED
    BY <1>1, <1>2, Numbers DEF StepNames

LEMMA CheckRows ==
    ASSUME ExamTypeOK, NEW r \in Requests, CheckClip(r)
    PROVE  \/ req[r].clip > Clips /\ Moved(r, "grade")
           \/ /\ req[r].clip <= Clips /\ analysis[req[r].clip].full
              /\ Becomes(r, "clip", req[r].body, req[r].until, req[r].clip + 1,
                         req[r].clipUntil, req[r].parts, req[r].first, req[r].sent)
           \/ /\ req[r].clip <= Clips /\ ~analysis[req[r].clip].full
              /\ Moved(r, "clip lease")
  <1>1. CheckClip(r) /\ req[r].step = "clip"
    BY DEF CheckClip
  <1>. QED
    BY <1>1, RowNumbers, Went, Counted DEF CheckClip, Moved

LEMMA AcquireRows ==
    ASSUME ExamTypeOK, NEW r \in Requests, AcquireClip(r)
    PROVE  \/ /\ analysisLease[req[r].clip] <= now
              /\ \E p \in Nat : Becomes(r, "analyse", req[r].body, req[r].until, req[r].clip,
                                        now + AnalysisLease, p, req[r].first, req[r].sent)
           \/ ~(analysisLease[req[r].clip] <= now) /\ Moved(r, "release")
  <1>1. CASE ~(analysisLease[req[r].clip] <= now)
    BY <1>1, RowNumbers, Went DEF AcquireClip, Moved
  <1>2. CASE analysisLease[req[r].clip] <= now
    <2> DEFINE p == IF analysis[req[r].clip].full THEN 0 ELSE analysis[req[r].clip].parts
    <2>1. p \in Nat
      BY DEF AcquireClip, ExamTypeOK
    <2>2. req' = [req EXCEPT ![r].step = "analyse", ![r].clipUntil = now + AnalysisLease,
                             ![r].parts = p]
      BY <1>2 DEF AcquireClip
    <2> HIDE DEF p
    <2>. QED
      BY <1>2, <2>1, <2>2, RowNumbers, ClipLeased
  <1>. QED
    BY <1>1, <1>2

LEMMA SaveRows ==
    ASSUME ExamTypeOK, NEW r \in Requests, SavePart(r)
    PROVE  \/ /\ req[r].parts + 1 <= Parts
              /\ Becomes(r, "analyse", req[r].body, req[r].until, req[r].clip,
                         req[r].clipUntil, req[r].parts + 1, req[r].first, req[r].sent)
           \/ ~(req[r].parts + 1 <= Parts) /\ Moved(r, "clip done")
  BY RowNumbers, Went, Counted DEF SavePart, Moved

LEMMA FailRows ==
    ASSUME ExamTypeOK, NEW r \in Requests, AnalysisFails(r) PROVE Moved(r, "clip failed")
  BY RowNumbers, Went DEF AnalysisFails, Moved

LEMMA ReleaseRows ==
    ASSUME ExamTypeOK, NEW r \in Requests, ReleaseClip(r)
    PROVE  \/ /\ req[r].step = "clip done"
              /\ Becomes(r, "clip", req[r].body, req[r].until, req[r].clip + 1, 0, 0,
                         req[r].first, req[r].sent)
           \/ /\ req[r].step = "clip failed"
              /\ Becomes(r, "release", req[r].body, req[r].until, req[r].clip, 0, 0,
                         req[r].first, req[r].sent)
  <1> DEFINE s == IF req[r].step = "clip done" THEN "clip" ELSE "release"
             c == IF req[r].step = "clip done" THEN req[r].clip + 1 ELSE req[r].clip
  <1>1. /\ req' = [req EXCEPT ![r].step = s, ![r].clip = c, ![r].clipUntil = 0, ![r].parts = 0]
        /\ req[r].step \in {"clip done", "clip failed"}
    BY DEF ReleaseClip
  <1>2. s \in StepNames /\ c \in Nat
    BY RowNumbers
  <1>3. Becomes(r, s, req[r].body, req[r].until, c, 0, 0, req[r].first, req[r].sent)
    <2> HIDE DEF s, c
    <2>. QED
      BY <1>1, <1>2, ClipReleased
  <1>. QED
    BY <1>1, <1>3

LEMMA MailRows ==
    ASSUME ExamTypeOK, NEW r \in Requests
    PROVE  /\ \A mark : Save(r, mark) =>
                \/ mark \in Marks /\ Moved(r, "mail")
                \/ mark \notin Marks /\ Moved(r, "release")
           /\ Release(r) => Rests(r)
           /\ OpenResult(r) => Moved(r, "mail")
           /\ LockMail(r) =>
                \/ (sentAudit \/ RecentFailure) /\ Moved(r, "release")
                \/ ~(sentAudit \/ RecentFailure) /\ Moved(r, "send")
           /\ Send(r) => \E delivered \in BOOLEAN :
                /\ mails' = IF delivered THEN mails + 1 ELSE mails
                /\ Becomes(r, "audit", req[r].body, req[r].until, req[r].clip,
                           req[r].clipUntil, req[r].parts, req[r].first, delivered)
           /\ Audit(r) => Moved(r, "release")
           /\ Crash(r) => Rests(r)
  <1>1. {"mail", "send", "release"} \subseteq StepNames
    BY DEF StepNames
  <1>2. Send(r) => \E delivered \in BOOLEAN :
                /\ mails' = IF delivered THEN mails + 1 ELSE mails
                /\ Becomes(r, "audit", req[r].body, req[r].until, req[r].clip,
                           req[r].clipUntil, req[r].parts, req[r].first, delivered)
    <2> SUFFICES ASSUME Send(r)
                 PROVE  \E delivered \in BOOLEAN :
                          /\ mails' = IF delivered THEN mails + 1 ELSE mails
                          /\ Becomes(r, "audit", req[r].body, req[r].until, req[r].clip,
                                     req[r].clipUntil, req[r].parts, req[r].first, delivered)
      OBVIOUS
    <2>1. PICK delivered \in BOOLEAN :
            /\ mails' = IF delivered THEN mails + 1 ELSE mails
            /\ req' = [req EXCEPT ![r].step = "audit", ![r].sent = delivered]
      BY DEF Send
    <2>. QED
      BY <2>1, Audits
  <1>. QED
    BY <1>1, <1>2, Went, Rested DEF Save, Release, OpenResult, LockMail, Audit, Crash, Moved, Rests

-----------------------------------------------------------------------------
(* Types.                                                                    *)
LEMMA TypeInit == Init => ExamTypeOK
  <1> SUFFICES ASSUME Init PROVE ExamTypeOK
    OBVIOUS
  <1>1. Idle \in ReqType /\ Idle.step = "idle"
    BY DEF Idle, ReqType, StepNames
  <1>2. req \in [Requests -> ReqType] /\ \A r \in Requests : req[r].step = "idle"
    BY <1>1 DEF Init
  <1>3. analysis \in [1 .. Clips -> [parts : Nat, full : BOOLEAN]]
        /\ analysisLease \in [1 .. Clips -> Nat]
    BY DEF Init
  <1>4. now \in Nat \ {0} /\ recorded \in BOOLEAN /\ evaluationLease \in Nat /\ mails \in Nat
        /\ failedAt \in Nat
    BY DEF Init
  <1>. QED
    BY <1>2, <1>3, <1>4 DEF Init, ExamTypeOK

(* The variables of the interview, the leases and the mail.                  *)
OthersTyped ==
  /\ now \in Nat \ {0} /\ recorded \in BOOLEAN
  /\ submission \in Bodies \union {NoBody} /\ answers \in Bodies \union {NoBody}
  /\ evaluationLease \in Nat /\ analysisLease \in [1 .. Clips -> Nat]
  /\ analysis \in [1 .. Clips -> [parts : Nat, full : BOOLEAN]]
  /\ evaluation \in {"none", "pending", "complete"}
  /\ score \in (Bodies \X Marks) \union {NoScore}
  /\ mails \in Nat /\ sentAudit \in BOOLEAN /\ failedAt \in Nat
  /\ mailLock \in Requests \union {NoRequest}
  /\ overran \in BOOLEAN /\ mailLost \in BOOLEAN

ClipFits(o) ==
  /\ o.step = "clip" => o.clip # 0
  /\ o.step \in {"clip lease", "analyse", "clip done", "clip failed"} => o.clip \in 1 .. Clips

LEMMA TypeParts ==
    /\ ExamTypeOK <=> /\ OthersTyped /\ req \in [Requests -> ReqType]
                      /\ \A r \in Requests : ClipFits(req[r])
    /\ ExamTypeOK' <=> /\ OthersTyped' /\ req' \in [Requests -> ReqType]
                       /\ \A r \in Requests : ClipFits(req'[r])
  BY DEF ExamTypeOK, OthersTyped, ClipFits

LEMMA FitsKept ==
    ASSUME ExamTypeOK, OthersTyped', NEW r \in Requests, req' \in [Requests -> ReqType],
           \A q \in Requests : q # r => req'[q] = req[q], ClipFits(req'[r])
    PROVE  ExamTypeOK'
  BY TypeParts

LEMMA EvaluateTyped ==
    ASSUME ExamTypeOK, NEW r \in Requests, NEW b \in Bodies,
           EvaluateText(r, b) \/ StoreSubmission(r, b) \/ EvaluateStored(r) \/ Acquire(r)
    PROVE  ExamTypeOK'
  <1>1. now \in Nat /\ now + EvaluationLease \in Nat /\ OthersTyped
    <2>1. now \in Nat /\ OthersTyped
      BY TypeParts DEF OthersTyped
    <2>. QED
      BY <2>1, Numbers
  <1>2. CASE EvaluateText(r, b)
    <2>1. OthersTyped'
      BY <1>1, <1>2 DEF EvaluateText, OthersTyped, leaseVars, interviewVars, mailVars, history
    <2>. QED
      BY <1>2, <2>1, Began, FitsKept DEF Becomes, ClipFits
  <1>3. CASE StoreSubmission(r, b)
    <2>1. OthersTyped'
      BY <1>1, <1>3 DEF StoreSubmission, OthersTyped, leaseVars, interviewVars, mailVars, history
    <2>. QED
      BY <1>3, <2>1, Stored, FitsKept DEF Becomes, ClipFits
  <1>4. CASE EvaluateStored(r)
    <2>1. OthersTyped'
      BY <1>1, <1>4 DEF EvaluateStored, OthersTyped, interviewVars, mailVars, history
    <2>. QED
      <3>1. Leases(r, FALSE)
        BY <1>4, LeaseRows
      <3>2. ClipFits(req'[r])
        <4>1. req'[r].step = "clip" /\ req'[r].clip = 1
          BY <3>1 DEF Leases, Becomes
        <4>. QED
          BY <4>1 DEF ClipFits
      <3>. QED
        BY <2>1, <3>1, <3>2, FitsKept DEF Leases, Becomes
  <1>5. CASE Acquire(r)
    <2>1. OthersTyped'
      BY <1>1, <1>5 DEF Acquire, OthersTyped, interviewVars, mailVars, history
    <2>. QED
      <3>1. \/ Becomes(r, "clip", req[r].body, now + EvaluationLease, 1, 0, 0, TRUE, FALSE)
            \/ Rests(r)
        BY <1>5, LeaseRows
      <3>2. ClipFits(req'[r])
        <4>1. CASE req'[r].step = "clip" /\ req'[r].clip = 1
          BY <4>1 DEF ClipFits
        <4>2. CASE req'[r].step = "idle"
          BY <4>2 DEF ClipFits
        <4>. QED
          BY <3>1, <4>1, <4>2 DEF Rests, Becomes
      <3>. QED
        BY <2>1, <3>1, <3>2, FitsKept DEF Rests, Becomes
  <1>. QED
    BY <1>2, <1>3, <1>4, <1>5

LEMMA ClipTyped ==
    ASSUME ExamTypeOK, NEW r \in Requests,
           \/ CheckClip(r) \/ AcquireClip(r) \/ SavePart(r) \/ AnalysisFails(r) \/ ReleaseClip(r)
    PROVE  ExamTypeOK'
  <1>1. /\ req[r].clip \in Nat /\ req[r].parts + 1 \in Nat /\ req[r].clip + 1 # 0
        /\ now + AnalysisLease \in Nat
    BY RowNumbers
  <1>2. ClipFits(req[r]) /\ OthersTyped
    BY TypeParts
  <1>3. CASE CheckClip(r)
    <2>1. OthersTyped'
      BY <1>2, <1>3 DEF CheckClip, OthersTyped, leaseVars, interviewVars, mailVars, history
    <2>2. req[r].clip # 0
      BY <1>2, <1>3 DEF CheckClip, ClipFits
    <2>3. req[r].clip <= Clips => req[r].clip \in 1 .. Clips
      BY <1>1, <2>2, Numbers
    <2>. QED
      BY <1>1, <1>3, <2>1, <2>3, CheckRows, FitsKept DEF Moved, Becomes, ClipFits
  <1>4. CASE AcquireClip(r)
    <2>1. analysisLease' \in [1 .. Clips -> Nat]
      BY <1>1, <1>2, <1>4 DEF AcquireClip, OthersTyped
    <2>2. OthersTyped'
      BY <1>2, <1>4, <2>1 DEF AcquireClip, OthersTyped, interviewVars, mailVars, history
    <2>3. req[r].clip \in 1 .. Clips
      BY <1>2, <1>4 DEF AcquireClip, ClipFits
    <2>. QED
      <3>1. \/ \E p \in Nat : Becomes(r, "analyse", req[r].body, req[r].until, req[r].clip,
                                      now + AnalysisLease, p, req[r].first, req[r].sent)
            \/ Moved(r, "release")
        BY <1>4, AcquireRows
      <3>. QED
        BY <2>2, <2>3, <3>1, FitsKept DEF Moved, Becomes, ClipFits
  <1>5. CASE SavePart(r)
    <2>1. analysis' \in [1 .. Clips -> [parts : Nat, full : BOOLEAN]]
      <3> DEFINE A == [parts |-> req[r].parts + 1, full |-> FALSE]
                 B == [parts |-> Parts, full |-> TRUE]
      <3>1. A \in [parts : Nat, full : BOOLEAN] /\ B \in [parts : Nat, full : BOOLEAN]
        BY <1>1, Numbers
      <3>2. \/ analysis' = [analysis EXCEPT ![req[r].clip] = A]
            \/ analysis' = [analysis EXCEPT ![req[r].clip] = B]
        BY <1>5 DEF SavePart
      <3>3. analysis \in [1 .. Clips -> [parts : Nat, full : BOOLEAN]]
        BY <1>2 DEF OthersTyped
      <3> HIDE DEF A, B
      <3>. QED
        BY <3>1, <3>2, <3>3
    <2>2. OthersTyped'
      BY <1>2, <1>5, <2>1 DEF SavePart, OthersTyped, leaseVars, interviewVars, mailVars, history
    <2>3. req[r].clip \in 1 .. Clips
      BY <1>2, <1>5 DEF SavePart, ClipFits
    <2>. QED
      BY <1>5, <2>2, <2>3, SaveRows, FitsKept DEF Moved, Becomes, ClipFits
  <1>6. CASE AnalysisFails(r)
    <2>1. OthersTyped' /\ req[r].clip \in 1 .. Clips
      BY <1>2, <1>6 DEF AnalysisFails, OthersTyped, leaseVars, interviewVars, mailVars, history, ClipFits
    <2>. QED
      BY <1>6, <2>1, FailRows, FitsKept DEF Moved, Becomes, ClipFits
  <1>7. CASE ReleaseClip(r)
    <2>1. analysisLease' \in [1 .. Clips -> Nat]
      BY <1>2, <1>7 DEF ReleaseClip, OthersTyped
    <2>2. OthersTyped'
      BY <1>2, <1>7, <2>1 DEF ReleaseClip, OthersTyped, interviewVars, mailVars, history
    <2>3. req[r].clip \in Nat
      BY RowNumbers
    <2>4. ASSUME NEW s \in {"clip", "release"}, NEW c \in Nat, s = "clip" => c # 0,
                 Becomes(r, s, req[r].body, req[r].until, c, 0, 0, req[r].first, req[r].sent)
          PROVE  ExamTypeOK'
      <3>1. req' \in [Requests -> ReqType] /\ req'[r].step = s /\ req'[r].clip = c
            /\ \A q \in Requests : q # r => req'[q] = req[q]
        BY <2>4 DEF Becomes
      <3>2. ClipFits(req'[r])
        <4> DEFINE o == req'[r]
        <4>1. o.step = s /\ o.clip = c
          BY <3>1
        <4>. HIDE DEF o
        <4>2. ClipFits(o)
          BY <2>4, <4>1 DEF ClipFits
        <4>. QED
          BY <4>2 DEF o
      <3>. QED
        BY <2>2, <3>1, <3>2, FitsKept
    <2>5. req[r].clip + 1 \in Nat /\ req[r].clip + 1 # 0
      BY <2>3
    <2>6. CASE Becomes(r, "clip", req[r].body, req[r].until, req[r].clip + 1, 0, 0,
                       req[r].first, req[r].sent)
      BY <2>4, <2>5, <2>6
    <2>7. CASE Becomes(r, "release", req[r].body, req[r].until, req[r].clip, 0, 0,
                       req[r].first, req[r].sent)
      BY <2>3, <2>4, <2>7
    <2>. QED
      BY <1>7, <2>6, <2>7, ReleaseRows
  <1>. QED
    BY <1>3, <1>4, <1>5, <1>6, <1>7

LEMMA MailTyped ==
    ASSUME ExamTypeOK, NEW r \in Requests,
           \/ Release(r) \/ OpenResult(r) \/ LockMail(r) \/ Send(r) \/ Audit(r) \/ Crash(r)
    PROVE  ExamTypeOK'
  <1>1. OthersTyped /\ mails + 1 \in Nat /\ req[r].sent \in BOOLEAN
    <2>1. OthersTyped /\ req[r] \in ReqType
      BY TypeParts
    <2>2. mails \in Nat
      BY <2>1 DEF OthersTyped
    <2>. QED
      BY <2>1, <2>2 DEF ReqType
  <1>2. CASE Release(r) \/ OpenResult(r) \/ Crash(r)
    <2>1. OthersTyped'
      BY <1>1, <1>2 DEF Release, OpenResult, Crash, OthersTyped, leaseVars, interviewVars,
                        mailVars, history
    <2>. QED
      BY <1>2, <2>1, MailRows, FitsKept DEF Moved, Rests, Becomes, ClipFits
  <1>3. CASE LockMail(r) \/ Audit(r)
    <2>1. OthersTyped'
      BY <1>1, <1>3 DEF LockMail, Audit, OthersTyped, leaseVars, interviewVars, history
    <2>. QED
      BY <1>3, <2>1, MailRows, FitsKept DEF Moved, Becomes, ClipFits
  <1>4. CASE Send(r)
    <2>1. OthersTyped'
      BY <1>1, <1>4 DEF Send, OthersTyped, leaseVars, interviewVars, history
    <2>. QED
      BY <1>4, <2>1, MailRows, FitsKept DEF Becomes, ClipFits
  <1>. QED
    BY <1>2, <1>3, <1>4

LEMMA SaveTyped ==
    ASSUME ExamTypeOK, NEW r \in Requests, NEW mark, Save(r, mark), req[r].body \in Bodies
    PROVE  ExamTypeOK'
  <1>1. score' \in (Bodies \X Marks) \union {NoScore} /\ evaluation' \in {"pending", "complete"}
    BY DEF Save
  <1>2. OthersTyped'
    BY <1>1, TypeParts DEF Save, OthersTyped, leaseVars, mailVars, history
  <1>. QED
    BY <1>2, MailRows, FitsKept DEF Moved, Becomes, ClipFits

LEMMA TickTyped == ASSUME ExamTypeOK, Tick PROVE ExamTypeOK'
  <1>1. OthersTyped' /\ req' = req
    BY TypeParts DEF Tick, OthersTyped, leaseVars, interviewVars, mailVars
  <1>. QED
    BY <1>1, TypeParts

(***************************************************************************)
(* Leases.  Whoever is within its lease is what the row says, and nobody   *)
(* else is within one; the same of each recording.                         *)
(***************************************************************************)
LeaseInv ==
  /\ \A r \in Requests : req[r].until > now => evaluationLease = req[r].until
  /\ \A r, q \in Requests : req[r].until > now /\ req[q].until > now => q = r
  /\ \A r \in Requests : Analysing(r) /\ req[r].clipUntil > now =>
       analysisLease[req[r].clip] = req[r].clipUntil
  /\ \A r, q \in Requests :
       /\ Analysing(r) /\ req[r].clipUntil > now
       /\ Analysing(q) /\ req[q].clipUntil > now
       /\ req[r].clip = req[q].clip
       => q = r

(* A step that takes no lease and gives none back.                           *)
LeaseQuiet ==
  /\ now' \in {now, now + 1}
  /\ evaluationLease' = evaluationLease /\ analysisLease' = analysisLease
  /\ \A r \in Requests :
       /\ req'[r].until \in {req[r].until, 0}
       /\ Analysing(r)' => /\ Analysing(r)
                           /\ req'[r].clip = req[r].clip /\ req'[r].clipUntil = req[r].clipUntil

LEMMA RowTypes ==
    ASSUME ExamTypeOK
    PROVE  /\ now \in Nat /\ evaluationLease \in Nat
           /\ \A r \in Requests : req[r].until \in Nat /\ req[r].clip \in Nat
                                  /\ req[r].clipUntil \in Nat
  BY TypeParts DEF OthersTyped, ReqType

LEMMA QuietLeases ==
    ASSUME ExamTypeOK, LeaseInv, LeaseQuiet PROVE LeaseInv'
  <1>1. /\ now \in Nat /\ now' \in {now, now + 1}
        /\ \A r \in Requests : req[r].until \in Nat /\ req[r].clipUntil \in Nat
    BY RowTypes DEF LeaseQuiet
  <1>2. \A r \in Requests : req'[r].until > now' => req'[r].until = req[r].until /\ req[r].until > now
    BY <1>1 DEF LeaseQuiet
  <1>3. \A r \in Requests : Analysing(r)' /\ req'[r].clipUntil > now' =>
          /\ Analysing(r) /\ req[r].clipUntil > now
          /\ req'[r].clip = req[r].clip /\ req'[r].clipUntil = req[r].clipUntil
    BY <1>1 DEF LeaseQuiet
  <1>. QED
    BY <1>2, <1>3 DEF LeaseInv, LeaseQuiet

LEMMA TickLeases == ASSUME ExamTypeOK, LeaseInv, Tick PROVE LeaseInv'
  <1>1. LeaseQuiet
    BY DEF Tick, LeaseQuiet, leaseVars, Analysing
  <1>. QED
    BY <1>1, QuietLeases

(* One request moves, and keeps its leases or loses them.                    *)
LEMMA MoveLeases ==
    ASSUME ExamTypeOK, LeaseInv, NEW r \in Requests,
           now' = now, evaluationLease' = evaluationLease, analysisLease' = analysisLease,
           \A q \in Requests : q # r => req'[q] = req[q],
           req'[r].until \in {req[r].until, 0},
           Analysing(r)' => /\ Analysing(r)
                            /\ req'[r].clip = req[r].clip /\ req'[r].clipUntil = req[r].clipUntil
    PROVE  LeaseInv'
  <1>1. LeaseQuiet
    BY DEF LeaseQuiet, Analysing
  <1>. QED
    BY <1>1, QuietLeases

(* A lease taken, when the one before has run out.                           *)
LEMMA TakeLease ==
    ASSUME ExamTypeOK, LeaseInv, NEW r \in Requests, evaluationLease <= now,
           now' = now, analysisLease' = analysisLease,
           evaluationLease' = now + EvaluationLease, req'[r].until = now + EvaluationLease,
           \A q \in Requests : q # r => req'[q] = req[q],
           req'[r].step = "clip"
    PROVE  LeaseInv'
  <1>1. /\ now \in Nat /\ evaluationLease \in Nat
        /\ \A q \in Requests : req[q].until \in Nat
    BY RowTypes
  <1>2. \A q \in Requests : ~(req[q].until > now)
    BY <1>1 DEF LeaseInv
  <1>3. \A q \in Requests : req'[q].until > now' => q = r
    BY <1>2
  <1>4. ~Analysing(r)' /\ \A q \in Requests : q # r => (Analysing(q)' <=> Analysing(q))
    BY DEF Analysing
  <1>. QED
    BY <1>3, <1>4 DEF LeaseInv

(* A recording's lease taken.                                                *)
LEMMA TakeClip ==
    ASSUME ExamTypeOK, LeaseInv, NEW r \in Requests, NEW c, c = req[r].clip, c \in 1 .. Clips,
           analysisLease[c] <= now, now' = now, evaluationLease' = evaluationLease,
           analysisLease' = [analysisLease EXCEPT ![c] = now + AnalysisLease],
           \A q \in Requests : q # r => req'[q] = req[q],
           req'[r].until = req[r].until, req'[r].clip = c,
           req'[r].clipUntil = now + AnalysisLease
    PROVE  LeaseInv'
  <1>1. /\ now \in Nat /\ analysisLease \in [1 .. Clips -> Nat]
        /\ \A q \in Requests : req[q].clipUntil \in Nat
    BY RowTypes, TypeParts DEF OthersTyped
  <1>2. /\ analysisLease'[c] = now + AnalysisLease
        /\ \A d \in 1 .. Clips : d # c => analysisLease'[d] = analysisLease[d]
    BY <1>1
  <1>3. \A q \in Requests : q # r => (Analysing(q)' <=> Analysing(q))
    BY DEF Analysing
  <1>4. \A q \in Requests : Analysing(q) => req[q].clip \in 1 .. Clips
    BY DEF ExamTypeOK, Analysing
  <1>5. \A q \in Requests : q # r /\ Analysing(q) /\ req[q].clip = c => ~(req[q].clipUntil > now)
    BY <1>1 DEF LeaseInv
  <1>6. \A q \in Requests : Analysing(q)' /\ req'[q].clipUntil > now' =>
          analysisLease'[req'[q].clip] = req'[q].clipUntil
    BY <1>2, <1>3, <1>4, <1>5 DEF LeaseInv
  <1>7. ASSUME NEW p \in Requests, NEW q \in Requests,
               Analysing(p)', req'[p].clipUntil > now',
               Analysing(q)', req'[q].clipUntil > now', req'[p].clip = req'[q].clip
        PROVE  q = p
    <2>1. CASE p = r
      BY <1>3, <1>5, <1>7, <2>1
    <2>2. CASE q = r
      BY <1>3, <1>5, <1>7, <2>2
    <2>3. CASE p # r /\ q # r
      BY <1>3, <1>7, <2>3 DEF LeaseInv
    <2>. QED
      BY <2>1, <2>2, <2>3
  <1>8. /\ \A q \in Requests : req'[q].until > now' => evaluationLease' = req'[q].until
        /\ \A p, q \in Requests : req'[p].until > now' /\ req'[q].until > now' => q = p
    BY DEF LeaseInv
  <1>. QED
    BY <1>6, <1>7, <1>8 DEF LeaseInv

(* Given back by whoever holds it, and left alone when it is another's.      *)
LEMMA GiveLease ==
    ASSUME ExamTypeOK, LeaseInv, NEW r \in Requests, Release(r)
    PROVE  LeaseInv'
  <1>1. /\ now' = now /\ analysisLease' = analysisLease
        /\ evaluationLease' = IF req[r].until # 0 /\ evaluationLease = req[r].until
                              THEN 0 ELSE evaluationLease
    BY DEF Release
  <1>2. /\ req'[r].until = 0 /\ ~Analysing(r)'
        /\ \A q \in Requests : q # r => req'[q] = req[q]
    BY MailRows DEF Rests, Becomes, Analysing
  <1>3. now \in Nat /\ \A q \in Requests : req[q].until \in Nat
    BY RowTypes
  <1>4. \A q \in Requests : req'[q].until > now' =>
          q # r /\ req[q].until > now /\ evaluationLease = req[q].until
    BY <1>1, <1>2, <1>3 DEF LeaseInv
  <1>5. \A q \in Requests : req'[q].until > now' => evaluationLease' = req'[q].until
    BY <1>1, <1>2, <1>3, <1>4 DEF LeaseInv
  <1>6. \A q \in Requests : Analysing(q)' => q # r /\ Analysing(q)
    BY <1>2 DEF Analysing
  <1>. QED
    BY <1>1, <1>2, <1>4, <1>5, <1>6 DEF LeaseInv

LEMMA GiveClip ==
    ASSUME ExamTypeOK, LeaseInv, NEW r \in Requests, ReleaseClip(r)
    PROVE  LeaseInv'
  <1> DEFINE c == req[r].clip
  <1>1. /\ now' = now /\ evaluationLease' = evaluationLease /\ Analysing(r)
        /\ analysisLease' = [analysisLease EXCEPT ![c] = IF @ = req[r].clipUntil THEN 0 ELSE @]
    BY DEF ReleaseClip, Analysing
  <1>2. /\ req'[r].until = req[r].until /\ ~Analysing(r)'
        /\ \A q \in Requests : q # r => req'[q] = req[q]
    BY ReleaseRows DEF Becomes, Analysing
  <1>3. /\ now \in Nat /\ analysisLease \in [1 .. Clips -> Nat]
        /\ \A q \in Requests : req[q].clipUntil \in Nat
        /\ \A q \in Requests : Analysing(q) => req[q].clip \in 1 .. Clips
    BY RowTypes, TypeParts DEF OthersTyped, ExamTypeOK, Analysing
  <1>4. \A q \in Requests : Analysing(q)' => q # r /\ Analysing(q)
    BY <1>2 DEF Analysing
  <1>5. ASSUME NEW q \in Requests, Analysing(q)', req'[q].clipUntil > now'
        PROVE  analysisLease'[req'[q].clip] = req'[q].clipUntil
    <2>1. q # r /\ Analysing(q) /\ req'[q] = req[q] /\ req[q].clipUntil > now
          /\ analysisLease[req[q].clip] = req[q].clipUntil
      BY <1>1, <1>2, <1>4, <1>5 DEF LeaseInv
    <2>2. CASE req[q].clip # c
      BY <1>1, <1>3, <2>1, <2>2
    <2>3. CASE req[q].clip = c
      <3>1. ~(req[r].clipUntil > now)
        BY <1>1, <2>1, <2>3 DEF LeaseInv
      <3>2. analysisLease[c] # req[r].clipUntil
        BY <2>1, <2>3, <3>1
      <3>. QED
        BY <1>1, <1>3, <2>1, <2>3, <3>2
    <2>. QED
      BY <2>2, <2>3
  <1>6. ASSUME NEW p \in Requests, NEW q \in Requests,
               Analysing(p)', req'[p].clipUntil > now',
               Analysing(q)', req'[q].clipUntil > now', req'[p].clip = req'[q].clip
        PROVE  q = p
    <2>1. p # r /\ Analysing(p) /\ req'[p] = req[p] /\ q # r /\ Analysing(q) /\ req'[q] = req[q]
      BY <1>2, <1>4, <1>6
    <2>. QED
      BY <1>1, <1>6, <2>1 DEF LeaseInv
  <1>7. \A q \in Requests : req'[q].until = req[q].until
    BY <1>2
  <1>. QED
    BY <1>1, <1>5, <1>6, <1>7 DEF LeaseInv

LEMMA LeasesKept ==
    ASSUME ExamTypeOK, LeaseInv, Next PROVE LeaseInv'
  <1>1. ASSUME NEW r \in Requests, NEW b \in Bodies, EvaluateText(r, b) \/ StoreSubmission(r, b)
        PROVE  LeaseInv'
    <2>1. /\ req'[r].until = 0 /\ ~Analysing(r)'
          /\ \A q \in Requests : q # r => req'[q] = req[q]
      BY <1>1, Began, Stored DEF Becomes, Analysing
    <2>2. now' = now /\ evaluationLease' = evaluationLease /\ analysisLease' = analysisLease
      BY <1>1 DEF EvaluateText, StoreSubmission, leaseVars
    <2>. QED
      BY <2>1, <2>2, MoveLeases
  <1>2. ASSUME NEW r \in Requests, EvaluateStored(r)
        PROVE  LeaseInv'
    <2>1. Leases(r, FALSE)
      BY <1>2, LeaseRows
    <2>2. /\ evaluationLease <= now /\ now' = now /\ analysisLease' = analysisLease
          /\ evaluationLease' = now + EvaluationLease
      BY <1>2 DEF EvaluateStored
    <2>. QED
      BY <2>1, <2>2, TakeLease DEF Leases, Becomes
  <1>3. ASSUME NEW r \in Requests, Acquire(r)
        PROVE  LeaseInv'
    <2>1. now' = now /\ analysisLease' = analysisLease
      BY <1>3 DEF Acquire
    <2>2. CASE evaluationLease <= now
      <3>1. Becomes(r, "clip", req[r].body, now + EvaluationLease, 1, 0, 0, TRUE, FALSE)
        BY <1>3, <2>2, LeaseRows
      <3>2. evaluationLease' = now + EvaluationLease
        BY <1>3, <2>2 DEF Acquire
      <3>. QED
        BY <2>1, <2>2, <3>1, <3>2, TakeLease DEF Becomes
    <2>3. CASE ~(evaluationLease <= now)
      <3>1. Rests(r)
        BY <1>3, <2>3, LeaseRows
      <3>2. evaluationLease' = evaluationLease
        BY <1>3, <2>3 DEF Acquire
      <3>. QED
        BY <2>1, <3>1, <3>2, MoveLeases DEF Rests, Becomes, Analysing
    <2>. QED
      BY <2>2, <2>3
  <1>4. ASSUME NEW r \in Requests, CheckClip(r)
        PROVE  LeaseInv'
    <2>1. now' = now /\ evaluationLease' = evaluationLease /\ analysisLease' = analysisLease
      BY <1>4 DEF CheckClip, leaseVars
    <2>2. /\ req'[r].until = req[r].until /\ ~Analysing(r)'
          /\ \A q \in Requests : q # r => req'[q] = req[q]
      BY <1>4, CheckRows DEF Moved, Becomes, Analysing
    <2>. QED
      BY <2>1, <2>2, MoveLeases
  <1>5. ASSUME NEW r \in Requests, AcquireClip(r)
        PROVE  LeaseInv'
    <2>1. now' = now /\ evaluationLease' = evaluationLease /\ req[r].clip \in 1 .. Clips
      BY <1>5 DEF AcquireClip, ExamTypeOK
    <2>2. CASE analysisLease[req[r].clip] <= now
      <3>1. PICK p \in Nat : Becomes(r, "analyse", req[r].body, req[r].until, req[r].clip,
                                     now + AnalysisLease, p, req[r].first, req[r].sent)
        BY <1>5, <2>2, AcquireRows
      <3>2. analysisLease' = [analysisLease EXCEPT ![req[r].clip] = now + AnalysisLease]
        BY <1>5, <2>2 DEF AcquireClip
      <3>. QED
        BY <2>1, <2>2, <3>1, <3>2, TakeClip DEF Becomes
    <2>3. CASE ~(analysisLease[req[r].clip] <= now)
      <3>1. Moved(r, "release")
        BY <1>5, <2>3, AcquireRows
      <3>2. analysisLease' = analysisLease
        BY <1>5, <2>3 DEF AcquireClip
      <3>. QED
        BY <2>1, <3>1, <3>2, MoveLeases DEF Moved, Becomes, Analysing
    <2>. QED
      BY <2>2, <2>3
  <1>6. ASSUME NEW r \in Requests, SavePart(r) \/ AnalysisFails(r)
        PROVE  LeaseInv'
    <2>1. now' = now /\ evaluationLease' = evaluationLease /\ analysisLease' = analysisLease
          /\ Analysing(r)
      BY <1>6 DEF SavePart, AnalysisFails, leaseVars, Analysing
    <2>2. /\ req'[r].until = req[r].until /\ req'[r].clip = req[r].clip
          /\ req'[r].clipUntil = req[r].clipUntil
          /\ \A q \in Requests : q # r => req'[q] = req[q]
      BY <1>6, SaveRows, FailRows DEF Moved, Becomes
    <2>. QED
      BY <2>1, <2>2, MoveLeases
  <1>7. ASSUME NEW r \in Requests, NEW mark, Save(r, mark)
        PROVE  LeaseInv'
    <2>1. now' = now /\ evaluationLease' = evaluationLease /\ analysisLease' = analysisLease
      BY <1>7 DEF Save, leaseVars
    <2>2. /\ req'[r].until = req[r].until /\ ~Analysing(r)'
          /\ \A q \in Requests : q # r => req'[q] = req[q]
      BY <1>7, MailRows DEF Moved, Becomes, Analysing
    <2>. QED
      BY <2>1, <2>2, MoveLeases
  <1>8. ASSUME NEW r \in Requests,
               OpenResult(r) \/ LockMail(r) \/ Send(r) \/ Audit(r) \/ Crash(r)
        PROVE  LeaseInv'
    <2>1. now' = now /\ evaluationLease' = evaluationLease /\ analysisLease' = analysisLease
      BY <1>8 DEF OpenResult, LockMail, Send, Audit, Crash, leaseVars
    <2>2. /\ req'[r].until \in {req[r].until, 0} /\ ~Analysing(r)'
          /\ \A q \in Requests : q # r => req'[q] = req[q]
      BY <1>8, MailRows DEF Moved, Rests, Becomes, Analysing
    <2>. QED
      BY <2>1, <2>2, MoveLeases
  <1>. QED
    BY <1>1, <1>2, <1>3, <1>4, <1>5, <1>6, <1>7, <1>8, TickLeases, GiveLease, GiveClip
       DEF Next, Step

-----------------------------------------------------------------------------
(***************************************************************************)
(* Bodies.  Whoever is on its way to grade an exam with a recording        *)
(* carries the submission that was stored first; whoever mails a report    *)
(* has seen an evaluation.                                                 *)
(***************************************************************************)
ClipSteps == {"clip", "clip lease", "analyse", "clip done", "clip failed"}

BodyFits(o) ==
  /\ o.step \in ClipSteps \union {"lease"} => recorded /\ o.body \in Bodies /\ o.body = submission
  /\ o.step = "grade" => o.body \in Bodies /\ (recorded => o.body = submission)
  /\ o.step \in {"mail", "send", "audit"} => evaluation # "none"

GradedInv == GradedOnSubmission /\ \A r \in Requests : BodyFits(req[r])

LEMMA GradedMove ==
    ASSUME GradedInv, NEW r \in Requests, \A q \in Requests : q # r => req'[q] = req[q],
           recorded' = recorded, submission' = submission, answers' = answers,
           evaluation' = evaluation, score' = score,
           mails' = mails \/ evaluation # "none",
           BodyFits(req[r])'
    PROVE  GradedInv'
  <1>1. GradedOnSubmission'
    BY DEF GradedInv, GradedOnSubmission
  <1>2. ASSUME NEW q \in Requests, q # r
        PROVE  BodyFits(req[q])'
    BY <1>2 DEF GradedInv, BodyFits
  <1>. QED
    BY <1>1, <1>2 DEF GradedInv

LEMMA SubmitGraded ==
    ASSUME ExamTypeOK, GradedInv, NEW r \in Requests, NEW b \in Bodies,
           EvaluateText(r, b) \/ StoreSubmission(r, b) \/ EvaluateStored(r) \/ Acquire(r)
    PROVE  GradedInv'
  <1>1. CASE EvaluateText(r, b)
    <2>1. Becomes(r, "grade", b, 0, 0, 0, 0, FALSE, FALSE)
      BY <1>1, Began
    <2>2. /\ recorded' = recorded /\ submission' = submission /\ answers' = answers
          /\ evaluation' = evaluation /\ score' = score /\ mails' = mails /\ ~recorded
      BY <1>1 DEF EvaluateText, interviewVars, mailVars
    <2>3. BodyFits(req[r])'
      BY <2>1, <2>2 DEF Becomes, BodyFits, ClipSteps
    <2>. QED
      BY <2>1, <2>2, <2>3, GradedMove DEF Becomes
  <1>2. CASE StoreSubmission(r, b)
    <2>1. Becomes(r, "lease", b, 0, 0, 0, 0, TRUE, FALSE)
      BY <1>2, Stored
    <2>2. /\ recorded' = recorded /\ submission' = b /\ answers' = b /\ recorded
          /\ evaluation' = evaluation /\ score' = score /\ mails' = mails
          /\ submission = NoBody /\ score = NoScore
      BY <1>2 DEF StoreSubmission, mailVars
    <2>3. GradedOnSubmission'
      BY <2>2 DEF GradedInv, GradedOnSubmission
    <2>4. BodyFits(req[r])'
      BY <2>1, <2>2 DEF Becomes, BodyFits, ClipSteps
    <2>5. ASSUME NEW q \in Requests, q # r
          PROVE  BodyFits(req[q])'
      <3>1. req'[q] = req[q]
        BY <2>1, <2>5 DEF Becomes
      <3>2. /\ req[q].step \notin ClipSteps \union {"lease", "grade"}
            /\ req[q].step \in {"mail", "send", "audit"} => evaluation # "none"
        BY <2>2, EvaluationOK DEF GradedInv, BodyFits
      <3>. QED
        BY <2>2, <3>1, <3>2 DEF BodyFits
    <2>. QED
      BY <2>3, <2>4, <2>5 DEF GradedInv
  <1>3. CASE EvaluateStored(r)
    <2>1. Leases(r, FALSE)
      BY <1>3, LeaseRows
    <2>2. /\ recorded' = recorded /\ submission' = submission /\ answers' = answers
          /\ evaluation' = evaluation /\ score' = score /\ mails' = mails
          /\ recorded /\ submission # NoBody
      BY <1>3 DEF EvaluateStored, interviewVars, mailVars
    <2>3. req'[r].step = "clip" /\ req'[r].body = submission /\ submission \in Bodies
      BY <2>1, <2>2 DEF Leases, Becomes, ExamTypeOK
    <2>4. BodyFits(req[r])'
      BY <2>2, <2>3 DEF BodyFits, ClipSteps
    <2>5. \A q \in Requests : q # r => req'[q] = req[q]
      BY <2>1 DEF Leases, Becomes
    <2>. QED
      BY <2>2, <2>4, <2>5, GradedMove
  <1>4. CASE Acquire(r)
    <2>1. \/ Becomes(r, "clip", req[r].body, now + EvaluationLease, 1, 0, 0, TRUE, FALSE)
          \/ Rests(r)
      BY <1>4, LeaseRows
    <2>2. /\ recorded' = recorded /\ submission' = submission /\ answers' = answers
          /\ evaluation' = evaluation /\ score' = score /\ mails' = mails
          /\ req[r].step = "lease"
      BY <1>4 DEF Acquire, interviewVars, mailVars
    <2>3. /\ req'[r].step = "idle" \/ (req'[r].step = "clip" /\ req'[r].body = req[r].body)
          /\ \A q \in Requests : q # r => req'[q] = req[q]
      BY <2>1 DEF Rests, Becomes
    <2>4. recorded /\ req[r].body \in Bodies /\ req[r].body = submission
      BY <2>2 DEF GradedInv, BodyFits
    <2>5. BodyFits(req[r])'
      BY <2>2, <2>3, <2>4 DEF BodyFits, ClipSteps
    <2>. QED
      BY <2>2, <2>3, <2>5, GradedMove
  <1>. QED
    BY <1>1, <1>2, <1>3, <1>4

LEMMA ClipGraded ==
    ASSUME ExamTypeOK, GradedInv, NEW r \in Requests,
           \/ CheckClip(r) \/ AcquireClip(r) \/ SavePart(r) \/ AnalysisFails(r) \/ ReleaseClip(r)
    PROVE  GradedInv'
  <1>1. /\ recorded' = recorded /\ submission' = submission /\ answers' = answers
        /\ evaluation' = evaluation /\ score' = score /\ mails' = mails
        /\ req[r].step \in ClipSteps
    BY DEF CheckClip, AcquireClip, SavePart, AnalysisFails, ReleaseClip, interviewVars, mailVars,
           ClipSteps
  <1>2. recorded /\ req[r].body \in Bodies /\ req[r].body = submission
    BY <1>1 DEF GradedInv, BodyFits
  <1>3. /\ req'[r].body = req[r].body /\ req'[r].step \in ClipSteps \union {"grade", "release"}
        /\ \A q \in Requests : q # r => req'[q] = req[q]
    <2>1. CASE CheckClip(r)
      BY <2>1, CheckRows DEF Moved, Becomes, ClipSteps
    <2>2. CASE AcquireClip(r)
      <3>1. \/ \E p \in Nat : Becomes(r, "analyse", req[r].body, req[r].until, req[r].clip,
                                      now + AnalysisLease, p, req[r].first, req[r].sent)
            \/ Moved(r, "release")
        BY <2>2, AcquireRows
      <3>. QED
        BY <3>1 DEF Moved, Becomes, ClipSteps
    <2>3. CASE SavePart(r)
      BY <2>3, SaveRows DEF Moved, Becomes, ClipSteps
    <2>4. CASE AnalysisFails(r)
      BY <2>4, FailRows DEF Moved, Becomes, ClipSteps
    <2>5. CASE ReleaseClip(r)
      BY <2>5, ReleaseRows DEF Becomes, ClipSteps
    <2>. QED
      BY <2>1, <2>2, <2>3, <2>4, <2>5
  <1>4. BodyFits(req[r])'
    BY <1>1, <1>2, <1>3 DEF BodyFits, ClipSteps
  <1>. QED
    BY <1>1, <1>3, <1>4, GradedMove

LEMMA SaveGraded ==
    ASSUME ExamTypeOK, GradedInv, NEW r \in Requests, NEW mark, Save(r, mark)
    PROVE  GradedInv'
  <1>1. req[r].body \in Bodies /\ (recorded => req[r].body = submission)
    BY DEF Save, GradedInv, BodyFits
  <1>2. /\ recorded' = recorded /\ submission' = submission /\ answers' = req[r].body
        /\ mails' = mails
        /\ \/ /\ mark \in Marks /\ evaluation' = "complete" /\ score' = <<req[r].body, mark>>
           \/ evaluation' = "pending" /\ score' = NoScore
    BY DEF Save, mailVars
  <1>3. GradedOnSubmission'
    <2>1. CASE mark \in Marks /\ evaluation' = "complete" /\ score' = <<req[r].body, mark>>
      <3>1. score' \in Bodies \X Marks /\ score'[1] = answers'
        BY <1>1, <1>2, <2>1
      <3>2. score' # NoScore
        BY <3>1, EvaluationOK
      <3>. QED
        BY <1>1, <1>2, <2>1, <3>1, <3>2 DEF GradedOnSubmission
    <2>2. CASE evaluation' = "pending" /\ score' = NoScore
      BY <1>1, <1>2, <2>2 DEF GradedOnSubmission
    <2>. QED
      BY <1>2, <2>1, <2>2
  <1>4. /\ req'[r].step \in {"mail", "release"}
        /\ \A q \in Requests : q # r => req'[q] = req[q]
    BY MailRows DEF Moved, Becomes
  <1>5. evaluation' # "none"
    BY <1>2
  <1>6. ASSUME NEW q \in Requests
        PROVE  BodyFits(req[q])'
    <2>1. CASE q = r
      BY <1>4, <1>5, <2>1 DEF BodyFits, ClipSteps
    <2>2. CASE q # r
      BY <1>2, <1>4, <1>5, <2>2 DEF BodyFits, GradedInv
    <2>. QED
      BY <2>1, <2>2
  <1>. QED
    BY <1>3, <1>6 DEF GradedInv

LEMMA MailGraded ==
    ASSUME ExamTypeOK, GradedInv, NEW r \in Requests,
           \/ Release(r) \/ OpenResult(r) \/ LockMail(r) \/ Send(r) \/ Audit(r) \/ Crash(r)
    PROVE  GradedInv'
  <1>1. /\ recorded' = recorded /\ submission' = submission /\ answers' = answers
        /\ evaluation' = evaluation /\ score' = score
    BY DEF Release, OpenResult, LockMail, Send, Audit, Crash, interviewVars
  <1>2. CASE Release(r) \/ Crash(r)
    <2>1. mails' = mails
      BY <1>2 DEF Release, Crash, mailVars
    <2>2. /\ req'[r].step = "idle" /\ \A q \in Requests : q # r => req'[q] = req[q]
      BY <1>2, MailRows DEF Rests, Becomes
    <2>3. BodyFits(req[r])'
      BY <2>2 DEF BodyFits, ClipSteps
    <2>. QED
      BY <1>1, <2>1, <2>2, <2>3, GradedMove
  <1>3. CASE OpenResult(r)
    <2>1. mails' = mails /\ evaluation # "none"
      BY <1>3 DEF OpenResult, mailVars, GradedInv, GradedOnSubmission
    <2>2. /\ req'[r].step = "mail" /\ \A q \in Requests : q # r => req'[q] = req[q]
      BY <1>3, MailRows DEF Moved, Becomes
    <2>3. BodyFits(req[r])'
      BY <1>1, <2>1, <2>2 DEF BodyFits, ClipSteps
    <2>. QED
      BY <1>1, <2>1, <2>2, <2>3, GradedMove
  <1>4. CASE LockMail(r) \/ Send(r) \/ Audit(r)
    <2>1. evaluation # "none"
      BY <1>4 DEF LockMail, Send, Audit, GradedInv, BodyFits
    <2>2. /\ req'[r].step \in {"send", "audit", "release"}
          /\ \A q \in Requests : q # r => req'[q] = req[q]
      <3>1. CASE LockMail(r) \/ Audit(r)
        BY <3>1, MailRows DEF Moved, Becomes
      <3>2. CASE Send(r)
        BY <3>2, MailRows DEF Becomes
      <3>. QED
        BY <1>4, <3>1, <3>2
    <2>3. BodyFits(req[r])'
      BY <1>1, <2>1, <2>2 DEF BodyFits, ClipSteps
    <2>. QED
      BY <1>1, <2>1, <2>2, <2>3, GradedMove
  <1>. QED
    BY <1>2, <1>3, <1>4

(* Types and bodies go together: a score is a pair because a body is one.    *)
LEMMA TypesAndBodies == ExamTypeOK /\ GradedInv /\ Next => ExamTypeOK' /\ GradedInv'
  <1> SUFFICES ASSUME ExamTypeOK, GradedInv, Next PROVE ExamTypeOK' /\ GradedInv'
    OBVIOUS
  <1>1. ASSUME Tick PROVE ExamTypeOK' /\ GradedInv'
    <2>1. GradedInv'
      BY <1>1 DEF Tick, interviewVars, mailVars, GradedInv, GradedOnSubmission, BodyFits
    <2>. QED
      BY <1>1, <2>1, TickTyped
  <1>2. ASSUME NEW r \in Requests, NEW b \in Bodies, EvaluateText(r, b) \/ StoreSubmission(r, b)
        PROVE  ExamTypeOK' /\ GradedInv'
    BY <1>2, EvaluateTyped, SubmitGraded
  <1>3. ASSUME NEW r \in Requests, EvaluateStored(r) \/ Acquire(r)
        PROVE  ExamTypeOK' /\ GradedInv'
    <2>1. PICK b \in Bodies : TRUE
      <3>1. CASE EvaluateStored(r)
        BY <3>1 DEF EvaluateStored, ExamTypeOK
      <3>2. CASE Acquire(r)
        BY <3>2 DEF Acquire, GradedInv, BodyFits
      <3>. QED
        BY <1>3, <3>1, <3>2
    <2>. QED
      BY <1>3, <2>1, EvaluateTyped, SubmitGraded
  <1>4. ASSUME NEW r \in Requests,
               \/ CheckClip(r) \/ AcquireClip(r) \/ SavePart(r) \/ AnalysisFails(r)
               \/ ReleaseClip(r)
        PROVE  ExamTypeOK' /\ GradedInv'
    BY <1>4, ClipTyped, ClipGraded
  <1>5. ASSUME NEW r \in Requests, NEW mark, Save(r, mark)
        PROVE  ExamTypeOK' /\ GradedInv'
    <2>1. req[r].body \in Bodies
      BY <1>5 DEF Save, GradedInv, BodyFits
    <2>. QED
      BY <1>5, <2>1, SaveTyped, SaveGraded
  <1>6. ASSUME NEW r \in Requests,
               \/ Release(r) \/ OpenResult(r) \/ LockMail(r) \/ Send(r) \/ Audit(r) \/ Crash(r)
        PROVE  ExamTypeOK' /\ GradedInv'
    BY <1>6, MailTyped, MailGraded
  <1>. QED
    BY <1>1, <1>2, <1>3, <1>4, <1>5, <1>6 DEF Next, Step

-----------------------------------------------------------------------------
(***************************************************************************)
(* The fence.  While no request outlived its lease, whoever analyses or    *)
(* grades an exam with a recording holds a lease that runs, so it is the   *)
(* only one: nobody else can have saved a score, or finished the analysis  *)
(* it found unfinished.                                                    *)
(***************************************************************************)
FenceInv ==
  /\ \A r \in Requests : req[r].step \in ClipSteps => req[r].until # 0
  /\ recorded => \A r \in Requests : req[r].step = "grade" => req[r].until # 0
  /\ ~overran => \A r \in Requests : req[r].until # 0 => req[r].until > now
  /\ ~overran /\ recorded => \A r \in Requests :
       req[r].step \in ClipSteps \union {"grade"} /\ ~req[r].first => score = NoScore
  /\ ~overran => \A r \in Requests :
       req[r].step \in {"clip lease", "analyse"} => ~analysis[req[r].clip].full

LEMMA Alone ==
    ASSUME LeaseInv, FenceInv, ~overran, NEW p \in Requests, NEW q \in Requests,
           req[p].until # 0, req[q].until # 0
    PROVE  q = p
  BY DEF LeaseInv, FenceInv

(* One request moves, keeps its lease or loses it, and starts nothing anew.  *)
LEMMA FenceMove ==
    ASSUME FenceInv, NEW r \in Requests, \A q \in Requests : q # r => req'[q] = req[q],
           now' = now, recorded' = recorded, overran' = overran, score' = score,
           analysis' = analysis,
           req'[r].until \in {req[r].until, 0},
           \/ req'[r].step \notin ClipSteps \union {"grade"}
           \/ req'[r].step = "grade" /\ ~recorded
           \/ /\ req[r].step \in ClipSteps
              /\ req'[r].until = req[r].until /\ req'[r].first = req[r].first,
           req'[r].step \in {"clip lease", "analyse"} /\ ~overran =>
              ~analysis[req'[r].clip].full
    PROVE  FenceInv'
  <1>1. \A q \in Requests : req'[q].step \in ClipSteps => req'[q].until # 0
    BY DEF FenceInv, ClipSteps
  <1>2. recorded => \A q \in Requests : req'[q].step = "grade" => req'[q].until # 0
    BY DEF FenceInv, ClipSteps
  <1>3. ~overran => \A q \in Requests : req'[q].until # 0 => req'[q].until > now
    BY DEF FenceInv
  <1>4. ~overran /\ recorded => \A q \in Requests :
          req'[q].step \in ClipSteps \union {"grade"} /\ ~req'[q].first => score = NoScore
    BY DEF FenceInv, ClipSteps
  <1>5. ~overran => \A q \in Requests :
          req'[q].step \in {"clip lease", "analyse"} => ~analysis[req'[q].clip].full
    BY DEF FenceInv
  <1>. QED
    BY <1>1, <1>2, <1>3, <1>4, <1>5 DEF FenceInv

LEMMA TickFence == ASSUME ExamTypeOK, FenceInv, Tick PROVE FenceInv'
  <1>1. /\ now' = now + 1 /\ req' = req /\ recorded' = recorded /\ score' = score
        /\ analysis' = analysis
        /\ overran' = (overran \/ \E r \in Requests : req[r].until \in 1 .. now + 1)
    BY DEF Tick, interviewVars
  <1>2. ~overran' => ~overran /\ \A r \in Requests : req[r].until # 0 => req[r].until > now'
    <2>1. now \in Nat /\ \A r \in Requests : req[r].until \in Nat
      BY RowTypes
    <2>2. \A r \in Requests : req[r].until # 0 /\ ~(req[r].until > now + 1)
                              => req[r].until \in 1 .. now + 1
      BY <2>1
    <2>. QED
      BY <1>1, <2>2
  <1>. QED
    BY <1>1, <1>2 DEF FenceInv

(* A lease taken: nobody held one that runs.                                 *)
LEMMA TakeFence ==
    ASSUME ExamTypeOK, FenceInv, NEW r \in Requests, NEW b, NEW f \in BOOLEAN,
           Becomes(r, "clip", b, now + EvaluationLease, 1, 0, 0, f, FALSE),
           now' = now, recorded' = recorded, overran' = overran, score' = score,
           analysis' = analysis, f \/ score = NoScore
    PROVE  FenceInv'
  <1>1. /\ req'[r].step = "clip" /\ req'[r].until = now + EvaluationLease
        /\ req'[r].first = f /\ \A q \in Requests : q # r => req'[q] = req[q]
    BY DEF Becomes
  <1>2. now + EvaluationLease > now /\ now + EvaluationLease # 0
    BY Numbers, RowTypes
  <1>3. \A q \in Requests : req'[q].step \in ClipSteps => req'[q].until # 0
    BY <1>1, <1>2 DEF FenceInv
  <1>4. recorded => \A q \in Requests : req'[q].step = "grade" => req'[q].until # 0
    BY <1>1, <1>2 DEF FenceInv
  <1>5. ~overran => \A q \in Requests : req'[q].until # 0 => req'[q].until > now
    BY <1>1, <1>2 DEF FenceInv
  <1>6. ~overran /\ recorded => \A q \in Requests :
          req'[q].step \in ClipSteps \union {"grade"} /\ ~req'[q].first => score = NoScore
    BY <1>1 DEF FenceInv
  <1>7. ~overran => \A q \in Requests :
          req'[q].step \in {"clip lease", "analyse"} => ~analysis[req'[q].clip].full
    BY <1>1 DEF FenceInv
  <1>. QED
    BY <1>3, <1>4, <1>5, <1>6, <1>7 DEF FenceInv

LEMMA SubmitFence ==
    ASSUME ExamTypeOK, FenceInv, NEW r \in Requests, NEW b \in Bodies,
           EvaluateText(r, b) \/ StoreSubmission(r, b)
    PROVE  FenceInv'
  <1>1. now' = now /\ recorded' = recorded /\ overran' = overran /\ score' = score
        /\ analysis' = analysis
    BY DEF EvaluateText, StoreSubmission, interviewVars, history
  <1>2. CASE EvaluateText(r, b)
    <2>1. Becomes(r, "grade", b, 0, 0, 0, 0, FALSE, FALSE) /\ ~recorded
      BY <1>2, Began DEF EvaluateText
    <2>. QED
      BY <1>1, <2>1, FenceMove DEF Becomes, ClipSteps
  <1>3. CASE StoreSubmission(r, b)
    <2>1. Becomes(r, "lease", b, 0, 0, 0, 0, TRUE, FALSE)
      BY <1>3, Stored
    <2>. QED
      BY <1>1, <2>1, FenceMove DEF Becomes, ClipSteps
  <1>. QED
    BY <1>2, <1>3

LEMMA LeaseFence ==
    ASSUME ExamTypeOK, FenceInv, NEW r \in Requests, EvaluateStored(r) \/ Acquire(r)
    PROVE  FenceInv'
  <1>1. now' = now /\ recorded' = recorded /\ overran' = overran /\ score' = score
        /\ analysis' = analysis
    BY DEF EvaluateStored, Acquire, interviewVars, history
  <1>2. CASE EvaluateStored(r)
    <2>1. /\ Becomes(r, "clip", submission, now + EvaluationLease, 1, 0, 0, FALSE, FALSE)
          /\ score = NoScore
      BY <1>2, LeaseRows DEF Leases, EvaluateStored
    <2>. QED
      BY <1>1, <2>1, TakeFence
  <1>3. CASE Acquire(r)
    <2>1. CASE Becomes(r, "clip", req[r].body, now + EvaluationLease, 1, 0, 0, TRUE, FALSE)
      BY <1>1, <2>1, TakeFence
    <2>2. CASE Rests(r)
      BY <1>1, <2>2, FenceMove DEF Rests, Becomes, ClipSteps
    <2>. QED
      BY <1>3, <2>1, <2>2, LeaseRows
  <1>. QED
    BY <1>2, <1>3

LEMMA ClipFence ==
    ASSUME ExamTypeOK, FenceInv, NEW r \in Requests,
           CheckClip(r) \/ AcquireClip(r) \/ AnalysisFails(r) \/ ReleaseClip(r)
    PROVE  FenceInv'
  <1>1. /\ now' = now /\ recorded' = recorded /\ overran' = overran /\ score' = score
        /\ analysis' = analysis /\ req[r].step \in ClipSteps
    BY DEF CheckClip, AcquireClip, AnalysisFails, ReleaseClip, interviewVars, history, ClipSteps
  <1>2. CASE CheckClip(r)
    <2>1. /\ req'[r].until = req[r].until /\ req'[r].first = req[r].first
          /\ \A q \in Requests : q # r => req'[q] = req[q]
          /\ req'[r].step \in {"clip lease", "analyse"} => ~analysis[req'[r].clip].full
      BY <1>2, CheckRows DEF Moved, Becomes
    <2>. QED
      BY <1>1, <2>1, FenceMove
  <1>3. CASE AcquireClip(r)
    <2>1. \/ \E p \in Nat : Becomes(r, "analyse", req[r].body, req[r].until, req[r].clip,
                                    now + AnalysisLease, p, req[r].first, req[r].sent)
          \/ Moved(r, "release")
      BY <1>3, AcquireRows
    <2>2. /\ req'[r].until = req[r].until /\ req'[r].first = req[r].first
          /\ req'[r].clip = req[r].clip /\ \A q \in Requests : q # r => req'[q] = req[q]
      BY <2>1 DEF Moved, Becomes
    <2>3. ~overran => ~analysis[req[r].clip].full
      BY <1>3 DEF AcquireClip, FenceInv
    <2>. QED
      BY <1>1, <2>2, <2>3, FenceMove
  <1>4. CASE AnalysisFails(r)
    <2>1. Moved(r, "clip failed")
      BY <1>4, FailRows
    <2>. QED
      BY <1>1, <2>1, FenceMove DEF Moved, Becomes
  <1>5. CASE ReleaseClip(r)
    <2>1. /\ req'[r].until = req[r].until /\ req'[r].first = req[r].first
          /\ req'[r].step \in {"clip", "release"}
          /\ \A q \in Requests : q # r => req'[q] = req[q]
      BY <1>5, ReleaseRows DEF Becomes
    <2>. QED
      BY <1>1, <2>1, FenceMove
  <1>. QED
    BY <1>2, <1>3, <1>4, <1>5

(* A part saved: the others, if any, are past the fence.                     *)
LEMMA PartFence ==
    ASSUME ExamTypeOK, LeaseInv, FenceInv, NEW r \in Requests, SavePart(r)
    PROVE  FenceInv'
  <1>1. /\ now' = now /\ recorded' = recorded /\ overran' = overran /\ score' = score
        /\ req[r].step = "analyse"
    BY DEF SavePart, interviewVars, history
  <1>2. /\ req'[r].until = req[r].until /\ req'[r].first = req[r].first
        /\ req'[r].clip = req[r].clip
        /\ \A q \in Requests : q # r => req'[q] = req[q]
        /\ \/ req'[r].step = "analyse" /\ req[r].parts + 1 <= Parts
           \/ req'[r].step = "clip done" /\ ~(req[r].parts + 1 <= Parts)
    BY SaveRows DEF Moved, Becomes
  <1>3. req[r].until # 0 /\ req[r].clip \in 1 .. Clips
    BY <1>1 DEF FenceInv, ClipSteps, ExamTypeOK
  <1>4. \A q \in Requests : req'[q].step \in ClipSteps => req'[q].until # 0
    BY <1>2, <1>3 DEF FenceInv
  <1>5. recorded => \A q \in Requests : req'[q].step = "grade" => req'[q].until # 0
    BY <1>2 DEF FenceInv
  <1>6. ~overran => \A q \in Requests : req'[q].until # 0 => req'[q].until > now
    BY <1>2 DEF FenceInv
  <1>7. ~overran /\ recorded => \A q \in Requests :
          req'[q].step \in ClipSteps \union {"grade"} /\ ~req'[q].first => score = NoScore
    BY <1>1, <1>2 DEF FenceInv, ClipSteps
  <1>8. ~overran => \A q \in Requests :
          req'[q].step \in {"clip lease", "analyse"} => ~analysis'[req'[q].clip].full
    <2> SUFFICES ASSUME ~overran, NEW q \in Requests, req'[q].step \in {"clip lease", "analyse"}
                 PROVE  ~analysis'[req'[q].clip].full
      OBVIOUS
    <2>1. CASE q = r
      <3>1. req[r].parts + 1 <= Parts
        BY <1>2, <2>1
      <3>2. analysis' = [analysis EXCEPT ![req[r].clip] = [parts |-> req[r].parts + 1, full |-> FALSE]]
        BY <3>1 DEF SavePart
      <3>3. analysis'[req[r].clip].full = FALSE
        BY <1>3, <3>2 DEF ExamTypeOK
      <3>. QED
        BY <1>2, <2>1, <3>3
    <2>2. CASE q # r
      <3>1. req[q].step \in ClipSteps
        BY <1>2, <2>2 DEF ClipSteps
      <3>2. req[q].until # 0
        BY <3>1 DEF FenceInv
      <3>. QED
        BY <1>3, <2>2, <3>2, Alone
    <2>. QED
      BY <2>1, <2>2
  <1>. QED
    BY <1>1, <1>4, <1>5, <1>6, <1>7, <1>8 DEF FenceInv

LEMMA SaveFence ==
    ASSUME ExamTypeOK, LeaseInv, FenceInv, NEW r \in Requests, NEW mark, Save(r, mark)
    PROVE  FenceInv'
  <1>1. /\ now' = now /\ recorded' = recorded /\ overran' = overran /\ analysis' = analysis
        /\ req[r].step = "grade"
    BY DEF Save, history
  <1>2. /\ req'[r].step \in {"mail", "release"} /\ req'[r].until = req[r].until
        /\ \A q \in Requests : q # r => req'[q] = req[q]
    BY MailRows DEF Moved, Becomes
  <1>3. ~overran /\ recorded => \A q \in Requests :
          ~(req'[q].step \in ClipSteps \union {"grade"})
    <2> SUFFICES ASSUME ~overran, recorded, NEW q \in Requests,
                        req'[q].step \in ClipSteps \union {"grade"}
                 PROVE  FALSE
      OBVIOUS
    <2>1. q # r /\ req'[q] = req[q]
      BY <1>2 DEF ClipSteps
    <2>2. req[q].until # 0 /\ req[r].until # 0
      BY <1>1, <2>1 DEF FenceInv
    <2>. QED
      BY <2>1, <2>2, Alone
  <1>4. \A q \in Requests : req'[q].step \in ClipSteps => req'[q].until # 0
    BY <1>2 DEF FenceInv, ClipSteps
  <1>5. recorded => \A q \in Requests : req'[q].step = "grade" => req'[q].until # 0
    BY <1>2 DEF FenceInv
  <1>6. ~overran => \A q \in Requests : req'[q].until # 0 => req'[q].until > now
    BY <1>2 DEF FenceInv
  <1>7. ~overran => \A q \in Requests :
          req'[q].step \in {"clip lease", "analyse"} => ~analysis[req'[q].clip].full
    BY <1>2 DEF FenceInv
  <1>. QED
    BY <1>1, <1>3, <1>4, <1>5, <1>6, <1>7 DEF FenceInv

LEMMA MailFence ==
    ASSUME ExamTypeOK, FenceInv, NEW r \in Requests,
           \/ Release(r) \/ OpenResult(r) \/ LockMail(r) \/ Send(r) \/ Audit(r) \/ Crash(r)
    PROVE  FenceInv'
  <1>1. /\ now' = now /\ recorded' = recorded /\ overran' = overran /\ score' = score
        /\ analysis' = analysis
    BY DEF Release, OpenResult, LockMail, Send, Audit, Crash, interviewVars, history
  <1>2. /\ req'[r].step \notin ClipSteps \union {"grade"} /\ req'[r].until \in {req[r].until, 0}
        /\ \A q \in Requests : q # r => req'[q] = req[q]
    <2>1. CASE Release(r) \/ OpenResult(r) \/ LockMail(r) \/ Audit(r) \/ Crash(r)
      BY <2>1, MailRows DEF Moved, Rests, Becomes, ClipSteps
    <2>2. CASE Send(r)
      BY <2>2, MailRows DEF Becomes, ClipSteps
    <2>. QED
      BY <2>1, <2>2
  <1>. QED
    BY <1>1, <1>2, FenceMove DEF ClipSteps

LEMMA FenceKept == ExamTypeOK /\ LeaseInv /\ FenceInv /\ Next => FenceInv'
  <1> SUFFICES ASSUME ExamTypeOK, LeaseInv, FenceInv, Next PROVE FenceInv'
    OBVIOUS
  <1>1. ASSUME NEW r \in Requests, NEW b \in Bodies, EvaluateText(r, b) \/ StoreSubmission(r, b)
        PROVE  FenceInv'
    BY <1>1, SubmitFence
  <1>2. ASSUME NEW r \in Requests, EvaluateStored(r) \/ Acquire(r)
        PROVE  FenceInv'
    BY <1>2, LeaseFence
  <1>3. ASSUME NEW r \in Requests, NEW mark, Save(r, mark)
        PROVE  FenceInv'
    BY <1>3, SaveFence
  <1>4. ASSUME NEW r \in Requests,
               \/ CheckClip(r) \/ AcquireClip(r) \/ SavePart(r) \/ AnalysisFails(r)
               \/ ReleaseClip(r)
        PROVE  FenceInv'
    BY <1>4, ClipFence, PartFence
  <1>5. ASSUME NEW r \in Requests,
               \/ Release(r) \/ OpenResult(r) \/ LockMail(r) \/ Send(r) \/ Audit(r) \/ Crash(r)
        PROVE  FenceInv'
    BY <1>5, MailFence
  <1>. QED
    BY <1>1, <1>2, <1>3, <1>4, <1>5, TickFence DEF Next, Step

-----------------------------------------------------------------------------
(***************************************************************************)
(* The report.  The lock belongs to the request that mails and audits, so  *)
(* a mail that left is audited, about to be, or lost with its process.     *)
(***************************************************************************)
Mailing(r) == req[r].step \in {"send", "audit"}

MailInv ==
  /\ \A r \in Requests : Mailing(r) => mailLock = r /\ ~sentAudit
  /\ mails > 0 => \/ sentAudit \/ mailLost
                  \/ \E r \in Requests : req[r].step = "audit" /\ req[r].sent
  /\ MailedOnce

(* The mail is not touched, and who moves neither mailed nor begins to.      *)
LEMMA MailMove ==
    ASSUME MailInv, NEW r \in Requests, \A q \in Requests : q # r => req'[q] = req[q],
           mails' = mails, sentAudit' = sentAudit, mailLock' = mailLock, mailLost' = mailLost,
           req[r].step \notin {"send", "audit"}, req'[r].step \notin {"send", "audit"}
    PROVE  MailInv'
  <1>1. \A q \in Requests : Mailing(q)' => q # r /\ Mailing(q)
    BY DEF Mailing
  <1>2. \A q \in Requests : req[q].step = "audit" /\ req[q].sent =>
                             req'[q].step = "audit" /\ req'[q].sent
    OBVIOUS
  <1>. QED
    BY <1>1, <1>2 DEF MailInv, MailedOnce

LEMMA EvaluateMails ==
    ASSUME ExamTypeOK, MailInv, NEW r \in Requests,
           \/ \E b \in Bodies : EvaluateText(r, b) \/ StoreSubmission(r, b)
           \/ EvaluateStored(r) \/ Acquire(r)
    PROVE  MailInv'
  <1>1. /\ mails' = mails /\ sentAudit' = sentAudit /\ mailLock' = mailLock
        /\ mailLost' = mailLost /\ req[r].step \in {"idle", "lease"}
    BY DEF EvaluateText, StoreSubmission, EvaluateStored, Acquire, mailVars, history
  <1>2. /\ req'[r].step \in {"grade", "lease", "clip", "idle"}
        /\ \A q \in Requests : q # r => req'[q] = req[q]
    <2>1. CASE EvaluateStored(r)
      BY <2>1, LeaseRows DEF Leases, Becomes
    <2>2. CASE Acquire(r)
      BY <2>2, LeaseRows DEF Rests, Becomes
    <2>3. ASSUME NEW b \in Bodies, EvaluateText(r, b) \/ StoreSubmission(r, b)
          PROVE  /\ req'[r].step \in {"grade", "lease", "clip", "idle"}
                 /\ \A q \in Requests : q # r => req'[q] = req[q]
      BY <2>3, Began, Stored DEF Becomes
    <2>. QED
      BY <2>1, <2>2, <2>3
  <1>. QED
    BY <1>1, <1>2, MailMove

LEMMA ClipMails ==
    ASSUME ExamTypeOK, MailInv, NEW r \in Requests,
           \/ CheckClip(r) \/ AcquireClip(r) \/ SavePart(r) \/ AnalysisFails(r)
           \/ ReleaseClip(r) \/ Release(r) \/ OpenResult(r) \/ \E mark : Save(r, mark)
    PROVE  MailInv'
  <1>1. /\ mails' = mails /\ sentAudit' = sentAudit /\ mailLock' = mailLock
        /\ mailLost' = mailLost /\ req[r].step \notin {"send", "audit"}
    BY DEF CheckClip, AcquireClip, SavePart, AnalysisFails, ReleaseClip, Release, OpenResult,
           Save, mailVars, history
  <1>2. /\ req'[r].step \notin {"send", "audit"}
        /\ \A q \in Requests : q # r => req'[q] = req[q]
    <2>1. CASE CheckClip(r)
      BY <2>1, CheckRows DEF Moved, Becomes, CheckClip
    <2>2. CASE AcquireClip(r)
      <3>1. \/ \E p \in Nat : Becomes(r, "analyse", req[r].body, req[r].until, req[r].clip,
                                      now + AnalysisLease, p, req[r].first, req[r].sent)
            \/ Moved(r, "release")
        BY <2>2, AcquireRows
      <3>. QED
        BY <3>1 DEF Moved, Becomes
    <2>3. CASE SavePart(r) \/ AnalysisFails(r)
      BY <2>3, SaveRows, FailRows DEF Moved, Becomes
    <2>4. CASE ReleaseClip(r)
      BY <2>4, ReleaseRows DEF Becomes
    <2>5. CASE Release(r) \/ OpenResult(r) \/ \E mark : Save(r, mark)
      BY <2>5, MailRows DEF Moved, Rests, Becomes
    <2>. QED
      BY <2>1, <2>2, <2>3, <2>4, <2>5
  <1>. QED
    BY <1>1, <1>2, MailMove

LEMMA LockMails ==
    ASSUME ExamTypeOK, MailInv, NEW r \in Requests, LockMail(r)
    PROVE  MailInv'
  <1>1. /\ mails' = mails /\ sentAudit' = sentAudit /\ mailLost' = mailLost
        /\ req[r].step = "mail" /\ mailLock = NoRequest
    BY DEF LockMail, history
  <1>2. \A q \in Requests : ~Mailing(q)
    BY <1>1, EvaluationOK DEF MailInv
  <1>3. /\ \A q \in Requests : q # r => req'[q] = req[q]
        /\ \/ req'[r].step = "release"
           \/ req'[r].step = "send" /\ ~sentAudit /\ mailLock' = r
    BY MailRows DEF LockMail, Moved, Becomes
  <1>4. \A q \in Requests : Mailing(q)' => mailLock' = q /\ ~sentAudit'
    BY <1>1, <1>2, <1>3 DEF Mailing
  <1>5. mails > 0 => sentAudit \/ mailLost
    BY <1>2 DEF MailInv, Mailing
  <1>. QED
    BY <1>1, <1>4, <1>5 DEF MailInv, MailedOnce

LEMMA SendMails ==
    ASSUME ExamTypeOK, MailInv, NEW r \in Requests, Send(r)
    PROVE  MailInv'
  <1>1. /\ sentAudit' = sentAudit /\ mailLost' = mailLost /\ mailLock' = mailLock
        /\ req[r].step = "send"
    BY DEF Send, history
  <1>2. PICK delivered \in BOOLEAN :
          /\ mails' = IF delivered THEN mails + 1 ELSE mails
          /\ Becomes(r, "audit", req[r].body, req[r].until, req[r].clip,
                     req[r].clipUntil, req[r].parts, req[r].first, delivered)
    BY MailRows
  <1>3. /\ req'[r].step = "audit" /\ req'[r].sent = delivered
        /\ \A q \in Requests : q # r => req'[q] = req[q]
    BY <1>2 DEF Becomes
  <1>4. mailLock = r /\ ~sentAudit /\ \A q \in Requests : Mailing(q) => q = r
    BY <1>1 DEF MailInv, Mailing
  <1>5. mails > 0 => mailLost
    BY <1>1, <1>4 DEF MailInv, Mailing
  <1>6. \A q \in Requests : Mailing(q)' => mailLock' = q /\ ~sentAudit'
    BY <1>1, <1>3, <1>4 DEF Mailing
  <1>7. mails \in Nat
    BY DEF ExamTypeOK
  <1>8. CASE delivered
    <2>1. mails' = mails + 1 /\ req'[r].step = "audit" /\ req'[r].sent
      BY <1>2, <1>3, <1>8
    <2>2. mails' > 1 => mails > 0
      BY <1>7, <2>1
    <2>. QED
      BY <1>1, <1>5, <1>6, <2>1, <2>2 DEF MailInv, MailedOnce
  <1>9. CASE ~delivered
    BY <1>1, <1>2, <1>5, <1>6, <1>9 DEF MailInv, MailedOnce
  <1>. QED
    BY <1>8, <1>9

LEMMA AuditMails ==
    ASSUME ExamTypeOK, MailInv, NEW r \in Requests, Audit(r)
    PROVE  MailInv'
  <1>1. /\ mails' = mails /\ mailLost' = mailLost /\ req[r].step = "audit"
        /\ sentAudit' = IF req[r].sent THEN TRUE ELSE sentAudit
    BY DEF Audit, history
  <1>2. req'[r].step = "release" /\ \A q \in Requests : q # r => req'[q] = req[q]
    BY MailRows DEF Moved, Becomes
  <1>3. \A q \in Requests : Mailing(q) => q = r
    BY <1>1 DEF MailInv, Mailing
  <1>4. \A q \in Requests : ~Mailing(q)'
    BY <1>2, <1>3 DEF Mailing
  <1>5. mails > 0 => sentAudit' \/ mailLost
    BY <1>1, <1>3 DEF MailInv, Mailing
  <1>. QED
    BY <1>1, <1>4, <1>5 DEF MailInv, MailedOnce

LEMMA CrashMails ==
    ASSUME ExamTypeOK, MailInv, NEW r \in Requests, Crash(r)
    PROVE  MailInv'
  <1>1. /\ mails' = mails /\ sentAudit' = sentAudit
        /\ mailLock' = IF mailLock = r THEN NoRequest ELSE mailLock
        /\ mailLost' = (mailLost \/ (req[r].step = "audit" /\ req[r].sent))
    BY DEF Crash
  <1>2. req'[r].step = "idle" /\ \A q \in Requests : q # r => req'[q] = req[q]
    BY MailRows DEF Rests, Becomes
  <1>3. \A q \in Requests : Mailing(q)' => mailLock' = q /\ ~sentAudit'
    BY <1>1, <1>2 DEF MailInv, Mailing
  <1>4. mails > 0 => \/ sentAudit' \/ mailLost'
                    \/ \E q \in Requests : req'[q].step = "audit" /\ req'[q].sent
    BY <1>1, <1>2 DEF MailInv
  <1>. QED
    BY <1>1, <1>3, <1>4 DEF MailInv, MailedOnce

LEMMA MailsKept == ExamTypeOK /\ MailInv /\ Next => MailInv'
  <1> SUFFICES ASSUME ExamTypeOK, MailInv, Next PROVE MailInv'
    OBVIOUS
  <1>1. ASSUME Tick PROVE MailInv'
    BY <1>1 DEF Tick, mailVars, MailInv, Mailing, MailedOnce
  <1>2. ASSUME NEW r \in Requests,
               \/ \E b \in Bodies : EvaluateText(r, b) \/ StoreSubmission(r, b)
               \/ EvaluateStored(r) \/ Acquire(r)
        PROVE  MailInv'
    BY <1>2, EvaluateMails
  <1>3. ASSUME NEW r \in Requests,
               \/ CheckClip(r) \/ AcquireClip(r) \/ SavePart(r) \/ AnalysisFails(r)
               \/ ReleaseClip(r) \/ Release(r) \/ OpenResult(r) \/ \E mark : Save(r, mark)
        PROVE  MailInv'
    BY <1>3, ClipMails
  <1>4. ASSUME NEW r \in Requests, LockMail(r) \/ Send(r) \/ Audit(r) \/ Crash(r)
        PROVE  MailInv'
    BY <1>4, LockMails, SendMails, AuditMails, CrashMails
  <1>. QED
    BY <1>1, <1>2, <1>3, <1>4 DEF Next, Step

-----------------------------------------------------------------------------
(***************************************************************************)
(* Theorems.                                                               *)
(***************************************************************************)
ExamInv == ExamTypeOK /\ GradedInv /\ LeaseInv /\ FenceInv /\ MailInv

LEMMA ExamInit == Init => ExamInv
  <1> SUFFICES ASSUME Init PROVE ExamInv
    OBVIOUS
  <1>1. \A r \in Requests : req[r].step = "idle" /\ req[r].until = 0
    <2>1. Idle.step = "idle" /\ Idle.until = 0
      BY DEF Idle
    <2>2. req = [r \in Requests |-> Idle]
      BY DEF Init
    <2>. QED
      BY <2>1, <2>2
  <1>2. now = 1 /\ answers = NoBody /\ score = NoScore /\ evaluation = "none" /\ mails = 0
        /\ \A r \in Requests : ~Analysing(r) /\ ~Mailing(r) /\ ~(req[r].until > now)
    <2>1. /\ now = 1 /\ answers = NoBody /\ score = NoScore /\ evaluation = "none"
          /\ mails = 0
      BY DEF Init
    <2>2. \A r \in Requests : ~Analysing(r) /\ ~Mailing(r)
      BY <1>1 DEF Analysing, Mailing
    <2>3. ASSUME NEW r \in Requests PROVE ~(req[r].until > now)
      <3>1. req[r].until = 0 /\ now = 1
        BY <1>1, <2>1
      <3>. QED
        BY <3>1
    <2>. QED
      BY <2>1, <2>2, <2>3
  <1>3. GradedInv
    <2>1. GradedOnSubmission
      BY <1>2, EvaluationOK DEF GradedOnSubmission
    <2>. QED
      BY <1>1, <2>1 DEF GradedInv, BodyFits, ClipSteps
  <1>4. LeaseInv /\ FenceInv
    BY <1>1, <1>2 DEF LeaseInv, FenceInv, ClipSteps
  <1>5. MailInv
    BY <1>2 DEF MailInv, MailedOnce
  <1>. QED
    BY <1>3, <1>4, <1>5, TypeInit DEF ExamInv

LEMMA ExamStep == ExamInv /\ [Next]_vars => ExamInv'
  <1>1. ExamInv /\ Next => ExamInv'
    BY TypesAndBodies, LeasesKept, FenceKept, MailsKept DEF ExamInv
  <1>2. ExamInv /\ UNCHANGED vars => ExamInv'
    <2> SUFFICES ASSUME ExamInv, UNCHANGED vars PROVE ExamInv'
      OBVIOUS
    <2>1. ExamTypeOK'
      BY DEF ExamInv, ExamTypeOK, vars, leaseVars, interviewVars, mailVars, history
    <2>2. GradedInv'
      BY DEF ExamInv, GradedInv, GradedOnSubmission, BodyFits, vars, interviewVars, mailVars
    <2>3. LeaseInv'
      BY DEF ExamInv, LeaseInv, Analysing, vars, leaseVars
    <2>4. FenceInv'
      BY DEF ExamInv, FenceInv, vars, interviewVars, history
    <2>5. MailInv'
      BY DEF ExamInv, MailInv, Mailing, MailedOnce, vars, mailVars, history
    <2>. QED
      BY <2>1, <2>2, <2>3, <2>4, <2>5 DEF ExamInv
  <1>. QED
    BY <1>1, <1>2

LEMMA ExamsHold == Spec => []ExamInv
  BY ExamInit, ExamStep, PTL DEF Spec

(***************************************************************************)
(* Every value stays where the columns and the requests can hold it.       *)
(***************************************************************************)
THEOREM ExamsTyped == Spec => []ExamTypeOK
  <1>1. ExamInv => ExamTypeOK
    BY DEF ExamInv
  <1>. QED
    BY <1>1, ExamsHold, PTL

(***************************************************************************)
(* An exam with a recording is graded on its first submission, whoever     *)
(* sends another and however requests, leases and crashes interleave.      *)
(***************************************************************************)
THEOREM FirstSubmissionGraded == Spec => []GradedOnSubmission
  <1>1. ExamInv => GradedOnSubmission
    BY DEF ExamInv, GradedInv
  <1>. QED
    BY <1>1, ExamsHold, PTL

(***************************************************************************)
(* A report is sent once, or a process died between mail and audit.        *)
(***************************************************************************)
THEOREM ReportMailedOnce == Spec => []MailedOnce
  <1>1. ExamInv => MailedOnce
    BY DEF ExamInv, MailInv
  <1>. QED
    BY <1>1, ExamsHold, PTL

(***************************************************************************)
(* A lease belongs to the live request that took it and to no other.  It   *)
(* fences the finished analyses until one is outlived, and so the score of *)
(* an exam with a recording, save from the request that stored the         *)
(* submission and took the lease only after another had graded.            *)
(***************************************************************************)
THEOREM LeasesFence == Spec => EvaluationFenced
  <1> DEFINE Lost == /\ score # NoScore /\ score' # score =>
                          \E r \in Requests :
                              /\ req[r].step = "grade"
                              /\ ~recorded \/ overran \/ req[r].first
                     /\ \A c \in 1 .. Clips : analysis[c].full /\ ~analysis'[c].full => overran
  <1>1. ExamInv => LeasesHeld
    BY DEF ExamInv, LeaseInv, LeasesHeld
  <1>2. ExamInv /\ [Next]_vars => [Lost]_vars
    <2> SUFFICES ASSUME ExamInv, Next PROVE Lost
      OBVIOUS
    <2>1. ASSUME NEW r \in Requests, NEW mark, Save(r, mark)
          PROVE  Lost
      <3>1. req[r].step = "grade" /\ analysis' = analysis
        BY <2>1 DEF Save
      <3>2. ~overran /\ recorded /\ ~req[r].first => score = NoScore
        BY <3>1 DEF ExamInv, FenceInv
      <3>. QED
        BY <3>1, <3>2
    <2>2. ASSUME NEW r \in Requests, SavePart(r)
          PROVE  Lost
      <3>1. score' = score /\ req[r].step = "analyse"
        BY <2>2 DEF SavePart, interviewVars
      <3>2. req[r].clip \in 1 .. Clips /\ (~overran => ~analysis[req[r].clip].full)
        BY <3>1 DEF ExamInv, ExamTypeOK, FenceInv
      <3>3. \A c \in 1 .. Clips : c # req[r].clip => analysis'[c] = analysis[c]
        BY <2>2, <3>2 DEF SavePart, ExamInv, ExamTypeOK
      <3>. QED
        BY <3>1, <3>2, <3>3
    <2>3. CASE score' = score /\ analysis' = analysis
      BY <2>3
    <2>4. ASSUME Tick PROVE score' = score /\ analysis' = analysis
      BY <2>4 DEF Tick, interviewVars
    <2>5. ASSUME NEW r \in Requests,
                 \/ \E b \in Bodies : EvaluateText(r, b) \/ StoreSubmission(r, b)
                 \/ EvaluateStored(r) \/ Acquire(r) \/ CheckClip(r) \/ AcquireClip(r)
                 \/ AnalysisFails(r) \/ ReleaseClip(r)
          PROVE  score' = score /\ analysis' = analysis
      BY <2>5 DEF EvaluateText, StoreSubmission, EvaluateStored, Acquire, CheckClip, AcquireClip,
                  AnalysisFails, ReleaseClip, interviewVars
    <2>6. ASSUME NEW r \in Requests,
                 \/ Release(r) \/ OpenResult(r) \/ LockMail(r) \/ Send(r) \/ Audit(r) \/ Crash(r)
          PROVE  score' = score /\ analysis' = analysis
      BY <2>6 DEF Release, OpenResult, LockMail, Send, Audit, Crash, interviewVars
    <2> HIDE DEF Lost
    <2>. QED
      BY <2>1, <2>2, <2>3, <2>4, <2>5, <2>6 DEF Next, Step
  <1>. QED
    BY <1>1, <1>2, ExamsHold, PTL DEF Spec, EvaluationFenced, RegradedOnlyUnfenced
-----------------------------------------------------------------------------
(***************************************************************************)
(* The receipts of executed programs (CodeReceipts).                       *)
(***************************************************************************)
CaseSteps == {"todo", "post", "posted", "poll", "ran", "have", "failed"}
CasePlace == [step : CaseSteps, run : 0 .. MaxPosts]
AttemptType == [at : {"idle", "run", "save"}, case : [Cases -> CasePlace]]

ReceiptTypes ==
  /\ leaseOf \in Attempts \union {NoAttempt} /\ graded \in BOOLEAN
  /\ receipt \in [Cases -> [run : 0 .. MaxPosts, result : BOOLEAN]]
  /\ posts \in [Cases -> 0 .. MaxPosts]
  /\ execution \in [Cases -> [1 .. MaxPosts -> {"queued", "done", "broken"}]]
  /\ attempt \in [Attempts -> AttemptType]

Executed(c, k) == k \in 1 .. MaxPosts /\ execution[c][k] = "done"

\* A case that waits or has run knows its execution, and has run when that is done.
CasesFit ==
  \A a \in Attempts, c \in Cases :
    /\ Case(a, c).step \in {"posted", "poll"} => Case(a, c).run # 0
    /\ Case(a, c).step \in {"ran", "have"} => Executed(c, Case(a, c).run)

\* A result on record is that of an execution that is done.
ReceiptsFit == \A c \in Cases : receipt[c].result => Executed(c, receipt[c].run)

\* The attempt that holds the lease is where the record is: nobody else writes it.
HolderFits ==
  \A a \in Attempts, c \in Cases : leaseOf = a /\ attempt[a].at # "idle" =>
    /\ Case(a, c).step \in {"post", "posted"} => receipt[c].run = 0
    /\ Case(a, c).step \in {"poll", "ran", "have"} => receipt[c].run = Case(a, c).run
    /\ Case(a, c).step = "have" => receipt[c].result

SavesAll == \A a \in Attempts, c \in Cases : attempt[a].at = "save" => Case(a, c).step = "have"

\* An exam with a score is not claimed.
ScoredIsLeft == graded => leaseOf = NoAttempt

ReceiptsInv ==
  /\ ReceiptTypes /\ CasesFit /\ ReceiptsFit /\ HolderFits /\ SavesAll /\ ScoredIsLeft

LEMMA PostsBound == MaxPosts \in Nat /\ NoAttempt \notin Attempts
BY ReceiptsAssumption

LEMMA OverIsOver ==
  /\ Over \in AttemptType /\ Over.at = "idle"
  /\ [Over EXCEPT !.at = "run"] \in AttemptType /\ [Over EXCEPT !.at = "run"].at = "run"
  /\ \A c \in Cases : /\ Over.case[c].step = "todo"
                      /\ [Over EXCEPT !.at = "run"].case[c].step = "todo"
<1>1. 0 \in 0 .. MaxPosts BY PostsBound
<1>2. At("todo", 0) \in CasePlace /\ At("todo", 0).step = "todo" BY <1>1 DEF At, CasePlace, CaseSteps
<1> QED BY <1>2 DEF Over, AttemptType

LEMMA ReceiptsInvInit == ReceiptsInit => ReceiptsInv
<1> SUFFICES ASSUME ReceiptsInit PROVE ReceiptsInv OBVIOUS
<1>1. ReceiptTypes
  <2>1. 0 \in 0 .. MaxPosts BY PostsBound
  <2> QED BY <2>1, OverIsOver DEF ReceiptTypes, ReceiptsInit
<1>2. \A a \in Attempts : attempt[a] = Over BY DEF ReceiptsInit
<1>3. \A a \in Attempts, c \in Cases : attempt[a].at = "idle" /\ Case(a, c).step = "todo"
  BY <1>2, OverIsOver DEF Case
<1> QED BY <1>1, <1>3 DEF ReceiptsInv, CasesFit, ReceiptsFit, HolderFits, SavesAll, ScoredIsLeft,
            ReceiptsInit

\* One case of one attempt goes on.
LEMMA MovesTo ==
  ASSUME attempt \in [Attempts -> AttemptType], NEW a \in Attempts, NEW c \in Cases,
         NEW step \in CaseSteps, NEW run \in 0 .. MaxPosts, Moves(a, c, step, run)
  PROVE  /\ attempt' \in [Attempts -> AttemptType]
         /\ attempt'[a].at = "run" /\ \A b \in Attempts \ {a} : attempt'[b] = attempt[b]
         /\ attempt'[a].case[c].step = step /\ attempt'[a].case[c].run = run
         /\ \A d \in Cases \ {c} : attempt'[a].case[d] = attempt[a].case[d]
<1> DEFINE place == At(step, run)
           new == [at |-> "run", case |-> [attempt[a].case EXCEPT ![c] = place]]
<1>1. place \in CasePlace /\ place.step = step /\ place.run = run BY DEF At, CasePlace
<1>2. attempt[a].case \in [Cases -> CasePlace] BY DEF AttemptType
<1>3. attempt' = [attempt EXCEPT ![a] = new] BY DEF Moves
<1> HIDE DEF place
<1>4. /\ new \in AttemptType /\ new.at = "run" /\ new.case[c] = place
      /\ \A d \in Cases \ {c} : new.case[d] = attempt[a].case[d]
  BY <1>1, <1>2 DEF AttemptType
<1> HIDE DEF new
<1>5. attempt' \in [Attempts -> AttemptType] /\ attempt'[a] = new BY <1>3, <1>4
<1>6. \A b \in Attempts \ {a} : attempt'[b] = attempt[b] BY <1>3
<1> QED BY <1>1, <1>4, <1>5, <1>6

\* A move keeps the invariant when the case fits its new step and the record stays.
LEMMA MoveKeeps ==
  ASSUME ReceiptsInv, NEW a \in Attempts, NEW c \in Cases, attempt[a].at = "run",
         NEW step \in CaseSteps, NEW run \in 0 .. MaxPosts, Moves(a, c, step, run),
         UNCHANGED <<leaseOf, graded, execution, receipt>>, posts' \in [Cases -> 0 .. MaxPosts],
         step \in {"posted", "poll"} => run # 0,
         step \in {"ran", "have"} => Executed(c, run),
         leaseOf = a =>
           /\ step \in {"post", "posted"} => receipt[c].run = 0
           /\ step \in {"poll", "ran", "have"} => receipt[c].run = run
           /\ step = "have" => receipt[c].result
  PROVE  ReceiptsInv'
<1>1. ReceiptTypes /\ CasesFit /\ ReceiptsFit /\ HolderFits /\ SavesAll /\ ScoredIsLeft
  BY DEF ReceiptsInv
<1>2. /\ attempt' \in [Attempts -> AttemptType]
      /\ attempt'[a].at = "run" /\ \A b \in Attempts \ {a} : attempt'[b] = attempt[b]
      /\ attempt'[a].case[c].step = step /\ attempt'[a].case[c].run = run
      /\ \A d \in Cases \ {c} : attempt'[a].case[d] = attempt[a].case[d]
  BY <1>1, MovesTo DEF ReceiptTypes
<1>3. ReceiptTypes' BY <1>1, <1>2 DEF ReceiptTypes
<1>4. \A b \in Attempts, d \in Cases : <<b, d>> # <<a, c>> => Case(b, d)' = Case(b, d)
  BY <1>2 DEF Case
<1>5. Case(a, c)'.step = step /\ Case(a, c)'.run = run BY <1>2 DEF Case
<1>6. \A b \in Attempts : attempt'[b].at = attempt[b].at BY <1>2
<1>7. CasesFit'
  <2> SUFFICES ASSUME NEW b \in Attempts, NEW d \in Cases
               PROVE  /\ Case(b, d)'.step \in {"posted", "poll"} => Case(b, d)'.run # 0
                      /\ Case(b, d)'.step \in {"ran", "have"} => Executed(d, Case(b, d)'.run)
    BY DEF CasesFit, Executed
  <2>1. CASE b = a /\ d = c BY <1>5, <2>1
  <2>2. CASE <<b, d>> # <<a, c>> BY <1>1, <1>4, <2>2 DEF CasesFit
  <2> QED BY <2>1, <2>2
<1>8. ReceiptsFit' BY <1>1 DEF ReceiptsFit, Executed
<1>9. HolderFits'
  <2> SUFFICES ASSUME NEW b \in Attempts, NEW d \in Cases, leaseOf = b, attempt[b].at # "idle"
               PROVE  /\ Case(b, d)'.step \in {"post", "posted"} => receipt[d].run = 0
                      /\ Case(b, d)'.step \in {"poll", "ran", "have"} =>
                           receipt[d].run = Case(b, d)'.run
                      /\ Case(b, d)'.step = "have" => receipt[d].result
    BY <1>6 DEF HolderFits
  <2>1. CASE b = a /\ d = c BY <1>5, <2>1
  <2>2. CASE <<b, d>> # <<a, c>> BY <1>1, <1>4, <2>2 DEF HolderFits
  <2> QED BY <2>1, <2>2
<1>10. SavesAll'
  <2> SUFFICES ASSUME NEW b \in Attempts, NEW d \in Cases, attempt[b].at = "save"
               PROVE  Case(b, d)'.step = "have"
    BY <1>6 DEF SavesAll
  <2>1. b # a OBVIOUS
  <2> QED BY <1>1, <1>4, <2>1 DEF SavesAll
<1>11. ScoredIsLeft' BY <1>1 DEF ScoredIsLeft
<1> QED BY <1>3, <1>7, <1>8, <1>9, <1>10, <1>11 DEF ReceiptsInv

\* The holder of the lease puts a case on record.
LEMMA PutKeeps ==
  ASSUME ReceiptsInv, NEW a \in Attempts, NEW c \in Cases, attempt[a].at = "run", leaseOf = a,
         NEW k \in 1 .. MaxPosts, Case(a, c).run = k, NEW result \in BOOLEAN,
         receipt' = [receipt EXCEPT ![c] = [run |-> k, result |-> result]],
         NEW step \in {"poll", "have"}, Moves(a, c, step, k),
         UNCHANGED <<leaseOf, graded, execution, posts>>,
         step = "have" <=> result, result => Executed(c, k)
  PROVE  ReceiptsInv'
<1>1. /\ ReceiptTypes /\ CasesFit /\ ReceiptsFit /\ HolderFits /\ SavesAll /\ ScoredIsLeft
      /\ k \in 0 .. MaxPosts /\ k # 0 /\ step \in CaseSteps
  BY PostsBound DEF ReceiptsInv, CaseSteps
<1>2. /\ attempt' \in [Attempts -> AttemptType]
      /\ attempt'[a].at = "run" /\ \A b \in Attempts \ {a} : attempt'[b] = attempt[b]
      /\ attempt'[a].case[c].step = step /\ attempt'[a].case[c].run = k
      /\ \A d \in Cases \ {c} : attempt'[a].case[d] = attempt[a].case[d]
  BY <1>1, MovesTo DEF ReceiptTypes
<1>3. /\ receipt' \in [Cases -> [run : 0 .. MaxPosts, result : BOOLEAN]]
      /\ receipt'[c].run = k /\ receipt'[c].result = result
      /\ \A d \in Cases \ {c} : receipt'[d] = receipt[d]
  BY <1>1 DEF ReceiptTypes
<1>4. ReceiptTypes' BY <1>1, <1>2, <1>3 DEF ReceiptTypes
<1>5. \A b \in Attempts, d \in Cases : <<b, d>> # <<a, c>> => Case(b, d)' = Case(b, d)
  BY <1>2 DEF Case
<1>6. Case(a, c)'.step = step /\ Case(a, c)'.run = k BY <1>2 DEF Case
<1>7. CasesFit'
  <2> SUFFICES ASSUME NEW b \in Attempts, NEW d \in Cases
               PROVE  /\ Case(b, d)'.step \in {"posted", "poll"} => Case(b, d)'.run # 0
                      /\ Case(b, d)'.step \in {"ran", "have"} => Executed(d, Case(b, d)'.run)
    BY DEF CasesFit, Executed
  <2>1. CASE b = a /\ d = c BY <1>1, <1>6, <2>1
  <2>2. CASE <<b, d>> # <<a, c>> BY <1>1, <1>5, <2>2 DEF CasesFit
  <2> QED BY <2>1, <2>2
<1>8. ReceiptsFit'
  <2> SUFFICES ASSUME NEW d \in Cases, receipt'[d].result PROVE Executed(d, receipt'[d].run)
    BY DEF ReceiptsFit, Executed
  <2>1. CASE d = c BY <1>3, <2>1
  <2>2. CASE d # c BY <1>1, <1>3, <2>2 DEF ReceiptsFit
  <2> QED BY <2>1, <2>2
<1>9. HolderFits'
  <2> SUFFICES ASSUME NEW d \in Cases
               PROVE  /\ Case(a, d)'.step \in {"post", "posted"} => receipt'[d].run = 0
                      /\ Case(a, d)'.step \in {"poll", "ran", "have"} =>
                           receipt'[d].run = Case(a, d)'.run
                      /\ Case(a, d)'.step = "have" => receipt'[d].result
    BY DEF HolderFits
  <2>1. CASE d = c BY <1>3, <1>6, <2>1
  <2>2. CASE d # c
    <3>1. Case(a, d)' = Case(a, d) /\ receipt'[d] = receipt[d] BY <1>3, <1>5, <2>2
    <3>2. attempt[a].at # "idle" OBVIOUS
    <3> QED BY <1>1, <3>1, <3>2 DEF HolderFits
  <2> QED BY <2>1, <2>2
<1>10. SavesAll'
  <2> SUFFICES ASSUME NEW b \in Attempts, NEW d \in Cases, attempt'[b].at = "save"
               PROVE  Case(b, d)'.step = "have"
    BY DEF SavesAll
  <2>1. b # a /\ attempt[b].at = "save" BY <1>2
  <2> QED BY <1>1, <1>5, <2>1 DEF SavesAll
<1>11. ScoredIsLeft' BY <1>1 DEF ScoredIsLeft
<1> QED BY <1>4, <1>7, <1>8, <1>9, <1>10, <1>11 DEF ReceiptsInv

\* An attempt that begins or is over has nothing to fit; the record may go when nobody
\* holds the lease.
LEMMA ResetKeeps ==
  ASSUME ReceiptsInv, NEW a \in Attempts, NEW x \in AttemptType, x.at # "save",
         \A c \in Cases : x.case[c].step = "todo",
         attempt' = [attempt EXCEPT ![a] = x],
         leaseOf' \in {leaseOf, a, NoAttempt}, graded' \in BOOLEAN,
         graded' => leaseOf' = NoAttempt,
         \/ receipt' = receipt
         \/ leaseOf' = NoAttempt /\ receipt' = [c \in Cases |-> [run |-> 0, result |-> FALSE]],
         UNCHANGED <<posts, execution>>
  PROVE  ReceiptsInv'
<1>1. ReceiptTypes /\ CasesFit /\ ReceiptsFit /\ HolderFits /\ SavesAll /\ ScoredIsLeft
  BY DEF ReceiptsInv
<1>2. /\ attempt' \in [Attempts -> AttemptType] /\ attempt'[a] = x
      /\ \A b \in Attempts \ {a} : attempt'[b] = attempt[b]
  BY <1>1 DEF ReceiptTypes
<1>3. ReceiptTypes'
  <2>1. 0 \in 0 .. MaxPosts BY PostsBound
  <2>2. receipt' \in [Cases -> [run : 0 .. MaxPosts, result : BOOLEAN]]
    <3>1. CASE receipt' = receipt BY <1>1, <3>1 DEF ReceiptTypes
    <3>2. CASE receipt' = [c \in Cases |-> [run |-> 0, result |-> FALSE]] BY <2>1, <3>2
    <3> QED BY <3>1, <3>2
  <2>3. leaseOf' \in Attempts \union {NoAttempt} BY <1>1 DEF ReceiptTypes
  <2> QED BY <1>1, <1>2, <2>2, <2>3 DEF ReceiptTypes
<1>4. \A b \in Attempts \ {a}, d \in Cases : Case(b, d)' = Case(b, d) BY <1>2 DEF Case
<1>5. \A d \in Cases : Case(a, d)'.step = "todo" BY <1>2 DEF Case
<1>6. CasesFit'
  <2> SUFFICES ASSUME NEW b \in Attempts, NEW d \in Cases
               PROVE  /\ Case(b, d)'.step \in {"posted", "poll"} => Case(b, d)'.run # 0
                      /\ Case(b, d)'.step \in {"ran", "have"} => Executed(d, Case(b, d)'.run)
    BY DEF CasesFit, Executed
  <2>1. CASE b = a BY <1>5, <2>1
  <2>2. CASE b # a BY <1>1, <1>4, <2>2 DEF CasesFit
  <2> QED BY <2>1, <2>2
<1>7. ReceiptsFit' BY <1>1 DEF ReceiptsFit, Executed
<1>8. HolderFits'
  <2> SUFFICES ASSUME NEW b \in Attempts, NEW d \in Cases, leaseOf' = b, attempt'[b].at # "idle"
               PROVE  /\ Case(b, d)'.step \in {"post", "posted"} => receipt'[d].run = 0
                      /\ Case(b, d)'.step \in {"poll", "ran", "have"} =>
                           receipt'[d].run = Case(b, d)'.run
                      /\ Case(b, d)'.step = "have" => receipt'[d].result
    BY DEF HolderFits
  <2>1. CASE b = a BY <1>5, <2>1
  <2>2. CASE b # a
    <3>1. leaseOf = b /\ receipt' = receipt BY <2>2, PostsBound
    <3> QED BY <1>1, <1>2, <1>4, <2>2, <3>1 DEF HolderFits
  <2> QED BY <2>1, <2>2
<1>9. SavesAll'
  <2> SUFFICES ASSUME NEW b \in Attempts, NEW d \in Cases, attempt'[b].at = "save"
               PROVE  Case(b, d)'.step = "have"
    BY DEF SavesAll
  <2>1. b # a /\ attempt[b].at = "save" BY <1>2
  <2> QED BY <1>1, <1>4, <2>1 DEF SavesAll
<1>10. ScoredIsLeft' BY DEF ScoredIsLeft
<1> QED BY <1>3, <1>6, <1>7, <1>8, <1>9, <1>10 DEF ReceiptsInv

\* What is known of a case that an attempt is at.
LEMMA CaseTyped ==
  ASSUME ReceiptsInv, NEW a \in Attempts, NEW c \in Cases
  PROVE  /\ Case(a, c).step \in CaseSteps /\ Case(a, c).run \in 0 .. MaxPosts
         /\ receipt[c].run \in 0 .. MaxPosts /\ receipt[c].result \in BOOLEAN
         /\ posts[c] \in 0 .. MaxPosts /\ (leaseOf = a => ~graded)
<1>1. attempt[a].case[c] \in CasePlace BY DEF ReceiptsInv, ReceiptTypes, AttemptType
<1> QED BY <1>1, PostsBound DEF ReceiptsInv, ReceiptTypes, ScoredIsLeft, Case, CasePlace

LEMMA LooksUp ==
  ASSUME ReceiptsInv, NEW a \in Attempts, NEW c \in Cases, LookUp(a, c)
  PROVE  ReceiptsInv'
<1>1. /\ attempt[a].at = "run" /\ UNCHANGED <<leaseOf, receipt, graded, posts, execution>>
      /\ posts' \in [Cases -> 0 .. MaxPosts] /\ ReceiptsFit
      /\ receipt[c].run \in 0 .. MaxPosts /\ 0 \in 0 .. MaxPosts
      /\ {"failed", "have", "poll", "post"} \subseteq CaseSteps
  BY CaseTyped, PostsBound DEF LookUp, Running, ReceiptsInv, ReceiptTypes, CaseSteps
<1>2. CASE leaseOf # a /\ Moves(a, c, "failed", 0) BY <1>1, <1>2, MoveKeeps
<1>3. CASE receipt[c].result /\ Moves(a, c, "have", receipt[c].run)
  <2>1. Executed(c, receipt[c].run) BY <1>1, <1>3 DEF ReceiptsFit
  <2> QED BY <1>1, <1>3, <2>1, MoveKeeps
<1>4. CASE receipt[c].run # 0 /\ Moves(a, c, "poll", receipt[c].run)
  BY <1>1, <1>4, MoveKeeps
<1>5. CASE receipt[c].run = 0 /\ Moves(a, c, "post", 0) BY <1>1, <1>5, MoveKeeps
<1> QED BY <1>2, <1>3, <1>4, <1>5 DEF LookUp

LEMMA Posts ==
  ASSUME ReceiptsInv, NEW a \in Attempts, NEW c \in Cases, Post(a, c) \/ PostRefused(a, c)
  PROVE  ReceiptsInv'
<1>1. /\ attempt[a].at = "run" /\ Case(a, c).step = "post"
      /\ UNCHANGED <<leaseOf, receipt, graded, execution>>
      /\ 0 \in 0 .. MaxPosts /\ {"failed", "posted"} \subseteq CaseSteps
      /\ (leaseOf = a => receipt[c].run = 0)
  BY PostsBound DEF Post, PostRefused, Running, CaseSteps, ReceiptsInv, HolderFits
<1>2. posts \in [Cases -> 0 .. MaxPosts] BY DEF ReceiptsInv, ReceiptTypes
<1>3. CASE PostRefused(a, c)
  <2>1. Moves(a, c, "failed", 0) /\ posts' = posts BY <1>3 DEF PostRefused
  <2> QED BY <1>1, <1>2, <2>1, MoveKeeps
<1>4. CASE Post(a, c)
  <2>1. posts[c] < MaxPosts /\ posts' = [posts EXCEPT ![c] = posts[c] + 1] BY <1>4 DEF Post
  <2>2. posts[c] + 1 \in 0 .. MaxPosts /\ posts[c] + 1 # 0 BY <1>2, <2>1, PostsBound
  <2>3. posts' \in [Cases -> 0 .. MaxPosts] BY <1>2, <2>1, <2>2
  <2>4. Moves(a, c, "posted", posts[c] + 1) \/ Moves(a, c, "failed", 0) BY <1>4 DEF Post
  <2>5. CASE Moves(a, c, "posted", posts[c] + 1) BY <1>1, <2>2, <2>3, <2>5, MoveKeeps
  <2>6. CASE Moves(a, c, "failed", 0) BY <1>1, <2>3, <2>6, MoveKeeps
  <2> QED BY <2>4, <2>5, <2>6
<1> QED BY <1>3, <1>4

LEMMA SavesToken ==
  ASSUME ReceiptsInv, NEW a \in Attempts, NEW c \in Cases, SaveToken(a, c)
  PROVE  ReceiptsInv'
<1>1. /\ attempt[a].at = "run" /\ Case(a, c).step = "posted"
      /\ Put(a, c, FALSE, "poll") /\ UNCHANGED <<leaseOf, graded, posts, execution>>
      /\ 0 \in 0 .. MaxPosts /\ "failed" \in CaseSteps /\ posts \in [Cases -> 0 .. MaxPosts]
  <2>1. /\ attempt[a].at = "run" /\ Case(a, c).step = "posted"
        /\ Put(a, c, FALSE, "poll") /\ UNCHANGED <<leaseOf, graded, posts, execution>>
    BY DEF SaveToken, Running
  <2>2. 0 \in 0 .. MaxPosts /\ "failed" \in CaseSteps BY PostsBound DEF CaseSteps
  <2>3. posts \in [Cases -> 0 .. MaxPosts] BY DEF ReceiptsInv, ReceiptTypes
  <2> QED BY <2>1, <2>2, <2>3
<1>2. Case(a, c).run \in 1 .. MaxPosts
  BY <1>1, CaseTyped, PostsBound DEF ReceiptsInv, CasesFit
<1>3. CASE leaseOf = a
  <2>1. ~graded BY <1>3, CaseTyped
  <2>2. /\ receipt' = [receipt EXCEPT ![c] = [run |-> Case(a, c).run, result |-> FALSE]]
        /\ Moves(a, c, "poll", Case(a, c).run)
    BY <1>1, <1>3, <2>1 DEF Put
  <2> QED BY <1>1, <1>2, <1>3, <2>2, PutKeeps
<1>4. CASE leaseOf # a
  <2>1. Moves(a, c, "failed", 0) /\ receipt' = receipt BY <1>1, <1>4 DEF Put
  <2> QED BY <1>1, <1>4, <2>1, MoveKeeps
<1> QED BY <1>3, <1>4

LEMMA SavesResult ==
  ASSUME ReceiptsInv, NEW a \in Attempts, NEW c \in Cases, SaveResult(a, c)
  PROVE  ReceiptsInv'
<1>1. /\ attempt[a].at = "run" /\ Case(a, c).step = "ran"
      /\ Put(a, c, TRUE, "have") /\ UNCHANGED <<leaseOf, graded, posts, execution>>
      /\ 0 \in 0 .. MaxPosts /\ "failed" \in CaseSteps /\ posts \in [Cases -> 0 .. MaxPosts]
  <2>1. /\ attempt[a].at = "run" /\ Case(a, c).step = "ran"
        /\ Put(a, c, TRUE, "have") /\ UNCHANGED <<leaseOf, graded, posts, execution>>
    BY DEF SaveResult, Running
  <2>2. 0 \in 0 .. MaxPosts /\ "failed" \in CaseSteps BY PostsBound DEF CaseSteps
  <2>3. posts \in [Cases -> 0 .. MaxPosts] BY DEF ReceiptsInv, ReceiptTypes
  <2> QED BY <2>1, <2>2, <2>3
<1>2. Executed(c, Case(a, c).run) /\ Case(a, c).run \in 1 .. MaxPosts
  BY <1>1 DEF ReceiptsInv, CasesFit, Executed
<1>3. CASE leaseOf = a
  <2>1. ~graded BY <1>3, CaseTyped
  <2>2. /\ receipt' = [receipt EXCEPT ![c] = [run |-> Case(a, c).run, result |-> TRUE]]
        /\ Moves(a, c, "have", Case(a, c).run)
    BY <1>1, <1>3, <2>1 DEF Put
  <2> QED BY <1>1, <1>2, <1>3, <2>2, PutKeeps
<1>4. CASE leaseOf # a
  <2>1. Moves(a, c, "failed", 0) /\ receipt' = receipt BY <1>1, <1>4 DEF Put
  <2> QED BY <1>1, <1>4, <2>1, MoveKeeps
<1> QED BY <1>3, <1>4

LEMMA Polls ==
  ASSUME ReceiptsInv, NEW a \in Attempts, NEW c \in Cases, Poll(a, c)
  PROVE  ReceiptsInv'
<1> PICK k \in 1 .. MaxPosts : Case(a, c).run = k
  BY CaseTyped, PostsBound DEF Poll, Running, ReceiptsInv, CasesFit
<1>1. /\ attempt[a].at = "run" /\ Case(a, c).step = "poll" /\ k \in 0 .. MaxPosts
      /\ UNCHANGED <<leaseOf, receipt, graded, posts, execution>>
      /\ posts' \in [Cases -> 0 .. MaxPosts] /\ {"failed", "ran"} \subseteq CaseSteps
      /\ (leaseOf = a => receipt[c].run = k)
  <2>1. /\ attempt[a].at = "run" /\ Case(a, c).step = "poll"
        /\ UNCHANGED <<leaseOf, receipt, graded, posts, execution>>
    BY DEF Poll, Running
  <2>2. k \in 0 .. MaxPosts /\ {"failed", "ran"} \subseteq CaseSteps
    BY PostsBound DEF CaseSteps
  <2>3. posts \in [Cases -> 0 .. MaxPosts] BY DEF ReceiptsInv, ReceiptTypes
  <2>4. leaseOf = a => receipt[c].run = k BY <2>1 DEF ReceiptsInv, HolderFits
  <2> QED BY <2>1, <2>2, <2>3, <2>4
<1>2. execution[c][k] \in {"queued", "done", "broken"} BY DEF ReceiptsInv, ReceiptTypes
<1>3. \/ Moves(a, c, "failed", k)
      \/ execution[c][k] = "done" /\ Moves(a, c, "ran", k)
      \/ Moves(a, c, "failed", 0)
  BY <1>2 DEF Poll
<1>4. 0 \in 0 .. MaxPosts BY PostsBound
<1>5. CASE Moves(a, c, "failed", k) BY <1>1, <1>5, MoveKeeps
<1>6. CASE Moves(a, c, "failed", 0) BY <1>1, <1>4, <1>6, MoveKeeps
<1>7. CASE execution[c][k] = "done" /\ Moves(a, c, "ran", k)
  <2>1. Executed(c, k) BY <1>7 DEF Executed
  <2> QED BY <1>1, <1>7, <2>1, MoveKeeps
<1> QED BY <1>3, <1>5, <1>6, <1>7

LEMMA ProviderExecutes ==
  ASSUME ReceiptsInv, NEW c \in Cases, NEW k \in 1 .. MaxPosts, Executes(c, k)
  PROVE  ReceiptsInv'
<1>1. /\ UNCHANGED <<leaseOf, receipt, graded, posts, attempt>> /\ execution[c][k] = "queued"
      /\ ReceiptTypes /\ CasesFit /\ ReceiptsFit /\ HolderFits /\ SavesAll /\ ScoredIsLeft
  BY DEF Executes, ReceiptsInv
<1> PICK end \in {"done", "broken"} : execution' = [execution EXCEPT ![c][k] = end]
  BY DEF Executes
<1>2. execution' \in [Cases -> [1 .. MaxPosts -> {"queued", "done", "broken"}]]
  BY <1>1 DEF ReceiptTypes
<1>3. ASSUME NEW d \in Cases, NEW n, Executed(d, n)
      PROVE  n \in 1 .. MaxPosts /\ execution'[d][n] = "done"
  BY <1>1, <1>3 DEF Executed, ReceiptTypes
<1>4. ReceiptTypes' BY <1>1, <1>2 DEF ReceiptTypes
<1>5. CasesFit'
  <2> SUFFICES ASSUME NEW b \in Attempts, NEW d \in Cases
               PROVE  /\ Case(b, d).step \in {"posted", "poll"} => Case(b, d).run # 0
                      /\ Case(b, d).step \in {"ran", "have"} =>
                           /\ Case(b, d).run \in 1 .. MaxPosts
                           /\ execution'[d][Case(b, d).run] = "done"
    BY <1>1 DEF CasesFit, Case, Executed
  <2> QED BY <1>1, <1>3 DEF CasesFit
<1>6. ReceiptsFit' BY <1>1, <1>3 DEF ReceiptsFit, Executed
<1>7. HolderFits' /\ SavesAll' /\ ScoredIsLeft'
  BY <1>1 DEF HolderFits, SavesAll, ScoredIsLeft, Case
<1> QED BY <1>4, <1>5, <1>6, <1>7 DEF ReceiptsInv

LEMMA Collects ==
  ASSUME ReceiptsInv, NEW a \in Attempts, Collect(a)
  PROVE  ReceiptsInv'
<1>1. /\ attempt[a].at = "run" /\ UNCHANGED <<receipt, graded, posts, execution>>
      /\ ReceiptTypes /\ CasesFit /\ ReceiptsFit /\ HolderFits /\ SavesAll /\ ScoredIsLeft
      /\ NoAttempt \notin Attempts
  BY PostsBound DEF Collect, ReceiptsInv
<1>2. CASE /\ \A c \in Cases : Case(a, c).step = "have"
           /\ attempt' = [attempt EXCEPT ![a].at = "save"] /\ leaseOf' = leaseOf
  <2>1. attempt[a] \in AttemptType BY <1>1 DEF ReceiptTypes
  <2>2. /\ [attempt[a] EXCEPT !.at = "save"] \in AttemptType
        /\ [attempt[a] EXCEPT !.at = "save"].at = "save"
        /\ [attempt[a] EXCEPT !.at = "save"].case = attempt[a].case
    BY <2>1 DEF AttemptType
  <2>3. attempt' \in [Attempts -> AttemptType] BY <1>1, <1>2, <2>2 DEF ReceiptTypes
  <2>4. /\ attempt'[a].at = "save" /\ attempt'[a].case = attempt[a].case
        /\ \A b \in Attempts \ {a} : attempt'[b] = attempt[b]
    BY <1>1, <1>2, <2>2 DEF ReceiptTypes
  <2>5. \A b \in Attempts, d \in Cases : Case(b, d)' = Case(b, d) BY <2>4 DEF Case
  <2>6. \A b \in Attempts : attempt'[b].at # "idle" => attempt[b].at # "idle" BY <1>1, <2>4
  <2>7. \A b \in Attempts : attempt'[b].at = "save" => b = a \/ attempt[b].at = "save" BY <2>4
  <2>8. ReceiptTypes' BY <1>1, <1>2, <2>3 DEF ReceiptTypes
  <2>9. CasesFit' /\ ReceiptsFit' BY <1>1, <2>5 DEF CasesFit, ReceiptsFit, Executed
  <2>10. HolderFits' BY <1>1, <1>2, <2>5, <2>6 DEF HolderFits
  <2>11. SavesAll' BY <1>1, <1>2, <2>5, <2>7 DEF SavesAll
  <2>12. ScoredIsLeft' BY <1>1, <1>2 DEF ScoredIsLeft
  <2> QED BY <2>8, <2>9, <2>10, <2>11, <2>12 DEF ReceiptsInv
<1>3. CASE Stops(a)
  <2>1. attempt' = [attempt EXCEPT ![a] = Over] /\ leaseOf' \in {leaseOf, a, NoAttempt}
    BY <1>3 DEF Stops
  <2>2. graded' \in BOOLEAN /\ (graded' => leaseOf' = NoAttempt)
    BY <1>1, <1>3 DEF ReceiptTypes, ScoredIsLeft, Stops
  <2> QED BY <1>1, <2>1, <2>2, OverIsOver, ResetKeeps
<1> QED BY <1>2, <1>3 DEF Collect

\* What a complete evaluation rests on.
LEMMA SavedHasResults ==
  ASSUME ReceiptsInv, NEW a \in Attempts, attempt[a].at = "save", leaseOf = a, NEW c \in Cases
  PROVE  receipt[c].result /\ execution[c][receipt[c].run] = "done"
<1>1. Case(a, c).step = "have" BY DEF ReceiptsInv, SavesAll
<1>2. receipt[c].result /\ receipt[c].run = Case(a, c).run
  BY <1>1 DEF ReceiptsInv, HolderFits
<1> QED BY <1>2 DEF ReceiptsInv, ReceiptsFit, Executed

LEMMA SavesEvaluation ==
  ASSUME ReceiptsInv, NEW a \in Attempts, SaveEvaluation(a)
  PROVE  ReceiptsInv'
<1>1. /\ UNCHANGED <<posts, execution>> /\ attempt' = [attempt EXCEPT ![a] = Over]
      /\ leaseOf' = (IF leaseOf = a THEN NoAttempt ELSE leaseOf)
      /\ leaseOf' \in {leaseOf, a, NoAttempt}
  BY DEF SaveEvaluation, Stops
<1>2. graded \in BOOLEAN /\ (graded => leaseOf = NoAttempt) /\ NoAttempt \notin Attempts
  BY PostsBound DEF ReceiptsInv, ReceiptTypes, ScoredIsLeft
<1>3. CASE leaseOf = a
  <2>1. leaseOf' = NoAttempt BY <1>1, <1>3
  <2>2. PICK complete \in BOOLEAN :
          /\ graded' = complete
          /\ receipt' = IF complete THEN [c \in Cases |-> [run |-> 0, result |-> FALSE]]
                        ELSE receipt
    BY <1>3 DEF SaveEvaluation
  <2>3. \/ receipt' = receipt
        \/ leaseOf' = NoAttempt /\ receipt' = [c \in Cases |-> [run |-> 0, result |-> FALSE]]
    BY <2>1, <2>2
  <2>4. graded' \in BOOLEAN BY <2>2
  <2> QED BY <1>1, <2>1, <2>3, <2>4, OverIsOver, ResetKeeps
<1>4. CASE leaseOf # a
  <2>1. receipt' = receipt /\ graded' = graded /\ leaseOf' = leaseOf
    BY <1>1, <1>4 DEF SaveEvaluation
  <2> QED BY <1>1, <1>2, <2>1, OverIsOver, ResetKeeps
<1> QED BY <1>3, <1>4

LEMMA ClaimsOrDies ==
  ASSUME ReceiptsInv, NEW a \in Attempts, ClaimExam(a) \/ Dies(a)
  PROVE  ReceiptsInv'
<1>1. /\ UNCHANGED <<receipt, graded, posts, execution>>
      /\ graded \in BOOLEAN /\ (graded => leaseOf = NoAttempt)
  BY DEF ClaimExam, Dies, ReceiptsInv, ReceiptTypes, ScoredIsLeft
<1>2. CASE ClaimExam(a)
  <2>1. /\ attempt' = [attempt EXCEPT ![a] = [Over EXCEPT !.at = "run"]]
        /\ leaseOf' = a /\ ~graded
    BY <1>2 DEF ClaimExam
  <2> QED BY <1>1, <2>1, OverIsOver, ResetKeeps
<1>3. CASE Dies(a)
  <2>1. attempt' = [attempt EXCEPT ![a] = Over] /\ leaseOf' = leaseOf BY <1>3 DEF Dies
  <2> QED BY <1>1, <2>1, OverIsOver, ResetKeeps
<1> QED BY <1>2, <1>3

LEMMA LeaseGoes ==
  ASSUME ReceiptsInv, LeaseRunsOut
  PROVE  ReceiptsInv'
<1>1. /\ leaseOf' = NoAttempt /\ UNCHANGED <<receipt, graded, posts, execution, attempt>>
      /\ NoAttempt \notin Attempts
  BY PostsBound DEF LeaseRunsOut
<1> QED BY <1>1 DEF ReceiptsInv, ReceiptTypes, CasesFit, ReceiptsFit, HolderFits, SavesAll,
        ScoredIsLeft, Case, Executed

LEMMA ReceiptsInvNext == ReceiptsInv /\ [ReceiptsNext]_receiptsVars => ReceiptsInv'
<1> SUFFICES ASSUME ReceiptsInv, [ReceiptsNext]_receiptsVars PROVE ReceiptsInv' OBVIOUS
<1>1. CASE UNCHANGED receiptsVars
  BY <1>1 DEF receiptsVars, ReceiptsInv, ReceiptTypes, CasesFit, ReceiptsFit, HolderFits, SavesAll,
     ScoredIsLeft, Case, Executed
<1>2. CASE LeaseRunsOut BY <1>2, LeaseGoes
<1>3. ASSUME NEW a \in Attempts, ClaimExam(a) \/ Dies(a) \/ Collect(a) \/ SaveEvaluation(a)
      PROVE  ReceiptsInv'
  BY <1>3, ClaimsOrDies, Collects, SavesEvaluation
<1>4. ASSUME NEW a \in Attempts, NEW c \in Cases,
             LookUp(a, c) \/ Post(a, c) \/ PostRefused(a, c) \/ SaveToken(a, c) \/ Poll(a, c)
               \/ SaveResult(a, c)
      PROVE  ReceiptsInv'
  BY <1>4, LooksUp, Posts, SavesToken, Polls, SavesResult
<1>5. ASSUME NEW c \in Cases, NEW k \in 1 .. MaxPosts, Executes(c, k) PROVE ReceiptsInv'
  BY <1>5, ProviderExecutes
<1> QED BY <1>1, <1>2, <1>3, <1>4, <1>5 DEF ReceiptsNext

\* Only its holder puts a case on record, where nothing or the same execution is.
LEMMA PutKeepsRecord ==
  ASSUME ReceiptsInv, NEW a \in Attempts, NEW c \in Cases, SaveToken(a, c) \/ SaveResult(a, c)
  PROVE  ExecutedOnceStep
<1>1. UNCHANGED <<posts, graded>> /\ attempt[a].at # "idle" BY DEF SaveToken, SaveResult, Running
<1>2. receipt \in [Cases -> [run : 0 .. MaxPosts, result : BOOLEAN]] /\ HolderFits
  BY DEF ReceiptsInv, ReceiptTypes
<1>3. CASE receipt' = receipt BY <1>1, <1>3 DEF ExecutedOnceStep
<1>4. ASSUME NEW result \in BOOLEAN, leaseOf = a,
             receipt' = [receipt EXCEPT ![c] = [run |-> Case(a, c).run, result |-> result]],
             \/ Case(a, c).step = "posted"
             \/ Case(a, c).step = "ran" /\ result
      PROVE  ExecutedOnceStep
  <2>1. /\ receipt'[c].run = Case(a, c).run /\ receipt'[c].result = result
        /\ \A d \in Cases \ {c} : receipt'[d] = receipt[d]
    BY <1>2, <1>4
  <2>2. receipt[c].run = 0 \/ (receipt[c].run = Case(a, c).run /\ result)
    BY <1>1, <1>2, <1>4 DEF HolderFits
  <2>3. \A d \in Cases : receipt[d].run # 0 =>
          receipt'[d].run = receipt[d].run /\ (receipt[d].result => receipt'[d].result)
    BY <2>1, <2>2
  <2> QED BY <1>1, <2>3 DEF ExecutedOnceStep
<1>5. CASE SaveToken(a, c)
  BY <1>3, <1>4, <1>5 DEF SaveToken, Put, Running
<1>6. CASE SaveResult(a, c)
  BY <1>3, <1>4, <1>6 DEF SaveResult, Put, Running
<1> QED BY <1>5, <1>6

LEMMA StepsExecuteOnce == ReceiptsInv /\ [ReceiptsNext]_receiptsVars => ExecutedOnceStep
<1> SUFFICES ASSUME ReceiptsInv, [ReceiptsNext]_receiptsVars PROVE ExecutedOnceStep OBVIOUS
<1>1. CASE UNCHANGED <<posts, receipt, graded>> BY <1>1 DEF ExecutedOnceStep
<1>2. ASSUME NEW a \in Attempts, NEW c \in Cases, Post(a, c) PROVE ExecutedOnceStep
  <2>1. /\ Running(a, c, "post") /\ UNCHANGED <<receipt, graded>>
        /\ posts' = [posts EXCEPT ![c] = posts[c] + 1] /\ posts \in [Cases -> 0 .. MaxPosts]
    BY <1>2 DEF Post, ReceiptsInv, ReceiptTypes
  <2>2. receipt[c].run = 0 \/ leaseOf # a
    BY <2>1 DEF Running, ReceiptsInv, HolderFits
  <2>3. \A d \in Cases : posts'[d] # posts[d] => d = c BY <2>1
  <2> QED BY <2>1, <2>2, <2>3 DEF ExecutedOnceStep
<1>3. ASSUME NEW a \in Attempts, SaveEvaluation(a) PROVE ExecutedOnceStep
  <2>1. posts' = posts BY <1>3 DEF SaveEvaluation
  <2>2. CASE UNCHANGED <<graded, receipt>> BY <2>1, <2>2 DEF ExecutedOnceStep
  <2>3. CASE leaseOf = a /\ (graded' \/ receipt' = receipt)
    <3>1. \A c \in Cases : receipt[c].result /\ execution[c][receipt[c].run] = "done"
      BY <1>3, <2>3, SavedHasResults DEF SaveEvaluation
    <3> QED BY <2>1, <2>3, <3>1 DEF ExecutedOnceStep
  <2> QED BY <1>3, <2>2, <2>3 DEF SaveEvaluation
<1>4. ASSUME NEW a \in Attempts, NEW c \in Cases, SaveToken(a, c) \/ SaveResult(a, c)
      PROVE  ExecutedOnceStep
  BY <1>4, PutKeepsRecord
<1>5. ASSUME NEW a \in Attempts, ClaimExam(a) \/ Dies(a) \/ Collect(a)
      PROVE  UNCHANGED <<posts, receipt, graded>>
  BY <1>5 DEF ClaimExam, Dies, Collect
<1>6. ASSUME NEW a \in Attempts, NEW c \in Cases, LookUp(a, c) \/ PostRefused(a, c) \/ Poll(a, c)
      PROVE  UNCHANGED <<posts, receipt, graded>>
  BY <1>6 DEF LookUp, PostRefused, Poll
<1>7. LeaseRunsOut \/ UNCHANGED receiptsVars => UNCHANGED <<posts, receipt, graded>>
  BY DEF LeaseRunsOut, receiptsVars
<1>8. ASSUME NEW c \in Cases, NEW k \in 1 .. MaxPosts, Executes(c, k)
      PROVE  UNCHANGED <<posts, receipt, graded>>
  BY <1>8 DEF Executes
<1> QED BY <1>1, <1>2, <1>3, <1>4, <1>5, <1>6, <1>7, <1>8 DEF ReceiptsNext

(* For any test cases and any number of attempts that overlap, die and lose their lease: *)
(* only an attempt without the lease posts a case whose execution is on record, what is  *)
(* on record stays until there is a score, and a score rests on executions that are done *)
(* (_judge0_execute_case, code_execution_checkpoint.py).                                 *)
THEOREM ProgramsExecutedOnce == ReceiptsSpec => ExecutedOnce
<1>1. ReceiptsInit => ReceiptsInv BY ReceiptsInvInit
<1>2. ReceiptsInv /\ [ReceiptsNext]_receiptsVars => ReceiptsInv' BY ReceiptsInvNext
<1>3. ReceiptsInv /\ [ReceiptsNext]_receiptsVars => [ExecutedOnceStep]_receiptsVars
  BY StepsExecuteOnce
<1> QED BY <1>1, <1>2, <1>3, PTL DEF ReceiptsSpec, ExecutedOnce

-----------------------------------------------------------------------------
(***************************************************************************)
(* The analysis of a spoken recording (SpokenEvidence).                    *)
(***************************************************************************)
LEMMA LeastOf ==
  ASSUME NEW T, T \subseteq Nat, T # {}
  PROVE  \E x \in T : \A y \in T : x <= y
<1> DEFINE Less == OpToRel(<, Nat)
<1>1. \E x \in T : \A y \in T : <<y, x>> \notin Less
  <2>1. IsWellFoundedOn(Less, Nat) BY NatLessThanWellFounded
  <2> HIDE DEF Less
  <2> QED BY <2>1, WFMin
<1>2. PICK x \in T : \A y \in T : <<y, x>> \notin Less BY <1>1
<1>3. ASSUME NEW y \in T PROVE x <= y
  <2>1. <<y, x>> \notin Less BY <1>2
  <2>2. ~(y < x) BY <2>1 DEF OpToRel
  <2> QED BY <2>2
<1> QED BY <1>3

LEMMA LeastOfTwo ==
  ASSUME NEW a \in Int, NEW b \in Int
  PROVE  /\ Min({a, b}) \in Int
         /\ Min({a, b}) <= a /\ Min({a, b}) <= b
         /\ Min({a, b}) = a \/ Min({a, b}) = b
<1>1. \E x \in {a, b} : \A y \in {a, b} : x <= y
  <2>1. CASE a <= b BY <2>1
  <2>2. CASE b <= a BY <2>2
  <2> QED BY <2>1, <2>2
<1>2. Min({a, b}) \in {a, b} /\ \A y \in {a, b} : Min({a, b}) <= y BY <1>1 DEF Min
<1> QED BY <1>2

-----------------------------------------------------------------------------
Segments == [from : Nat, to : Nat]

Sounds ==
  [for : {"sound"}, length : Nat, speech : SUBSET [from : Int, to : Int, sure : BOOLEAN],
   words : SUBSET [from : Int, to : Int]]

Pictures == [for : {"images"}, looked : {"seen", "blind"}, seen : SUBSET (Asked \X Nat)]

Verdicts ==
  [for : {"answer"}, question : Asked, words : SUBSET [from : Int, to : Int], score : {0, 1}, at : Nat]

Savings ==
  [heard : Sounds \union {None}, looked : {"no", "seen", "blind"}, seen : SUBSET (Asked \X Nat),
   answers : [Asked -> Verdicts \union {None}]]

\* The segments of a film follow each other, not only one the next.
LEMMA FilmInOrder ==
  ASSUME film \in Seq(Segments), Ordered(film)
  PROVE  \A i, j \in 1 .. Len(film) : i < j => film[i].to <= film[j].from
<1>1. \A i \in 1 .. Len(film) : film[i] \in Segments /\ film[i].from \in Nat /\ film[i].to \in Nat
  <2> SUFFICES ASSUME NEW i \in 1 .. Len(film)
               PROVE  film[i] \in Segments /\ film[i].from \in Nat /\ film[i].to \in Nat
    OBVIOUS
  <2>1. film[i] \in Segments BY ElementOfSeq
  <2> QED BY <2>1 DEF Segments
<1>2. Len(film) \in Nat BY LenProperties
<1> SUFFICES ASSUME NEW i \in 1 .. Len(film) PROVE \A j \in 1 .. Len(film) : i < j => film[i].to <= film[j].from
  OBVIOUS
<1> DEFINE T == {j \in 1 .. Len(film) : i < j /\ ~(film[i].to <= film[j].from)}
<1>3. SUFFICES ASSUME T # {} PROVE FALSE
  OBVIOUS
<1>4. PICK j \in T : \A k \in T : j <= k
  <2>1. T \subseteq Nat OBVIOUS
  <2> HIDE DEF T
  <2> QED BY <1>3, <2>1, LeastOf
<1>5. j \in 1 .. Len(film) /\ i < j /\ ~(film[i].to <= film[j].from) OBVIOUS
<1>6. j - 1 \in 1 .. Len(film) /\ j - 1 < j /\ j - 1 \notin T
  <2>1. j - 1 \in 1 .. Len(film) /\ j - 1 < j BY <1>2, <1>5
  <2>2. ~(j <= j - 1) BY <1>5
  <2> QED BY <1>4, <2>1, <2>2
<1>7. film[j - 1].to <= film[j].from /\ film[j - 1].from <= film[j - 1].to
  BY <1>5, <1>6 DEF Ordered
<1>8. CASE i = j - 1 BY <1>5, <1>7, <1>8
<1>9. CASE i # j - 1
  <2>1. i < j - 1 BY <1>5, <1>9
  <2>2. film[i].to <= film[j - 1].from BY <1>6, <2>1
  <2> QED BY <1>1, <1>5, <1>6, <1>7, <2>2
<1> QED BY <1>8, <1>9

-----------------------------------------------------------------------------
(* The invariant. *)

SpokenTypeOK ==
  /\ film \in Seq(Segments)
  /\ saved \in Savings
  /\ running \in BOOLEAN
  /\ reply \in Sounds \union Pictures \union Verdicts \union {None}
  /\ report \in [for : {"everyone"}, answers : [Asked -> Verdicts \union {None}]] \union {None}

HeardFits(heard) == \A w \in heard.words : Within(w, heard.length)

\* A verdict is of what was said in the time of its answer.
VerdictFits(q, verdict) ==
  /\ verdict.question = q /\ verdict.words = Words(q)
  /\ verdict.score > 0 => verdict.words # {}
  /\ verdict.at \in Place(q).from .. Place(q).to

SeenFits(s) ==
  /\ s[1] \in 1 .. Len(film)
  /\ s[2] \in film[s[1]].from .. film[s[1]].to
  /\ s[2] <= saved.heard.length

\* What is saved came one after the other: sound, images, answers.
SavedInv ==
  /\ saved.heard # None => HeardFits(saved.heard)
  /\ saved.looked # "no" => saved.heard # None
  /\ saved.looked = "no" => saved.seen = {} /\ \A q \in Asked : saved.answers[q] = None
  /\ \A s \in saved.seen : SeenFits(s)
  /\ \A q \in Asked : saved.answers[q] # None => VerdictFits(q, saved.answers[q])

\* A reply is of what is not saved yet.
ReplyInv ==
  /\ reply # None => running
  /\ reply \in Sounds => saved.heard = None /\ HeardFits(reply)
  /\ reply \in Pictures =>
       saved.heard # None /\ saved.looked = "no" /\ \A s \in reply.seen : SeenFits(s)
  /\ reply \in Verdicts =>
       /\ saved.looked # "no" /\ saved.answers[reply.question] = None
       /\ VerdictFits(reply.question, reply)

ReportInv ==
  report # None =>
    /\ ~running /\ report.answers = saved.answers
    /\ \A q \in Asked : saved.answers[q] # None

SpokenInv == SpokenTypeOK /\ Ordered(film) /\ SavedInv /\ ReplyInv /\ ReportInv

LEMMA SpokenInvInit == SpokenInit => SpokenInv
<1> SUFFICES ASSUME SpokenInit PROVE SpokenInv
  OBVIOUS
<1>1. film \in Seq(Segments) BY SpokenAssumption DEF SpokenInit, Segments
<1>2. saved \in Savings BY DEF SpokenInit, NothingSaved, Savings
<1>3. None \notin Sounds /\ None \notin Pictures /\ None \notin Verdicts
  BY DEF None, Sounds, Pictures, Verdicts
<1>4. SpokenTypeOK BY <1>1, <1>2 DEF SpokenInit, SpokenTypeOK
<1>5. SavedInv BY DEF SpokenInit, NothingSaved, SavedInv
<1>6. ReplyInv BY <1>3 DEF SpokenInit, ReplyInv
<1>7. ReportInv BY DEF SpokenInit, ReportInv
<1> QED BY <1>4, <1>5, <1>6, <1>7 DEF SpokenInv, SpokenInit

\* No value of one kind is one of another.
LEMMA RepliesApart ==
  /\ None \notin Sounds /\ None \notin Pictures /\ None \notin Verdicts
  /\ \A r \in Sounds : r.for = "sound" /\ r \notin Pictures /\ r \notin Verdicts
  /\ \A r \in Pictures : r.for = "images" /\ r \notin Sounds /\ r \notin Verdicts
  /\ \A r \in Verdicts : r.for = "answer" /\ r \notin Pictures /\ r \notin Sounds
<1>1. \A r \in Sounds : r.for = "sound" BY DEF Sounds
<1>2. \A r \in Pictures : r.for = "images" BY DEF Pictures
<1>3. \A r \in Verdicts : r.for = "answer" BY DEF Verdicts
<1>4. None.for = "nothing" BY DEF None
<1> QED BY <1>1, <1>2, <1>3, <1>4

LEMMA SavingFields ==
  ASSUME NEW s \in Savings
  PROVE  /\ s.heard \in Sounds \union {None}
         /\ s.looked \in {"no", "seen", "blind"}
         /\ s.seen \in SUBSET (Asked \X Nat)
         /\ s.answers \in [Asked -> Verdicts \union {None}]
BY DEF Savings

LEMMA TranscriptHeard ==
  ASSUME NEW t \in Transcripts, WellFormed(t)
  PROVE  Heard(t) \in Sounds /\ HeardFits(Heard(t))
<1>1. t \in [length : Nat, speech : SUBSET [from : Int, to : Int, sure : BOOLEAN],
              words : SUBSET [from : Int, to : Int], text : BOOLEAN]
  BY SpokenAssumption
<1>2. /\ t.length \in Nat
      /\ \A s \in t.speech : s \in [from : Int, to : Int, sure : BOOLEAN]
      /\ \A w \in t.words : w \in [from : Int, to : Int]
  BY <1>1
<1> DEFINE speech == {[s EXCEPT !.to = Min({@, t.length})] : s \in {s \in t.speech : s.from < t.length}}
           words == {w \in t.words : Within(w, t.length)}
<1>3. speech \subseteq [from : Int, to : Int, sure : BOOLEAN]
  <2> SUFFICES ASSUME NEW s \in t.speech
               PROVE  [s EXCEPT !.to = Min({@, t.length})] \in [from : Int, to : Int, sure : BOOLEAN]
    OBVIOUS
  <2>1. s \in [from : Int, to : Int, sure : BOOLEAN] BY <1>2
  <2>2. s.to \in Int /\ t.length \in Int BY <1>2, <2>1
  <2>3. Min({s.to, t.length}) \in Int BY <2>2, LeastOfTwo
  <2> QED BY <2>1, <2>3
<1>4. words \subseteq [from : Int, to : Int] BY <1>2
<1>5. Heard(t) = [for |-> "sound", length |-> t.length, speech |-> speech, words |-> words]
  BY DEF Heard
<1>6. \A w \in words : Within(w, t.length) OBVIOUS
<1> HIDE DEF speech, words
<1>7. Heard(t) \in Sounds BY <1>2, <1>3, <1>4, <1>5 DEF Sounds
<1>8. Heard(t).words = words /\ Heard(t).length = t.length BY <1>5
<1> QED BY <1>6, <1>7, <1>8 DEF HeardFits

LEMMA SampleFits ==
  ASSUME SpokenTypeOK, saved.heard # None, NEW q \in Panels
  PROVE  q \in 1 .. Len(film) /\ Sampled(q) \in Nat /\ SeenFits(<<q, Sampled(q)>>)
<1>1. q \in 1 .. Len(film) /\ InRecording(q).from < InRecording(q).to BY DEF Panels
<1>2. film[q] \in Segments BY <1>1, ElementOfSeq DEF SpokenTypeOK
<1>3. film[q].from \in Nat /\ film[q].to \in Nat BY <1>2 DEF Segments
<1>4. saved.heard.length \in Nat BY SavingFields DEF SpokenTypeOK, Sounds
<1> DEFINE m == Min({film[q].to, saved.heard.length})
<1>5. m \in Int /\ m <= film[q].to /\ m <= saved.heard.length
  <2>1. film[q].to \in Int /\ saved.heard.length \in Int BY <1>3, <1>4
  <2> QED BY <2>1, LeastOfTwo
<1>6. InRecording(q).from = film[q].from /\ InRecording(q).to = m BY DEF InRecording
<1> HIDE DEF m
<1>7. Sampled(q) = (film[q].from + m) \div 2 BY <1>6 DEF Sampled, Middle
<1>8. film[q].from < m BY <1>1, <1>6
<1> DEFINE at == (film[q].from + m) \div 2
<1>9. at \in Nat /\ film[q].from <= at /\ at <= m BY <1>3, <1>5, <1>8
<1> HIDE DEF at
<1>10. at <= film[q].to /\ at <= saved.heard.length BY <1>3, <1>4, <1>5, <1>9
<1>11. Sampled(q) = at BY <1>7 DEF at
<1> QED BY <1>1, <1>3, <1>9, <1>10, <1>11 DEF SeenFits

LEMMA QuestionIsOpen ==
  ASSUME Grading
  PROVE  Question \in Asked /\ saved.answers[Question] = None
<1> DEFINE T == {q \in Asked : saved.answers[q] = None}
<1>1. T # {} /\ T \subseteq Nat BY DEF Grading, Asked
<1> HIDE DEF T
<1>2. PICK q \in T : \A p \in T : q <= p BY <1>1, LeastOf
<1>3. q \in Asked /\ saved.answers[q] = None /\ \A p \in Asked : p < q => saved.answers[p] # None
  <2>1. q \in Asked /\ saved.answers[q] = None BY DEF T
  <2>2. ASSUME NEW p \in Asked, p < q PROVE saved.answers[p] # None
    <3>1. p \notin T BY <1>2, <2>1, <2>2, SpokenAssumption DEF Asked
    <3> QED BY <3>1 DEF T
  <2> QED BY <2>1, <2>2
<1> QED BY <1>3 DEF Question

\* Without speech to count nothing is said, and words that count are of the recording.
LEMMA WordsAre ==
  ASSUME SpokenTypeOK, saved.heard # None, NEW q \in Asked
  PROVE  /\ Words(q) \subseteq saved.heard.words
         /\ Words(q) \in SUBSET [from : Int, to : Int]
         /\ Words(q) # {} => OnFilm(q)
<1>1. saved.heard \in Sounds BY SavingFields DEF SpokenTypeOK
<1>2. saved.heard.words \in SUBSET [from : Int, to : Int] BY <1>1 DEF Sounds
<1> QED BY <1>2 DEF Words, WordsForAnswer

LEMMA PlaceIs ==
  ASSUME SpokenTypeOK, Ordered(film), NEW q \in Asked
  PROVE  /\ Place(q).from \in Nat /\ Place(q).to \in Nat /\ Place(q).from <= Place(q).to
         /\ OnFilm(q) => Place(q) = film[q]
<1>1. Len(film) \in 1 .. Len(film) /\ film \in Seq(Segments) /\ Len(film) \in Nat
  <2>1. film \in Seq(Segments) /\ film # <<>> BY DEF SpokenTypeOK, Ordered
  <2> QED BY <2>1, EmptySeq, LenProperties
<1>2. \A i \in 1 .. Len(film) : film[i].from \in Nat /\ film[i].to \in Nat /\ film[i].from <= film[i].to
  <2> SUFFICES ASSUME NEW i \in 1 .. Len(film)
               PROVE  film[i].from \in Nat /\ film[i].to \in Nat /\ film[i].from <= film[i].to
    OBVIOUS
  <2>1. film[i] \in Segments BY <1>1, ElementOfSeq
  <2> QED BY <2>1 DEF Segments, Ordered
<1>3. CASE OnFilm(q)
  <2>1. q \in 1 .. Len(film) BY <1>1, <1>3, SpokenAssumption DEF OnFilm, Asked
  <2> QED BY <1>2, <1>3, <2>1 DEF Place
<1>4. CASE ~OnFilm(q) BY <1>1, <1>2, <1>4 DEF Place, FilmEndsAt
<1> QED BY <1>3, <1>4

-----------------------------------------------------------------------------
(* Each step keeps the invariant. *)

\* Starting, failing and finding no use for a reply leave what is saved alone.
LEMMA RunKeeps == ASSUME SpokenInv, Run PROVE SpokenInv'
<1> USE DEF SpokenInv, Run
<1>1. SpokenTypeOK' BY DEF SpokenTypeOK
<1>2. SavedInv' BY DEF SavedInv, VerdictFits, SeenFits, Words, Place, OnFilm, FilmEndsAt
<1>3. ReplyInv' BY DEF ReplyInv, SeenFits, VerdictFits, Words, Place, OnFilm, FilmEndsAt
<1>4. ReportInv' BY DEF ReportInv
<1> QED BY <1>1, <1>2, <1>3, <1>4 DEF Ordered

LEMMA FailKeeps == ASSUME SpokenInv, running, Fails PROVE SpokenInv'
<1> USE DEF SpokenInv, Fails
<1>1. SpokenTypeOK' BY DEF SpokenTypeOK
<1>2. SavedInv' BY DEF SavedInv, VerdictFits, SeenFits, Words, Place, OnFilm, FilmEndsAt
<1>3. ReplyInv' BY RepliesApart DEF ReplyInv
<1>4. ReportInv' BY DEF ReportInv
<1> QED BY <1>1, <1>2, <1>3, <1>4 DEF Ordered

LEMMA ReceiveKeeps ==
  ASSUME SpokenInv, AtRest, NEW value, Receive(value),
         \/ value \in Sounds /\ saved.heard = None /\ HeardFits(value)
         \/ /\ value \in Pictures /\ saved.heard # None /\ saved.looked = "no"
            /\ \A s \in value.seen : SeenFits(s)
         \/ /\ value \in Verdicts /\ saved.looked # "no" /\ saved.answers[value.question] = None
            /\ VerdictFits(value.question, value)
  PROVE  SpokenInv'
<1> USE DEF SpokenInv, Receive, AtRest
<1>1. SpokenTypeOK' BY DEF SpokenTypeOK
<1>2. SavedInv' BY DEF SavedInv, VerdictFits, SeenFits, Words, Place, OnFilm, FilmEndsAt
<1>3. ReplyInv
      /\ reply' = value /\ running' = running /\ running
      /\ film' = film /\ saved' = saved
  OBVIOUS
<1>4. ReplyInv'
  <2>1. CASE value \in Sounds /\ saved.heard = None /\ HeardFits(value)
    BY <1>3, <2>1, RepliesApart DEF ReplyInv, HeardFits
  <2>2. CASE /\ value \in Pictures /\ saved.heard # None /\ saved.looked = "no"
             /\ \A s \in value.seen : SeenFits(s)
    <3>1. value \notin Sounds /\ value \notin Verdicts BY <2>2, RepliesApart
    <3>2. \A s \in value.seen : SeenFits(s)' BY <1>3, <2>2 DEF SeenFits
    <3> QED BY <1>3, <2>2, <3>1, <3>2 DEF ReplyInv
  <2>3. CASE /\ value \in Verdicts /\ saved.looked # "no" /\ saved.answers[value.question] = None
             /\ VerdictFits(value.question, value)
    <3>1. value \notin Sounds /\ value \notin Pictures BY <2>3, RepliesApart
    <3>2. VerdictFits(value.question, value)'
      BY <1>3, <2>3 DEF VerdictFits, Words, Place, OnFilm, FilmEndsAt
    <3> QED BY <1>3, <2>3, <3>1, <3>2 DEF ReplyInv
  <2> QED BY <2>1, <2>2, <2>3
<1>5. ReportInv' BY DEF ReportInv
<1> QED BY <1>1, <1>2, <1>4, <1>5 DEF Ordered

LEMMA TranscribeKeeps == ASSUME SpokenInv, NEW t \in Transcripts, Transcribe(t) PROVE SpokenInv'
BY TranscriptHeard, ReceiveKeeps DEF Transcribe

LEMMA LookKeeps == ASSUME SpokenInv, NEW panels \in SUBSET Asked, Look(panels) PROVE SpokenInv'
<1>1. AtRest /\ saved.heard # None /\ saved.looked = "no" BY DEF Look
<1>2. CASE /\ Panels # {} /\ panels \subseteq Panels
           /\ Receive([for |-> "images", looked |-> "seen",
                       seen |-> {<<q, Sampled(q)>> : q \in panels}])
  <2> DEFINE value == [for |-> "images", looked |-> "seen", seen |-> {<<q, Sampled(q)>> : q \in panels}]
  <2>1. ASSUME NEW q \in panels
        PROVE  SeenFits(<<q, Sampled(q)>>) /\ <<q, Sampled(q)>> \in Asked \X Nat
    <3>1. q \in Panels BY <1>2
    <3>2. Sampled(q) \in Nat /\ SeenFits(<<q, Sampled(q)>>) BY <1>1, <3>1, SampleFits DEF SpokenInv
    <3> QED BY <3>2
  <2>2. value.seen \subseteq Asked \X Nat /\ \A s \in value.seen : SeenFits(s) BY <2>1
  <2>3. value \in Pictures BY <2>2 DEF Pictures
  <2>4. Receive(value) BY <1>2
  <2> HIDE DEF value
  <2> QED BY <1>1, <2>2, <2>3, <2>4, ReceiveKeeps
<1>3. CASE Receive([for |-> "images", looked |-> "blind", seen |-> {}])
  <2> DEFINE value == [for |-> "images", looked |-> "blind", seen |-> {}]
  <2>1. value \in Pictures /\ \A s \in value.seen : SeenFits(s) BY DEF Pictures
  <2>2. Receive(value) BY <1>3
  <2> HIDE DEF value
  <2> QED BY <1>1, <2>1, <2>2, ReceiveKeeps
<1> QED BY <1>2, <1>3 DEF Look

LEMMA GradeSilenceKeeps == ASSUME SpokenInv, GradeSilence PROVE SpokenInv'
<1> DEFINE value == Answer(Question, {}, 0, Place(Question).from)
<1>1. Grading /\ Words(Question) = {} /\ Receive(value) BY DEF GradeSilence
<1>2. Question \in Asked /\ saved.answers[Question] = None BY <1>1, QuestionIsOpen
<1>3. AtRest /\ saved.looked # "no" BY <1>1 DEF Grading
<1>4. Place(Question).from \in Nat /\ Place(Question).to \in Nat
      /\ Place(Question).from <= Place(Question).to
  BY <1>2, PlaceIs DEF SpokenInv
<1>5. value.question = Question /\ value.words = {} /\ value.score = 0
      /\ value.at = Place(Question).from
  BY DEF Answer
<1>6. value \in Verdicts BY <1>2, <1>4 DEF Answer, Verdicts
<1> HIDE DEF value
<1>7. VerdictFits(Question, value) BY <1>1, <1>4, <1>5 DEF VerdictFits
<1> QED BY <1>1, <1>2, <1>3, <1>5, <1>6, <1>7, ReceiveKeeps

LEMMA GradeKeeps ==
  ASSUME SpokenInv, NEW points \in {0, 1}, NEW at \in Moments, Grade(points, at)
  PROVE  SpokenInv'
<1> DEFINE value == Answer(Question, Words(Question), points, at)
<1>1. /\ Grading /\ Words(Question) # {} /\ Receive(value)
      /\ at \in film[Question].from .. film[Question].to
  BY DEF Grade
<1>2. Question \in Asked /\ saved.answers[Question] = None BY <1>1, QuestionIsOpen
<1>3. AtRest /\ saved.looked # "no" /\ saved.heard # None BY <1>1 DEF Grading, SpokenInv, SavedInv
<1>4. OnFilm(Question) /\ Words(Question) \in SUBSET [from : Int, to : Int]
  BY <1>1, <1>2, <1>3, WordsAre DEF SpokenInv
<1>5. Place(Question) = film[Question] BY <1>2, <1>4, PlaceIs DEF SpokenInv
<1>6. value.question = Question /\ value.words = Words(Question) /\ value.at = at BY DEF Answer
<1>7. at \in Nat BY SpokenAssumption DEF Moments
<1>8. value \in Verdicts BY <1>2, <1>4, <1>7 DEF Answer, Verdicts
<1> HIDE DEF value
<1>9. VerdictFits(Question, value) BY <1>1, <1>5, <1>6 DEF VerdictFits
<1> QED BY <1>1, <1>2, <1>3, <1>6, <1>8, <1>9, ReceiveKeeps

LEMMA CompleteKeeps == ASSUME SpokenInv, Complete PROVE SpokenInv'
<1> USE DEF SpokenInv, Complete, AtRest
<1>1. saved.answers \in [Asked -> Verdicts \union {None}] BY SavingFields DEF SpokenTypeOK
<1>2. SpokenTypeOK' BY <1>1 DEF SpokenTypeOK
<1>3. SavedInv' BY DEF SavedInv, VerdictFits, SeenFits, Words, Place, OnFilm, FilmEndsAt
<1>4. ReplyInv' BY RepliesApart DEF ReplyInv
<1>5. ReportInv' BY DEF ReportInv
<1> QED BY <1>2, <1>3, <1>4, <1>5 DEF Ordered

LEMMA PersistKeeps == ASSUME SpokenInv, Persist PROVE SpokenInv'
<1>1. /\ running /\ reply # None /\ reply' = None
      /\ film' = film /\ running' = running /\ report' = report
  BY DEF Persist
<1>2. saved \in Savings BY DEF SpokenInv, SpokenTypeOK
<1>3. saved.heard \in Sounds \union {None} /\ saved.answers \in [Asked -> Verdicts \union {None}]
  BY <1>2, SavingFields
<1>4. report = None BY <1>1 DEF SpokenInv, ReportInv
<1>5. ReportInv' BY <1>1, <1>4 DEF ReportInv
<1>6. ReplyInv' BY <1>1, RepliesApart DEF ReplyInv
<1>7. Ordered(film)' BY <1>1 DEF SpokenInv, Ordered
<1>8. saved' \in Savings => SpokenTypeOK' BY <1>1 DEF SpokenInv, SpokenTypeOK
<1>9. SUFFICES saved' \in Savings /\ SavedInv'
  BY <1>5, <1>6, <1>7, <1>8 DEF SpokenInv
<1>10. CASE reply \in Sounds
  <2>1. saved' = [saved EXCEPT !.heard = reply] BY <1>10, RepliesApart DEF Persist
  <2>2. saved.heard = None /\ HeardFits(reply) BY <1>10 DEF SpokenInv, ReplyInv
  <2>3. /\ saved'.heard = reply /\ saved'.looked = saved.looked /\ saved'.seen = saved.seen
        /\ saved'.answers = saved.answers
    BY <1>2, <2>1 DEF Savings
  <2>4. saved' \in Savings BY <1>2, <1>10, <2>1 DEF Savings
  <2>5. saved.looked = "no" /\ saved.seen = {} /\ \A q \in Asked : saved.answers[q] = None
    BY <2>2 DEF SpokenInv, SavedInv
  <2>6. SavedInv' BY <2>2, <2>3, <2>5 DEF SavedInv, HeardFits
  <2> QED BY <2>4, <2>6
<1>11. CASE reply \in Pictures
  <2>1. saved' = [saved EXCEPT !.looked = reply.looked, !.seen = reply.seen]
    BY <1>11, RepliesApart DEF Persist
  <2>2. saved.heard # None /\ saved.looked = "no" /\ \A s \in reply.seen : SeenFits(s)
    BY <1>11 DEF SpokenInv, ReplyInv
  <2>3. reply.looked \in {"seen", "blind"} /\ reply.seen \in SUBSET (Asked \X Nat)
    BY <1>11 DEF Pictures
  <2>4. /\ saved'.heard = saved.heard /\ saved'.looked = reply.looked /\ saved'.seen = reply.seen
        /\ saved'.answers = saved.answers
    BY <1>2, <2>1 DEF Savings
  <2>5. saved' \in Savings BY <1>2, <2>1, <2>3 DEF Savings
  <2>6. \A q \in Asked : saved.answers[q] = None BY <2>2 DEF SpokenInv, SavedInv
  <2>7. HeardFits(saved.heard) BY <2>2 DEF SpokenInv, SavedInv
  <2>8. \A s \in reply.seen : SeenFits(s)' BY <1>1, <2>2, <2>4 DEF SeenFits
  <2>9. SavedInv' BY <2>2, <2>3, <2>4, <2>6, <2>7, <2>8 DEF SavedInv, HeardFits
  <2> QED BY <2>5, <2>9
<1>12. CASE reply \in Verdicts
  <2>1. saved' = [saved EXCEPT !.answers[reply.question] = reply] BY <1>12, RepliesApart DEF Persist
  <2>2. /\ saved.looked # "no" /\ saved.answers[reply.question] = None
        /\ VerdictFits(reply.question, reply)
    BY <1>12 DEF SpokenInv, ReplyInv
  <2>3. reply.question \in Asked BY <1>12 DEF Verdicts
  <2> DEFINE kept == [saved.answers EXCEPT ![reply.question] = reply]
  <2>4. kept \in [Asked -> Verdicts \union {None}] BY <1>3, <1>12, <2>3
  <2>5. \A q \in Asked : kept[q] = IF q = reply.question THEN reply ELSE saved.answers[q]
    BY <1>3, <2>3
  <2>6. saved' = [saved EXCEPT !.answers = kept] BY <1>2, <2>1 DEF Savings
  <2> HIDE DEF kept
  <2>7. /\ saved'.heard = saved.heard /\ saved'.looked = saved.looked /\ saved'.seen = saved.seen
        /\ saved'.answers = kept
    BY <1>2, <2>6 DEF Savings
  <2>8. saved' \in Savings BY <1>2, <2>4, <2>6 DEF Savings
  <2>9. SavedInv BY DEF SpokenInv
  <2>10. ASSUME NEW q \in Asked, saved'.answers[q] # None
         PROVE  VerdictFits(q, saved.answers[q])'
    <3>1. CASE q = reply.question
      <4>1. saved'.answers[q] = reply BY <2>5, <2>7, <3>1
      <4>2. VerdictFits(q, reply) BY <2>2, <3>1
      <4> QED BY <1>1, <2>7, <4>1, <4>2 DEF VerdictFits, Words, Place, OnFilm, FilmEndsAt
    <3>2. CASE q # reply.question
      <4>1. saved'.answers[q] = saved.answers[q] BY <2>5, <2>7, <3>2
      <4>2. VerdictFits(q, saved.answers[q]) BY <2>9, <2>10, <4>1 DEF SavedInv
      <4> QED BY <1>1, <2>7, <4>1, <4>2 DEF VerdictFits, Words, Place, OnFilm, FilmEndsAt
    <3> QED BY <3>1, <3>2
  <2>11. \A s \in saved.seen : SeenFits(s)' BY <1>1, <2>7, <2>9 DEF SavedInv, SeenFits
  <2>12. SavedInv' BY <2>2, <2>7, <2>9, <2>10, <2>11 DEF SavedInv, HeardFits
  <2> QED BY <2>8, <2>12
<1> QED BY <1>1, <1>10, <1>11, <1>12 DEF SpokenInv, SpokenTypeOK

LEMMA SpokenInvNext == ASSUME SpokenInv, [SpokenNext]_spokenVars PROVE SpokenInv'
<1>1. CASE Run BY <1>1, RunKeeps
<1>2. CASE Stop BY <1>2, FailKeeps DEF Stop
<1>3. CASE GradeSilence BY <1>3, GradeSilenceKeeps
<1>4. CASE Misgraded BY <1>4, FailKeeps DEF Misgraded, Grading, AtRest
<1>5. CASE Persist BY <1>5, PersistKeeps
<1>6. CASE Complete BY <1>6, CompleteKeeps
<1>7. CASE \E t \in Transcripts : Transcribe(t) BY <1>7, TranscribeKeeps
<1>8. CASE \E t \in Transcripts : Misheard(t) BY <1>8, FailKeeps DEF Misheard, AtRest
<1>9. CASE \E panels \in SUBSET Asked : Look(panels) BY <1>9, LookKeeps
<1>10. CASE \E points \in {0, 1}, at \in Moments : Grade(points, at) BY <1>10, GradeKeeps
<1>11. CASE UNCHANGED spokenVars
  <2> USE <1>11 DEF spokenVars, SpokenInv
  <2>1. SpokenTypeOK' BY DEF SpokenTypeOK
  <2>2. SavedInv' BY DEF SavedInv, VerdictFits, SeenFits, Words, Place, OnFilm, FilmEndsAt
  <2>3. ReplyInv' BY DEF ReplyInv, SeenFits, VerdictFits, Words, Place, OnFilm, FilmEndsAt
  <2>4. ReportInv' BY DEF ReportInv
  <2> QED BY <2>1, <2>2, <2>3, <2>4 DEF Ordered
<1> QED
  BY <1>1, <1>2, <1>3, <1>4, <1>5, <1>6, <1>7, <1>8, <1>9, <1>10, <1>11 DEF SpokenNext

\* A word with its middle in one answer has it in no other.
LEMMA WordsApart ==
  ASSUME SpokenInv, NEW q \in Asked, NEW p \in Asked, q < p, saved.heard # None
  PROVE  Words(q) \intersect Words(p) = {}
<1> SUFFICES ASSUME NEW w \in Words(q), w \in Words(p) PROVE FALSE
  OBVIOUS
<1>1. OnFilm(q) /\ OnFilm(p) /\ w \in [from : Int, to : Int]
  BY WordsAre DEF SpokenInv
<1>2. Len(film) \in Nat BY LenProperties DEF SpokenInv, SpokenTypeOK
<1>3. q \in 1 .. Len(film) /\ p \in 1 .. Len(film)
  BY <1>1, <1>2, SpokenAssumption DEF OnFilm, Asked
<1>4. film[q].to <= film[p].from BY <1>3, FilmInOrder DEF SpokenInv, SpokenTypeOK
<1>5. film[q] \in Segments /\ film[p] \in Segments
  BY <1>3, ElementOfSeq DEF SpokenInv, SpokenTypeOK
<1>6. Middle(w) < 2 * film[q].to /\ 2 * film[p].from <= Middle(w) /\ Middle(w) \in Int
  BY <1>1 DEF Words, WordsForAnswer, Middle
<1> QED BY <1>4, <1>5, <1>6 DEF Segments

\* The words of an answer are those that were surely said in its time.
LEMMA WordsAreTold ==
  ASSUME SpokenInv, saved.heard # None, NEW w \in saved.heard.words, NEW q \in Asked
  PROVE  w \in Words(q) <=> Told(w, q) /\ Sure(w)
<1>1. saved.heard \in Sounds BY SavingFields DEF SpokenInv, SpokenTypeOK
<1>2. w \in [from : Int, to : Int] /\ saved.heard.speech \in SUBSET [from : Int, to : Int, sure : BOOLEAN]
  BY <1>1 DEF Sounds
<1>3. Middle(w) \in Int BY <1>2 DEF Middle
<1>4. Sure(w) <=> \E s \in saved.heard.speech : s.sure /\ 2 * s.from <= Middle(w) /\ Middle(w) <= 2 * s.to
  <2>1. ASSUME NEW s \in saved.heard.speech
        PROVE  (2 * s.from <= Middle(w) /\ Middle(w) <= 2 * s.to) <=> Middle(w) \in 2 * s.from .. 2 * s.to
    <3>1. s \in [from : Int, to : Int, sure : BOOLEAN] BY <1>2
    <3>2. s.from \in Int /\ s.to \in Int BY <3>1
    <3> QED BY <1>3, <3>2
  <2> QED BY <2>1 DEF Sure
<1>5. CASE ~OnFilm(q) BY <1>5 DEF Words, Told
<1>6. CASE OnFilm(q)
  <2>1. Len(film) \in Nat BY LenProperties DEF SpokenInv, SpokenTypeOK
  <2>2. q \in 1 .. Len(film) BY <1>6, <2>1, SpokenAssumption DEF OnFilm, Asked
  <2>3. film[q] \in Segments BY <2>2, ElementOfSeq DEF SpokenInv, SpokenTypeOK
  <2>4. film[q].from \in Int /\ film[q].to \in Int BY <2>3 DEF Segments
  <2>5. Told(w, q) <=> 2 * film[q].from <= Middle(w) /\ Middle(w) < 2 * film[q].to
    BY <1>3, <1>6, <2>4 DEF Told
  <2>6. w \in Words(q) <=>
          /\ 2 * film[q].from <= Middle(w) /\ Middle(w) < 2 * film[q].to
          /\ \E s \in saved.heard.speech : s.sure /\ 2 * s.from <= Middle(w) /\ Middle(w) <= 2 * s.to
    BY <1>6 DEF Words, WordsForAnswer
  <2> QED BY <1>4, <2>5, <2>6
<1> QED BY <1>5, <1>6

LEMMA SpokenInvCredits ==
  ASSUME SpokenInv PROVE WordsAreOfAnswer /\ PicturesAreOfAnswer /\ NothingUnheard
<1>1. saved \in Savings /\ saved.answers \in [Asked -> Verdicts \union {None}]
  BY SavingFields DEF SpokenInv, SpokenTypeOK
<1>2. ASSUME NEW a \in Graded
      PROVE  /\ a.question \in Asked /\ saved.answers[a.question] = a /\ a # None
             /\ VerdictFits(a.question, a) /\ saved.heard # None
  <2>1. PICK q \in Asked : saved.answers[q] # None /\ a = saved.answers[q] BY DEF Graded
  <2>2. VerdictFits(q, a) /\ saved.heard # None BY <2>1 DEF SpokenInv, SavedInv
  <2> QED BY <2>1, <2>2 DEF VerdictFits
<1>3. ASSUME NEW a \in Graded
      PROVE  /\ a.score > 0 => a.words # {}
             /\ a.at \in Place(a.question).from .. Place(a.question).to
             /\ \A w \in a.words : Told(w, a.question) /\ Sure(w) /\ Within(w, saved.heard.length)
             /\ \A b \in Graded : a # b => a.words \intersect b.words = {}
  <2>1. VerdictFits(a.question, a) /\ a.question \in Asked /\ saved.heard # None BY <1>2
  <2>2. a.words = Words(a.question) BY <2>1 DEF VerdictFits
  <2>3. ASSUME NEW w \in a.words
        PROVE  Told(w, a.question) /\ Sure(w) /\ Within(w, saved.heard.length)
    <3>1. Words(a.question) \subseteq saved.heard.words BY <2>1, WordsAre DEF SpokenInv
    <3>2. w \in saved.heard.words /\ w \in Words(a.question) BY <2>2, <2>3, <3>1
    <3>3. HeardFits(saved.heard) BY <2>1 DEF SpokenInv, SavedInv
    <3>4. Told(w, a.question) /\ Sure(w) BY <2>1, <3>2, WordsAreTold
    <3> QED BY <3>2, <3>3, <3>4 DEF HeardFits
  <2>4. ASSUME NEW b \in Graded, a # b PROVE a.words \intersect b.words = {}
    <3>1. b.question \in Asked /\ b.words = Words(b.question) BY <1>2 DEF VerdictFits
    <3>2. a.question # b.question BY <1>2, <2>4
    <3>3. a.question < b.question \/ b.question < a.question
      BY <2>1, <3>1, <3>2 DEF Asked
    <3> QED BY <2>1, <2>2, <3>1, <3>3, WordsApart
  <2> QED BY <2>1, <2>3, <2>4 DEF VerdictFits
<1>4. \A s \in saved.seen : s[2] \in film[s[1]].from .. film[s[1]].to /\ s[2] <= saved.heard.length
  BY DEF SpokenInv, SavedInv, SeenFits
<1>5. ASSUME report # None, NEW w \in saved.heard.words, NEW q \in Asked, Told(w, q), Sure(w)
      PROVE  w \in report.answers[q].words
  <2>1. report.answers = saved.answers /\ \A p \in Asked : saved.answers[p] # None
    BY <1>5 DEF SpokenInv, ReportInv
  <2>2. report.answers[q].words = Words(q)
    BY <2>1 DEF SpokenInv, SavedInv, VerdictFits
  <2>3. saved.heard # None BY <2>1 DEF SpokenInv, SavedInv
  <2> QED BY <1>5, <2>2, <2>3, WordsAreTold
<1> QED BY <1>3, <1>4, <1>5 DEF WordsAreOfAnswer, PicturesAreOfAnswer, NothingUnheard

LEMMA StepResumes == ASSUME SpokenInv, [SpokenNext]_spokenVars PROVE [AnalysisResumesStep]_spokenVars
<1> SUFFICES ASSUME SpokenNext PROVE AnalysisResumesStep
  BY DEF AnalysisResumesStep
<1>1. CASE UNCHANGED <<saved, report>> BY <1>1 DEF AnalysisResumesStep
<1>2. CASE Persist
  <2>1. saved \in Savings /\ running /\ reply # None /\ report' = report
    BY <1>2 DEF SpokenInv, SpokenTypeOK, Persist
  <2>2. CASE reply \in Sounds
    <3>1. saved' = [saved EXCEPT !.heard = reply] BY <1>2, <2>2, RepliesApart DEF Persist
    <3>2. saved.heard = None BY <2>2 DEF SpokenInv, ReplyInv
    <3> QED BY <2>1, <3>1, <3>2 DEF Savings, AnalysisResumesStep
  <2>3. CASE reply \in Pictures
    <3>1. saved' = [saved EXCEPT !.looked = reply.looked, !.seen = reply.seen]
      BY <1>2, <2>3, RepliesApart DEF Persist
    <3>2. saved.looked = "no" BY <2>3 DEF SpokenInv, ReplyInv
    <3> QED BY <2>1, <3>1, <3>2 DEF Savings, AnalysisResumesStep
  <2>4. CASE reply \in Verdicts
    <3>1. saved' = [saved EXCEPT !.answers[reply.question] = reply]
      BY <1>2, <2>4, RepliesApart DEF Persist
    <3>2. saved.answers[reply.question] = None /\ reply.question \in Asked
      BY <2>4 DEF SpokenInv, ReplyInv, Verdicts
    <3>3. saved.answers \in [Asked -> Verdicts \union {None}] BY <2>1, SavingFields
    <3>4. /\ saved'.heard = saved.heard /\ saved'.looked = saved.looked /\ saved'.seen = saved.seen
          /\ saved'.answers = [saved.answers EXCEPT ![reply.question] = reply]
      BY <2>1, <3>1 DEF Savings
    <3>5. \A q \in Asked : q # reply.question => saved'.answers[q] = saved.answers[q]
      BY <3>2, <3>3, <3>4
    <3> QED BY <2>1, <3>2, <3>4, <3>5 DEF AnalysisResumesStep
  <2> QED BY <2>1, <2>2, <2>3, <2>4 DEF SpokenInv, SpokenTypeOK
<1>3. CASE Complete
  <2>1. saved' = saved /\ report = None BY <1>3 DEF Complete, AtRest, SpokenInv, ReportInv
  <2> QED BY <2>1 DEF AnalysisResumesStep
<1>4. UNCHANGED <<saved, report>> \/ Persist \/ Complete
  BY DEF SpokenNext, Run, Stop, Fails, GradeSilence, Misgraded, Transcribe, Misheard, Look, Grade, Receive
<1> QED BY <1>1, <1>2, <1>3, <1>4

\* An answer is credited with words that have their middle in its own time and no other
\* answer's, a report with all of them, and an analysis goes on from what it has saved,
\* whatever the provider returns and however often it fails.
THEOREM EvidenceIsCredited == SpokenSpec => EvidenceStands
<1>1. SpokenSpec => []SpokenInv
  BY SpokenInvInit, SpokenInvNext, PTL DEF SpokenSpec
<1>2. SpokenInv => WordsAreOfAnswer /\ PicturesAreOfAnswer /\ NothingUnheard BY SpokenInvCredits
<1>3. SpokenSpec => AnalysisResumes
  BY <1>1, StepResumes, PTL DEF SpokenSpec, AnalysisResumes
<1> QED BY <1>1, <1>2, <1>3, PTL DEF EvidenceStands

=============================================================================
