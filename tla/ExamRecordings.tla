--------------------------- MODULE ExamRecordings ---------------------------
(* The recordings of one proctored exam up to its submission: the continuous
   video of the HR questions (hr_video.py) and one clip per spoken question
   (answer_recording.py).  Every handler holds the row lock of the exam's
   recording, except that storing a first consent for the Groq processor
   commits, and so releases the lock, before the exam or the video starts. *)
EXTENDS Naturals, FiniteSets, SequencesExt

CONSTANTS
    Spoken,         \* questions with a response_mode: one clip each
    Filmed,         \* video questions of the continuous recording, numbered from 1
    Film,           \* the continuous recording
    Formats, NoFormat, NothingHandedIn,
    Data,           \* contents of one chunk
    Size,           \* its bytes
    Starters,       \* start requests that may be in flight together
    QuestionTime, AnswerTime, ExamTime, Grace, Fresh, Retention,
    MaxChunks, ClipBytes, MaxBytes,
    LastMoment      \* bound on the clock

ASSUME RecordingsOK ==
    /\ Film \notin Spoken /\ NoFormat \notin Formats /\ (\A b \in SUBSET Spoken : b # NothingHandedIn)
    /\ IsFiniteSet(Spoken)
    /\ Filmed \in 1 .. 4
    /\ Size \in [Data -> Nat \ {0}] /\ AnswerTime \in [Spoken -> Nat \ {0}]
    /\ \A q \in Spoken : AnswerTime[q] <= QuestionTime
    /\ {QuestionTime, ExamTime, Grace, Fresh, Retention, MaxChunks, ClipBytes,
        MaxBytes, LastMoment} \subseteq Nat \ {0}

VARIABLES
    time,           \* the clock; the exam was prepared at 0
    groq,           \* HR_AI_PROVIDER is groq
    consent,        \* its notice was approved
    examStart,      \* exam_started_at, 0 before the exam
    rec,            \* the recording rows
    handedIn,       \* submission_json, as the set of spoken questions answered
    starting,       \* start requests that go on after their consent commit
    acked           \* chunks the browser was told are saved

captureVars == <<time, groq, consent, examStart, rec, handedIn, starting, acked>>

Recorders == Spoken \cup {Film}

\* A body says of each spoken question that it was answered or that the
\* candidate gave no response: the set of questions with an answer.
Answers == SUBSET Spoken

Row(status, mime, started, deadline, segs, data, size, sealed) ==
    [status |-> status, mime |-> mime, started |-> started, deadline |-> deadline,
     segs |-> segs, data |-> data, size |-> size, sealed |-> sealed]

NoClip == Row("none", NoFormat, 0, 0, <<>>, <<>>, 0, FALSE)
NewFilm == Row("ready", NoFormat, 0, 0, <<>>, <<>>, 0, FALSE)
Unasked == [step |-> "idle", at |-> 0, exam |-> 0]

CaptureInit ==
    /\ time = 1
    /\ groq \in BOOLEAN
    /\ consent = FALSE
    /\ examStart = 0
    /\ rec = [c \in Recorders |-> IF c = Film THEN NewFilm ELSE NoClip]
    /\ handedIn = NothingHandedIn
    /\ starting = [r \in Starters |-> Unasked]
    /\ acked = {}

Least(a, b) == IF a <= b THEN a ELSE b
Greatest(a, b) == IF a >= b THEN a ELSE b

HandedIn == handedIn # NothingHandedIn
Expired == time >= Retention
ExamEnd == examStart + ExamTime
ExamRuns == examStart # 0 /\ time < ExamEnd

(* The clock of the servers. *)
TimePasses ==
    /\ time < LastMoment
    /\ time' = time + 1
    /\ UNCHANGED <<groq, consent, examStart, rec, handedIn, starting, acked>>

(***************************************************************************)
(* Starting: exam-start and the start of the continuous recording.         *)
(***************************************************************************)
\* Variant: an exam that runs can be started again.
MayStartExamAgain == ~Expired /\ ~HandedIn /\ time <= Fresh

MayStartExam == ~Expired /\ examStart = 0 /\ ~HandedIn /\ time <= Fresh
MayBeginFilm == ~Expired /\ rec[Film].status = "ready" /\ ~HandedIn /\ ExamRuns

SegmentFrom(q, t) == [q |-> q, start |-> t, end |-> t, open |-> TRUE]

Begun(row, q, format, t, end) ==
    Row("recording", format, t, end, <<SegmentFrom(q, 0)>>, row.data, row.size, row.sealed)

FilmEnd(t, exam) == Least(t + QuestionTime * Filmed, exam + ExamTime)

ConsentHeld == groq => consent

(* A request under the lock of the row. *)
StartExam ==
    /\ ConsentHeld
    /\ MayStartExam
    /\ examStart' = time
    /\ UNCHANGED <<time, groq, consent, rec, handedIn, starting, acked>>

BeginFilm(format) ==
    /\ ConsentHeld
    /\ MayBeginFilm
    /\ rec' = [rec EXCEPT ![Film] = Begun(@, 1, format, time, FilmEnd(time, examStart))]
    /\ UNCHANGED <<time, groq, consent, examStart, handedIn, starting, acked>>

(* record() stores the first consent and commits: the lock of the row is
   gone, and the handler goes on with "exam", "film", or nothing. *)
RecordConsent(r, next) ==
    /\ groq /\ ~consent /\ starting[r].step = "idle"
    /\ consent' = TRUE
    /\ starting' = [starting EXCEPT ![r] = [step |-> next, at |-> 0, exam |-> 0]]
    /\ UNCHANGED <<time, groq, examStart, rec, handedIn, acked>>

(* A request that waited for the lock finds the consent stored, keeps the
   lock, and is StartExam or BeginFilm.  One that committed reads the row
   again without a lock ... *)
ReadUnlocked(r) ==
    /\ \/ /\ starting[r].step = "exam"
          /\ starting' = [starting EXCEPT ![r] = IF MayStartExam
                        THEN [step |-> "exam read", at |-> time, exam |-> 0] ELSE Unasked]
       \/ /\ starting[r].step = "film"
          /\ starting' = [starting EXCEPT ![r] = IF MayBeginFilm
                        THEN [step |-> "film read", at |-> time, exam |-> examStart] ELSE Unasked]
    /\ UNCHANGED <<time, groq, consent, examStart, rec, handedIn, acked>>

(* ... and writes what it decided on. *)
WriteUnlocked(r, format) ==
    /\ \/ /\ starting[r].step = "exam read"
          /\ examStart' = starting[r].at
          /\ UNCHANGED rec
       \/ /\ starting[r].step = "film read"
          /\ rec' = [rec EXCEPT ![Film] = Begun(@, 1, format, starting[r].at,
                                                FilmEnd(starting[r].at, starting[r].exam))]
          /\ UNCHANGED examStart
    /\ starting' = [starting EXCEPT ![r] = Unasked]
    /\ UNCHANGED <<time, groq, consent, handedIn, acked>>

(* A clip of its own for a spoken question. *)
BeginClip(q, format) ==
    /\ ConsentHeld
    /\ ~HandedIn /\ ~Expired
    /\ rec[q].status = "none"
    /\ ExamRuns
    /\ \A c \in Spoken : rec[c].status # "none" => rec[c].sealed
    /\ rec' = [rec EXCEPT ![q] = Begun(@, q, format, time, Least(time + AnswerTime[q], ExamEnd))]
    /\ UNCHANGED <<time, groq, consent, examStart, handedIn, starting, acked>>

(***************************************************************************)
(* Recording.                                                              *)
(***************************************************************************)
Elapsed(row) == time - row.started
Section(row) == row.deadline - row.started

\* The open segment ends now, but never later than its question or section.
Closed(row) ==
    LET s == Last(row.segs) IN
    [row.segs EXCEPT ![Len(row.segs)] =
        [q |-> s.q, start |-> s.start, open |-> FALSE,
         end |-> Greatest(s.start, Least(Elapsed(row),
                     Least(s.start + QuestionTime, Section(row))))]]

(* advance: close the current question and open the next one. *)
Advance ==
    LET row == rec[Film]
        next == Len(row.segs) + 1
        more == next <= Filmed /\ Elapsed(row) < Section(row) IN
    /\ row.status = "recording"
    /\ Last(row.segs).open
    /\ rec' = [rec EXCEPT ![Film] = Row(
          IF more THEN "recording" ELSE "recorded", row.mime, row.started, row.deadline,
          IF more THEN Append(Closed(row), SegmentFrom(next, Elapsed(row))) ELSE Closed(row),
          row.data, row.size, row.sealed)]
    /\ UNCHANGED <<time, groq, consent, examStart, handedIn, starting, acked>>

UploadOpen(row) ==
    /\ row.status \in {"recording", "recorded"}
    /\ time <= row.deadline + Grace
    /\ ~Expired

StoredAt(row, n, d) == n < Len(row.data) /\ row.data[n + 1] = d

Total == MapThenSumSet(LAMBDA c : rec[c].size, Spoken)

WithinCaps(c, d) ==
    /\ rec[c].size + Size[d] <= MaxBytes
    /\ c \in Spoken => /\ Total + Size[d] <= MaxBytes
                       /\ rec[c].size + Size[d] <= ClipBytes

WithChunk(row, d) ==
    Row(row.status, row.mime, row.started, row.deadline, row.segs,
        Append(row.data, d), row.size + Size[d], row.sealed)

(* save_chunk: the next chunk is stored, a chunk that is stored already is
   acknowledged again, anything else is refused.  Requests may be repeated,
   delayed and reordered: n and d are whatever arrives. *)
SaveChunk(c, n, d) ==
    /\ c \in Spoken => ~HandedIn /\ rec[c].status # "none"
    /\ n < MaxChunks
    /\ \/ /\ StoredAt(rec[c], n, d)
          /\ UNCHANGED rec
       \/ /\ n = Len(rec[c].data)
          /\ UploadOpen(rec[c])
          /\ WithinCaps(c, d)
          /\ rec' = [rec EXCEPT ![c] = WithChunk(@, d)]
    /\ acked' = acked \cup {<<c, n, d>>}
    /\ UNCHANGED <<time, groq, consent, examStart, handedIn, starting>>

Sealed(row) ==
    Row("submitted", row.mime, row.started, row.deadline,
        IF Last(row.segs).open THEN Closed(row) ELSE row.segs,
        row.data, row.size, TRUE)

(* seal_recording, with the number of chunks the browser counted. *)
Seal(c, expected) ==
    /\ c \in Spoken => ~HandedIn
    /\ ~rec[c].sealed /\ ~Expired
    /\ rec[c].status \in {"recording", "recorded"}
    /\ expected = Len(rec[c].data)
    /\ rec' = [rec EXCEPT ![c] = Sealed(@)]
    /\ UNCHANGED <<time, groq, consent, examStart, handedIn, starting, acked>>

(***************************************************************************)
(* Submission.                                                             *)
(***************************************************************************)
(* sealed_answers: no clip is still open, and no text stands for a clip
   that was never sent. *)
SealedAnswers(body) ==
    \A q \in Spoken :
        /\ rec[q].status # "none" => rec[q].sealed
        /\ q \in body => rec[q].sealed

(* evaluate: the first body that passes is the submission. *)
Submit(body) ==
    /\ SealedAnswers(body)
    /\ ~HandedIn
    /\ handedIn' = body
    /\ UNCHANGED <<time, groq, consent, examStart, rec, starting, acked>>

CaptureNext ==
    \/ TimePasses
    \/ StartExam
    \/ \E f \in Formats : BeginFilm(f)
    \/ \E r \in Starters, next \in {"idle", "exam", "film"} : RecordConsent(r, next)
    \/ \E r \in Starters : ReadUnlocked(r)
    \/ \E r \in Starters, f \in Formats : WriteUnlocked(r, f)
    \/ \E q \in Spoken, f \in Formats : BeginClip(q, f)
    \/ Advance
    \/ \E c \in Recorders, n \in 0 .. MaxChunks, d \in Data : SaveChunk(c, n, d)
    \/ \E c \in Recorders, n \in 0 .. MaxChunks : Seal(c, n)
    \/ \E body \in Answers : Submit(body)

CaptureSpec == CaptureInit /\ [][CaptureNext]_captureVars

(***************************************************************************)
(* Properties.                                                             *)
(***************************************************************************)
Active(row) == row.status \in {"recording", "recorded", "submitted"}
QuestionOf(c, i) == IF c = Film THEN i ELSE c
QuestionCount(c) == IF c = Film THEN Filmed ELSE 1

Segment == [q : Spoken \cup 1 .. 4, start : Nat, end : Nat, open : BOOLEAN]
Recording == [status : {"none", "ready", "recording", "recorded", "submitted"},
              mime : Formats \cup {NoFormat}, started : Nat, deadline : Nat,
              segs : Seq(Segment), data : Seq(Data), size : Nat, sealed : BOOLEAN]
StartRequest == [step : {"idle", "exam", "film", "exam read", "film read"}, at : Nat, exam : Nat]

CaptureTypeOK ==
    /\ time \in Nat \ {0} /\ examStart \in Nat
    /\ groq \in BOOLEAN /\ consent \in BOOLEAN
    /\ handedIn \in Answers \cup {NothingHandedIn}
    /\ rec \in [Recorders -> Recording]
    /\ starting \in [Starters -> StartRequest]
    /\ acked \subseteq Recorders \X (0 .. MaxChunks) \X Data

(* A start whose consent commit released the lock may write the continuous
   recording again; only without that are its rows as exclusive as the clips'. *)
Exclusive(c) == c \in Spoken \/ ~groq

(* One segment of a recording, as the analysis accepts it
   (_validated_segments): of the question whose turn it is, inside the
   section, and no longer than a question may take. *)
ValidSegment(row, c, i) ==
    LET s == row.segs[i] IN
    /\ s.q = QuestionOf(c, i)
    /\ s.start <= s.end /\ s.end <= Section(row)
    /\ s.end <= s.start + QuestionTime
    /\ (i > 1 => row.segs[i - 1].end <= s.start)

(* What was sealed can be analysed: no sequence of late, repeated or skipped
   calls leaves a sealed recording with segments that the analysis rejects
   for good (VIDEO_SEGMENTS_INVALID). *)
SealedIsAnalysable ==
    \A c \in Recorders : rec[c].sealed /\ Exclusive(c) =>
        /\ Len(rec[c].segs) \in 1 .. QuestionCount(c)
        /\ \A i \in 1 .. Len(rec[c].segs) :
              ~rec[c].segs[i].open /\ ValidSegment(rec[c], c, i)

(* A chunk the browser was told is saved stays where it was put, however
   often, late or out of order chunks are sent. *)
AckedChunksKept ==
    \A a \in acked : StoredAt(rec[a[1]], a[2], a[3])

(* The submission never stops passing the check it passed: grading calls
   sealed_answers again on the stored body, and a clip opened, left open or
   lost behind it would make every later attempt fail. *)
SubmissionStaysAnalysable == HandedIn => SealedAnswers(handedIn)

(* What is sealed and what is handed in can be analysed, then and later. *)
StaysAnalysable == SealedIsAnalysable /\ SubmissionStaysAnalysable

(* What a student recorded is there, and can be used. *)
RecordingStands == StaysAnalysable /\ AckedChunksKept

(* At most one clip is open, the bytes counted are the bytes stored, and all
   clips of the exam together stay within its bytes. *)
ClipsBounded ==
    /\ \A p, q \in Spoken : Active(rec[p]) /\ Active(rec[q]) /\ p # q =>
          rec[p].sealed \/ rec[q].sealed
    /\ \A c \in Recorders : rec[c].size = FoldSeq(LAMBDA d, n : Size[d] + n, 0, rec[c].data)
    /\ Total <= MaxBytes

(* A row that was begun has its first segment and its clock, and all of its
   segments but the last are closed; the last is open until the recording
   stops or is sealed.  Only a seal ends the life of an active row, so that an
   open clip can always be sealed. *)
RowsConsistent ==
    \A c \in Recorders :
        /\ rec[c].status = "ready" => c = Film
        /\ rec[c].status = "none" => c # Film
        /\ rec[c].status = "recorded" => c = Film
        /\ ~Active(rec[c]) => rec[c].segs = <<>> /\ rec[c].data = <<>> /\ ~rec[c].sealed
        /\ Active(rec[c]) /\ Exclusive(c) =>
              /\ rec[c].sealed <=> rec[c].status = "submitted"
              /\ rec[c].started <= time /\ rec[c].started <= rec[c].deadline
              /\ Len(rec[c].segs) \in 1 .. QuestionCount(c)
              /\ \A i \in 1 .. Len(rec[c].segs) :
                    /\ rec[c].segs[i].open <=> i = Len(rec[c].segs) /\ rec[c].status = "recording"
                    /\ rec[c].segs[i].start <= Elapsed(rec[c])
                    /\ ValidSegment(rec[c], c, i)

CaptureInv == CaptureTypeOK /\ RowsConsistent /\ AckedChunksKept /\ SubmissionStaysAnalysable

(* What was sealed is final, and nothing that began begins again: the exam
   clock, a recording's own clock and its format never change once set. *)
NothingRestartsStep ==
    /\ ~groq /\ examStart # 0 => examStart' = examStart
    /\ \A c \in Recorders : Exclusive(c) =>
         /\ rec[c].sealed => rec'[c] = rec[c]
         /\ Active(rec[c]) => /\ rec'[c].mime = rec[c].mime
                              /\ rec'[c].started = rec[c].started
                              /\ rec'[c].deadline = rec[c].deadline

NothingRestarts == [][NothingRestartsStep]_captureVars

(* The exam clock cannot be reset (test_clock_starts_after_preflight_and_
   cannot_reset), whatever the processor. *)
ExamClockKept == [][examStart # 0 => examStart' = examStart]_captureVars

(* A recording that a student made stands: nothing of it is lost or begun
   again, and what was sealed or handed in can be analysed. *)
CaptureStands == []RecordingStands /\ NothingRestarts
=============================================================================
