---------------------------- MODULE SpokenEvidence ----------------------------
(***************************************************************************)
(* The analysis of one sealed recording by the free provider               *)
(* (free_provider.transcribe, free_assessment.analyze, and from hr_video   *)
(* what validates it): one transcription, one look at sampled images, one  *)
(* question graded at a time.  Each reply is saved before the next is      *)
(* asked for, so that an analysis that fails or crashes resumes.           *)
(*                                                                         *)
(* One worker at a time: the leases are the matter of ExamEvaluation.      *)
(***************************************************************************)
EXTENDS Integers, Sequences, FiniteSets, FiniteSetsExt

CONSTANTS
  Films,       \* sets of time segments that a sealed recording may have
  Transcripts, \* what the provider may return for the sound, see transcript
  Questions,   \* number of questions asked
  LastSpoken,  \* the last moment that an observation may name
  MaxRuns      \* bound: how often the analysis is started

Moments == 0 .. LastSpoken
Spans == [from : Moments, to : Moments]

ASSUME SpokenAssumption ==
  /\ Questions \in Nat \ {0} /\ LastSpoken \in Nat
  /\ \A f \in Films : f \in Seq([from : Nat, to : Nat])
  /\ \A t \in Transcripts :
       t \in [length : Nat, speech : SUBSET [from : Int, to : Int, sure : BOOLEAN],
              words : SUBSET [from : Int, to : Int], text : BOOLEAN]

VARIABLES
  film,        \* segments_json: where each question that was reached is answered
  saved,       \* analysis_json, with analysis_status "partial"
  running,     \* an analysis is in progress
  reply,       \* what the provider has returned and is not saved
  runs,        \* how often it was started
  report       \* analysis_json when it is complete

spokenVars == <<film, saved, running, reply, runs, report>>

Asked == 1 .. Questions
None == [for |-> "nothing"]
NothingSaved == [heard |-> None, looked |-> "no", seen |-> {}, answers |-> [q \in Asked |-> None]]

-----------------------------------------------------------------------------
(* _validated_segments: as many as were reached, one after the other *)

Ordered(segments) ==
  /\ segments # <<>> /\ Len(segments) <= Questions
  /\ \A i \in 1 .. Len(segments) :
       /\ segments[i].from <= segments[i].to
       /\ i > 1 => segments[i - 1].to <= segments[i].from

OnFilm(q) == q <= Len(film)
FilmEndsAt == film[Len(film)].to

\* Where the evidence for an answer has to be.
Place(q) == IF OnFilm(q) THEN film[q] ELSE [from |-> FilmEndsAt, to |-> FilmEndsAt]

-----------------------------------------------------------------------------
(* transcribe *)

(* Windows of speech begin in order; a text comes with words; the words are in
   any order and may lie outside the recording. *)
WellFormed(t) ==
  /\ t.length > 0
  /\ \A s \in t.speech : s.from <= s.to
  /\ \A w \in t.words : w.from <= w.to
  /\ t.text => t.words # {}

Within(w, length) == 0 <= w.from /\ w.to <= length

Heard(t) ==
  [for |-> "sound", length |-> t.length,
   speech |-> {[s EXCEPT !.to = Min({@, t.length})] : s \in {s \in t.speech : s.from < t.length}},
   words |-> {w \in t.words : Within(w, t.length)}]

\* Twice the middle of a word.
Middle(w) == w.from + w.to

(* _words_for_answer: only what lies in speech that the provider is confident of. *)
WordsForAnswer(heard, span) ==
  {w \in heard.words :
     /\ 2 * span.from <= Middle(w) /\ Middle(w) < 2 * span.to
     /\ \E s \in heard.speech : s.sure /\ 2 * s.from <= Middle(w) /\ Middle(w) <= 2 * s.to}

\* Variant: segments are matched to questions in the wrong order.
WordsSwapped(q) == IF OnFilm(q) THEN WordsForAnswer(saved.heard, film[Len(film) + 1 - q]) ELSE {}

Words(q) == IF OnFilm(q) THEN WordsForAnswer(saved.heard, film[q]) ELSE {}

-----------------------------------------------------------------------------
(* analyze *)

SpokenInit ==
  /\ film \in {f \in Films : Ordered(f)}
  /\ saved = NothingSaved
  /\ running = FALSE /\ reply = None /\ runs = 0 /\ report = None

\* Variant: an analysis begins afresh.
RunAfresh ==
  /\ ~running /\ report = None /\ runs < MaxRuns
  /\ running' = TRUE /\ runs' = runs + 1
  /\ saved' = NothingSaved
  /\ UNCHANGED <<film, reply, report>>

\* analyze_recording: what is complete is returned as it is.
Run ==
  /\ ~running /\ report = None /\ runs < MaxRuns
  /\ running' = TRUE /\ runs' = runs + 1
  /\ UNCHANGED <<film, saved, reply, report>>

Fails == running' = FALSE /\ reply' = None /\ UNCHANGED <<film, saved, runs, report>>

\* The process dies, or the provider or the database fails.
Stop == running /\ Fails

AtRest == running /\ reply = None

Receive(value) == reply' = value /\ UNCHANGED <<film, saved, running, runs, report>>

Transcribe(t) ==
  /\ AtRest /\ saved.heard = None
  /\ WellFormed(t)
  /\ Receive(Heard(t))

Misheard(t) == AtRest /\ saved.heard = None /\ ~WellFormed(t) /\ Fails

(* sample_contact_sheet: one panel for the middle of each answer that was recorded. *)
InRecording(q) == LET to == Min({film[q].to, saved.heard.length}) IN
  [from |-> film[q].from, to |-> to]

Panels == {q \in 1 .. Len(film) : InRecording(q).from < InRecording(q).to}

Sampled(q) == Middle(InRecording(q)) \div 2

(* _vision_observations_for_recording: observations of some panels, or none at all
   because the film cannot be decoded, the provider fails or an observation is of a
   panel that was not shown, which is remembered as well. *)
Look(panels) ==
  /\ AtRest /\ saved.heard # None /\ saved.looked = "no"
  /\ \/ /\ Panels # {} /\ panels \subseteq Panels
        /\ Receive([for |-> "images", looked |-> "seen",
                seen |-> {<<q, Sampled(q)>> : q \in panels}])
     \/ panels = {} /\ Receive([for |-> "images", looked |-> "blind", seen |-> {}])

Question == CHOOSE q \in Asked : saved.answers[q] = None /\ \A p \in Asked : p < q => saved.answers[p] # None

Grading == AtRest /\ saved.looked # "no" /\ \E q \in Asked : saved.answers[q] = None

Answer(q, words, score, at) == [for |-> "answer", question |-> q, words |-> words, score |-> score, at |-> at]

\* No word: the answer is not shown to the provider.
GradeSilence ==
  /\ Grading /\ Words(Question) = {}
  /\ Receive(Answer(Question, {}, 0, Place(Question).from))

\* _validate_analysis, for one answer.
Grade(score, at) ==
  /\ Grading /\ Words(Question) # {}
  /\ at \in film[Question].from .. film[Question].to
  /\ Receive(Answer(Question, Words(Question), score, at))

\* Of another question, or with evidence from outside the answer.
Misgraded == Grading /\ Words(Question) # {} /\ Fails

Persist ==
  /\ running /\ reply # None
  /\ saved' = CASE reply.for = "sound" -> [saved EXCEPT !.heard = reply]
                [] reply.for = "images" -> [saved EXCEPT !.looked = reply.looked, !.seen = reply.seen]
                [] reply.for = "answer" -> [saved EXCEPT !.answers[reply.question] = reply]
  /\ reply' = None
  /\ UNCHANGED <<film, running, runs, report>>

\* The report as a whole is validated once more before it replaces the progress.
Complete ==
  /\ AtRest /\ \A q \in Asked : saved.answers[q] # None
  /\ \A q \in Asked : saved.answers[q].at \in Place(q).from .. Place(q).to
  /\ report' = [for |-> "everyone", answers |-> saved.answers]
  /\ running' = FALSE
  /\ UNCHANGED <<film, saved, reply, runs>>

SpokenNext ==
  \/ Run \/ Stop \/ GradeSilence \/ Misgraded \/ Persist \/ Complete
  \/ \E t \in Transcripts : Transcribe(t) \/ Misheard(t)
  \/ \E panels \in SUBSET Asked : Look(panels)
  \/ \E score \in {0, 1}, at \in Moments : Grade(score, at)

SpokenSpec == SpokenInit /\ [][SpokenNext]_spokenVars

-----------------------------------------------------------------------------
(* Properties *)

\* Every answer that was graded, in the report or on the way to it.
Graded == {saved.answers[q] : q \in {q \in Asked : saved.answers[q] # None}}

Told(w, q) == OnFilm(q) /\ Middle(w) \in 2 * film[q].from .. 2 * film[q].to - 1
Sure(w) == \E s \in saved.heard.speech : s.sure /\ Middle(w) \in 2 * s.from .. 2 * s.to

\* An answer counts what was said in it.  A score needs words; every word that counts
\* has its middle in the time of the very answer it counts for, lies within the recording
\* and in speech that the provider was confident of, and counts for no other answer; the
\* evidence is of the answer's own time.
WordsAreOfAnswer ==
  \A a \in Graded :
    /\ a.score > 0 => a.words # {}
    /\ a.at \in Place(a.question).from .. Place(a.question).to
    /\ \A w \in a.words : Told(w, a.question) /\ Sure(w) /\ Within(w, saved.heard.length)
    /\ \A b \in Graded : a # b => a.words \intersect b.words = {}

\* Every picture is of the time of the answer it is shown for.
PicturesAreOfAnswer ==
  \A s \in saved.seen : s[2] \in film[s[1]].from .. film[s[1]].to /\ s[2] <= saved.heard.length

\* In a report every answer has all the words that were said in it.
NothingUnheard ==
  report # None =>
    \A w \in saved.heard.words, q \in Asked :
      Told(w, q) /\ Sure(w) => w \in report.answers[q].words

\* An analysis that fails, crashes or is taken up again keeps every reply that was saved,
\* and a report never changes.
AnalysisResumesStep ==
  /\ saved.heard # None => saved'.heard = saved.heard
  /\ saved.looked # "no" => saved'.looked = saved.looked /\ saved'.seen = saved.seen
  /\ \A q \in Asked : saved.answers[q] # None => saved'.answers[q] = saved.answers[q]
  /\ report # None => report' = report

AnalysisResumes == [][AnalysisResumesStep]_spokenVars

\* Every score and every report rests on what the student said and showed in answer to
\* that question, however often the analysis fails and is taken up again.
EvidenceStands ==
  /\ [](WordsAreOfAnswer /\ PicturesAreOfAnswer /\ NothingUnheard)
  /\ AnalysisResumes
=============================================================================
