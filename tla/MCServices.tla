------------------------------ MODULE MCServices ------------------------------
(* Bounded instances of eight parts that share no row, for TLC. *)
EXTENDS ExamEvaluation, ExamRecordings, StudentRecords, AccessRequests, RateLimits,
        SpokenEvidence, ProviderMedia, ProviderChain, TLC

\* A run takes one part at a time, chosen by the first state: its states are the sum of
\* theirs and not the product.
VARIABLE part

ofServices == <<vars, captureVars, recordsVars, accessVars, limitsVars>>
ofProviders == <<spokenVars, mediaVars, chainVars>>
Services == {"exams", "capture", "records", "access", "limits", "spoken", "media", "chain"}

\* One chunk is twice as large as the other.
CONSTANT small
ClipTimes == [q \in Spoken |-> 1]
Sizes == [d \in Data |-> IF d = small THEN 1 ELSE 2]

\* Two answers after another, one alone, and two with a pause between them.
Span(from, to) == [from |-> from, to |-> to]
SomeFilms == {<<Span(0, 2), Span(2, 4)>>, <<Span(0, 2)>>, <<Span(0, 1), Span(3, 3)>>}

\* Sound of no, part or all of its length, words at the boundaries, doubtful speech.
SomeSpeech == {{[from |-> 0, to |-> 6, sure |-> TRUE]},
               {[from |-> 0, to |-> 2, sure |-> TRUE], [from |-> 2, to |-> 4, sure |-> FALSE]}}
SomeTranscripts ==
  [length : {0, 3, 5}, speech : SomeSpeech, text : {TRUE},
   words : SUBSET {Span(0, 1), Span(1, 3), Span(3, 4), Span(5, 5)}]

\* The paid chain with fewer keys, retries or libraries, and the free provider.
Paid == [text |-> "chain", vision |-> "chain", keys |-> 2, gemini |-> TRUE, sdk |-> TRUE,
         approved |-> FALSE, retries |-> 1]
SomeDeployments ==
  {Paid,
   [Paid EXCEPT !.keys = 0, !.retries = 2],
   [Paid EXCEPT !.keys = 1, !.retries = 0, !.sdk = FALSE],
   [Paid EXCEPT !.text = "groq"],
   [Paid EXCEPT !.text = "groq", !.approved = TRUE, !.keys = 1],
   [Paid EXCEPT !.text = "groq", !.approved = TRUE, !.vision = "groq"]}

ServicesInit ==
  /\ part \in Services
  /\ Init /\ CaptureInit /\ RecordsInit /\ AccessInit /\ LimitsInit
  /\ SpokenInit /\ MediaInit /\ ChainInit
  /\ part # "exams" => ~recorded
  /\ part # "capture" => ~groq
  /\ part # "spoken" => film = <<Span(0, 2)>>
  /\ part # "chain" => deployment = Paid

ServicesNext ==
  /\ UNCHANGED part
  /\ \/ /\ part = "exams" /\ Next
        /\ UNCHANGED <<captureVars, recordsVars, accessVars, limitsVars, ofProviders>>
     \/ /\ part = "capture" /\ CaptureNext
        /\ UNCHANGED <<vars, recordsVars, accessVars, limitsVars, ofProviders>>
     \/ /\ part = "records" /\ RecordsNext
        /\ UNCHANGED <<vars, captureVars, accessVars, limitsVars, ofProviders>>
     \/ /\ part = "access" /\ AccessNext
        /\ UNCHANGED <<vars, captureVars, recordsVars, limitsVars, ofProviders>>
     \/ /\ part = "limits" /\ LimitsNext
        /\ UNCHANGED <<vars, captureVars, recordsVars, accessVars, ofProviders>>
     \/ /\ part = "spoken" /\ SpokenNext
        /\ UNCHANGED <<mediaVars, chainVars, ofServices>>
     \/ /\ part = "media" /\ MediaNext
        /\ UNCHANGED <<spokenVars, chainVars, ofServices>>
     \/ /\ part = "chain" /\ ChainNext
        /\ UNCHANGED <<spokenVars, mediaVars, ofServices>>

ServicesSpec == ServicesInit /\ [][ServicesNext]_<<part, ofServices, ofProviders>>

\* Requests, Desks, Callers and Contexts are given the same values, and so are Bodies, Texts
\* and Spoken: one group of permutations serves every part.
Interchangeable ==
  Permutations(Requests) \union Permutations(Bodies)
=============================================================================
