----------------------------- MODULE ProviderMedia -----------------------------
(***************************************************************************)
(* The copy of a recording that the paid provider keeps while it analyses  *)
(* it (hr_video._analyze_video): uploaded once, named in the row so that a *)
(* later attempt finds it again, deleted when the analysis ends, and kept  *)
(* when the provider is still processing it.  One worker at a time: an     *)
(* attempt is taken to end within the five minutes of its lease.           *)
(***************************************************************************)
EXTENDS Naturals, FiniteSets

CONSTANTS
  Copies,      \* copies that the provider may come to hold, bound of uploads
  NoCopy,
  MaxPolls     \* how often the provider is asked whether it has processed a copy

ASSUME ProviderMediaAssumption == NoCopy \notin Copies /\ MaxPolls \in Nat

VARIABLES
  held,        \* the state of each copy at the provider
  named,       \* provider_file_name of the row
  worker,      \* the analysis in progress
  analysed     \* the row has its analysis

mediaVars == <<held, named, worker, analysed>>

CopyStates == {"absent", "processing", "active", "failed"}
Steps == {"resting", "finding", "uploading", "naming", "waiting", "asking", "cleaning", "forgetting"}

Resting == [at |-> "resting", copy |-> NoCopy, polls |-> 0, ok |-> FALSE]
At(step) == worker.at = step
GoTo(step) == worker' = [worker EXCEPT !.at = step]

MediaInit ==
  /\ held = [c \in Copies |-> "absent"] /\ named = NoCopy
  /\ worker = Resting /\ analysed = FALSE

-----------------------------------------------------------------------------
(* The provider *)

\* It processes what it got, or not, and deletes copies after their time.
Provider(c, state) ==
  /\ held[c] # "absent"
  /\ state \in IF held[c] = "processing" THEN {"active", "failed", "absent"} ELSE {"absent"}
  /\ held' = [held EXCEPT ![c] = state]
  /\ UNCHANGED <<named, worker, analysed>>

-----------------------------------------------------------------------------
(* _analyze_video *)

StartMedia ==
  /\ At("resting") /\ ~analysed
  /\ GoTo(IF named = NoCopy THEN "uploading" ELSE "finding")
  /\ UNCHANGED <<held, named, analysed>>

\* Variant: at any error the name is forgotten and the recording uploaded again.
FindOrForget ==
  /\ At("finding")
  /\ \/ /\ held[named] # "absent"
        /\ worker' = [worker EXCEPT !.at = "waiting", !.copy = named]
        /\ UNCHANGED named
     \/ GoTo("uploading") /\ named' = NoCopy
  /\ UNCHANGED <<held, analysed>>

\* What has gone (404) is forgotten; at another error the attempt ends.
FindCopy ==
  /\ At("finding")
  /\ \/ /\ held[named] # "absent"
        /\ worker' = [worker EXCEPT !.at = "waiting", !.copy = named]
        /\ UNCHANGED named
     \/ /\ held[named] = "absent"
        /\ GoTo("uploading") /\ named' = NoCopy
     \/ worker' = Resting /\ UNCHANGED named
  /\ UNCHANGED <<held, analysed>>

\* The answer names the copy.  It may get lost, or time out, with the copy stored or not.
Upload(c) ==
  /\ At("uploading")
  /\ held[c] = "absent"
  /\ \/ /\ held' = [held EXCEPT ![c] = "processing"]
        /\ worker' = [worker EXCEPT !.at = "naming", !.copy = c]
     \/ /\ held' = [held EXCEPT ![c] = "processing"]
        /\ worker' = Resting
     \/ worker' = Resting /\ UNCHANGED held
  /\ UNCHANGED <<named, analysed>>

\* Saved, or else cleaned up at once.
NameCopy ==
  /\ At("naming")
  /\ \/ named' = worker.copy /\ GoTo("waiting")
     \/ GoTo("cleaning") /\ UNCHANGED named
  /\ UNCHANGED <<held, analysed>>

(* A look may fail.  A copy that failed is noticed at the next look; after the last
   one the copy stays, to be found by the next attempt. *)
Poll ==
  /\ At("waiting")
  /\ \/ held[worker.copy] = "active" /\ GoTo("asking")
     \/ /\ held[worker.copy] # "active"
        /\ worker.polls = MaxPolls /\ worker' = Resting
     \/ /\ held[worker.copy] # "active"
        /\ worker.polls < MaxPolls /\ GoTo("cleaning")
     \/ /\ held[worker.copy] = "processing" /\ worker.polls < MaxPolls
        /\ worker' = [worker EXCEPT !.polls = @ + 1]
  /\ UNCHANGED <<held, named, analysed>>

\* Two requests at most, and what comes back may not be valid.
AskForAnalysis(ok) ==
  /\ At("asking")
  /\ ok => held[worker.copy] = "active"
  /\ worker' = [worker EXCEPT !.at = "cleaning", !.ok = ok]
  /\ UNCHANGED <<held, named, analysed>>

\* Cleanup that fails is deferred to the provider: the name stays.
DeleteCopy ==
  /\ At("cleaning")
  /\ \/ /\ held[worker.copy] # "absent"
        /\ held' = [held EXCEPT ![worker.copy] = "absent"]
        /\ GoTo("forgetting")
        /\ UNCHANGED analysed
     \/ /\ worker' = Resting /\ analysed' = worker.ok
        /\ UNCHANGED held
  /\ UNCHANGED named

ForgetCopy ==
  /\ At("forgetting")
  /\ named' = NoCopy \/ UNCHANGED named
  /\ worker' = Resting /\ analysed' = worker.ok
  /\ UNCHANGED held

MediaCrash ==
  /\ ~At("resting")
  /\ worker' = Resting
  /\ UNCHANGED <<held, named, analysed>>

MediaNext ==
  \/ StartMedia \/ FindCopy \/ NameCopy \/ Poll \/ DeleteCopy \/ ForgetCopy \/ MediaCrash
  \/ \E c \in Copies : Upload(c) \/ \E state \in CopyStates : Provider(c, state)
  \/ \E ok \in BOOLEAN : AskForAnalysis(ok)

MediaSpec == MediaInit /\ [][MediaNext]_mediaVars

-----------------------------------------------------------------------------
(* Properties *)

Sighted == {c \in Copies : held[c] # "absent" /\ c \in {named, worker.copy}}
Unsighted(c) == held[c] # "absent" /\ c \notin {named, worker.copy}

\* A copy exists, or may, that the row does not name: it is being uploaded, its name is
\* about to be saved, or that failed and it is about to be deleted.
Nameless == \/ At("uploading") \/ At("naming")
            \/ At("cleaning") /\ named # worker.copy

\* A copy at the provider is named in the row, or in the hands of the worker, and is never
\* lost sight of once its name is saved, whatever fails or dies then: only an upload whose
\* answer is lost, or a death or failed deletion before the name is saved, leaves a
\* recording at the provider that nobody knows of (hr_video.py:293-330).  Of those in sight
\* there is one: an attempt finds the copy of the last one instead of uploading again.
MediaAccounted ==
  /\ [](Cardinality(Sighted) <= 1)
  /\ [][\A c \in Copies : Unsighted(c)' => Unsighted(c) \/ Nameless]_mediaVars
=============================================================================
