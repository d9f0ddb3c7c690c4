----------------------------- MODULE ProviderChain -----------------------------
(***************************************************************************)
(* The chain of providers behind every text and every look at an image     *)
(* (ai_provider.call_ai_text, call_ai_vision_text; free_provider.text):    *)
(* the OpenAI keys in turn, then Gemini, each with its retries; or, when    *)
(* it is chosen, the free provider alone.  Which provider and model        *)
(* answered is remembered in two variables of the caller's context, which  *)
(* current_ai_provider and current_ai_model read afterwards.               *)
(***************************************************************************)
EXTENDS Naturals, Sequences, FiniteSets

CONSTANTS
  Contexts,    \* requests and workers that call at the same time
  Deployments, \* configurations, see deployment
  MaxCalls     \* bound: calls of one context

Providers == {"openai", "gemini", "groq"}

ASSUME ProviderChainAssumption ==
  \A d \in Deployments :
    {d.keys, d.retries} \subseteq Nat /\ {d.gemini, d.sdk, d.approved} \subseteq BOOLEAN

VARIABLES
  deployment,  \* what the environment configures
  call,        \* what each context is waiting for
  lastNamed,   \* _LAST_AI_PROVIDER and _LAST_AI_MODEL, by context
  outcome,     \* what the last call of each context came to
  reported,    \* what the context then told about it
  sentTo,      \* history: requests of the call in progress, or of the last one
  calls        \* how many calls each context made

chainVars == <<deployment, call, lastNamed, outcome, reported, sentTo, calls>>

Nobody == [provider |-> "none", model |-> "none"]
NoPlace == <<"none", 0>>
NoCall == [kind |-> "none", place |-> NoPlace, attempt |-> 0]
Waiting(c) == call[c].place # NoPlace

\* TEXT_AI_PROVIDER and VISION_AI_PROVIDER.
Free(kind) == (IF kind = "text" THEN deployment.text ELSE deployment.vision) = "groq"

\* The providers a call goes through, in this order (_openai_keys: a key counts once).
Avenues(kind) ==
  IF Free(kind) THEN <<<<"groq", 1>>>>
  ELSE [slot \in 1 .. deployment.keys |-> <<"openai", slot>>]
         \o IF kind = "text" /\ deployment.gemini THEN <<<<"gemini", 1>>>> ELSE <<>>

\* The model that is asked: the caller may name one of OpenAI's.
ModelAt(place, kind) ==
  CASE place[1] = "groq" -> IF kind = "text" THEN "gpt-oss" ELSE "qwen"
    [] place[1] = "gemini" -> "gemini"
    [] place[1] = "openai" -> IF kind = "text" THEN "terra" ELSE "luna"

Retries(place, kind) == IF kind = "text" /\ place[1] # "groq" THEN deployment.retries ELSE 0

ChainInit ==
  /\ deployment \in Deployments
  /\ call = [c \in Contexts |-> NoCall]
  /\ lastNamed = [c \in Contexts |-> Nobody]
  /\ outcome = [c \in Contexts |-> "none"]
  /\ reported = [c \in Contexts |-> Nobody]
  /\ sentTo = [c \in Contexts |-> <<>>]
  /\ calls = [c \in Contexts |-> 0]

-----------------------------------------------------------------------------

Position(c) == CHOOSE i \in DOMAIN Avenues(call[c].kind) : Avenues(call[c].kind)[i] = call[c].place

EndCall(c, result) ==
  /\ outcome' = [outcome EXCEPT ![c] = result]
  /\ call' = [call EXCEPT ![c].place = NoPlace]

CallProviders(c, kind) ==
  /\ ~Waiting(c) /\ calls[c] < MaxCalls
  /\ calls' = [calls EXCEPT ![c] = @ + 1]
  /\ sentTo' = [sentTo EXCEPT ![c] = <<>>]
  /\ reported' = [reported EXCEPT ![c] = Nobody]
  /\ IF Avenues(kind) = <<>>
     THEN /\ call' = [call EXCEPT ![c] = [NoCall EXCEPT !.kind = kind]]
          /\ outcome' = [outcome EXCEPT ![c] = "not configured"]
     ELSE /\ call' = [call EXCEPT ![c] = [kind |-> kind, place |-> Avenues(kind)[1], attempt |-> 0]]
          /\ outcome' = [outcome EXCEPT ![c] = "none"]
  /\ UNCHANGED <<deployment, lastNamed>>

\* Nothing is sent without approval of the free provider, or without Gemini's library.
Unsendable(place) ==
  \/ place[1] = "groq" /\ ~deployment.approved
  \/ place[1] = "gemini" /\ ~deployment.sdk

NamedBy(c) == [provider |-> call[c].place[1], model |-> ModelAt(call[c].place, call[c].kind)]

Sent(c) == sentTo' = [sentTo EXCEPT ![c] = Append(@, NamedBy(c))]

\* Variant: one pair of variables for all.
RememberForAll(c) == lastNamed' = [d \in Contexts |-> NamedBy(c)]

Remember(c) == lastNamed' = [lastNamed EXCEPT ![c] = NamedBy(c)]

Succeed(c) ==
  /\ Waiting(c) /\ ~Unsendable(call[c].place)
  /\ Sent(c) /\ Remember(c) /\ EndCall(c, "answered")
  /\ UNCHANGED <<deployment, reported, calls>>

(* Of OpenAI a status or an error that passes is tried again, an empty or refused
   request is not; of Gemini anything is; of the free provider nothing. *)
TriedAgain(c, failure) ==
  /\ call[c].attempt < Retries(call[c].place, call[c].kind)
  /\ failure \in {"passing", "quota"} \/ call[c].place[1] = "gemini"

NoneLeft(c, failure) ==
  EndCall(c, IF call[c].place[1] = "groq" /\ call[c].kind = "text" /\ failure = "quota"
             THEN "no capacity" ELSE "unavailable")

NextAvenue(c, failure) ==
  LET avenues == Avenues(call[c].kind) IN
  IF Position(c) = Len(avenues) THEN NoneLeft(c, failure)
  ELSE /\ call' = [call EXCEPT ![c].place = avenues[Position(c) + 1], ![c].attempt = 0]
       /\ UNCHANGED outcome

ProviderFails(c, failure) ==
  /\ Waiting(c) /\ ~Unsendable(call[c].place)
  /\ Sent(c)
  /\ IF TriedAgain(c, failure)
     THEN call' = [call EXCEPT ![c].attempt = @ + 1] /\ UNCHANGED outcome
     ELSE NextAvenue(c, failure)
  /\ UNCHANGED <<deployment, lastNamed, reported, calls>>

SkipProvider(c) ==
  /\ Waiting(c) /\ Unsendable(call[c].place)
  /\ NextAvenue(c, "refused")
  /\ UNCHANGED <<deployment, lastNamed, reported, sentTo, calls>>

\* The handler that got a text says who wrote it; one that got none does not ask.
Report(c) ==
  /\ outcome[c] = "answered" /\ reported[c] = Nobody
  /\ reported' = [reported EXCEPT ![c] = lastNamed[c]]
  /\ UNCHANGED <<deployment, call, lastNamed, outcome, sentTo, calls>>

ChainNext ==
  \E c \in Contexts :
    \/ \E kind \in {"text", "vision"} : CallProviders(c, kind)
    \/ Succeed(c) \/ SkipProvider(c) \/ Report(c)
    \/ \E failure \in {"passing", "refused", "quota"} : ProviderFails(c, failure)

ChainSpec == ChainInit /\ [][ChainNext]_chainVars

-----------------------------------------------------------------------------
(* Properties *)

\* The places that a provider has among the requests of a call, and how many they are.
SentBy(c, provider) == {i \in DOMAIN sentTo[c] : sentTo[c][i].provider = provider}
TimesSent(c, provider) == Cardinality(SentBy(c, provider))

\* What is told of a text is who wrote it, whatever other callers are told meanwhile.
NamedIsAuthor ==
  \A c \in Contexts : reported[c] # Nobody => reported[c] = sentTo[c][Len(sentTo[c])]

\* The free provider is asked once and nobody else with it: no text falls back on a
\* provider that is paid, and a quota is never retried.
FreeStaysFree ==
  \A c \in Contexts :
    Waiting(c) \/ outcome[c] # "none" =>
      IF Free(call[c].kind) THEN Len(sentTo[c]) <= 1 /\ SentBy(c, "groq") = DOMAIN sentTo[c]
      ELSE SentBy(c, "groq") = {}

\* A failure is told only when every provider had its turn, and none had more than its
\* attempts, so that the time a caller waits is bounded.
EachHadItsTurn ==
  \A c \in Contexts :
    /\ TimesSent(c, "openai") <= deployment.keys * (deployment.retries + 1)
    /\ TimesSent(c, "gemini") <= deployment.retries + 1
    /\ outcome[c] = "unavailable" =>
         \A i \in DOMAIN Avenues(call[c].kind) :
           LET place == Avenues(call[c].kind)[i] IN
           Unsendable(place) \/ TimesSent(c, place[1]) >= place[2]

ProvidersInTurn == NamedIsAuthor /\ FreeStaysFree /\ EachHadItsTurn
=============================================================================
