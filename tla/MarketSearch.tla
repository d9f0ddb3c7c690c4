---------------------------- MODULE MarketSearch ----------------------------
(***************************************************************************)
(* How one career roadmap finds current market evidence: the OpenAI keys,  *)
(* each model, in two formats with one retry, then Gemini in two stages,   *)
(* then the gateway (roadmap_market.py), then the public job feeds         *)
(* (roadmap_public_market.py), and what is made of the answer              *)
(* (roadmap_service.py).                                                   *)
(*                                                                         *)
(* One call of a provider is one step, and its outcome is any the code     *)
(* tells apart.  The text of prompts and answers is left out.              *)
(***************************************************************************)
EXTENDS Naturals, FiniteSets

CONSTANTS
  KeyLimit,       \* number of OpenAI keys that may be configured
  Models, GeminiModels, GatewayModels,  \* numbers of models of each provider
  MinMatched, MinSkills,   \* what the public feeds must show
  Timelines       \* the days a student may ask for; 0 is no wish

ASSUME SearchAssumption ==
  /\ {KeyLimit, Models, GeminiModels, GatewayModels, MinMatched, MinSkills} \subseteq Nat \ {0}
  /\ Timelines \subseteq Nat

VARIABLES
  config,    \* what the environment configures
  at,        \* where the search is
  tried,     \* history: the OpenAI keys, Gemini models, gateway and feeds that were called
  spent,     \* history: keys that were refused or unstable, and models at their limit
  answer     \* what the roadmap handler gets

searchVars == <<config, at, tried, spent, answer>>

Stages == {"start", "openai", "gemini", "memo", "gateway", "public", "ended"}
Position == [stage : Stages, key : Nat, model : Nat, structured : BOOLEAN, attempt : Nat]
Pos(stage) == [stage |-> stage, key |-> 1, model |-> 1, structured |-> TRUE, attempt |-> 1]
NoAnswer == [status |-> 0, origin |-> "none", sources |-> 0, wanted |-> 0, days |-> 0]

SearchTypeOK ==
  /\ config \in [keys : 0 .. KeyLimit, gemini : BOOLEAN, gateway : BOOLEAN, public : BOOLEAN]
  /\ at \in Position
  /\ tried \subseteq (Stages \X Nat)
  /\ spent \subseteq (1 .. KeyLimit) \X (0 .. Models)
  /\ answer.status \in {0, 200, 502, 503}

SearchInit ==
  /\ config \in [keys : 0 .. KeyLimit, gemini : BOOLEAN, gateway : BOOLEAN, public : BOOLEAN]
  /\ at = Pos("start") /\ tried = {} /\ spent = {} /\ answer = NoAnswer

-----------------------------------------------------------------------------
(* The order of the providers. *)

\* Variant: the gateway is only asked when Gemini is not configured.
AfterGeminiGivesUp ==
  Pos(IF config.gateway /\ ~config.gemini THEN "gateway" ELSE "public")

AfterGemini == Pos(IF config.gateway THEN "gateway" ELSE "public")
AfterOpenAI == IF config.gemini THEN Pos("gemini") ELSE AfterGemini

NextKey == IF at.key < config.keys
           THEN [Pos("openai") EXCEPT !.key = at.key + 1]
           ELSE AfterOpenAI
NextModel == IF at.model < Models
             THEN [Pos("openai") EXCEPT !.key = at.key, !.model = at.model + 1]
             ELSE NextKey
Again == [at EXCEPT !.attempt = 2]

Ask(n) == tried' = tried \union {<<at.stage, n>>}

\* With ROADMAP_RESEARCH_PROVIDER=public, and when nothing is configured, only the feeds
\* are asked.
BeginSearch ==
  /\ at.stage = "start"
  /\ at' = IF config.public THEN Pos("public")
           ELSE IF config.keys > 0 THEN Pos("openai") ELSE AfterOpenAI
  /\ UNCHANGED <<config, tried, spent, answer>>

\* The text of an answer was read as JSON before; only its phases may be missing.
Answered(origin, phases) ==
  answer' = [status |-> IF phases THEN 200 ELSE 502, origin |-> origin, sources |-> 1,
             wanted |-> 0, days |-> 0]

Failures == {"refused key", "network", "busy", "quota", "server", "other"}

\* A refused key and an unstable network end the key; a rate limit ends the model, and a
\* server error the key, but each is tried once more first; anything else, the contents
\* of the answer included, is tried in the plain format and then with the next model.
After(failure) ==
  CASE failure \in {"refused key", "network"} -> NextKey
    [] failure = "busy" -> IF at.attempt = 1 THEN Again ELSE NextModel
    [] failure = "quota" -> NextModel
    [] failure = "server" -> IF at.attempt = 1 THEN Again ELSE NextKey
    [] failure = "other" -> IF at.structured THEN [at EXCEPT !.structured = FALSE, !.attempt = 1]
                            ELSE NextModel

Spends(failure) ==
  IF failure \in {"refused key", "network"} \/ (failure = "server" /\ at.attempt = 2)
  THEN {<<at.key, 0>>}
  ELSE IF failure = "quota" \/ (failure = "busy" /\ at.attempt = 2)
       THEN {<<at.key, at.model>>} ELSE {}

CallOpenAI ==
  /\ at.stage = "openai"
  /\ Ask(at.key)
  /\ \/ \E failure \in Failures :
          /\ at' = After(failure) /\ spent' = spent \union Spends(failure)
          /\ UNCHANGED answer
     \/ \E phases \in BOOLEAN :
          at' = Pos("ended") /\ Answered("openai", phases) /\ UNCHANGED spent
  /\ UNCHANGED config

\* Gemini researches first, and a memo without sources is no memo; a second call puts the
\* memo into form.  Any failure of either call goes on to the next model.
CallGemini ==
  /\ at.stage \in {"gemini", "memo"}
  /\ Ask(at.model)
  /\ \/ /\ at' = IF at.model < GeminiModels THEN [Pos("gemini") EXCEPT !.model = at.model + 1]
                 ELSE AfterGemini
        /\ UNCHANGED answer
     \/ at.stage = "gemini" /\ at' = [at EXCEPT !.stage = "memo"] /\ UNCHANGED answer
     \/ \E phases \in BOOLEAN :
          at.stage = "memo" /\ at' = Pos("ended") /\ Answered("gemini", phases)
  /\ UNCHANGED <<config, spent>>

\* A refused token and an exhausted budget end the gateway.
CallGateway ==
  /\ at.stage = "gateway"
  /\ Ask(at.model)
  /\ \/ \E ends \in BOOLEAN :
          /\ at' = IF at.model < GatewayModels /\ ~ends
                   THEN [Pos("gateway") EXCEPT !.model = at.model + 1] ELSE Pos("public")
          /\ UNCHANGED answer
     \/ \E phases \in BOOLEAN : at' = Pos("ended") /\ Answered("gateway", phases)
  /\ UNCHANGED <<config, spent>>

-----------------------------------------------------------------------------
(* The public feeds. *)

AtLeast(n, m) == IF n < m THEN m ELSE n
AtMost(n, m) == IF n > m THEN m ELSE n
PercentOf(n, p) == (n * p + 50) \div 100

\* _phase_days: no tie is rounded, since p * n is never 50 more than a multiple of 100.
PhaseDays(timeline) ==
  LET total == AtLeast(42, AtMost(IF timeline = 0 THEN 90 ELSE timeline, 365))
      first == AtLeast(10, PercentOf(total, 24))
      third == AtLeast(10, PercentOf(total, 32))
      used == first + first + third
  IN <<first, first, third, IF total < used + 10 THEN 10 ELSE total - used>>

\* _matched_jobs: listings with a good score, or any score when those are too few.
Matched(direct, broad) == IF direct >= MinMatched THEN direct ELSE broad

\* A feed that cannot be read counts as one without listings.  Listings may share a
\* source; the four phases are written whatever the skills are.
AskFeeds ==
  /\ at.stage = "public"
  /\ Ask(at.model)
  /\ at' = Pos("ended")
  /\ \E broad \in 0 .. MinMatched + 1, skills \in 0 .. MinSkills :
       \E direct \in 0 .. broad :
         LET matched == Matched(direct, broad) IN
         \E sources \in 0 .. matched :
           /\ matched > 0 => sources > 0
           /\ IF matched >= MinMatched /\ skills >= MinSkills /\ sources >= MinMatched
              THEN \E timeline \in Timelines :
                     LET days == PhaseDays(timeline) IN
                     answer' = [status |-> 200, origin |-> "public", sources |-> sources,
                                wanted |-> timeline, days |-> days[1] + days[2] + days[3] + days[4]]
              ELSE answer' = [NoAnswer EXCEPT !.status = 503]
  /\ UNCHANGED <<config, spent>>

SearchNext == BeginSearch \/ CallOpenAI \/ CallGemini \/ CallGateway \/ AskFeeds

SearchSpec == SearchInit /\ [][SearchNext]_searchVars

-----------------------------------------------------------------------------
Called(stage) == {n \in 1 .. KeyLimit + GeminiModels + GatewayModels : <<stage, n>> \in tried}

(* No call is made with a key that was refused or whose provider was unstable, nor     *)
(* with a model that reached its limit under that key.  The public feeds are shown, or *)
(* the student is told that there is no evidence, only when every source that is       *)
(* configured was asked: each OpenAI key, each Gemini model and the gateway.  A        *)
(* roadmap has sources: from the feeds as many as the listings it needs, and its plan  *)
(* is of the length asked for within 42 and 365 days, but for at most two days that    *)
(* the phases are rounded up by.                                                       *)
EveryProviderInTurn ==
  /\ at.stage = "openai" => <<at.key, 0>> \notin spent /\ <<at.key, at.model>> \notin spent
  /\ (answer.status = 503 \/ answer.origin = "public") /\ ~config.public =>
       /\ Called("openai") = 1 .. config.keys
       /\ config.gemini => Called("gemini") = 1 .. GeminiModels
       /\ config.gateway => 1 \in Called("gateway")
  /\ answer.status = 200 =>
       /\ answer.sources >= IF answer.origin = "public" THEN MinMatched ELSE 1
       /\ answer.origin = "public" /\ answer.wanted > 0 =>
            LET total == AtLeast(42, AtMost(answer.wanted, 365)) IN
            answer.days \in total .. total + 2
=============================================================================
