----------------------------- MODULE ExamPaper -----------------------------
(* The questions of an exam or of a practice round (mock_interview_v2.py):
   what the student was asked before, one reply of the AI provider taken item
   by item, and the local bank that fills what is missing.  Questions that
   _too_similar cannot tell apart are one topic. *)
EXTENDS Integers, SequencesExt, Totals

CONSTANTS
    Sections,           \* the blueprint: sections in order,
    Quota,              \* and how many items each has
    Objective,          \* sections answered by one of four options
    Audio,              \* sections answered into the microphone
    Bank,               \* per section, the server's own items and templates
    Pool,               \* topics of the practice questions made from the role
    Replies,            \* items the provider may send
    Counts,             \* sizes of practice rounds
    Lookback, HistoryLimit      \* rows and questions read back

BankItems == [topic : STRING, steps : BOOLEAN]
ReplyItems == [section : STRING, topic : STRING, sound : BOOLEAN, difficulty : 0 .. 2,
               steps : BOOLEAN, size : -1 .. 2]

ASSUME PaperAssumption ==
    /\ Sections \in Seq(ToSet(Sections))
    /\ \A i, j \in DOMAIN Sections : Sections[i] = Sections[j] => i = j
    /\ Objective \cup Audio \cup {"coding", "behavioral"} = ToSet(Sections)
    /\ \A s \in ToSet(Sections) :
          /\ Quota[s] \in Nat \ {0}
          /\ Bank[s] \in Seq(BankItems) /\ Bank[s] # <<>>
          /\ s \notin Audio \cup {"behavioral"} => Len(Bank[s]) >= Quota[s]
    /\ Pool \in Seq(STRING) \ {<<>>} /\ Replies \subseteq ReplyItems
    /\ Counts \subseteq Nat /\ {Lookback, HistoryLimit} \subseteq Nat

FullCount == Total([k \in 0 .. Len(Sections) |-> IF k = 0 THEN 0 ELSE Quota[Sections[k]]],
                   Len(Sections))

VARIABLES
    rows,       \* topics of the newest stored question sets, newest first
    round,      \* the start request at work
    issued,     \* the set issued last, and what it was not to repeat
    refused     \* a start ended with 502

paperVars == <<rows, round, issued, refused>>

NoRound == [phase |-> "idle", full |-> FALSE, count |-> 0, used |-> {}, accepted |-> <<>>,
            turn |-> 1, skipped |-> 0]

PaperInit ==
    /\ rows = <<>> /\ round = NoRound /\ refused = FALSE
    /\ issued = [full |-> FALSE, items |-> <<>>, used |-> {}]

(***************************************************************************)
(* What an item is.                                                        *)
(***************************************************************************)
Item(section, topic, keyed, difficulty, steps, size, own) ==
    [section |-> section, topic |-> topic, keyed |-> keyed, difficulty |-> difficulty,
     steps |-> steps, size |-> size, own |-> own]

Topics(items) == {items[i].topic : i \in DOMAIN items}
In(items, s) == FlattenSeq([i \in DOMAIN items |->
                               IF items[i].section = s THEN <<items[i]>> ELSE <<>>])

\* 0 easy, 1 medium, 2 hard, for the index-th of total items.
DifficultyFor(index, total) ==
    IF 100 * index <= 34 * total THEN 0 ELSE IF 100 * index <= 68 * total THEN 1 ELSE 2

\* The provider may ask for a longer answer, never for a shorter one.
AnswerSize(item) ==
    LET floor == IF item.section \in {"resume", "situational"} /\ item.difficulty = 0
                 THEN 1 ELSE item.difficulty
        rank == IF item.steps /\ floor < 2 THEN floor + 1 ELSE floor
    IN  IF item.size > rank THEN item.size ELSE rank

(***************************************************************************)
(* The response contract of a full exam.                                   *)
(***************************************************************************)
Ordered(items) == FlattenSeq([k \in 1 .. Len(Sections) |-> In(items, Sections[k])])

MeetsContract(items) ==
    /\ Len(items) = FullCount
    /\ \A s \in ToSet(Sections) : Len(In(items, s)) = Quota[s]
    /\ \A i \in DOMAIN items : items[i].section \in Objective => items[i].keyed

Contract(items) ==
    [i \in DOMAIN items |->
        [items[i] EXCEPT !.size = IF items[i].section \in Audio THEN AnswerSize(items[i]) ELSE -1]]

(***************************************************************************)
(* start, generation with the provider.                                    *)
(***************************************************************************)
\* The newest questions of the newest rows.
Previous ==
    LET asked == FlattenSeq(SubSeq(rows, 1, IF Len(rows) < Lookback THEN Len(rows) ELSE Lookback))
    IN  ToSet(SubSeq(asked, 1, IF Len(asked) < HistoryLimit THEN Len(asked) ELSE HistoryLimit))

Start(full, count) ==
    /\ round.phase = "idle"
    /\ round' = [NoRound EXCEPT !.phase = "asking", !.full = full, !.count = count, !.used = Previous]
    /\ UNCHANGED <<rows, issued, refused>>

\* What generation returns: an exam in order and under the contract, or 502.
Finish(accepted) ==
    LET items == Ordered(accepted) IN
    IF round.full /\ ~MeetsContract(items)
    THEN round' = NoRound /\ refused' = TRUE
    ELSE /\ round' = [round EXCEPT !.phase = "ready",
                                   !.accepted = IF round.full THEN Contract(items) ELSE accepted]
         /\ UNCHANGED refused

Repeats(topic) == topic \in round.used \cup Topics(round.accepted)

(* An item is taken unless it repeats a topic or, in an exam, overfills its
   section, is a coding task, or is objective and malformed. *)
Taken(r) ==
    /\ ~Repeats(r.topic)
    /\ round.full =>
          /\ r.section \in ToSet(Sections)
          /\ Len(In(round.accepted, r.section)) < Quota[r.section]
          /\ r.section # "coding"
          /\ r.section \in Objective => r.sound

AsItem(r) ==
    IF round.full THEN Item(r.section, r.topic, r.section \in Objective, r.difficulty, r.steps, r.size, FALSE)
    ELSE Item("practice", r.topic, FALSE, r.difficulty, FALSE, -1, FALSE)

Reply(r) ==
    /\ round.phase = "asking" /\ Len(round.accepted) < round.count
    /\ Taken(r)
    /\ round' = [round EXCEPT !.accepted = Append(@, AsItem(r))]
    /\ UNCHANGED <<rows, issued, refused>>

(* The reply has no more items, is not what was asked for, or the provider
   failed: what was accepted stays. *)
ReplyEnds ==
    /\ round.phase = "asking"
    /\ IF Len(round.accepted) < round.count
       THEN round' = [round EXCEPT !.phase = "filling"] /\ UNCHANGED refused
       ELSE Finish(round.accepted)
    /\ UNCHANGED <<rows, issued>>

(***************************************************************************)
(* _fallback_questions.                                                    *)
(***************************************************************************)
\* The items of one section that are missing beside those accepted.
FillOf(s, accepted) ==
    LET missing == Quota[s] - Len(In(accepted, s)) IN
    [i \in 1 .. missing |->
        LET entry == Bank[s][((i - 1) % Len(Bank[s])) + 1] IN
        Item(s, entry.topic, s \in Objective,
             IF s \in Objective THEN 1 ELSE DifficultyFor(i, missing), entry.steps, -1, TRUE)]

Filling(accepted) == FlattenSeq([k \in 1 .. Len(Sections) |-> FillOf(Sections[k], accepted)])

FillPaper ==
    /\ round.phase = "filling" /\ round.full
    /\ Finish(round.accepted \o SubSeq(Filling(round.accepted), 1,
                                       round.count - Len(round.accepted)))
    /\ UNCHANGED <<rows, issued>>

Turned(turn) == IF turn = Len(Pool) THEN 1 ELSE turn + 1

\* Variant: the pool is only read on after a question was chosen.
FillRoundStuck ==
    LET topic == Pool[round.turn] IN
    /\ round.phase = "filling" /\ ~round.full
    /\ round' = IF Repeats(topic)
                THEN [round EXCEPT !.skipped = IF @ < Len(Pool) THEN @ + 1 ELSE @]
                ELSE [round EXCEPT !.turn = Turned(@), !.skipped = 0,
                        !.accepted = Append(@, Item("practice", topic, FALSE, 0, FALSE, -1, TRUE)),
                        !.phase = IF Len(round.accepted) + 1 = round.count THEN "ready" ELSE @]
    /\ UNCHANGED <<rows, issued, refused>>

(* A practice round walks round the pool until it is full.  skipped counts
   the questions passed over in a row, up to one full turn. *)
FillRound ==
    LET topic == Pool[round.turn] IN
    /\ round.phase = "filling" /\ ~round.full
    /\ round' = IF Repeats(topic)
                THEN [round EXCEPT !.turn = Turned(@), !.skipped = IF @ < Len(Pool) THEN @ + 1 ELSE @]
                ELSE [round EXCEPT !.turn = Turned(@), !.skipped = 0,
                        !.accepted = Append(@, Item("practice", topic, FALSE, 0, FALSE, -1, TRUE)),
                        !.phase = IF Len(round.accepted) + 1 = round.count THEN "ready" ELSE @]
    /\ UNCHANGED <<rows, issued, refused>>

(* The curated exam of zensar_practice is the bank without a provider, its
   questions exchanged one for one. *)
StartCurated ==
    /\ round.phase = "idle"
    /\ round' = [NoRound EXCEPT !.phase = "ready", !.full = TRUE, !.count = FullCount,
                                !.accepted = Filling(<<>>)]
    /\ UNCHANGED <<rows, issued, refused>>

(***************************************************************************)
(* The row is stored; an exam meets the contract once more.  Older rows than
   a start reads back are not kept.                                        *)
(***************************************************************************)
Issue ==
    /\ round.phase = "ready"
    /\ IF round.full /\ ~MeetsContract(round.accepted)
       THEN refused' = TRUE /\ UNCHANGED <<rows, issued>>
       ELSE LET items == IF round.full THEN Contract(round.accepted) ELSE round.accepted
                stored == <<[i \in DOMAIN items |-> items[i].topic]>> \o rows IN
            /\ rows' = SubSeq(stored, 1, IF Len(stored) < Lookback THEN Len(stored) ELSE Lookback)
            /\ issued' = [full |-> round.full, items |-> items, used |-> round.used]
            /\ UNCHANGED refused
    /\ round' = NoRound

PaperNext ==
    \/ Start(TRUE, FullCount) \/ \E count \in Counts : Start(FALSE, count)
    \/ StartCurated
    \/ \E r \in Replies : Reply(r)
    \/ ReplyEnds \/ FillPaper \/ FillRound \/ Issue

PaperSpec == PaperInit /\ [][PaperNext]_paperVars

(***************************************************************************)
(* Properties.                                                             *)
(***************************************************************************)
(* However little of the provider's reply is of use, a start never ends with
   502 for an incomplete blueprint, and the exam a student gets has every
   section's items in the order of the blueprint, an answer key for each
   objective one, tasks of the server's own for coding, and answer times that
   a second application of the contract (start applies it again) leaves alone. *)
PaperIsStandard ==
    /\ ~refused
    /\ issued.full =>
          /\ MeetsContract(issued.items)
          /\ Ordered(issued.items) = issued.items
          /\ Contract(issued.items) = issued.items
          /\ \A i \in DOMAIN issued.items : issued.items[i].section = "coding" => issued.items[i].own

(* Within what is read back, a practice round asks nothing twice and no exam
   takes a provider's item that was asked before; the items an exam has of its
   own bank are not compared with what was asked, and may be asked again.  The
   fill goes round in circles only when the pool has no question left. *)
RoundsDiffer ==
    /\ \A i \in DOMAIN issued.items : ~issued.full \/ ~issued.items[i].own =>
          /\ issued.items[i].topic \notin issued.used
          /\ \A j \in DOMAIN issued.items :
                ~issued.full /\ i # j => issued.items[j].topic # issued.items[i].topic
    /\ round.skipped = Len(Pool) => ToSet(Pool) \subseteq round.used \cup Topics(round.accepted)

(* Every paper is standard, and every round, with what a provider adds to an exam, is new. *)
PapersAreFit == PaperIsStandard /\ RoundsDiffer
=============================================================================
