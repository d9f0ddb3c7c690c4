---------------------------- MODULE StudyTracker ----------------------------
(***************************************************************************)
(* What one student's study tracker counts: sections of a ready notebook   *)
(* marked complete, reading and watching time per day, by the time zone of *)
(* the first study plan (study_service.py, routers/study_tracker.py), and  *)
(* the playback of one lesson, which adds to the same day                  *)
(* (routers/learning_video.py).                                            *)
(*                                                                         *)
(* Every request locks the row of the student before it reads anything     *)
(* else, so that a request is one step.  Requests are repeated, delayed    *)
(* and sent by several tabs: a body holds whatever the client chose.       *)
(***************************************************************************)
EXTENDS Naturals, FiniteSets, FiniteSetsExt, Totals

CONSTANTS
  Outline,      \* number of sections of the notebook, in reading order
  Events, NoEvent,  \* identifiers a client gives to what it saves
  Zones, Local, \* time zones, and the one used before there is a plan
  Ahead,        \* by how much the clock of a zone is ahead
  Unit,         \* the seconds between two ticks; times and positions count ticks
  DayLength, Pulse, Duration,
  PlanIds, MaxPlans,
  LastSecond    \* bound on the clock

ASSUME StudyAssumption ==
  /\ {Outline, Unit, DayLength, Pulse, Duration, MaxPlans, LastSecond} \subseteq Nat \ {0}
  /\ Local \in Zones /\ NoEvent \notin Events /\ IsFiniteSet(Zones)
  /\ Ahead \in [Zones -> Nat]

VARIABLES
  second,    \* the clock
  plans,     \* study_plans, by request identifier
  zone,      \* the zone of the first plan
  reading,   \* learning_notebook_progress
  daily,     \* study_daily_activity, by day
  watching,  \* the student's progress in the lesson
  moved      \* history: the first plan came with a zone of its own after the first activity

studyVars == <<second, plans, zone, reading, daily, watching, moved>>

OutlineSections == 1 .. Outline
Never == 0   \* no time stamp; the clock starts at 1

\* local_day
Day(t) == (t + Ahead[zone]) \div DayLength
LastDay == LastSecond + Max({Ahead[z] : z \in Zones})
Days == 0 .. LastDay

\* first is not a column: it is when the row was made.
NoDay == [spent |-> 0, marked |-> 0, last |-> Never, first |-> Never]
Unread == [done |-> FALSE, at |-> Never, event |-> NoEvent]
Unwatched == [at |-> 0, seen |-> {}, updated |-> Never, finished |-> FALSE]

StudyTypeOK ==
  /\ second \in 1 .. LastSecond
  /\ plans \subseteq PlanIds
  /\ zone \in Zones
  /\ reading \in [OutlineSections -> [done : BOOLEAN, at : Nat, event : Events \union {NoEvent}]]
  /\ daily \in [Days -> [spent : Nat, marked : Nat, last : Nat, first : Nat]]
  /\ watching \in [at : 0 .. Duration, seen : SUBSET (1 .. Duration), updated : Nat,
                   finished : BOOLEAN]
  /\ moved \in BOOLEAN

StudyInit ==
  /\ second = 1
  /\ plans = {}
  /\ zone = Local
  /\ reading = [s \in OutlineSections |-> Unread]
  /\ daily = [d \in Days |-> NoDay]
  /\ watching = Unwatched
  /\ moved = FALSE

SecondPasses == /\ second < LastSecond
                /\ second' = second + 1
                /\ UNCHANGED <<plans, zone, reading, daily, watching, moved>>

-----------------------------------------------------------------------------
(* Time and sections. *)

\* Variant: the time is measured from nothing that was counted before.
PulsedFreely(row, claimed) ==
  [row EXCEPT !.spent = @ + Min({claimed, Pulse}),
              !.last = second,
              !.first = IF @ = Never THEN second ELSE @]

\* A pulse counts what the client claims, but no more than went by since the last
\* pulse of the day, whichever tab sent it, and nothing for the first one.
Pulsed(row, claimed) ==
  LET elapsed == IF row.last = Never THEN 0 ELSE second - row.last
  IN [row EXCEPT !.spent = @ + Min({claimed, elapsed, Pulse}),
                 !.last = second,
                 !.first = IF @ = Never THEN second ELSE @]

\* The sections selected are set to done: new marks count today, a mark taken back
\* counts no longer on the day it was made.
Marks(days, selected, done) ==
  LET gained == {s \in selected : done /\ ~reading[s].done}
      lost(d) == {s \in selected : ~done /\ reading[s].done /\ Day(reading[s].at) = d}
      rest(d, n) == IF Cardinality(lost(d)) < n THEN n - Cardinality(lost(d)) ELSE 0
  IN [d \in Days |-> [days[d] EXCEPT
        !.marked = rest(d, @) + IF d = Day(second) THEN Cardinality(gained) ELSE 0]]

Wishes == {"done", "not done", "visited"}

\* Offline reading claims no time.
SaveReading(s, choice, through, claimed, e) ==
  LET selected == IF through THEN 1 .. s ELSE {s}
      timed == [daily EXCEPT ![Day(second)] = Pulsed(@, claimed)]
      row(k) == IF choice = "visited" \/ reading[k].done = (choice = "done")
                THEN [reading[k] EXCEPT !.event = e]
                ELSE [done |-> choice = "done",
                      at |-> IF choice = "done" THEN second ELSE Never, event |-> e]
  IN /\ through => choice = "done"
     /\ reading[s].event # e
     /\ daily' = IF choice = "visited" THEN timed ELSE Marks(timed, selected, choice = "done")
     /\ reading' = [k \in OutlineSections |-> IF k \in selected THEN row(k) ELSE reading[k]]
     /\ UNCHANGED <<second, plans, zone, watching, moved>>

(* Playback: a step forward that the time since the last report explains at up to two
   and a half times the speed, and two seconds, was watched; any other was a seek. *)
Playback(position) ==
  LET to == Min({position, Duration})
      elapsed == IF watching.updated = Never THEN 0 ELSE second - watching.updated
      watched == /\ watching.at < to
                 /\ 2 * Unit * (to - watching.at) <= Min({60, 5 * Unit * elapsed + 4})
      seen == watching.seen \union IF watched THEN watching.at + 1 .. to ELSE {}
  IN /\ daily' = IF watched
                 THEN [daily EXCEPT ![Day(second)] = Pulsed(@, Min({to - watching.at, elapsed}))]
                 ELSE daily
     /\ watching' = [watching EXCEPT
          !.at = to, !.seen = seen, !.updated = second,
          !.finished = @ \/ 10 * Cardinality(seen) >= 9 * Duration]
     /\ UNCHANGED <<second, plans, zone, reading, moved>>

\* The practice of the lesson leaves the clock of the playback alone, unless it is the
\* first to make the row.
Practice ==
  /\ watching' = [watching EXCEPT !.updated = IF @ = Never THEN second ELSE @]
  /\ UNCHANGED <<second, plans, zone, reading, daily, moved>>

-----------------------------------------------------------------------------
(* Plans. *)

Active == (\E s \in OutlineSections : reading[s] # Unread) \/ (\E d \in Days : daily[d] # NoDay)

\* Every plan but the first takes the zone of the first.
CreatePlan(i, z) ==
  /\ i \notin plans /\ Cardinality(plans) < MaxPlans
  /\ plans' = plans \union {i}
  /\ zone' = IF plans = {} THEN z ELSE zone
  /\ moved' = (moved \/ (Active /\ zone' # zone))
  /\ UNCHANGED <<second, reading, daily, watching>>

StudyNext ==
  \/ SecondPasses
  \/ \E s \in OutlineSections, choice \in Wishes, through \in BOOLEAN, claimed \in 0 .. Pulse,
       e \in Events :
        SaveReading(s, choice, through, claimed, e)
  \/ \E position \in 0 .. Duration : Playback(position)
  \/ Practice
  \/ \E i \in PlanIds, z \in Zones : CreatePlan(i, z)

StudySpec == StudyInit /\ [][StudyNext]_studyVars

-----------------------------------------------------------------------------
(* "Repeated saves and concurrent tabs cannot double-count a section or award more     *)
(* time than elapsed wall-clock time" (docs/STUDY_TRACKER.md): the time of a day is no *)
(* more than went by in it, reading in one tab while a lesson plays in another         *)
(* included, and all days together no more than went by since the first activity.      *)
(* The number of sections of a day is that of the sections marked on it, whatever was  *)
(* repeated, marked through or taken back.  When the student's first plan brings       *)
(* another zone after the first activity, rows that were kept by the days of the old   *)
(* zone are read by those of the new one, and only the first sentence still holds.     *)
StudyIsReal ==
  /\ \A d \in Days : daily[d].spent <= daily[d].last - daily[d].first
  /\ ~moved =>
       /\ \A d \in Days : daily[d].marked =
            Cardinality({s \in OutlineSections : reading[s].done /\ Day(reading[s].at) = d})
       /\ Total([d \in Days |-> daily[d].spent], LastDay) <= second - 1
=============================================================================
