----------------------------- MODULE PlacementProofs -----------------------------
(***************************************************************************)
(* Proofs about what a student is given and shown in placement: the free   *)
(* attempts and the roadmaps (StudentAccess), the listings of a campus     *)
(* (CampusJobs), the offers (Offers), the evidence under a roadmap         *)
(* (MarketSearch), the action list of an institution (PlacementActions)    *)
(* and its documents, announcements and stages (CampusDesk).               *)
(***************************************************************************)
EXTENDS StudentAccess, CampusJobs, Offers, MarketSearch, PlacementActions, CampusDesk,
        FiniteSetTheorems, FunctionTheorems, TLAPS

-----------------------------------------------------------------------------
(* Free attempts and roadmaps.                                             *)

LEMMA OneAtMost ==
  ASSUME NEW S, \A x, y \in S : x = y
  PROVE  Cardinality(S) <= 1
<1>1. CASE S = {} BY <1>1, FS_EmptySet
<1>2. CASE S # {}
  <2>1. PICK x \in S : TRUE BY <1>2
  <2>2. S = {x} BY <2>1
  <2> QED BY <2>2, FS_Singleton
<1> QED BY <1>1, <1>2

Starts == [doing : {"exam"}, demo : Demos, paper : Papers, free : BOOLEAN]

GivenTypeOK ==
  /\ exams \in [Numbers -> Exam \union {NoExam}]
  /\ requests \in [Tabs -> {Idle, [doing |-> "roadmap"]} \union Starts]
  /\ outcomes \in [saved : Nat, failed : Nat]
  /\ day \in Nat /\ paidUntil \in Nat

\* Full assessments of demo d that were begun in the trial.
FreeAssessments(d) ==
  {n \in Issued : exams[n].demo = d /\ exams[n].free /\ exams[n].paper = "assessment"}

\* Of a demo whose starts never overlapped one is in progress at most, one free assessment is
\* there at most, and none while another is on its way.
OneFreeInv ==
  \A d \in Demos \ overlapped :
    /\ \A t, u \in Starting(d) : t = u
    /\ \A m, n \in FreeAssessments(d) : m = n
    /\ \A t \in Starting(d) :
         requests[t].free /\ requests[t].paper = "assessment" => FreeAssessments(d) = {}

\* What entitles to a roadmap was seen when it was given, and a generation began under it.
EntitledInv ==
  /\ unified \/ campus \/ purchase \/ paidUntil > 0 => entitled
  /\ \A t \in Tabs : requests[t].doing = "roadmap" => entitled
  /\ outcomes.saved > 0 => entitled

StudentInv == GivenTypeOK /\ OneFreeInv /\ EntitledInv

LEMMA StudentInvInit == AccessInit => StudentInv
<1> SUFFICES ASSUME AccessInit PROVE StudentInv OBVIOUS
<1>1. Issued = {} BY DEF AccessInit, Issued
<1>2. \A t \in Tabs : requests[t].doing = "nothing" BY DEF AccessInit, Idle
<1>3. GivenTypeOK BY DEF AccessInit, GivenTypeOK
<1>4. OneFreeInv BY <1>1, <1>2 DEF OneFreeInv, Starting, FreeAssessments
<1>5. EntitledInv BY <1>2 DEF AccessInit, EntitledInv
<1> QED BY <1>3, <1>4, <1>5 DEF StudentInv

LEMMA RoadmapEntitles == GivenTypeOK /\ EntitledInv /\ RoadmapAllowed => entitled
BY DEF GivenTypeOK, EntitledInv, RoadmapAllowed, Mode

\* Exams and starts that do not change keep what is said of them, whatever demos overlap.
LEMMA ExamsUntouched ==
  ASSUME OneFreeInv, exams' = exams, overlapped \subseteq overlapped',
         \A d \in Demos : Starting(d)' \subseteq Starting(d),
         \A t \in Tabs : requests'[t].doing = "exam" => requests'[t] = requests[t]
  PROVE  OneFreeInv'
BY DEF OneFreeInv, Starting, FreeAssessments, Issued

\* A start is admitted in the trial when no assessment of its demo is there.
LEMMA TrialFindsNone ==
  ASSUME NEW d \in Demos, GivenTypeOK, MayStart(d), Mode = "trial", IsFiniteSet(Issued)
  PROVE  FreeAssessments(d) = {}
<1> DEFINE counted == {n \in Issued : exams[n].demo = d /\ Counts(exams[n])}
<1>1. Cardinality(counted) = 0 BY DEF MayStart, Attempts
<1>2. IsFiniteSet(counted) BY FS_Subset
<1>3. counted = {} BY <1>1, <1>2, FS_EmptySet
<1> QED BY <1>3 DEF FreeAssessments, Counts

LEMMA IssuedFinite == IsFiniteSet(Issued)
<1>1. MaxExams \in Nat BY AccessAssumption
<1>2. IsFiniteSet(1 .. MaxExams) BY <1>1, FS_Interval
<1> QED BY <1>2, FS_Subset DEF Issued, Numbers

LEMMA ExamBegun ==
  ASSUME StudentInv, NEW t \in Tabs, NEW d \in Demos, NEW paper \in Papers,
         BeginExam(t, d, paper)
  PROVE  StudentInv'
<1> DEFINE start == [doing |-> "exam", demo |-> d, paper |-> paper, free |-> Mode = "trial"]
<1>1. GivenTypeOK /\ OneFreeInv /\ EntitledInv BY DEF StudentInv
<1>2. start \in Starts /\ start.doing = "exam" /\ start.demo = d /\ (start.free => Mode = "trial")
  BY DEF Starts, BeginExam
<1>3. /\ requests' = [requests EXCEPT ![t] = start]
      /\ overlapped' = overlapped \union {x \in {d} : Starting(d) # {}}
      /\ UNCHANGED <<day, unified, campus, paidUntil, purchase, exams, outcomes, entitled>>
      /\ MayStart(d)
  BY DEF BeginExam
<1> HIDE DEF start
<1>4. GivenTypeOK' BY <1>1, <1>2, <1>3 DEF GivenTypeOK
<1>5. \A u \in Tabs : requests'[u] = IF u = t THEN start ELSE requests[u]
  BY <1>1, <1>3 DEF GivenTypeOK
<1>6. EntitledInv' BY <1>1, <1>2, <1>3, <1>5 DEF EntitledInv
<1>7. ASSUME NEW e \in Demos \ overlapped'
      PROVE  /\ \A u, v \in Starting(e)' : u = v
             /\ \A m, n \in FreeAssessments(e)' : m = n
             /\ \A u \in Starting(e)' :
                  requests'[u].free /\ requests'[u].paper = "assessment" => FreeAssessments(e)' = {}
  <2>1. e \in Demos \ overlapped BY <1>3
  <2>2. FreeAssessments(e)' = FreeAssessments(e) BY <1>3 DEF FreeAssessments, Issued
  <2>3. CASE e # d
    <3>1. Starting(e)' = Starting(e) \ {t} BY <1>2, <1>5, <2>3 DEF Starting
    <3>2. \A u \in Starting(e)' : u \in Starting(e) /\ requests'[u] = requests[u]
      BY <1>5, <3>1 DEF Starting
    <3>3. \A u, v \in Starting(e)' : u = v BY <1>1, <2>1, <3>2 DEF OneFreeInv
    <3>4. \A m, n \in FreeAssessments(e)' : m = n BY <1>1, <2>1, <2>2 DEF OneFreeInv
    <3> QED BY <1>1, <2>1, <2>2, <3>2, <3>3, <3>4 DEF OneFreeInv
  <2>4. CASE e = d
    <3>1. Starting(d) = {} BY <1>3, <2>4
    <3>2. Starting(d)' = {t} BY <1>2, <1>5, <3>1 DEF Starting
    <3>3. start.free => FreeAssessments(d) = {}
      BY <1>1, <1>2, <1>3, TrialFindsNone, IssuedFinite
    <3>4. requests'[t] = start BY <1>5
    <3>5. \A m, n \in FreeAssessments(e)' : m = n BY <1>1, <2>1, <2>2 DEF OneFreeInv
    <3> QED BY <2>2, <2>4, <3>2, <3>3, <3>4, <3>5
  <2> QED BY <2>3, <2>4
<1>8. OneFreeInv' BY <1>7 DEF OneFreeInv
<1> QED BY <1>4, <1>6, <1>8 DEF StudentInv

LEMMA ExamCommitted ==
  ASSUME StudentInv, NEW t \in Tabs, CommitExam(t)
  PROVE  StudentInv'
<1> DEFINE n == Cardinality(Issued) + 1
           d == requests[t].demo
           exam == [demo |-> d, paper |-> requests[t].paper, free |-> requests[t].free,
                    scored |-> FALSE]
<1>1. GivenTypeOK /\ OneFreeInv /\ EntitledInv BY DEF StudentInv
<1>2. requests[t] \in Starts /\ t \in Starting(d) /\ d \in Demos
  BY <1>1 DEF CommitExam, GivenTypeOK, Idle, Starts, Starting
<1>3. exam \in Exam /\ exam.demo = d /\ exam.free = requests[t].free
      /\ exam.paper = requests[t].paper
  BY <1>2 DEF Starts, Exam
<1>4. /\ n \in Numbers /\ exams' = [exams EXCEPT ![n] = exam]
      /\ requests' = [requests EXCEPT ![t] = Idle]
      /\ UNCHANGED <<day, unified, campus, paidUntil, purchase, outcomes, overlapped, entitled>>
  BY DEF CommitExam
<1> HIDE DEF n, d, exam
<1>5. GivenTypeOK' BY <1>1, <1>3, <1>4 DEF GivenTypeOK
<1>6. \A u \in Tabs : requests'[u] = IF u = t THEN Idle ELSE requests[u]
  BY <1>1, <1>4 DEF GivenTypeOK
<1>7. Idle.doing = "nothing" BY DEF Idle
<1>8. EntitledInv' BY <1>1, <1>4, <1>6, <1>7 DEF EntitledInv
<1>9. exams'[n] = exam /\ \A m \in Numbers \ {n} : exams'[m] = exams[m]
  BY <1>1, <1>4 DEF GivenTypeOK
<1>10. ASSUME NEW e \in Demos \ overlapped'
       PROVE  /\ \A u, v \in Starting(e)' : u = v
              /\ \A m, k \in FreeAssessments(e)' : m = k
              /\ \A u \in Starting(e)' :
                   requests'[u].free /\ requests'[u].paper = "assessment" => FreeAssessments(e)' = {}
  <2>1. e \in Demos \ overlapped BY <1>4
  <2>2. Starting(e)' = Starting(e) \ {t} BY <1>6, <1>7 DEF Starting
  <2>3. \A u \in Starting(e)' : requests'[u] = requests[u] BY <1>6, <2>2 DEF Starting
  <2>4. CASE e # d
    <3>1. FreeAssessments(e)' \subseteq FreeAssessments(e)
      BY <1>3, <1>9, <2>4 DEF FreeAssessments, Issued
    <3> QED BY <1>1, <2>1, <2>2, <2>3, <3>1 DEF OneFreeInv
  <2>5. CASE e = d
    <3>1. Starting(e)' = {} BY <1>1, <1>2, <2>1, <2>2, <2>5 DEF OneFreeInv
    <3>2. FreeAssessments(e)' \subseteq FreeAssessments(e) \union {n}
      BY <1>9 DEF FreeAssessments, Issued
    <3>3. n \in FreeAssessments(e)' => exam.free /\ exam.paper = "assessment"
      BY <1>9 DEF FreeAssessments, Issued
    <3>4. n \in FreeAssessments(e)' => FreeAssessments(e) = {}
      BY <1>1, <1>2, <1>3, <2>1, <2>5, <3>3 DEF OneFreeInv
    <3>5. \A m, k \in FreeAssessments(e)' : m = k
      BY <1>1, <2>1, <3>2, <3>4 DEF OneFreeInv
    <3> QED BY <3>1, <3>5
  <2> QED BY <2>4, <2>5
<1>11. OneFreeInv' BY <1>10 DEF OneFreeInv
<1> QED BY <1>5, <1>8, <1>11 DEF StudentInv

LEMMA ExamScored ==
  ASSUME StudentInv, NEW n \in Numbers, Scored(n)
  PROVE  StudentInv'
<1>1. GivenTypeOK /\ OneFreeInv /\ EntitledInv BY DEF StudentInv
<1>2. exams[n] \in Exam BY <1>1 DEF Scored, Issued, GivenTypeOK
<1> DEFINE exam == [exams[n] EXCEPT !.scored = TRUE]
<1>3. exam \in Exam /\ exam.demo = exams[n].demo /\ exam.free = exams[n].free
      /\ exam.paper = exams[n].paper
  BY <1>2 DEF Exam
<1>4. /\ exams' = [exams EXCEPT ![n] = exam] /\ n \in Issued
      /\ UNCHANGED <<day, unified, campus, paidUntil, purchase, requests, outcomes, overlapped,
                     entitled>>
  BY DEF Scored
<1> HIDE DEF exam
<1>5. GivenTypeOK' BY <1>1, <1>3, <1>4 DEF GivenTypeOK
<1>6. EntitledInv' BY <1>1, <1>4 DEF EntitledInv
<1>7. exams'[n] = exam /\ \A m \in Numbers \ {n} : exams'[m] = exams[m]
  BY <1>1, <1>4 DEF GivenTypeOK
<1>8. \A d \in Demos : FreeAssessments(d)' \subseteq FreeAssessments(d)
  BY <1>3, <1>4, <1>7 DEF FreeAssessments, Issued
<1>9. OneFreeInv' BY <1>1, <1>4, <1>8 DEF OneFreeInv, Starting
<1> QED BY <1>5, <1>6, <1>9 DEF StudentInv

\* The exams and their starts stay; time, the campus or the purchases go on.
LEMMA OnlyTheRest ==
  ASSUME StudentInv, GivenTypeOK', EntitledInv', exams' = exams, overlapped' = overlapped,
         \A t \in Tabs : requests'[t] = requests[t]
                         \/ (requests'[t].doing # "exam" /\ requests[t].doing # "exam")
  PROVE  StudentInv'
<1>1. \A d \in Demos : Starting(d)' = Starting(d) BY DEF Starting
<1>2. \A t \in Tabs : requests'[t].doing = "exam" => requests'[t] = requests[t] OBVIOUS
<1>3. OneFreeInv' BY <1>1, <1>2, ExamsUntouched DEF StudentInv
<1> QED BY <1>3 DEF StudentInv

LEMMA StudentInvNext ==
  ASSUME StudentInv, [AccessNext]_<<day, unified, campus, paidUntil, purchase, exams, requests,
                                    outcomes, overlapped, entitled>>
  PROVE  StudentInv'
<1>0. GivenTypeOK /\ EntitledInv /\ Trial \in Nat /\ Month \in Nat
  BY AccessAssumption DEF StudentInv
<1>1. CASE DayPasses
  <2>1. GivenTypeOK' BY <1>0, <1>1 DEF DayPasses, GivenTypeOK
  <2>2. EntitledInv' BY <1>0, <1>1 DEF DayPasses, EntitledInv
  <2> QED BY <1>1, <2>1, <2>2, OnlyTheRest DEF DayPasses
<1>2. CASE CampusChanges
  <2>1. GivenTypeOK' BY <1>0, <1>2 DEF CampusChanges, GivenTypeOK
  <2>2. EntitledInv' BY <1>0, <1>2 DEF CampusChanges, EntitledInv
  <2> QED BY <1>2, <2>1, <2>2, OnlyTheRest DEF CampusChanges
<1>3. CASE Subscribes
  <2>1. GivenTypeOK' BY <1>0, <1>3 DEF Subscribes, GivenTypeOK
  <2>2. EntitledInv' BY <1>0, <1>3 DEF Subscribes, EntitledInv
  <2> QED BY <1>3, <2>1, <2>2, OnlyTheRest DEF Subscribes
<1>4. CASE Purchases
  <2>1. GivenTypeOK' BY <1>0, <1>4 DEF Purchases, GivenTypeOK
  <2>2. EntitledInv' BY <1>0, <1>4 DEF Purchases, EntitledInv
  <2> QED BY <1>4, <2>1, <2>2, OnlyTheRest DEF Purchases
<1>5. ASSUME NEW t \in Tabs, CommitExam(t) PROVE StudentInv' BY <1>5, ExamCommitted
<1>6. ASSUME NEW t \in Tabs, BeginRoadmap(t) PROVE StudentInv'
  <2>1. requests' = [requests EXCEPT ![t] = [doing |-> "roadmap"]] /\ requests[t].doing = "nothing"
        /\ UNCHANGED <<day, unified, campus, paidUntil, purchase, exams, outcomes, overlapped, entitled>>
    BY <1>6 DEF BeginRoadmap, Idle
  <2>2. entitled BY <1>0, <1>6, RoadmapEntitles DEF BeginRoadmap
  <2>3. GivenTypeOK' BY <1>0, <2>1 DEF GivenTypeOK
  <2>4. \A u \in Tabs : requests'[u] = IF u = t THEN [doing |-> "roadmap"] ELSE requests[u]
    BY <1>0, <2>1 DEF GivenTypeOK
  <2>5. EntitledInv' BY <1>0, <2>1, <2>2 DEF EntitledInv
  <2> QED BY <2>1, <2>3, <2>4, <2>5, OnlyTheRest
<1>7. ASSUME NEW t \in Tabs, SaveRoadmap(t) \/ FailRoadmap(t) PROVE StudentInv'
  <2>1. /\ requests' = [requests EXCEPT ![t] = Idle] /\ requests[t].doing = "roadmap"
        /\ UNCHANGED <<day, unified, campus, paidUntil, purchase, exams, overlapped, entitled>>
    BY <1>7 DEF SaveRoadmap, FailRoadmap, RoadmapEnds
  <2>2. outcomes' \in [saved : Nat, failed : Nat]
    BY <1>0, <1>7 DEF SaveRoadmap, FailRoadmap, RoadmapEnds, GivenTypeOK
  <2>3. entitled BY <1>0, <2>1 DEF EntitledInv
  <2>4. \A u \in Tabs : requests'[u] = IF u = t THEN Idle ELSE requests[u]
    BY <1>0, <2>1 DEF GivenTypeOK
  <2>5. GivenTypeOK' BY <1>0, <2>1, <2>2 DEF GivenTypeOK
  <2>6. EntitledInv' BY <1>0, <2>1, <2>3 DEF EntitledInv
  <2>7. Idle.doing = "nothing" BY DEF Idle
  <2> QED BY <2>1, <2>4, <2>5, <2>6, <2>7, OnlyTheRest
<1>8. ASSUME NEW t \in Tabs, NEW d \in Demos, NEW paper \in Papers, BeginExam(t, d, paper)
      PROVE  StudentInv'
  BY <1>8, ExamBegun
<1>9. ASSUME NEW n \in Numbers, Scored(n) PROVE StudentInv' BY <1>9, ExamScored
<1>10. CASE UNCHANGED <<day, unified, campus, paidUntil, purchase, exams, requests, outcomes,
                        overlapped, entitled>>
  <2>1. GivenTypeOK' BY <1>0, <1>10 DEF GivenTypeOK
  <2>2. EntitledInv' BY <1>0, <1>10 DEF EntitledInv
  <2> QED BY <1>10, <2>1, <2>2, OnlyTheRest
<1> QED BY <1>1, <1>2, <1>3, <1>4, <1>5, <1>6, <1>7, <1>8, <1>9, <1>10 DEF AccessNext

\* Whatever the student gains, loses and has scored meanwhile, the trial gives one full assessment
\* of a demo whose starts did not overlap, and a roadmap goes to nobody who was never entitled
\* (trial_demo_access.py, roadmap_access.py): the row is inserted long after the check, so one
\* start in progress is enough to hold back, and entitlement is not asked for again.
THEOREM OneFreeAssessment == AccessSpec => []TrialGivesOne
<1>1. StudentInv => TrialGivesOne
  <2> SUFFICES ASSUME StudentInv PROVE TrialGivesOne OBVIOUS
  <2>1. ASSUME NEW d \in Demos \ overlapped PROVE Cardinality(FreeAssessments(d)) <= 1
    <3>1. \A m, n \in FreeAssessments(d) : m = n BY DEF StudentInv, OneFreeInv
    <3> QED BY <3>1, OneAtMost
  <2> QED BY <2>1 DEF StudentInv, EntitledInv, TrialGivesOne, FreeAssessments
<1>2. StudentInv /\ [AccessNext]_accessVars => StudentInv'
  BY StudentInvNext DEF accessVars
<1> QED BY <1>1, <1>2, StudentInvInit, PTL DEF AccessSpec

-----------------------------------------------------------------------------
(* The listings of a campus.                                               *)

JobDesks == [kind : {"free", "edit", "approve", "apply", "drive"}, listing : Listings,
             to : Listings, drive : DriveRows, toDrive : DriveRows, stale : BOOLEAN]

ListingTypeOK ==
  /\ listing \in Listings
  /\ drive \in DriveRows
  /\ desk \in [Desks -> JobDesks]

\* Whatever others have done since, what a request means to write hangs on what it read: an
\* edit that leaves an approved campus listing approved says nothing new, any other edit leaves
\* no approved campus listing, and an approval touches nothing but approval and activity.
NothingNew(l, to) ==
  Approved(to) => Approved(l) /\ Shown(to) = Shown(l)

SameText(l, to) == to.visibility = l.visibility /\ Shown(to) = Shown(l)

Meant(p) ==
  /\ p.kind = "edit" => NothingNew(p.listing, p.to)
  /\ p.kind = "approve" => SameText(p.listing, p.to)

\* What an application that nobody has overtaken was admitted by still stands.
StandsAt(d) == desk[d].kind = "apply" => MayApply

FreshStands == \A d \in Desks : desk[d].stale \/ StandsAt(d)

JobsInv == ListingTypeOK /\ FreshStands /\ \A d \in Desks : Meant(desk[d])

\* What a request changed, over the listing as others left it.
LEMMA WrittenListing ==
  ASSUME NEW loaded \in Listings, NEW new \in Listings, NEW now \in Listings
  PROVE  LET w == Written(loaded, new, now)
         IN /\ w \in Listings
            /\ \A column \in {"visibility", "campus", "approval", "active", "content",
                              "deadline"} :
                  w[column] = IF new[column] = loaded[column] THEN now[column] ELSE new[column]
<1> DEFINE w == Written(loaded, new, now)
<1>1. DOMAIN now = {"visibility", "campus", "approval", "active", "content", "deadline"}
  BY DEF Listings
<1>2. w = [column \in {"visibility", "campus", "approval", "active", "content", "deadline"} |->
             IF new[column] = loaded[column] THEN now[column] ELSE new[column]]
  BY <1>1 DEF Written
<1>3. w \in Listings BY <1>2 DEF Listings
<1> HIDE DEF w
<1>4. QED BY <1>2, <1>3 DEF w

LEMMA WrittenDrive ==
  ASSUME NEW loaded \in DriveRows, NEW new \in DriveRows, NEW now \in DriveRows
  PROVE  Written(loaded, new, now) \in DriveRows
<1>1. DOMAIN now = {"status", "deadline"} BY DEF DriveRows
<1> QED BY <1>1 DEF Written, DriveRows

LEMMA FreeDeskTyped == FreeDesk \in JobDesks /\ FreeDesk.kind = "free"
BY CampusJobsAssumption DEF FreeDesk, JobDesks, NoListing, NoDrive, Listings, DriveRows

\* After a commit no other request is fresh, and each means what it meant.
LEMMA AfterCommit ==
  ASSUME desk \in [Desks -> JobDesks], \A e \in Desks : Meant(desk[e]), NEW d \in Desks, Commits(d)
  PROVE  /\ desk' \in [Desks -> JobDesks] /\ FreshStands' /\ \A e \in Desks : Meant(desk'[e])
         /\ desk'[d].kind = "free"
<1>1. desk' = [[e \in Desks |-> [desk[e] EXCEPT !.stale = desk[e].kind # "free"]]
                  EXCEPT ![d] = FreeDesk]
  BY DEF Commits, Cleared, Outdated
<1>2. desk' \in [Desks -> JobDesks] BY <1>1, FreeDeskTyped DEF JobDesks
<1>3. desk'[d].kind = "free" BY <1>1, FreeDeskTyped
<1>4. \A e \in Desks \ {d} : desk'[e].stale \/ desk'[e].kind = "free" BY <1>1 DEF JobDesks
<1>5. \A e \in Desks \ {d} : /\ desk'[e].kind = desk[e].kind
                             /\ desk'[e].listing = desk[e].listing /\ desk'[e].to = desk[e].to
  BY <1>1 DEF JobDesks
<1>6. \A e \in Desks : Meant(desk'[e]) BY <1>3, <1>5 DEF Meant
<1> QED BY <1>2, <1>3, <1>4, <1>6 DEF FreshStands, StandsAt

LEMMA AfterDisturbance ==
  ASSUME desk \in [Desks -> JobDesks], \A e \in Desks : Meant(desk[e]), Disturbs
  PROVE  desk' \in [Desks -> JobDesks] /\ FreshStands' /\ \A e \in Desks : Meant(desk'[e])
<1>1. desk' = [e \in Desks |-> [desk[e] EXCEPT !.stale = desk[e].kind # "free"]]
  BY DEF Disturbs, Outdated
<1>2. desk' \in [Desks -> JobDesks] BY <1>1 DEF JobDesks
<1>3. \A e \in Desks : desk'[e].stale \/ desk'[e].kind = "free" BY <1>1 DEF JobDesks
<1>4. \A e \in Desks : /\ desk'[e].kind = desk[e].kind
                       /\ desk'[e].listing = desk[e].listing /\ desk'[e].to = desk[e].to
  BY <1>1 DEF JobDesks
<1>5. \A e \in Desks : Meant(desk'[e]) BY <1>4 DEF Meant
<1> QED BY <1>2, <1>3, <1>5 DEF FreshStands, StandsAt

\* A request that is taken means what it may, and has been admitted if it is an application.
LEMMA AfterRead ==
  ASSUME JobsInv, NEW d \in Desks, NEW request \in JobDesks, Takes(d, request),
         UNCHANGED <<listing, reviewed, drive, passed, candidate, applied>>,
         Meant(request), request.kind = "apply" => MayApply
  PROVE  JobsInv'
<1>1. desk' = [desk EXCEPT ![d] = request] /\ desk \in [Desks -> JobDesks]
  BY DEF Takes, JobsInv, ListingTypeOK
<1>2. desk' \in [Desks -> JobDesks] BY <1>1
<1>3. desk'[d] = request /\ \A e \in Desks \ {d} : desk'[e] = desk[e] BY <1>1
<1>4. MayApply' <=> MayApply
  BY DEF MayApply, JobIsVisible, JobIsAvailable, DriveIsAvailable, HasPassed
<1>5. \A e \in Desks \ {d} : desk'[e].stale \/ StandsAt(e)'
  BY <1>3, <1>4 DEF JobsInv, FreshStands, StandsAt
<1>6. StandsAt(d)' BY <1>3, <1>4 DEF StandsAt
<1>7. \A e \in Desks : Meant(desk'[e]) BY <1>3 DEF JobsInv
<1>8. (\A e \in Desks : Meant(desk[e]))' BY <1>7 DEF Meant
<1> QED BY <1>2, <1>5, <1>6, <1>8 DEF JobsInv, ListingTypeOK, FreshStands

LEMMA EditedListing ==
  ASSUME NEW l \in Listings, NEW v \in {"public", "campus"}, NEW o \in Campuses,
         NEW c \in Contents, NEW t \in Deadlines \union {NoDeadline}, NEW wanted \in {{}, {TRUE}}
  PROVE  /\ Edited(l, v, o, c, t, wanted) \in Listings
         /\ NothingNew(l, Edited(l, v, o, c, t, wanted))
<1> DEFINE new == Edited(l, v, o, c, t, wanted)
           host == IF v = "campus" THEN o ELSE NoCampus
           material == v # l.visibility \/ host # l.campus \/ c # l.content \/ t # l.deadline
<1>1. /\ new.visibility = v /\ new.campus = host /\ new.content = c /\ new.deadline = t
      /\ new.approval = CASE v = "public" -> "approved" [] material -> "pending"
                          [] OTHER -> l.approval
  BY DEF Edited
<1>2. new.active \in BOOLEAN
  <2>1. l.active \in BOOLEAN BY DEF Listings
  <2>2. CASE wanted = {}
    BY <2>1, <2>2 DEF Edited
  <2>3. CASE wanted = {TRUE} BY <2>1, <2>3 DEF Edited
  <2> QED BY <2>2, <2>3
<1>3. DOMAIN new = {"visibility", "campus", "approval", "active", "content", "deadline"}
      /\ new = [visibility |-> new.visibility, campus |-> new.campus, approval |-> new.approval,
                active |-> new.active, content |-> new.content, deadline |-> new.deadline]
  BY DEF Edited
<1>4. new.approval \in {"pending", "approved", "rejected"}
      /\ (v = "campus" /\ new.approval = "approved" => ~material /\ l.approval = "approved")
  BY <1>1 DEF Listings
<1>5. host \in Campuses \union {NoCampus} OBVIOUS
<1> HIDE DEF new
<1>6. new \in Listings BY <1>1, <1>2, <1>3, <1>4, <1>5 DEF Listings
<1>7. NothingNew(l, new) BY <1>1, <1>4 DEF NothingNew, Approved, Shown
<1> QED BY <1>6, <1>7 DEF new

\* A step of the listing's requests keeps what is fresh, puts on show only what was approved and
\* lets nobody apply who may not; or it is one of the commits that nothing stops.
CampusStep ==
  /\ JobsInv'
  /\ Unreviewed' => Unreviewed \/ \E d \in Desks : Unaware(d)
  /\ ~applied /\ applied' => MayApply \/ \E d \in Desks : AppliesLate(d)

LEMMA JobsInvParts ==
  ASSUME JobsInv
  PROVE  /\ listing \in Listings /\ drive \in DriveRows /\ desk \in [Desks -> JobDesks]
         /\ FreshStands /\ \A e \in Desks : Meant(desk[e])
BY DEF JobsInv, ListingTypeOK

LEMMA JobsInvNow ==
  ASSUME listing' \in Listings, drive' \in DriveRows, desk' \in [Desks -> JobDesks],
         FreshStands', \A e \in Desks : Meant(desk'[e])
  PROVE  JobsInv'
<1>1. (\A e \in Desks : Meant(desk[e]))' BY DEF Meant
<1> QED BY <1>1 DEF JobsInv, ListingTypeOK

LEMMA ReadIsCampusStep ==
  ASSUME JobsInv', UNCHANGED <<listing, reviewed, drive, passed, candidate, applied>>
  PROVE  CampusStep
BY DEF CampusStep, Unreviewed, Approved, Shown

LEMMA ListingStepStands ==
  ASSUME JobsInv, ListingStep
  PROVE  CampusStep
<1>0. /\ listing \in Listings /\ drive \in DriveRows /\ desk \in [Desks -> JobDesks]
      /\ FreshStands /\ \A e \in Desks : Meant(desk[e])
  BY JobsInvParts
<1>1. ASSUME NEW v \in {"public", "campus"}, NEW o \in Campuses, NEW c \in Contents,
             NEW t \in Deadlines \union {NoDeadline}, CreateJob(v, o, c, t)
      PROVE  CampusStep
  <2>1. listing' \in Listings BY <1>1 DEF CreateJob, Listings
  <2>2. Disturbs /\ UNCHANGED <<reviewed, drive, passed, candidate, applied>>
    BY <1>1 DEF CreateJob
  <2>3. desk' \in [Desks -> JobDesks] /\ FreshStands' /\ \A e \in Desks : Meant(desk'[e])
    BY <1>0, <2>2, AfterDisturbance
  <2>4. ~Unreviewed' BY <1>1 DEF CreateJob, Unreviewed, Approved
  <2>5. JobsInv' BY <1>0, <2>1, <2>2, <2>3, JobsInvNow
  <2> QED BY <2>2, <2>4, <2>5 DEF CampusStep
<1>2. ASSUME NEW d \in Desks, NEW v \in {"public", "campus"}, NEW o \in Campuses,
             NEW c \in Contents, NEW t \in Deadlines \union {NoDeadline},
             NEW wanted \in {{}, {TRUE}}, BeginEdit(d, v, o, c, t, wanted)
      PROVE  CampusStep
  <2> DEFINE to == Edited(listing, v, o, c, t, wanted)
             request == [FreeDesk EXCEPT !.kind = "edit", !.listing = listing, !.to = to]
  <2>1. to \in Listings /\ NothingNew(listing, to) BY <1>0, EditedListing
  <2>2. Takes(d, request) /\ UNCHANGED <<listing, reviewed, drive, passed, candidate, applied>>
    BY <1>2 DEF BeginEdit
  <2> HIDE DEF to
  <2>3. /\ request \in JobDesks /\ request.kind = "edit" /\ request.listing = listing
        /\ request.to = to
    BY <1>0, <2>1, FreeDeskTyped DEF JobDesks
  <2> HIDE DEF request
  <2>4. Meant(request) BY <2>1, <2>3 DEF Meant
  <2>5. JobsInv' BY <2>2, <2>3, <2>4, AfterRead
  <2> QED BY <2>2, <2>5, ReadIsCampusStep
<1>3. ASSUME NEW d \in Desks, BeginArchive(d) PROVE CampusStep
  <2> DEFINE to == [listing EXCEPT !.active = FALSE]
             request == [FreeDesk EXCEPT !.kind = "edit", !.listing = listing, !.to = to]
  <2>1. to \in Listings /\ NothingNew(listing, to)
    BY <1>0 DEF Listings, NothingNew, Approved, Shown
  <2>2. Takes(d, request) /\ UNCHANGED <<listing, reviewed, drive, passed, candidate, applied>>
    BY <1>3 DEF BeginArchive
  <2> HIDE DEF to
  <2>3. /\ request \in JobDesks /\ request.kind = "edit" /\ request.listing = listing
        /\ request.to = to
    BY <1>0, <2>1, FreeDeskTyped DEF JobDesks
  <2> HIDE DEF request
  <2>4. Meant(request) BY <2>1, <2>3 DEF Meant
  <2>5. JobsInv' BY <2>2, <2>3, <2>4, AfterRead
  <2> QED BY <2>2, <2>5, ReadIsCampusStep
<1>4. ASSUME NEW d \in Desks, CommitEdit(d) PROVE CampusStep
  <2> DEFINE p == desk[d]
  <2>1. /\ p.kind = "edit" /\ Commits(d) /\ listing' = Written(p.listing, p.to, listing)
        /\ UNCHANGED <<reviewed, drive, passed, candidate, applied>>
    BY <1>4 DEF CommitEdit
  <2>2. p.listing \in Listings /\ p.to \in Listings BY <1>0 DEF JobDesks
  <2>3. /\ listing' \in Listings
        /\ \A column \in {"visibility", "campus", "approval", "active", "content", "deadline"} :
             listing'[column] = IF p.to[column] = p.listing[column]
                                THEN listing[column] ELSE p.to[column]
    BY <1>0, <2>1, <2>2, WrittenListing
  <2>4. /\ desk' \in [Desks -> JobDesks] /\ FreshStands' /\ \A e \in Desks : Meant(desk'[e])
        /\ desk'[d].kind = "free"
    BY <1>0, <2>1, AfterCommit
  <2>5. NothingNew(p.listing, p.to) BY <1>0, <2>1 DEF Meant
  <2>6. /\ listing'.visibility = IF p.to.visibility = p.listing.visibility
                                 THEN listing.visibility ELSE p.to.visibility
        /\ listing'.campus = IF p.to.campus = p.listing.campus THEN listing.campus ELSE p.to.campus
        /\ listing'.approval = IF p.to.approval = p.listing.approval
                               THEN listing.approval ELSE p.to.approval
        /\ listing'.content = IF p.to.content = p.listing.content
                              THEN listing.content ELSE p.to.content
        /\ listing'.deadline = IF p.to.deadline = p.listing.deadline
                               THEN listing.deadline ELSE p.to.deadline
    BY <2>3
  <2>7. CASE ~Approved(p.listing) /\ listing # p.listing
    <3>1. Unaware(d) BY <2>1, <2>4, <2>7 DEF Unaware
    <3>2. JobsInv' BY <1>0, <2>1, <2>3, <2>4, JobsInvNow
    <3> QED BY <2>1, <3>1, <3>2 DEF CampusStep
  <2>8. CASE ~Approved(p.listing) /\ listing = p.listing
    <3>1. ~Approved(p.to) BY <2>5, <2>8 DEF NothingNew
    <3>2. ~Approved(listing')
      BY <2>6, <2>8, <3>1 DEF Approved
    <3>3. ~Unreviewed' BY <3>2 DEF Unreviewed, Approved
    <3>4. JobsInv' BY <1>0, <2>1, <2>3, <2>4, JobsInvNow
    <3> QED BY <2>1, <3>3, <3>4 DEF CampusStep
  <2>9. CASE Approved(p.listing)
    <3>1. CASE Approved(p.to)
      <4>1. /\ p.to.visibility = p.listing.visibility /\ p.to.approval = p.listing.approval
            /\ p.to.campus = p.listing.campus /\ p.to.content = p.listing.content
            /\ p.to.deadline = p.listing.deadline
        BY <2>5, <2>9, <3>1 DEF NothingNew, Approved, Shown
      <4>2. Unreviewed' => Unreviewed
        BY <2>1, <2>6, <4>1 DEF Unreviewed, Approved, Shown
      <4>3. JobsInv' BY <1>0, <2>1, <2>3, <2>4, JobsInvNow
      <4> QED BY <2>1, <4>2, <4>3 DEF CampusStep
    <3>2. CASE ~Approved(p.to)
      <4>1. ~Approved(listing') BY <2>6, <2>9, <3>2 DEF Approved
      <4>2. ~Unreviewed' BY <4>1 DEF Unreviewed, Approved
      <4>3. JobsInv' BY <1>0, <2>1, <2>3, <2>4, JobsInvNow
      <4> QED BY <2>1, <4>2, <4>3 DEF CampusStep
    <3> QED BY <3>1, <3>2
  <2> QED BY <2>7, <2>8, <2>9
<1> QED BY <1>1, <1>2, <1>3, <1>4 DEF ListingStep

LEMMA InstitutionStepStands ==
  ASSUME JobsInv, InstitutionStep
  PROVE  CampusStep
<1>0. /\ listing \in Listings /\ drive \in DriveRows /\ desk \in [Desks -> JobDesks]
      /\ FreshStands /\ \A e \in Desks : Meant(desk[e])
  BY JobsInvParts
<1>1. ASSUME NEW d \in Desks, NEW verdict \in {"pending", "approved", "rejected"},
             BeginApproval(d, verdict)
      PROVE  CampusStep
  <2> DEFINE to == [listing EXCEPT !.approval = verdict, !.active = verdict = "approved"]
             request == [FreeDesk EXCEPT !.kind = "approve", !.listing = listing, !.to = to]
  <2>1. to \in Listings /\ SameText(listing, to) BY <1>0 DEF Listings, SameText, Shown
  <2>2. Takes(d, request) /\ UNCHANGED <<listing, reviewed, drive, passed, candidate, applied>>
    BY <1>1 DEF BeginApproval
  <2> HIDE DEF to
  <2>3. /\ request \in JobDesks /\ request.kind = "approve" /\ request.listing = listing
        /\ request.to = to
    BY <1>0, <2>1, FreeDeskTyped DEF JobDesks
  <2> HIDE DEF request
  <2>4. Meant(request) BY <2>1, <2>3 DEF Meant
  <2>5. JobsInv' BY <2>2, <2>3, <2>4, AfterRead
  <2> QED BY <2>2, <2>5, ReadIsCampusStep
<1>2. ASSUME NEW d \in Desks, CommitApproval(d) PROVE CampusStep
  <2> DEFINE p == desk[d]
  <2>1. /\ p.kind = "approve" /\ Commits(d) /\ listing' = Written(p.listing, p.to, listing)
        /\ reviewed' = IF p.to.approval = "approved" THEN Shown(p.listing) ELSE reviewed
        /\ UNCHANGED <<drive, passed, candidate, applied>>
    BY <1>2 DEF CommitApproval
  <2>2. p.listing \in Listings /\ p.to \in Listings BY <1>0 DEF JobDesks
  <2>3. /\ listing' \in Listings
        /\ \A column \in {"visibility", "campus", "approval", "active", "content", "deadline"} :
             listing'[column] = IF p.to[column] = p.listing[column]
                                THEN listing[column] ELSE p.to[column]
    BY <1>0, <2>1, <2>2, WrittenListing
  <2>4. /\ desk' \in [Desks -> JobDesks] /\ FreshStands' /\ \A e \in Desks : Meant(desk'[e])
        /\ desk'[d].kind = "free"
    BY <1>0, <2>1, AfterCommit
  <2>5. SameText(p.listing, p.to) BY <1>0, <2>1 DEF Meant
  <2>6. /\ p.to.visibility = p.listing.visibility /\ p.to.campus = p.listing.campus
        /\ p.to.content = p.listing.content /\ p.to.deadline = p.listing.deadline
    BY <2>5 DEF SameText, Shown
  <2>7. /\ listing'.visibility = listing.visibility /\ listing'.campus = listing.campus
        /\ listing'.content = listing.content /\ listing'.deadline = listing.deadline
        /\ listing'.approval = IF p.to.approval = p.listing.approval
                               THEN listing.approval ELSE p.to.approval
    BY <2>3, <2>6
  <2>8. Shown(listing') = Shown(listing) BY <2>7 DEF Shown
  <2>9. Unreviewed' => Unreviewed \/ \E e \in Desks : Unaware(e)
    <3>1. CASE p.to.approval = "approved" /\ Shown(listing) # Shown(p.listing)
      BY <2>1, <2>4, <3>1 DEF Unaware
    <3>2. CASE p.to.approval = "approved" /\ Shown(listing) = Shown(p.listing)
      <4>1. reviewed' = Shown(listing') BY <2>1, <2>8, <3>2
      <4> QED BY <4>1 DEF Unreviewed, Shown
    <3>3. CASE p.to.approval # "approved"
      <4>1. reviewed' = reviewed BY <2>1, <3>3
      <4>2. Approved(listing') => Approved(listing) BY <2>7, <3>3 DEF Approved
      <4>3. Unreviewed' <=> Approved(listing') /\ Shown(listing') # reviewed'
        BY DEF Unreviewed, Approved, Shown
      <4> QED BY <2>8, <4>1, <4>2, <4>3 DEF Unreviewed
    <3> QED BY <3>1, <3>2, <3>3
  <2>10. JobsInv' BY <1>0, <2>1, <2>3, <2>4, JobsInvNow
  <2> QED BY <2>1, <2>9, <2>10 DEF CampusStep
<1>3. ASSUME NEW d \in Desks, NEW s \in {"open", "closed"},
             NEW t \in Deadlines \union {NoDeadline}, BeginDrive(d, s, t)
      PROVE  CampusStep
  <2> DEFINE to == [status |-> s, deadline |-> t]
             request == [FreeDesk EXCEPT !.kind = "drive", !.drive = drive, !.toDrive = to]
  <2>2. to \in DriveRows BY DEF DriveRows
  <2>3. Takes(d, request) /\ UNCHANGED <<listing, reviewed, drive, passed, candidate, applied>>
    BY <1>3 DEF BeginDrive
  <2> HIDE DEF to
  <2>4. request \in JobDesks /\ request.kind = "drive"
    BY <1>0, <2>2, FreeDeskTyped DEF JobDesks
  <2> HIDE DEF request
  <2>5. JobsInv' BY <2>3, <2>4, AfterRead DEF Meant
  <2> QED BY <2>3, <2>5, ReadIsCampusStep
<1>4. ASSUME NEW d \in Desks, CommitDrive(d) PROVE CampusStep
  <2>1. /\ Commits(d) /\ drive' = Written(desk[d].drive, desk[d].toDrive, drive)
        /\ UNCHANGED <<listing, reviewed, passed, candidate, applied>>
    BY <1>4 DEF CommitDrive
  <2>2. desk[d].drive \in DriveRows /\ desk[d].toDrive \in DriveRows BY <1>0 DEF JobDesks
  <2>3. drive' \in DriveRows BY <1>0, <2>1, <2>2, WrittenDrive
  <2>4. desk' \in [Desks -> JobDesks] /\ FreshStands' /\ \A e \in Desks : Meant(desk'[e])
    BY <1>0, <2>1, AfterCommit
  <2>5. JobsInv' BY <1>0, <2>1, <2>3, <2>4, JobsInvNow
  <2> QED BY <2>1, <2>5 DEF CampusStep, Unreviewed, Approved, Shown
<1> QED BY <1>1, <1>2, <1>3, <1>4 DEF InstitutionStep

LEMMA ApplicationStepStands ==
  ASSUME JobsInv, ApplicationStep
  PROVE  CampusStep
<1>0. /\ listing \in Listings /\ drive \in DriveRows /\ desk \in [Desks -> JobDesks]
      /\ FreshStands /\ \A e \in Desks : Meant(desk[e])
  BY JobsInvParts
<1>1. ASSUME NEW d \in Desks, BeginApply(d) PROVE CampusStep
  <2> DEFINE request == [FreeDesk EXCEPT !.kind = "apply"]
  <2>1. /\ Takes(d, request) /\ MayApply
        /\ UNCHANGED <<listing, reviewed, drive, passed, candidate, applied>>
    BY <1>1 DEF BeginApply
  <2>2. request \in JobDesks /\ request.kind = "apply" BY FreeDeskTyped DEF JobDesks
  <2> HIDE DEF request
  <2>3. JobsInv' BY <2>1, <2>2, AfterRead DEF Meant
  <2> QED BY <2>1, <2>3, ReadIsCampusStep
<1>2. ASSUME NEW d \in Desks, CommitApply(d) PROVE CampusStep
  <2>1. /\ desk[d].kind = "apply" /\ Commits(d)
        /\ UNCHANGED <<listing, reviewed, drive, passed, candidate>>
    BY <1>2 DEF CommitApply
  <2>2. /\ desk' \in [Desks -> JobDesks] /\ FreshStands' /\ \A e \in Desks : Meant(desk'[e])
        /\ desk'[d].kind = "free"
    BY <1>0, <2>1, AfterCommit
  <2>3. ~desk[d].stale => MayApply BY <1>0, <2>1 DEF FreshStands, StandsAt
  <2>4. desk[d].stale => AppliesLate(d) BY <2>1, <2>2 DEF AppliesLate
  <2>5. desk[d].stale \in BOOLEAN BY <1>0 DEF JobDesks
  <2>6. JobsInv' BY <1>0, <2>1, <2>2, JobsInvNow
  <2> QED BY <2>1, <2>3, <2>4, <2>5, <2>6 DEF CampusStep, Unreviewed, Approved, Shown
<1> QED BY <1>1, <1>2 DEF ApplicationStep

LEMMA JobsStepStands ==
  ASSUME JobsInv, [JobsNext]_jobsVars
  PROVE  JobsInv' /\ (CampusStep \/ UNCHANGED jobsVars)
<1>0. /\ listing \in Listings /\ drive \in DriveRows /\ desk \in [Desks -> JobDesks]
      /\ FreshStands /\ \A e \in Desks : Meant(desk[e])
  BY JobsInvParts
<1>1. ASSUME Disturbs, UNCHANGED <<listing, reviewed, drive, applied>> PROVE CampusStep
  <2>1. desk' \in [Desks -> JobDesks] /\ FreshStands' /\ \A e \in Desks : Meant(desk'[e])
    BY <1>0, <1>1, AfterDisturbance
  <2>2. JobsInv' BY <1>0, <1>1, <2>1, JobsInvNow
  <2> QED BY <1>1, <2>2 DEF CampusStep, Unreviewed, Approved, Shown
<1>2. CASE UNCHANGED jobsVars
  <2>1. MayApply' <=> MayApply
    BY <1>2 DEF jobsVars, MayApply, JobIsVisible, JobIsAvailable, DriveIsAvailable, HasPassed
  <2>2. FreshStands' BY <1>0, <1>2, <2>1 DEF jobsVars, FreshStands, StandsAt
  <2>3. desk' = desk /\ listing' = listing /\ drive' = drive BY <1>2 DEF jobsVars
  <2>4. JobsInv' BY <1>0, <2>2, <2>3, JobsInvNow
  <2> QED BY <1>2, <2>4
<1>3. CASE ListingStep BY <1>3, ListingStepStands DEF CampusStep
<1>4. CASE InstitutionStep BY <1>4, InstitutionStepStands DEF CampusStep
<1>5. CASE ApplicationStep BY <1>5, ApplicationStepStands DEF CampusStep
<1>6. CASE \E to \in Candidates : CandidateChanges(to)
  <2>1. CampusStep BY <1>1, <1>6 DEF CandidateChanges
  <2> QED BY <2>1 DEF CampusStep
<1>7. CASE DeadlinePasses
  <2>1. CampusStep BY <1>1, <1>7 DEF DeadlinePasses
  <2> QED BY <2>1 DEF CampusStep
<1> QED BY <1>2, <1>3, <1>4, <1>5, <1>6, <1>7 DEF JobsNext

LEMMA JobsInvInit == JobsInit => JobsInv
<1> SUFFICES ASSUME JobsInit PROVE JobsInv OBVIOUS
<1>1. listing \in Listings /\ drive \in DriveRows
  BY DEF JobsInit, NoListing, NoDrive, Listings, DriveRows
<1>2. desk \in [Desks -> JobDesks] /\ \A d \in Desks : desk[d].kind = "free"
  BY FreeDeskTyped DEF JobsInit
<1> QED BY <1>1, <1>2 DEF JobsInv, ListingTypeOK, FreshStands, StandsAt, Meant

\* However many edits, approvals, drives and applications overlap (jobs.update_job,
\* institution_secure.approve_job, students.apply_to_job), the students of a campus are shown a
\* text or a deadline it did not approve only by the commit of an edit that had read the listing
\* before it was approved, or of an approval of what was edited since; and the rules are evaded
\* only by an application that was overtaken between its checks and its commit.
THEOREM CampusKeepsControl == JobsInit /\ [][JobsNext]_jobsVars => CampusInControl
<1>1. JobsInv /\ [JobsNext]_jobsVars => JobsInv' BY JobsStepStands
<1>2. JobsInv /\ [JobsNext]_jobsVars
        => [Unreviewed' => Unreviewed \/ \E d \in Desks : Unaware(d)]_jobsVars
  BY JobsStepStands DEF CampusStep
<1>3. JobsInv /\ [JobsNext]_jobsVars
        => [~applied /\ applied' => MayApply \/ \E d \in Desks : AppliesLate(d)]_jobsVars
  BY JobsStepStands DEF CampusStep
<1> QED BY <1>1, <1>2, <1>3, JobsInvInit, PTL DEF CampusInControl, ShownIsReviewed, AppliedWhileOpen

-----------------------------------------------------------------------------
(* The offers of a student.                                                *)

StudentNow == [placed : BOOLEAN, count : Nat]
Counters == [kind : {"free", "apply", "create", "update", "letter"},
             at : Openings \union {FreeCounter.at}, offer : OfferRows, to : OfferRows,
             student : StudentNow, toStudent : StudentNow, stale : BOOLEAN]

OfferTypeOK ==
  /\ offer \in [Openings -> OfferRows]
  /\ student \in StudentNow
  /\ files \subseteq Letters
  /\ counter \in [Desks -> Counters]

\* An upload in progress has a name of its own; the letter it replaces, if that is still on an
\* offer, is on the one it is for.
UploadInv ==
  \A d \in Desks : counter[d].kind = "letter" =>
    /\ counter[d].at \in Openings
    /\ counter[d].to.letter \in Letters
    /\ \A a \in Openings : offer[a].letter # counter[d].to.letter
    /\ \A a \in Openings \ {counter[d].at} :
          offer[a].letter # NoLetter => offer[a].letter # counter[d].offer.letter
    /\ \A e \in Desks : counter[e].kind = "letter" =>
          /\ counter[e].offer.letter # counter[d].to.letter
          /\ e # d => counter[e].to.letter # counter[d].to.letter

\* No two offers have one letter, and an update or a new offer brings none.
LettersInv ==
  /\ \A a, b \in Openings : offer[a].letter = offer[b].letter => a = b \/ offer[a].letter = NoLetter
  /\ \A d \in Desks : counter[d].kind = "update" => counter[d].to.letter = counter[d].offer.letter
  /\ \A d \in Desks : counter[d].kind = "create" => counter[d].to.letter = NoLetter

\* An update that nobody has overtaken has read the rows as they are, and means the placement
\* status that will agree with them.  A new offer leaves that status alone.
UpdateFits(d) ==
  counter[d].kind = "update" =>
    /\ counter[d].at \in Openings
    /\ counter[d].offer = offer[counter[d].at] /\ counter[d].student = student
    /\ counter[d].toStudent.placed <=> PlacedWith(counter[d].at, counter[d].to.status)

PlacementInv ==
  /\ \A d \in Desks : counter[d].stale \/ UpdateFits(d)
  /\ \A d \in Desks : counter[d].kind = "create" =>
        /\ counter[d].at \in Openings
        /\ counter[d].toStudent.placed = counter[d].student.placed

OffersInv ==
  OfferTypeOK /\ LetterReadable /\ UploadInv /\ LettersInv /\ PlacementInv

LEMMA FreeCounterTyped == FreeCounter \in Counters /\ FreeCounter.kind = "free"
BY DEF FreeCounter, Counters, NoOffer, OfferRows, StudentNow

LEMMA OffersInvInit == OffersInit => OffersInv
<1> SUFFICES ASSUME OffersInit PROVE OffersInv OBVIOUS
<1>1. offer \in [Openings -> OfferRows] /\ \A a \in Openings : offer[a].letter = NoLetter
  BY DEF OffersInit, NoOffer, OfferRows
<1>2. counter \in [Desks -> Counters] /\ \A d \in Desks : counter[d].kind = "free"
  BY FreeCounterTyped DEF OffersInit
<1>3. student \in StudentNow /\ files = {} BY DEF OffersInit, StudentNow
<1> QED BY <1>1, <1>2, <1>3
        DEF OffersInv, OfferTypeOK, LetterReadable, UploadInv, LettersInv, PlacementInv, UpdateFits

LEMMA WrittenOffer ==
  ASSUME NEW loaded \in OfferRows, NEW new \in OfferRows, NEW now \in OfferRows
  PROVE  /\ Written(loaded, new, now) \in OfferRows
         /\ Written(loaded, new, now).status =
               IF new.status = loaded.status THEN now.status ELSE new.status
         /\ Written(loaded, new, now).letter =
               IF new.letter = loaded.letter THEN now.letter ELSE new.letter
<1>1. DOMAIN now = {"status", "letter"} BY DEF OfferRows
<1> QED BY <1>1 DEF Written, OfferRows

LEMMA WrittenStudent ==
  ASSUME NEW loaded \in StudentNow, NEW new \in StudentNow, NEW now \in StudentNow
  PROVE  /\ Written(loaded, new, now) \in StudentNow
         /\ Written(loaded, new, now).placed =
               IF new.placed = loaded.placed THEN now.placed ELSE new.placed
<1>1. DOMAIN now = {"placed", "count"} BY DEF StudentNow
<1> QED BY <1>1 DEF Written, StudentNow

\* After an answer no other request is fresh, and all of them hold what they held.
LEMMA AfterAnswer ==
  ASSUME counter \in [Desks -> Counters], NEW d \in Desks, Answers(d)
  PROVE  /\ counter' \in [Desks -> Counters]
         /\ counter'[d].kind = "free"
         /\ \A e \in Desks \ {d} :
               /\ counter'[e].kind = counter[e].kind /\ counter'[e].at = counter[e].at
               /\ counter'[e].offer = counter[e].offer /\ counter'[e].to = counter[e].to
               /\ counter'[e].student = counter[e].student
               /\ counter'[e].toStudent = counter[e].toStudent
               /\ counter'[e].stale \/ counter'[e].kind = "free"
         /\ counter[d].stale => OvertakenCommit(counter, counter')
<1>1. counter' = [[e \in Desks |-> [counter[e] EXCEPT !.stale = counter[e].kind # "free"]]
                     EXCEPT ![d] = FreeCounter]
  BY DEF Answers, Cleared, Outdated
<1>2. counter' \in [Desks -> Counters]
  <2>1. ASSUME NEW e \in Desks
        PROVE  [counter[e] EXCEPT !.stale = counter[e].kind # "free"] \in Counters
    BY DEF Counters
  <2> HIDE DEF Counters
  <2> QED BY <1>1, <2>1, FreeCounterTyped
<1>3. counter'[d].kind = "free" BY <1>1, FreeCounterTyped
<1>4. \A e \in Desks \ {d} : counter'[e] = [counter[e] EXCEPT !.stale = counter[e].kind # "free"]
  BY <1>1
<1>5. ASSUME NEW e \in Desks \ {d}
      PROVE  /\ counter'[e].kind = counter[e].kind /\ counter'[e].at = counter[e].at
             /\ counter'[e].offer = counter[e].offer /\ counter'[e].to = counter[e].to
             /\ counter'[e].student = counter[e].student
             /\ counter'[e].toStudent = counter[e].toStudent
             /\ counter'[e].stale \/ counter'[e].kind = "free"
  <2>1. counter[e] \in Counters /\ counter'[e] = [counter[e] EXCEPT !.stale = counter[e].kind # "free"]
    BY <1>4
  <2>2. /\ counter'[e].kind = counter[e].kind /\ counter'[e].at = counter[e].at
        /\ counter'[e].offer = counter[e].offer /\ counter'[e].to = counter[e].to
        /\ counter'[e].student = counter[e].student
        /\ counter'[e].toStudent = counter[e].toStudent
    BY <2>1 DEF Counters
  <2>3. counter'[e].stale = (counter[e].kind # "free") BY <2>1 DEF Counters
  <2> QED BY <2>2, <2>3
<1> QED BY <1>2, <1>3, <1>5 DEF OvertakenCommit

\* A request that is taken, and reads the rows as they are.
LEMMA AfterAsking ==
  ASSUME OffersInv, NEW d \in Desks, NEW request \in Counters, Asks(d, request),
         request.kind # "letter",
         request.kind = "update" =>
            /\ request.at \in Openings
            /\ request.offer = offer[request.at] /\ request.student = student
            /\ request.toStudent.placed <=> PlacedWith(request.at, request.to.status)
            /\ request.to.letter = request.offer.letter,
         request.kind = "create" =>
            /\ request.at \in Openings
            /\ request.toStudent.placed = request.student.placed
            /\ request.to.letter = NoLetter
  PROVE  OffersInv'
<1>1. /\ counter' = [counter EXCEPT ![d] = request] /\ counter \in [Desks -> Counters]
      /\ UNCHANGED <<policies, applications, offer, student, files>>
  BY DEF Asks, OffersInv, OfferTypeOK
<1>2. counter' \in [Desks -> Counters] BY <1>1
<1>3. counter'[d] = request /\ \A e \in Desks \ {d} : counter'[e] = counter[e] BY <1>1
<1>4. OfferTypeOK' /\ LetterReadable'
  BY <1>1, <1>2 DEF OffersInv, OfferTypeOK, LetterReadable
<1>5. UploadInv' BY <1>1, <1>3 DEF OffersInv, UploadInv
<1>6. LettersInv' BY <1>1, <1>3 DEF OffersInv, LettersInv
<1>7. \A a \in Openings, status \in OfferStatuses \union {"none"} :
         PlacedWith(a, status)' <=> PlacedWith(a, status)
  BY <1>1 DEF PlacedWith, WithStatus
<1>8. \A e \in Desks \ {d} : counter'[e].stale \/ UpdateFits(e)'
  BY <1>1, <1>3, <1>7 DEF OffersInv, OfferTypeOK, Counters, OfferRows, PlacementInv, UpdateFits
<1>9. UpdateFits(d)' BY <1>1, <1>3, <1>7 DEF UpdateFits, Counters, OfferRows
<1>10. PlacementInv' BY <1>3, <1>8, <1>9 DEF OffersInv, PlacementInv
<1> QED BY <1>4, <1>5, <1>6, <1>10 DEF OffersInv

LEMMA RequestTyped ==
  ASSUME OfferTypeOK, NEW kind \in {"apply", "create", "update", "letter"}, NEW a \in Openings
  PROVE  /\ Request(kind, a) \in Counters /\ Request(kind, a).kind = kind
         /\ Request(kind, a).at = a /\ Request(kind, a).offer = offer[a]
         /\ Request(kind, a).to = offer[a] /\ Request(kind, a).student = student
         /\ Request(kind, a).toStudent = student
BY FreeCounterTyped DEF OfferTypeOK, Request, Counters

\* A step keeps the invariant and lets the placement status drift only as it may.
OfferStep ==
  /\ OffersInv'
  /\ Drifted' => \/ Drifted
                 \/ OvertakenCommit(counter, counter')
                 \/ \E a \in Openings : offer[a].status = "none" /\ offer'[a].status \in Accepts

LEMMA SameOffersNoDrift ==
  ASSUME OffersInv', offer' = offer, student' = student
  PROVE  OfferStep
BY DEF OfferStep, Drifted, Placed, WithStatus

LEMMA BeginsOfferRequest ==
  ASSUME OffersInv, NEW d \in Desks, NEW a \in Openings, NEW status \in OfferStatuses,
         BeginApplication(d, a) \/ BeginOffer(d, a, status) \/ BeginUpdate(d, a, status)
  PROVE  OfferStep
<1>0. OfferTypeOK /\ offer[a] \in OfferRows /\ student \in StudentNow
  BY DEF OffersInv, OfferTypeOK
<1>1. CASE BeginApplication(d, a)
  <2> DEFINE request == Request("apply", a)
  <2>1. request \in Counters /\ request.kind = "apply" BY <1>0, RequestTyped
  <2>2. Asks(d, request) BY <1>1 DEF BeginApplication
  <2> HIDE DEF request
  <2>3. OffersInv' BY <2>1, <2>2, AfterAsking
  <2> QED BY <2>2, <2>3, SameOffersNoDrift DEF Asks
<1>2. CASE BeginOffer(d, a, status)
  <2> DEFINE base == Request("create", a)
             to == [NoOffer EXCEPT !.status = status]
             more == [student EXCEPT !.count = student.count + 1]
             request == [base EXCEPT !.to = to, !.toStudent = more]
  <2>1. /\ base \in Counters /\ base.kind = "create" /\ base.at = a
        /\ base.student = student /\ base.toStudent = student
    BY <1>0, RequestTyped
  <2>2. to \in OfferRows /\ to.letter = NoLetter BY DEF NoOffer, OfferRows
  <2>3. more \in StudentNow /\ more.placed = student.placed BY <1>0 DEF StudentNow
  <2>4. Asks(d, request)
    <3>1. request = [base EXCEPT !.to = to, !.toStudent.count = student.count + 1]
      BY <2>1 DEF Counters
    <3> QED BY <1>2, <3>1 DEF BeginOffer
  <2> HIDE DEF base, to, more
  <2>5. /\ request \in Counters /\ request.kind = "create" /\ request.at = a
        /\ request.student = student /\ request.to = to /\ request.toStudent = more
    BY <1>0, <2>1, <2>2, <2>3 DEF Counters
  <2> HIDE DEF request
  <2>6. OffersInv' BY <2>2, <2>3, <2>4, <2>5, AfterAsking
  <2> QED BY <2>4, <2>6, SameOffersNoDrift DEF Asks
<1>3. CASE BeginUpdate(d, a, status)
  <2> DEFINE base == Request("update", a)
             request == [base EXCEPT !.to.status = status,
                                     !.toStudent.placed = PlacedWith(a, status)]
  <2>1. /\ base \in Counters /\ base.kind = "update" /\ base.at = a /\ base.offer = offer[a]
        /\ base.to = offer[a] /\ base.student = student /\ base.toStudent = student
    BY <1>0, RequestTyped
  <2>2. Asks(d, request) BY <1>3 DEF BeginUpdate
  <2>3. PlacedWith(a, status) \in BOOLEAN BY DEF PlacedWith
  <2> HIDE DEF base
  <2>4. /\ request \in Counters /\ request.kind = "update" /\ request.at = a
        /\ request.offer = offer[a] /\ request.student = student
        /\ request.toStudent.placed = PlacedWith(a, status)
        /\ request.to.status = status /\ request.to.letter = offer[a].letter
    BY <1>0, <2>1, <2>3 DEF Counters, StudentNow, OfferRows
  <2> HIDE DEF request
  <2>5. request.toStudent.placed <=> PlacedWith(request.at, request.to.status)
    BY <2>3, <2>4
  <2>6. OffersInv' BY <2>2, <2>4, <2>5, AfterAsking
  <2> QED BY <2>2, <2>6, SameOffersNoDrift DEF Asks
<1> QED BY <1>1, <1>2, <1>3

LEMMA BeginsUpload ==
  ASSUME OffersInv, NEW d \in Desks, NEW a \in Openings, NEW f \in Letters, BeginLetter(d, a, f)
  PROVE  OfferStep
<1> DEFINE base == Request("letter", a)
           request == [base EXCEPT !.to.letter = f]
<1>0. OfferTypeOK /\ offer[a] \in OfferRows /\ counter \in [Desks -> Counters] /\ f # NoLetter
  BY OffersAssumption DEF OffersInv, OfferTypeOK
<1>1. /\ base \in Counters /\ base.kind = "letter" /\ base.at = a /\ base.offer = offer[a]
      /\ base.to = offer[a]
  BY <1>0, RequestTyped
<1>2. Asks(d, request) BY DEF BeginLetter
<1>3. /\ \A e \in Desks : f # counter[e].offer.letter /\ f # counter[e].to.letter
      /\ \A b \in Openings : f # offer[b].letter
  BY DEF BeginLetter
<1> HIDE DEF base
<1>4. /\ request \in Counters /\ request.kind = "letter" /\ request.at = a
      /\ request.offer = offer[a] /\ request.to.letter = f
  BY <1>0, <1>1 DEF Counters, OfferRows
<1>5. /\ counter' = [counter EXCEPT ![d] = request] /\ counter[d].kind = "free"
      /\ UNCHANGED <<policies, applications, offer, student, files>>
  BY <1>2 DEF Asks
<1> HIDE DEF request
<1>6. counter' \in [Desks -> Counters] BY <1>0, <1>4, <1>5
<1>7. counter'[d] = request /\ \A e \in Desks \ {d} : counter'[e] = counter[e]
  BY <1>0, <1>5
<1>8. OfferTypeOK' /\ LetterReadable'
  BY <1>5, <1>6 DEF OffersInv, OfferTypeOK, LetterReadable
<1>9. LettersInv' BY <1>4, <1>5, <1>7 DEF OffersInv, LettersInv
<1>10. PlacementInv'
  <2>1. \A b \in Openings, status \in OfferStatuses \union {"none"} :
           PlacedWith(b, status)' <=> PlacedWith(b, status)
    BY <1>5 DEF PlacedWith, WithStatus
  <2>2. \A e \in Desks \ {d} : counter'[e].stale \/ UpdateFits(e)'
    BY <1>0, <1>5, <1>7, <2>1 DEF OffersInv, PlacementInv, UpdateFits, Counters, OfferRows
  <2>3. UpdateFits(d)' BY <1>4, <1>7 DEF UpdateFits
  <2> QED BY <1>4, <1>7, <2>2, <2>3 DEF OffersInv, PlacementInv
<1>11. UploadInv'
  <2>1. \A b \in Openings \ {a} : offer[b].letter # NoLetter => offer[b].letter # offer[a].letter
    BY DEF OffersInv, LettersInv
  <2>2. \A e \in Desks : counter[e].kind = "letter" => offer[a].letter # counter[e].to.letter
    BY DEF OffersInv, UploadInv
  <2>3. ASSUME NEW e \in Desks \ {d}, counter'[e].kind = "letter"
        PROVE  /\ counter'[e].at \in Openings
               /\ counter'[e].to.letter \in Letters
               /\ \A b \in Openings : offer'[b].letter # counter'[e].to.letter
               /\ \A b \in Openings \ {counter'[e].at} :
                     offer'[b].letter # NoLetter => offer'[b].letter # counter'[e].offer.letter
               /\ \A g \in Desks : counter'[g].kind = "letter" =>
                     /\ counter'[g].offer.letter # counter'[e].to.letter
                     /\ g # e => counter'[g].to.letter # counter'[e].to.letter
    <3>1. counter'[e] = counter[e] /\ counter[e].kind = "letter" BY <1>7, <2>3
    <3>2. /\ counter[e].at \in Openings
          /\ counter[e].to.letter \in Letters
          /\ \A b \in Openings : offer[b].letter # counter[e].to.letter
          /\ \A b \in Openings \ {counter[e].at} :
                offer[b].letter # NoLetter => offer[b].letter # counter[e].offer.letter
          /\ \A g \in Desks : counter[g].kind = "letter" =>
                /\ counter[g].offer.letter # counter[e].to.letter
                /\ g # e => counter[g].to.letter # counter[e].to.letter
      BY <3>1 DEF OffersInv, UploadInv
    <3>3. \A g \in Desks \ {d} : counter'[g].kind = "letter" =>
             /\ counter'[g].offer.letter # counter'[e].to.letter
             /\ g # e => counter'[g].to.letter # counter'[e].to.letter
      BY <1>7, <3>1, <3>2
    <3>4. counter'[d].offer.letter # counter'[e].to.letter
          /\ counter'[d].to.letter # counter'[e].to.letter
      BY <1>3, <1>4, <1>7, <2>2, <3>1
    <3> QED BY <1>5, <3>1, <3>2, <3>3, <3>4
  <2>4. /\ counter'[d].at \in Openings /\ counter'[d].to.letter \in Letters
        /\ \A b \in Openings : offer'[b].letter # counter'[d].to.letter
        /\ \A b \in Openings \ {counter'[d].at} :
              offer'[b].letter # NoLetter => offer'[b].letter # counter'[d].offer.letter
    BY <1>3, <1>4, <1>5, <1>7, <2>1
  <2>5. \A g \in Desks : counter'[g].kind = "letter" =>
           /\ counter'[g].offer.letter # counter'[d].to.letter
           /\ g # d => counter'[g].to.letter # counter'[d].to.letter
    BY <1>3, <1>4, <1>7
  <2> QED BY <2>3, <2>4, <2>5 DEF UploadInv
<1>12. OffersInv' BY <1>8, <1>9, <1>10, <1>11 DEF OffersInv
<1> QED BY <1>5, <1>12, SameOffersNoDrift

\* An answer that leaves offers and letters alone, or changes them at one opening.
LEMMA AfterAnswerPlacement ==
  ASSUME OffersInv, NEW d \in Desks, Answers(d)
  PROVE  PlacementInv'
<1>0. counter \in [Desks -> Counters] BY DEF OffersInv, OfferTypeOK
<1>1. counter'[d].kind = "free" BY <1>0, AfterAnswer
<1>2. ASSUME NEW e \in Desks
      PROVE  (counter'[e].stale \/ UpdateFits(e)')
             /\ (counter'[e].kind = "create" => /\ counter'[e].at \in Openings
                    /\ counter'[e].toStudent.placed = counter'[e].student.placed)
  <2>1. CASE e = d BY <1>1, <2>1 DEF UpdateFits
  <2>2. CASE e # d
    <3>1. /\ counter'[e].kind = counter[e].kind /\ counter'[e].at = counter[e].at
          /\ counter'[e].student = counter[e].student
          /\ counter'[e].toStudent = counter[e].toStudent
          /\ counter'[e].stale \/ counter'[e].kind = "free"
      BY <1>0, <2>2, AfterAnswer
    <3> QED BY <3>1 DEF OffersInv, PlacementInv, UpdateFits
  <2> QED BY <2>1, <2>2
<1> QED BY <1>2 DEF PlacementInv

LEMMA AfterAnswerLetters ==
  ASSUME OffersInv, NEW d \in Desks, Answers(d),
         \A a \in Openings : offer'[a].letter = offer[a].letter \/ offer'[a].letter = NoLetter
  PROVE  UploadInv' /\ LettersInv'
<1>0. counter \in [Desks -> Counters] BY DEF OffersInv, OfferTypeOK
<1>1. counter'[d].kind = "free" BY <1>0, AfterAnswer
<1>2. \A e \in Desks \ {d} :
         /\ counter'[e].kind = counter[e].kind /\ counter'[e].at = counter[e].at
         /\ counter'[e].offer = counter[e].offer /\ counter'[e].to = counter[e].to
  BY <1>0, AfterAnswer
<1>3. LettersInv' BY <1>1, <1>2 DEF OffersInv, LettersInv
<1>4. ASSUME NEW e \in Desks, counter'[e].kind = "letter"
      PROVE  /\ counter'[e].at \in Openings
             /\ counter'[e].to.letter \in Letters
             /\ \A b \in Openings : offer'[b].letter # counter'[e].to.letter
             /\ \A b \in Openings \ {counter'[e].at} :
                   offer'[b].letter # NoLetter => offer'[b].letter # counter'[e].offer.letter
             /\ \A g \in Desks : counter'[g].kind = "letter" =>
                   /\ counter'[g].offer.letter # counter'[e].to.letter
                   /\ g # e => counter'[g].to.letter # counter'[e].to.letter
  <2>1. e # d /\ counter[e].kind = "letter" BY <1>1, <1>2, <1>4
  <2>2. /\ counter[e].at \in Openings
        /\ counter[e].to.letter \in Letters
        /\ \A b \in Openings : offer[b].letter # counter[e].to.letter
        /\ \A b \in Openings \ {counter[e].at} :
              offer[b].letter # NoLetter => offer[b].letter # counter[e].offer.letter
        /\ \A g \in Desks : counter[g].kind = "letter" =>
              /\ counter[g].offer.letter # counter[e].to.letter
              /\ g # e => counter[g].to.letter # counter[e].to.letter
    BY <2>1 DEF OffersInv, UploadInv
  <2>3. counter'[e].at = counter[e].at /\ counter'[e].offer = counter[e].offer
        /\ counter'[e].to = counter[e].to
    BY <1>2, <2>1
  <2>4. counter[e].to.letter # NoLetter BY <2>2, OffersAssumption
  <2>5. \A b \in Openings : offer'[b].letter # counter[e].to.letter BY <2>2, <2>4
  <2>6. \A g \in Desks : counter'[g].kind = "letter" =>
           counter[g].kind = "letter" /\ counter'[g].to = counter[g].to
           /\ counter'[g].offer = counter[g].offer
    BY <1>1, <1>2
  <2> QED BY <2>2, <2>3, <2>5, <2>6
<1>5. UploadInv' BY <1>4 DEF UploadInv
<1> QED BY <1>3, <1>5

LEMMA CommitsNewOffer ==
  ASSUME OffersInv, NEW d \in Desks, CommitOffer(d)
  PROVE  OfferStep
<1> DEFINE p == counter[d]
<1>0. /\ offer \in [Openings -> OfferRows] /\ counter \in [Desks -> Counters]
      /\ student \in StudentNow /\ files \subseteq Letters
  BY DEF OffersInv, OfferTypeOK
<1>1. p.kind = "create" /\ Answers(d) /\ files' = files BY DEF CommitOffer
<1>2. counter' \in [Desks -> Counters] BY <1>0, <1>1, AfterAnswer
<1>3. p.at \in Openings /\ p.to.letter = NoLetter /\ p.toStudent.placed = p.student.placed
  BY <1>1 DEF OffersInv, LettersInv, PlacementInv
<1>4. /\ p.to \in OfferRows /\ p.student \in StudentNow /\ p.toStudent \in StudentNow
  BY <1>0 DEF Counters
<1>5. \/ offer' = offer /\ student' = student
      \/ /\ offer[p.at].status = "none" /\ offer' = [offer EXCEPT ![p.at] = p.to]
         /\ student' = Written(p.student, p.toStudent, student)
  BY DEF CommitOffer
<1>6. offer' \in [Openings -> OfferRows] BY <1>0, <1>4, <1>5
<1>7. student' \in StudentNow /\ student'.placed = student.placed
  BY <1>0, <1>3, <1>4, <1>5, WrittenStudent
<1>8. \A a \in Openings : offer'[a].letter = offer[a].letter \/ offer'[a].letter = NoLetter
  BY <1>0, <1>3, <1>5
<1>9. UploadInv' /\ LettersInv' /\ PlacementInv'
  BY <1>1, <1>8, AfterAnswerLetters, AfterAnswerPlacement
<1>10. LetterReadable' BY <1>1, <1>8 DEF OffersInv, LetterReadable
<1>11. OffersInv' BY <1>0, <1>1, <1>2, <1>6, <1>7, <1>9, <1>10 DEF OffersInv, OfferTypeOK
<1>12. (\E a \in Openings : offer[a].status = "none" /\ offer'[a].status \in Accepts)
       \/ Placed' = Placed
  <2>1. CASE offer' = offer BY <2>1 DEF Placed, WithStatus
  <2>2. CASE offer[p.at].status = "none" /\ offer' = [offer EXCEPT ![p.at] = p.to]
    <3>1. CASE p.to.status \in Accepts BY <1>0, <1>3, <2>2, <3>1
    <3>2. CASE p.to.status \notin Accepts
      <4>1. \A a \in Openings : offer'[a].status \in Accepts <=> offer[a].status \in Accepts
        BY <1>0, <1>3, <2>2, <3>2 DEF Accepts
      <4> QED BY <4>1 DEF Placed, WithStatus
    <3> QED BY <3>1, <3>2
  <2> QED BY <1>5, <2>1, <2>2
<1> QED BY <1>7, <1>11, <1>12 DEF OfferStep, Drifted

LEMMA CommitsUpdate ==
  ASSUME OffersInv, NEW d \in Desks, CommitUpdate(d)
  PROVE  OfferStep
<1> DEFINE p == counter[d]
<1>0. /\ offer \in [Openings -> OfferRows] /\ counter \in [Desks -> Counters]
      /\ student \in StudentNow /\ files \subseteq Letters
  BY DEF OffersInv, OfferTypeOK
<1>1. /\ p.kind = "update" /\ Answers(d) /\ files' = files
      /\ offer' = [offer EXCEPT ![p.at] = Written(p.offer, p.to, @)]
      /\ student' = Written(p.student, p.toStudent, student)
  BY DEF CommitUpdate
<1>2. counter' \in [Desks -> Counters] BY <1>0, <1>1, AfterAnswer
<1>3. p.to \in OfferRows /\ p.offer \in OfferRows /\ p.student \in StudentNow
      /\ p.toStudent \in StudentNow /\ p.to.letter = p.offer.letter
  BY <1>0, <1>1 DEF Counters, OffersInv, LettersInv
<1>4. student' \in StudentNow
      /\ student'.placed = IF p.toStudent.placed = p.student.placed THEN student.placed
                           ELSE p.toStudent.placed
  BY <1>0, <1>1, <1>3, WrittenStudent
<1>5. ASSUME NEW a \in Openings
      PROVE  /\ offer'[a] \in OfferRows /\ offer'[a].letter = offer[a].letter
             /\ a # p.at => offer'[a] = offer[a]
             /\ a = p.at => offer'[a].status = IF p.to.status = p.offer.status
                                                THEN offer[a].status ELSE p.to.status
  <2>1. offer'[a] = IF a = p.at THEN Written(p.offer, p.to, offer[a]) ELSE offer[a]
    BY <1>0, <1>1
  <2>2. offer[a] \in OfferRows BY <1>0
  <2>3. /\ Written(p.offer, p.to, offer[a]) \in OfferRows
        /\ Written(p.offer, p.to, offer[a]).letter = offer[a].letter
        /\ Written(p.offer, p.to, offer[a]).status = IF p.to.status = p.offer.status
                                                THEN offer[a].status ELSE p.to.status
    BY <1>3, <2>2, WrittenOffer
  <2> QED BY <2>1, <2>2, <2>3
<1>6. offer' \in [Openings -> OfferRows] BY <1>0, <1>1, <1>5
<1>7. UploadInv' /\ LettersInv' /\ PlacementInv'
  BY <1>1, <1>5, AfterAnswerLetters, AfterAnswerPlacement
<1>8. LetterReadable' BY <1>1, <1>5 DEF OffersInv, LetterReadable
<1>9. OffersInv' BY <1>0, <1>1, <1>2, <1>4, <1>6, <1>7, <1>8 DEF OffersInv, OfferTypeOK
<1>10. ASSUME ~p.stale PROVE ~Drifted'
  <2>1. /\ p.at \in Openings /\ p.offer = offer[p.at] /\ p.student = student
        /\ p.toStudent.placed <=> PlacedWith(p.at, p.to.status)
    BY <1>1, <1>10 DEF OffersInv, PlacementInv, UpdateFits
  <2>2. student'.placed = p.toStudent.placed BY <1>4, <2>1
  <2>3. offer'[p.at].status = p.to.status BY <1>5, <2>1
  <2>4. Placed' <=> PlacedWith(p.at, p.to.status)
    BY <1>5, <2>1, <2>3 DEF Placed, PlacedWith, WithStatus
  <2>5. student'.placed \in BOOLEAN BY <1>4 DEF StudentNow
  <2>6. Placed' \in BOOLEAN BY DEF Placed
  <2>7. student'.placed <=> Placed' BY <2>1, <2>2, <2>4
  <2> QED BY <2>5, <2>6, <2>7 DEF Drifted
<1>11. p.stale => OvertakenCommit(counter, counter') BY <1>0, <1>1, AfterAnswer
<1> QED BY <1>9, <1>10, <1>11 DEF OfferStep

LEMMA CommitsUpload ==
  ASSUME OffersInv, NEW d \in Desks, CommitLetter(d)
  PROVE  OfferStep
<1> DEFINE p == counter[d]
           f == p.to.letter
           old == p.offer.letter
<1>0. /\ offer \in [Openings -> OfferRows] /\ counter \in [Desks -> Counters]
      /\ student \in StudentNow /\ files \subseteq Letters
  BY DEF OffersInv, OfferTypeOK
<1>1. /\ p.kind = "letter" /\ Answers(d) /\ student' = student
      /\ files' = (files \ {old}) \union {f}
      /\ offer' = [offer EXCEPT ![p.at].letter = f]
  BY DEF CommitLetter
<1>2. /\ counter' \in [Desks -> Counters] /\ counter'[d].kind = "free"
      /\ \A e \in Desks \ {d} :
            /\ counter'[e].kind = counter[e].kind /\ counter'[e].at = counter[e].at
            /\ counter'[e].offer = counter[e].offer /\ counter'[e].to = counter[e].to
  BY <1>0, <1>1, AfterAnswer
<1>3. /\ p.at \in Openings /\ f \in Letters /\ f # NoLetter
      /\ \A a \in Openings : offer[a].letter # f
      /\ \A a \in Openings \ {p.at} : offer[a].letter # NoLetter => offer[a].letter # old
  BY <1>1, OffersAssumption DEF OffersInv, UploadInv
<1>4. ASSUME NEW a \in Openings
      PROVE  /\ offer'[a] \in OfferRows /\ offer'[a].status = offer[a].status
             /\ offer'[a].letter = IF a = p.at THEN f ELSE offer[a].letter
  <2>1. offer[a] \in OfferRows BY <1>0
  <2>2. offer'[a] = IF a = p.at THEN [offer[a] EXCEPT !.letter = f] ELSE offer[a]
    BY <1>0, <1>1
  <2> QED BY <1>3, <2>1, <2>2 DEF OfferRows
<1>5. offer' \in [Openings -> OfferRows] BY <1>0, <1>1, <1>4
<1>6. files' \subseteq Letters BY <1>0, <1>1, <1>3
<1>7. LetterReadable' BY <1>1, <1>3, <1>4 DEF OffersInv, LetterReadable
<1>8. PlacementInv' BY <1>1, AfterAnswerPlacement
<1> HIDE DEF f, old
<1>9. LettersInv' BY <1>2, <1>3, <1>4 DEF OffersInv, LettersInv
<1>10. ASSUME NEW e \in Desks, counter'[e].kind = "letter"
       PROVE  /\ counter'[e].at \in Openings
              /\ counter'[e].to.letter \in Letters
              /\ \A b \in Openings : offer'[b].letter # counter'[e].to.letter
              /\ \A b \in Openings \ {counter'[e].at} :
                    offer'[b].letter # NoLetter => offer'[b].letter # counter'[e].offer.letter
              /\ \A g \in Desks : counter'[g].kind = "letter" =>
                    /\ counter'[g].offer.letter # counter'[e].to.letter
                    /\ g # e => counter'[g].to.letter # counter'[e].to.letter
  <2>1. e # d /\ counter[e].kind = "letter" BY <1>2, <1>10
  <2>2. /\ counter[e].at \in Openings
        /\ counter[e].to.letter \in Letters
        /\ \A b \in Openings : offer[b].letter # counter[e].to.letter
        /\ \A b \in Openings \ {counter[e].at} :
              offer[b].letter # NoLetter => offer[b].letter # counter[e].offer.letter
        /\ \A g \in Desks : counter[g].kind = "letter" =>
              /\ counter[g].offer.letter # counter[e].to.letter
              /\ g # e => counter[g].to.letter # counter[e].to.letter
    BY <2>1 DEF OffersInv, UploadInv
  <2>3. counter'[e].at = counter[e].at /\ counter'[e].offer = counter[e].offer
        /\ counter'[e].to = counter[e].to
    BY <1>2, <2>1
  <2>4. f # counter[e].to.letter BY <1>1, <2>1, <2>2 DEF f
  <2>5. f # counter[e].offer.letter
    BY <1>1, <2>1 DEF f, OffersInv, UploadInv
  <2>6. \A g \in Desks : counter'[g].kind = "letter" =>
           counter[g].kind = "letter" /\ counter'[g].to = counter[g].to
           /\ counter'[g].offer = counter[g].offer
    BY <1>2
  <2>7. \A b \in Openings : offer'[b].letter # counter[e].to.letter BY <1>4, <2>2, <2>4
  <2>8. \A b \in Openings \ {counter[e].at} :
           offer'[b].letter # NoLetter => offer'[b].letter # counter[e].offer.letter
    BY <1>4, <2>2, <2>5
  <2> QED BY <2>2, <2>3, <2>6, <2>7, <2>8
<1>11. UploadInv' BY <1>10 DEF UploadInv
<1>12. OffersInv' BY <1>0, <1>1, <1>2, <1>5, <1>6, <1>7, <1>8, <1>9, <1>11 DEF OffersInv, OfferTypeOK
<1>13. Placed' = Placed BY <1>4 DEF Placed, WithStatus
<1> QED BY <1>1, <1>12, <1>13 DEF OfferStep, Drifted

LEMMA OffersStep ==
  ASSUME OffersInv, [OffersNext]_offersVars
  PROVE  OfferStep
<1>0. /\ offer \in [Openings -> OfferRows] /\ counter \in [Desks -> Counters]
      /\ student \in StudentNow /\ files \subseteq Letters
  BY DEF OffersInv, OfferTypeOK
<1>1. ASSUME NEW d \in Desks, NEW a \in Openings, BeginApplication(d, a) PROVE OfferStep
  BY <1>1, BeginsOfferRequest DEF OfferStatuses
<1>2. ASSUME NEW d \in Desks, NEW a \in Openings, NEW status \in OfferStatuses,
             BeginOffer(d, a, status) \/ BeginUpdate(d, a, status)
      PROVE  OfferStep
  BY <1>2, BeginsOfferRequest
<1>3. ASSUME NEW d \in Desks, NEW a \in Openings, NEW f \in Letters, BeginLetter(d, a, f)
      PROVE  OfferStep
  BY <1>3, BeginsUpload
<1>4. ASSUME NEW d \in Desks, CommitApplication(d) PROVE OfferStep
  <2>1. Answers(d) /\ UNCHANGED <<offer, student, files>> BY <1>4 DEF CommitApplication
  <2>2. UploadInv' /\ LettersInv' /\ PlacementInv'
    BY <2>1, AfterAnswerLetters, AfterAnswerPlacement
  <2>3. counter' \in [Desks -> Counters] BY <1>0, <2>1, AfterAnswer
  <2>4. OffersInv' BY <1>0, <2>1, <2>2, <2>3 DEF OffersInv, OfferTypeOK, LetterReadable
  <2> QED BY <2>1, <2>4, SameOffersNoDrift
<1>5. ASSUME NEW d \in Desks, CommitOffer(d) PROVE OfferStep BY <1>5, CommitsNewOffer
<1>6. ASSUME NEW d \in Desks, CommitUpdate(d) PROVE OfferStep BY <1>6, CommitsUpdate
<1>7. ASSUME NEW d \in Desks, CommitLetter(d) PROVE OfferStep BY <1>7, CommitsUpload
<1>8. ASSUME UNCHANGED <<offer, student, files>>, counter' \in [Desks -> Counters],
             \A e \in Desks : counter'[e] = counter[e] \/ counter'[e].kind = "free"
      PROVE  OfferStep
  <2>1. OfferTypeOK' /\ LetterReadable' BY <1>0, <1>8 DEF OffersInv, OfferTypeOK, LetterReadable
  <2>2. UploadInv' BY <1>8 DEF OffersInv, UploadInv
  <2>3. LettersInv' BY <1>8 DEF OffersInv, LettersInv
  <2>4. \A a \in Openings, status \in OfferStatuses \union {"none"} :
           PlacedWith(a, status)' <=> PlacedWith(a, status)
    BY <1>8 DEF PlacedWith, WithStatus
  <2>5. ASSUME NEW e \in Desks PROVE counter'[e].stale \/ UpdateFits(e)'
    <3>1. CASE counter'[e].kind = "free" BY <3>1 DEF UpdateFits
    <3>2. CASE counter'[e] = counter[e]
      BY <1>0, <1>8, <2>4, <3>2 DEF OffersInv, PlacementInv, UpdateFits, Counters, OfferRows
    <3> QED BY <1>8, <3>1, <3>2
  <2>6. PlacementInv' BY <1>8, <2>5 DEF OffersInv, PlacementInv
  <2>7. OffersInv' BY <2>1, <2>2, <2>3, <2>6 DEF OffersInv
  <2> QED BY <1>8, <2>7, SameOffersNoDrift
<1>9. ASSUME NEW d \in Desks, Abandon(d) PROVE OfferStep
  BY <1>0, <1>8, <1>9, FreeCounterTyped DEF Abandon
<1>10. CASE UNCHANGED offersVars BY <1>0, <1>8, <1>10 DEF offersVars
<1> QED BY <1>1, <1>2, <1>3, <1>4, <1>5, <1>6, <1>7, <1>9, <1>10
        DEF OffersNext, Decisions, OfferStatuses

\* However many offers, decisions and letters are handled at once (routers/enterprise.py
\* update_offer, create_offer, upload_offer_letter), the letter an offer names can be read, and the
\* placement status parts from the offers only by a request that was overtaken or by an offer
\* that is made as accepted.
THEOREM OffersStayAgreed == OffersInit /\ [][OffersNext]_offersVars => OffersAgree
<1>1. OffersInv /\ [OffersNext]_offersVars => OffersInv' BY OffersStep DEF OfferStep
<1>2. OffersInv => LetterReadable BY DEF OffersInv
<1>3. OffersInv /\ [OffersNext]_offersVars =>
        [Drifted' => \/ Drifted
                     \/ OvertakenCommit(counter, counter')
                     \/ \E a \in Openings : offer[a].status = "none" /\ offer'[a].status \in Accepts
        ]_offersVars
  BY OffersStep DEF OfferStep
<1> QED BY <1>1, <1>2, <1>3, OffersInvInit, PTL DEF OffersAgree, PlacementFollowsOffers

-----------------------------------------------------------------------------
(* The market evidence under a roadmap.                                    *)

Configs == [keys : 0 .. KeyLimit, gemini : BOOLEAN, gateway : BOOLEAN, public : BOOLEAN]

AskedOpenAI(n) == \A i \in 1 .. n : <<"openai", i>> \in tried
AskedGemini(n) == \A i \in 1 .. n : <<"gemini", i>> \in tried

\* Calls are made with what is configured.
TriedInv ==
  \A n \in Nat : /\ <<"openai", n>> \in tried => n \in 1 .. config.keys
                 /\ <<"gemini", n>> \in tried => n \in 1 .. GeminiModels

\* Keys and models that are spent are before the present one.
SpentInv ==
  /\ at.stage = "start" => spent = {}
  /\ at.stage = "openai" => \A k, m \in Nat :
       <<k, m>> \in spent => k < at.key \/ (k = at.key /\ m \in 1 .. at.model - 1)

\* Every source that comes before a stage was asked when the search is there.
BeforeOpenAI == at.key \in 1 .. config.keys /\ at.model \in 1 .. Models /\ AskedOpenAI(at.key - 1)
BeforeGemini ==
  AskedOpenAI(config.keys) /\ at.model \in 1 .. GeminiModels /\ AskedGemini(at.model - 1)
BeforeGateway ==
  /\ AskedOpenAI(config.keys) /\ (config.gemini => AskedGemini(GeminiModels))
  /\ at.model \in Nat /\ (at.model = 1 \/ <<"gateway", 1>> \in tried)
AllAsked ==
  /\ AskedOpenAI(config.keys) /\ (config.gemini => AskedGemini(GeminiModels))
  /\ config.gateway => <<"gateway", 1>> \in tried

OrderInv ==
  /\ at.stage = "openai" => BeforeOpenAI
  /\ at.stage = "gemini" => BeforeGemini
  /\ at.stage = "memo" => BeforeGemini /\ <<"gemini", at.model>> \in tried
  /\ at.stage = "gateway" => BeforeGateway
  /\ at.stage = "public" => config.public \/ AllAsked
  /\ (answer.status = 503 \/ answer.origin = "public") => config.public \/ AllAsked

\* A plan of four phases is of the length asked for, within limits, and at most two days more.
PlanLength(n, days) ==
  LET total == AtLeast(42, AtMost(n, 365)) IN days \in total .. total + 2

AnswerInv ==
  /\ at.stage # "ended" => answer = NoAnswer
  /\ answer.status = 200 =>
       /\ answer.sources >= IF answer.origin = "public" THEN MinMatched ELSE 1
       /\ answer.origin = "public" /\ answer.wanted > 0 => PlanLength(answer.wanted, answer.days)

SearchInv ==
  /\ config \in Configs /\ at \in Position
  /\ TriedInv /\ SpentInv /\ OrderInv /\ AnswerInv

LEMMA SearchSizes ==
  /\ KeyLimit \in Nat /\ Models \in Nat /\ GeminiModels \in Nat /\ GatewayModels \in Nat
  /\ MinMatched \in Nat /\ MinSkills \in Nat
  /\ KeyLimit > 0 /\ Models > 0 /\ GeminiModels > 0 /\ GatewayModels > 0 /\ MinMatched > 0
BY SearchAssumption

LEMMA SearchInvInit == SearchInit => SearchInv
<1> SUFFICES ASSUME SearchInit PROVE SearchInv OBVIOUS
<1>1. config \in Configs /\ at = Pos("start") /\ tried = {} /\ spent = {} /\ answer = NoAnswer
  BY DEF SearchInit, Configs
<1>2. at \in Position /\ at.stage = "start" BY <1>1 DEF Pos, Position, Stages
<1>3. answer.status = 0 /\ answer.origin = "none" BY <1>1 DEF NoAnswer
<1>4. TriedInv /\ SpentInv BY <1>1 DEF TriedInv, SpentInv
<1>5. OrderInv BY <1>2, <1>3 DEF OrderInv
<1>6. AnswerInv BY <1>1, <1>3 DEF AnswerInv
<1> QED BY <1>1, <1>2, <1>4, <1>5, <1>6 DEF SearchInv

\* Rounded percentages, and the length of a plan made of them.
LEMMA Percents ==
  ASSUME NEW n \in Nat
  PROVE  /\ PercentOf(n, 24) \in Nat /\ 100 * PercentOf(n, 24) <= 24 * n + 50
         /\ PercentOf(n, 32) \in Nat /\ 100 * PercentOf(n, 32) <= 32 * n + 50
BY SMT DEF PercentOf

LEMMA PlanIsAsLong ==
  ASSUME NEW n \in Nat, n > 0
  PROVE  PlanLength(n, PhaseDays(n)[1] + PhaseDays(n)[2] + PhaseDays(n)[3] + PhaseDays(n)[4])
<1> DEFINE total == AtLeast(42, AtMost(n, 365))
           first == AtLeast(10, PercentOf(total, 24))
           third == AtLeast(10, PercentOf(total, 32))
           used == first + first + third
           last == IF total < used + 10 THEN 10 ELSE total - used
<1>1. total \in Nat /\ total >= 42 BY DEF AtLeast, AtMost
<1>2. PhaseDays(n) = <<first, first, third, last>> BY DEF PhaseDays
<1> HIDE DEF total
<1>3. /\ first \in Nat /\ (first = 10 \/ 100 * first <= 24 * total + 50)
      /\ third \in Nat /\ (third = 10 \/ 100 * third <= 32 * total + 50)
  BY <1>1, Percents DEF AtLeast
<1> HIDE DEF first, third
<1>4. used + 10 <= total + 2 BY <1>1, <1>3
<1>5. used + last \in total .. total + 2 BY <1>1, <1>3, <1>4
<1>6. PhaseDays(n)[1] + PhaseDays(n)[2] + PhaseDays(n)[3] + PhaseDays(n)[4] = used + last
  BY <1>1, <1>2, <1>3
<1> QED BY <1>5, <1>6 DEF PlanLength, total

\* The search goes on with a stage, its first key and its first model.
LEMMA Fresh ==
  ASSUME NEW stage \in Stages
  PROVE  /\ Pos(stage) \in Position /\ Pos(stage).stage = stage /\ Pos(stage).key = 1
         /\ Pos(stage).model = 1
BY DEF Pos, Position

\* What was asked stays asked, and a call adds what it asks.
LEMMA Asked ==
  ASSUME TriedInv, config \in Configs, NEW stage \in Stages, NEW n \in Nat,
         tried' = tried \union {<<stage, n>>}, config' = config,
         stage = "openai" => n \in 1 .. config.keys,
         stage = "gemini" => n \in 1 .. GeminiModels
  PROVE  /\ TriedInv'
         /\ \A k \in Nat : /\ AskedOpenAI(k) => AskedOpenAI(k)'
                           /\ AskedGemini(k) => AskedGemini(k)'
         /\ stage = "openai" /\ AskedOpenAI(n - 1) => AskedOpenAI(n)'
         /\ stage = "gemini" /\ AskedGemini(n - 1) => AskedGemini(n)'
<1>1. TriedInv' BY DEF TriedInv
<1>2. \A k \in Nat : (AskedOpenAI(k) => AskedOpenAI(k)') /\ (AskedGemini(k) => AskedGemini(k)')
  BY DEF AskedOpenAI, AskedGemini
<1>3. \A i \in 1 .. n : i = n \/ i \in 1 .. n - 1 OBVIOUS
<1>4. stage = "openai" /\ AskedOpenAI(n - 1) => AskedOpenAI(n)' BY <1>3 DEF AskedOpenAI
<1>5. stage = "gemini" /\ AskedGemini(n - 1) => AskedGemini(n)' BY <1>3 DEF AskedGemini
<1> QED BY <1>1, <1>2, <1>4, <1>5

\* After the last key of OpenAI, or without one.
LEMMA OpenAIGivenUp ==
  ASSUME SearchInv, at' = AfterOpenAI, UNCHANGED <<config, answer>>, at.stage # "ended",
         NEW k \in Nat, config.keys = k, AskedOpenAI(k)', TriedInv'
  PROVE  SearchInv'
<1>0. config \in Configs /\ answer = NoAnswer BY DEF SearchInv, AnswerInv
<1>1. answer.status = 0 /\ answer.origin = "none" BY <1>0 DEF NoAnswer
<1>2. PICK stage \in {"gemini", "gateway", "public"} :
        /\ at' = Pos(stage)
        /\ stage = "gemini" <=> config.gemini
        /\ stage = "public" => ~config.gateway
  BY <1>0 DEF AfterOpenAI, AfterGemini, Configs
<1>3. stage \in Stages BY DEF Stages
<1>4. /\ at' \in Position /\ at'.stage = stage /\ at'.key = 1 /\ at'.model = 1
  BY <1>2, <1>3, Fresh
<1>5. SpentInv' BY <1>4 DEF SpentInv
<1>6. AnswerInv' BY <1>0, <1>1, <1>4 DEF AnswerInv
<1>7. AskedGemini(0)' BY DEF AskedGemini
<1>8. AskedOpenAI(config.keys)' BY DEF AskedOpenAI
<1>9. AskedGemini(at.model - 1)' BY <1>4 DEF AskedGemini
<1>10. OrderInv'
  BY <1>1, <1>2, <1>4, <1>8, <1>9, SearchSizes
     DEF OrderInv, BeforeGemini, BeforeGateway, AllAsked
<1> QED BY <1>0, <1>4, <1>5, <1>6, <1>10 DEF SearchInv

\* A call with a key of OpenAI.
LEMMA AskedWithKey ==
  ASSUME TriedInv, config \in Configs, at \in Position, BeforeOpenAI, at.stage = "openai",
         NEW k \in Nat, at.key = k, Ask(at.key), config' = config
  PROVE  TriedInv' /\ AskedOpenAI(k)' /\ AskedOpenAI(k - 1)'
<1>1. k - 1 \in Nat /\ k \in 1 .. config.keys /\ AskedOpenAI(k - 1)
  BY SearchSizes DEF BeforeOpenAI, Configs
<1>2. "openai" \in Stages BY DEF Stages
<1>3. tried' = tried \union {<<"openai", k>>} BY DEF Ask
<1>4. /\ TriedInv' /\ \A n \in Nat : AskedOpenAI(n) => AskedOpenAI(n)'
      /\ AskedOpenAI(k - 1) => AskedOpenAI(k)'
  BY <1>1, <1>2, <1>3, Asked
<1> QED BY <1>1, <1>4

\* The next key, or the next model under the same key.
LEMMA KeyAndModel ==
  ASSUME NEW k \in Nat, NEW n \in Nat
  PROVE  LET p == [Pos("openai") EXCEPT !.key = k, !.model = n] IN
         p \in Position /\ p.stage = "openai" /\ p.key = k /\ p.model = n
BY DEF Pos, Position, Stages

LEMMA OnlyKey ==
  ASSUME NEW k \in Nat
  PROVE  LET p == [Pos("openai") EXCEPT !.key = k] IN
         p \in Position /\ p.stage = "openai" /\ p.key = k /\ p.model = 1
BY DEF Pos, Position, Stages

LEMMA KeyGivenUp ==
  ASSUME SearchInv, at.stage = "openai", Ask(at.key), at' = NextKey, UNCHANGED <<config, answer>>,
         spent' \subseteq spent \union ({at.key} \X Nat), NEW key \in Nat, at.key = key
  PROVE  SearchInv'
<1>0. /\ config \in Configs /\ answer = NoAnswer /\ BeforeOpenAI /\ TriedInv /\ SpentInv
      /\ at \in Position /\ at.key \in Nat /\ config.keys \in Nat
  BY SearchSizes DEF SearchInv, AnswerInv, OrderInv, Configs, Position
<1>1. answer.status = 0 /\ answer.origin = "none" BY <1>0 DEF NoAnswer
<1>2. TriedInv' /\ AskedOpenAI(key)'
  BY <1>0, AskedWithKey
<1>3. CASE at.key < config.keys
  <2>1. at' = [Pos("openai") EXCEPT !.key = at.key + 1] BY <1>3 DEF NextKey
  <2>2. /\ at' \in Position /\ at'.stage = "openai" /\ at'.key = at.key + 1 /\ at'.model = 1
    <3>1. at.key + 1 \in Nat BY <1>0
    <3> QED BY <2>1, <3>1, OnlyKey
  <2>3. SpentInv'
    <3> SUFFICES ASSUME NEW k \in Nat, NEW n \in Nat, <<k, n>> \in spent' PROVE k < at.key + 1
      BY <2>2 DEF SpentInv
    <3>1. <<k, n>> \in spent \/ k = at.key OBVIOUS
    <3>2. <<k, n>> \in spent => k < at.key \/ k = at.key BY <1>0 DEF SpentInv
    <3> QED BY <1>0, <3>1, <3>2
  <2>4. at'.key - 1 = key BY <1>0, <2>2
  <2>5. AskedOpenAI(at.key - 1)' BY <1>2, <2>4 DEF AskedOpenAI
  <2>6. at'.key \in 1 .. config'.keys /\ at'.model \in 1 .. Models
    BY <1>0, <1>3, <2>2, SearchSizes
  <2>7. OrderInv' BY <1>1, <2>2, <2>5, <2>6 DEF OrderInv, BeforeOpenAI
  <2>8. AnswerInv' BY <1>0, <1>1 DEF AnswerInv
  <2> QED BY <1>0, <1>2, <2>2, <2>3, <2>7, <2>8 DEF SearchInv
<1>4. CASE ~(at.key < config.keys)
  <2>1. at' = AfterOpenAI BY <1>4 DEF NextKey
  <2>2. config.keys = key BY <1>0, <1>4 DEF BeforeOpenAI
  <2> QED BY <1>2, <2>1, <2>2, OpenAIGivenUp
<1> QED BY <1>3, <1>4

LEMMA CallsOpenAI ==
  ASSUME SearchInv, CallOpenAI
  PROVE  SearchInv'
<1>0. /\ config \in Configs /\ answer = NoAnswer /\ BeforeOpenAI /\ TriedInv /\ SpentInv
      /\ at \in Position /\ at.key \in Nat /\ at.model \in Nat /\ config.keys \in Nat
      /\ at.stage = "openai" /\ config' = config /\ Ask(at.key)
  BY SearchSizes DEF SearchInv, AnswerInv, OrderInv, Configs, Position, CallOpenAI
<1>1. answer.status = 0 /\ answer.origin = "none" BY <1>0 DEF NoAnswer
<1> PICK key \in Nat : at.key = key BY <1>0
<1>2. TriedInv' /\ AskedOpenAI(key)' /\ AskedOpenAI(key - 1)'
  BY <1>0, AskedWithKey
<1>3. ASSUME NEW failure \in Failures, at' = After(failure), spent' = spent \union Spends(failure),
             UNCHANGED answer
      PROVE  SearchInv'
  <2>1. CASE at' = NextKey
    <3>1. Spends(failure) \subseteq {at.key} \X Nat
      <4>1. 0 \in Nat /\ Spends(failure) \subseteq {<<at.key, 0>>, <<at.key, at.model>>}
        BY DEF Spends
      <4> QED BY <1>0, <4>1
    <3>2. spent' \subseteq spent \union ({at.key} \X Nat) BY <1>3, <3>1
    <3> QED BY <1>0, <1>3, <2>1, <3>2, KeyGivenUp
  <2>2. CASE at' = NextModel /\ Spends(failure) \subseteq {<<at.key, at.model>>}
    <3>1. CASE at.model < Models
      <4>1. at' = [Pos("openai") EXCEPT !.key = at.key, !.model = at.model + 1]
        BY <2>2, <3>1 DEF NextModel
      <4>2. /\ at' \in Position /\ at'.stage = "openai" /\ at'.key = at.key
            /\ at'.model = at.model + 1
        <5> DEFINE next == at.model + 1
        <5>1. next \in Nat BY <1>0
        <5>2. at' = [Pos("openai") EXCEPT !.key = key, !.model = next] BY <4>1
        <5> HIDE DEF next
        <5>3. at' \in Position /\ at'.stage = "openai" /\ at'.key = key /\ at'.model = next
          <6> DEFINE p == [Pos("openai") EXCEPT !.key = key, !.model = next]
          <6>1. at' = p BY <5>2
          <6>2. p \in Position /\ p.stage = "openai" /\ p.key = key /\ p.model = next
            BY <5>1, KeyAndModel
          <6> HIDE DEF p
          <6> QED BY <6>1, <6>2
        <5> QED BY <1>0, <5>3 DEF next
      <4>3. SpentInv'
        <5> SUFFICES ASSUME NEW k \in Nat, NEW n \in Nat, <<k, n>> \in spent'
                     PROVE  k < at.key \/ (k = at.key /\ n \in 1 .. (at.model + 1) - 1)
          BY <4>2 DEF SpentInv
        <5>1. <<k, n>> \in spent \/ (k = at.key /\ n = at.model) BY <1>3, <2>2
        <5>2. <<k, n>> \in spent => k < at.key \/ (k = at.key /\ n \in 1 .. at.model - 1)
          BY <1>0 DEF SpentInv
        <5>3. at.model >= 1 BY <1>0 DEF BeforeOpenAI
        <5> QED BY <1>0, <5>1, <5>2, <5>3
      <4>4. AskedOpenAI(at.key - 1)' BY <1>2, <4>2 DEF AskedOpenAI
      <4>5. at'.key \in 1 .. config'.keys /\ at'.model \in 1 .. Models
        BY <1>0, <3>1, <4>2, SearchSizes DEF BeforeOpenAI
      <4>6. OrderInv' BY <1>1, <1>3, <4>2, <4>4, <4>5 DEF OrderInv, BeforeOpenAI
      <4>7. AnswerInv' BY <1>0, <1>1, <1>3 DEF AnswerInv
      <4> QED BY <1>0, <1>2, <4>2, <4>3, <4>6, <4>7 DEF SearchInv
    <3>2. CASE ~(at.model < Models)
      <4>1. at' = NextKey BY <2>2, <3>2 DEF NextModel
      <4> QED BY <2>1, <4>1
    <3> QED BY <3>1, <3>2
  <2>3. CASE /\ at' \in {Again, [at EXCEPT !.structured = FALSE, !.attempt = 1]}
             /\ Spends(failure) = {}
    <3>1. at' \in Position /\ at'.stage = "openai" /\ at'.key = at.key /\ at'.model = at.model
      <4>1. \/ at' = [at EXCEPT !.attempt = 2]
            \/ at' = [at EXCEPT !.structured = FALSE, !.attempt = 1]
        BY <2>3 DEF Again
      <4>2. 1 \in Nat /\ 2 \in Nat /\ FALSE \in BOOLEAN OBVIOUS
      <4>3. CASE at' = [at EXCEPT !.attempt = 2] BY <1>0, <4>2, <4>3 DEF Position
      <4>4. CASE at' = [at EXCEPT !.structured = FALSE, !.attempt = 1]
        BY <1>0, <4>2, <4>4 DEF Position
      <4> QED BY <4>1, <4>3, <4>4
    <3>2. SpentInv' BY <1>0, <1>3, <2>3, <3>1 DEF SpentInv
    <3>3. AskedOpenAI(at.key - 1)' BY <1>2, <3>1 DEF AskedOpenAI
    <3>4. at'.key \in 1 .. config'.keys /\ at'.model \in 1 .. Models
      BY <1>0, <3>1 DEF BeforeOpenAI
    <3>5. OrderInv' BY <1>1, <1>3, <3>1, <3>3, <3>4 DEF OrderInv, BeforeOpenAI
    <3>6. AnswerInv' BY <1>0, <1>1, <1>3 DEF AnswerInv
    <3> QED BY <1>0, <1>2, <3>1, <3>2, <3>5, <3>6 DEF SearchInv
  <2>4. CASE failure \in {"refused key", "network"}
    BY <1>3, <2>1, <2>4 DEF After
  <2>5. CASE failure = "busy" BY <1>3, <2>2, <2>3, <2>5 DEF After, Spends
  <2>6. CASE failure = "quota" BY <1>3, <2>2, <2>6 DEF After, Spends
  <2>7. CASE failure = "server" BY <1>3, <2>1, <2>3, <2>7 DEF After, Spends
  <2>8. CASE failure = "other" BY <1>3, <2>2, <2>3, <2>8 DEF After, Spends
  <2> QED BY <2>4, <2>5, <2>6, <2>7, <2>8 DEF Failures
<1>4. ASSUME NEW phases \in BOOLEAN, at' = Pos("ended"), Answered("openai", phases)
      PROVE  SearchInv'
  <2>1. at' \in Position /\ at'.stage = "ended" BY <1>4, Fresh DEF Stages
  <2>2. /\ answer'.status \in {200, 502} /\ answer'.origin = "openai" /\ answer'.sources = 1
    BY <1>4 DEF Answered
  <2>3. OrderInv' /\ SpentInv' /\ AnswerInv'
    BY <2>1, <2>2 DEF OrderInv, SpentInv, AnswerInv
  <2> QED BY <1>0, <1>2, <2>1, <2>3 DEF SearchInv
<1> QED BY <1>3, <1>4 DEF CallOpenAI

\* A call of Gemini, for research or for the form.
LEMMA CallsGemini ==
  ASSUME SearchInv, CallGemini
  PROVE  SearchInv'
<1>0. /\ config \in Configs /\ answer = NoAnswer /\ BeforeGemini /\ TriedInv
      /\ at \in Position /\ at.model \in Nat /\ config.keys \in Nat
      /\ at.stage \in {"gemini", "memo"} /\ config' = config /\ Ask(at.model)
      /\ (at.stage = "memo" => <<"gemini", at.model>> \in tried)
  BY SearchSizes DEF SearchInv, AnswerInv, OrderInv, Configs, Position, CallGemini
<1>1. answer.status = 0 /\ answer.origin = "none" BY <1>0 DEF NoAnswer
<1> PICK model \in Nat : at.model = model BY <1>0
<1> PICK keys \in Nat : config.keys = keys BY <1>0
<1>2. /\ model \in 1 .. GeminiModels /\ model - 1 \in Nat
      /\ AskedOpenAI(keys) /\ AskedGemini(model - 1)
  BY <1>0, SearchSizes DEF BeforeGemini
<1>3. TriedInv' /\ AskedOpenAI(keys)' /\ AskedGemini(model)' /\ AskedGemini(model - 1)'
  <2>1. tried' = tried \union {<<at.stage, model>>} BY <1>0 DEF Ask
  <2>2. at.stage \in Stages /\ at.stage # "openai" BY <1>0 DEF Stages
  <2>3. TriedInv' BY <1>0, <1>2, <2>1, <2>2 DEF TriedInv
  <2>4. tried \subseteq tried' BY <2>1
  <2>5. AskedOpenAI(keys)' /\ AskedGemini(model - 1)' BY <1>2, <2>4 DEF AskedOpenAI, AskedGemini
  <2>6. <<"gemini", model>> \in tried' BY <1>0, <2>1, <2>4
  <2>7. \A i \in 1 .. model : i = model \/ i \in 1 .. model - 1 OBVIOUS
  <2>8. AskedGemini(model)' BY <2>5, <2>6, <2>7 DEF AskedGemini
  <2> QED BY <2>3, <2>5, <2>8
<1>4. AskedOpenAI(config.keys)' BY <1>0, <1>3 DEF AskedOpenAI
<1>5. CASE at.model < GeminiModels /\ at' = [Pos("gemini") EXCEPT !.model = at.model + 1]
           /\ UNCHANGED answer
  <2>1. at' \in Position /\ at'.stage = "gemini" /\ at'.model = model + 1
    <3> DEFINE next == at.model + 1
    <3>1. next \in Nat BY <1>0
    <3>2. at' = [Pos("gemini") EXCEPT !.model = next] BY <1>5
    <3> HIDE DEF next
    <3>3. at' \in Position /\ at'.stage = "gemini" /\ at'.model = next
      BY <3>1, <3>2 DEF Pos, Position, Stages
    <3>4. next = model + 1 BY DEF next
    <3> QED BY <3>3, <3>4
  <2>2. AskedGemini(at.model - 1)'
    <3>1. at'.model - 1 = model BY <2>1
    <3> QED BY <1>3, <3>1 DEF AskedGemini
  <2>3. at'.model \in 1 .. GeminiModels BY <1>2, <1>5, <2>1, SearchSizes
  <2>4. OrderInv' BY <1>1, <1>4, <1>5, <2>1, <2>2, <2>3 DEF OrderInv, BeforeGemini
  <2>5. SpentInv' /\ AnswerInv' BY <1>0, <1>1, <1>5, <2>1 DEF SpentInv, AnswerInv
  <2> QED BY <1>0, <1>3, <2>1, <2>4, <2>5 DEF SearchInv
<1>6. CASE ~(at.model < GeminiModels) /\ at' = AfterGemini /\ UNCHANGED answer
  <2>1. PICK stage \in {"gateway", "public"} :
          at' = Pos(stage) /\ (stage = "public" => ~config.gateway)
    BY <1>6 DEF AfterGemini
  <2>2. at' \in Position /\ at'.stage = stage /\ at'.model = 1 BY <2>1, Fresh DEF Stages
  <2>3. model = GeminiModels BY <1>2, <1>6, SearchSizes
  <2>4. AskedGemini(GeminiModels)' BY <1>3, <2>3 DEF AskedGemini
  <2>5. OrderInv'
    BY <1>0, <1>1, <1>4, <1>6, <2>1, <2>2, <2>4 DEF OrderInv, BeforeGateway, AllAsked
  <2>6. SpentInv' /\ AnswerInv' BY <1>0, <1>1, <1>6, <2>2 DEF SpentInv, AnswerInv
  <2> QED BY <1>0, <1>3, <2>2, <2>5, <2>6 DEF SearchInv
<1>7. CASE at.stage = "gemini" /\ at' = [at EXCEPT !.stage = "memo"] /\ UNCHANGED answer
  <2>1. at' \in Position /\ at'.stage = "memo" /\ at'.model = model
    BY <1>0, <1>7 DEF Position, Stages
  <2>2. AskedGemini(at.model - 1)' BY <1>3, <2>1 DEF AskedGemini
  <2>3. <<"gemini", at'.model>> \in tried' BY <1>0, <1>7, <2>1 DEF Ask
  <2>4. OrderInv' BY <1>1, <1>2, <1>4, <1>7, <2>1, <2>2, <2>3 DEF OrderInv, BeforeGemini
  <2>5. SpentInv' /\ AnswerInv' BY <1>0, <1>1, <1>7, <2>1 DEF SpentInv, AnswerInv
  <2> QED BY <1>0, <1>3, <2>1, <2>4, <2>5 DEF SearchInv
<1>8. ASSUME NEW phases \in BOOLEAN, at' = Pos("ended"), Answered("gemini", phases)
      PROVE  SearchInv'
  <2>1. at' \in Position /\ at'.stage = "ended" BY <1>8, Fresh DEF Stages
  <2>2. /\ answer'.status \in {200, 502} /\ answer'.origin = "gemini" /\ answer'.sources = 1
    BY <1>8 DEF Answered
  <2>3. OrderInv' /\ SpentInv' /\ AnswerInv'
    BY <2>1, <2>2 DEF OrderInv, SpentInv, AnswerInv
  <2> QED BY <1>0, <1>3, <2>1, <2>3 DEF SearchInv
<1>9. CASE at' = (IF at.model < GeminiModels THEN [Pos("gemini") EXCEPT !.model = at.model + 1]
                  ELSE AfterGemini) /\ UNCHANGED answer
  BY <1>5, <1>6, <1>9
<1> QED BY <1>7, <1>8, <1>9 DEF CallGemini

\* A call of the gateway.
LEMMA CallsGateway ==
  ASSUME SearchInv, CallGateway
  PROVE  SearchInv'
<1>0. /\ config \in Configs /\ answer = NoAnswer /\ BeforeGateway /\ TriedInv
      /\ at \in Position /\ at.model \in Nat /\ config.keys \in Nat
      /\ at.stage = "gateway" /\ config' = config /\ Ask(at.model)
  BY SearchSizes DEF SearchInv, AnswerInv, OrderInv, Configs, Position, CallGateway
<1>1. answer.status = 0 /\ answer.origin = "none" BY <1>0 DEF NoAnswer
<1>2. tried' = tried \union {<<"gateway", at.model>>} BY <1>0 DEF Ask
<1>3. TriedInv' BY <1>0, <1>2 DEF TriedInv
<1>4. /\ AskedOpenAI(config.keys)' /\ (config.gemini => AskedGemini(GeminiModels))'
      /\ <<"gateway", 1>> \in tried'
  BY <1>0, <1>2 DEF BeforeGateway, AskedOpenAI, AskedGemini
<1>5. ASSUME NEW ends \in BOOLEAN, UNCHANGED answer,
             at' = IF at.model < GatewayModels /\ ~ends
                   THEN [Pos("gateway") EXCEPT !.model = at.model + 1] ELSE Pos("public")
      PROVE  SearchInv'
  <2>1. CASE at.model < GatewayModels /\ ~ends
    <3>1. at' \in Position /\ at'.stage = "gateway" /\ at'.model \in Nat
      <4> DEFINE next == at.model + 1
      <4>1. next \in Nat BY <1>0
      <4>2. at' = [Pos("gateway") EXCEPT !.model = next] BY <1>5, <2>1
      <4> HIDE DEF next
      <4> QED BY <4>1, <4>2 DEF Pos, Position, Stages
    <3>2. OrderInv' BY <1>1, <1>4, <1>5, <3>1 DEF OrderInv, BeforeGateway
    <3>3. SpentInv' /\ AnswerInv' BY <1>0, <1>1, <1>5, <3>1 DEF SpentInv, AnswerInv
    <3> QED BY <1>0, <1>3, <3>1, <3>2, <3>3 DEF SearchInv
  <2>2. CASE ~(at.model < GatewayModels /\ ~ends)
    <3>1. at' \in Position /\ at'.stage = "public" BY <1>5, <2>2, Fresh DEF Stages
    <3>2. OrderInv' BY <1>1, <1>4, <1>5, <3>1 DEF OrderInv, AllAsked
    <3>3. SpentInv' /\ AnswerInv' BY <1>0, <1>1, <1>5, <3>1 DEF SpentInv, AnswerInv
    <3> QED BY <1>0, <1>3, <3>1, <3>2, <3>3 DEF SearchInv
  <2> QED BY <2>1, <2>2
<1>6. ASSUME NEW phases \in BOOLEAN, at' = Pos("ended"), Answered("gateway", phases)
      PROVE  SearchInv'
  <2>1. at' \in Position /\ at'.stage = "ended" BY <1>6, Fresh DEF Stages
  <2>2. /\ answer'.status \in {200, 502} /\ answer'.origin = "gateway" /\ answer'.sources = 1
    BY <1>6 DEF Answered
  <2>3. OrderInv' /\ SpentInv' /\ AnswerInv'
    BY <2>1, <2>2 DEF OrderInv, SpentInv, AnswerInv
  <2> QED BY <1>0, <1>3, <2>1, <2>3 DEF SearchInv
<1> QED BY <1>5, <1>6 DEF CallGateway

\* The public feeds give a roadmap with enough sources and a plan of the right length, or
\* the student is told that there is no evidence.
LEMMA AsksFeeds ==
  ASSUME SearchInv, AskFeeds
  PROVE  SearchInv'
<1>0. /\ config \in Configs /\ TriedInv /\ at \in Position /\ at.model \in Nat
      /\ config.keys \in Nat /\ (config.public \/ AllAsked)
      /\ at.stage = "public" /\ config' = config /\ Ask(at.model) /\ at' = Pos("ended")
  BY SearchSizes DEF SearchInv, OrderInv, Configs, Position, AskFeeds
<1>1. tried' = tried \union {<<"public", at.model>>} BY <1>0 DEF Ask
<1>2. TriedInv' BY <1>0, <1>1 DEF TriedInv
<1>3. (config.public \/ AllAsked)' BY <1>0, <1>1 DEF AllAsked, AskedOpenAI, AskedGemini
<1>4. at' \in Position /\ at'.stage = "ended" BY <1>0, Fresh DEF Stages
<1>5. OrderInv' BY <1>3, <1>4 DEF OrderInv
<1>6. SpentInv' BY <1>4 DEF SpentInv
<1>7. ASSUME NEW sources \in Nat, sources >= MinMatched, NEW timeline \in Timelines,
             answer' = [status |-> 200, origin |-> "public", sources |-> sources,
                        wanted |-> timeline,
                        days |-> PhaseDays(timeline)[1] + PhaseDays(timeline)[2]
                                   + PhaseDays(timeline)[3] + PhaseDays(timeline)[4]]
      PROVE  AnswerInv'
  <2>1. timeline \in Nat BY SearchAssumption
  <2> DEFINE days == PhaseDays(timeline)[1] + PhaseDays(timeline)[2]
                       + PhaseDays(timeline)[3] + PhaseDays(timeline)[4]
  <2>2. timeline > 0 => PlanLength(timeline, days) BY <2>1, PlanIsAsLong
  <2> HIDE DEF days
  <2>3. /\ answer'.status = 200 /\ answer'.origin = "public" /\ answer'.sources = sources
        /\ answer'.wanted = timeline /\ answer'.days = days
    BY <1>7 DEF days
  <2>4. answer'.wanted > 0 => PlanLength(answer'.wanted, answer'.days) BY <2>2, <2>3
  <2> QED BY <1>4, <1>7, <2>3, <2>4 DEF AnswerInv, PlanLength
<1>8. ASSUME answer' = [NoAnswer EXCEPT !.status = 503] PROVE AnswerInv'
  <2>1. answer'.status = 503 BY <1>8 DEF NoAnswer
  <2> QED BY <1>4, <2>1 DEF AnswerInv
<1>9. AnswerInv'
  <2> PICK broad \in 0 .. MinMatched + 1, skills \in 0 .. MinSkills :
        \E direct \in 0 .. broad :
          LET matched == Matched(direct, broad) IN
          \E sources \in 0 .. matched :
            IF matched >= MinMatched /\ skills >= MinSkills /\ sources >= MinMatched
            THEN \E timeline \in Timelines :
                   LET days == PhaseDays(timeline) IN
                   answer' = [status |-> 200, origin |-> "public", sources |-> sources,
                              wanted |-> timeline, days |-> days[1] + days[2] + days[3] + days[4]]
            ELSE answer' = [NoAnswer EXCEPT !.status = 503]
    BY DEF AskFeeds
  <2> PICK direct \in 0 .. broad : \E sources \in 0 .. Matched(direct, broad) :
        IF Matched(direct, broad) >= MinMatched /\ skills >= MinSkills /\ sources >= MinMatched
        THEN \E timeline \in Timelines :
               LET days == PhaseDays(timeline) IN
               answer' = [status |-> 200, origin |-> "public", sources |-> sources,
                          wanted |-> timeline, days |-> days[1] + days[2] + days[3] + days[4]]
        ELSE answer' = [NoAnswer EXCEPT !.status = 503]
    OBVIOUS
  <2> PICK sources \in 0 .. Matched(direct, broad) :
        IF Matched(direct, broad) >= MinMatched /\ skills >= MinSkills /\ sources >= MinMatched
        THEN \E timeline \in Timelines :
               LET days == PhaseDays(timeline) IN
               answer' = [status |-> 200, origin |-> "public", sources |-> sources,
                          wanted |-> timeline, days |-> days[1] + days[2] + days[3] + days[4]]
        ELSE answer' = [NoAnswer EXCEPT !.status = 503]
    OBVIOUS
  <2>1. CASE Matched(direct, broad) >= MinMatched /\ skills >= MinSkills /\ sources >= MinMatched
    <3> PICK timeline \in Timelines :
          LET days == PhaseDays(timeline) IN
          answer' = [status |-> 200, origin |-> "public", sources |-> sources,
                     wanted |-> timeline, days |-> days[1] + days[2] + days[3] + days[4]]
      BY <2>1
    <3>1. sources \in Nat OBVIOUS
    <3> QED BY <1>7, <2>1, <3>1
  <2>2. CASE ~(Matched(direct, broad) >= MinMatched /\ skills >= MinSkills /\ sources >= MinMatched)
    <3>1. answer' = [NoAnswer EXCEPT !.status = 503] BY <2>2
    <3> QED BY <1>8, <3>1
  <2> QED BY <2>1, <2>2
<1> QED BY <1>0, <1>2, <1>4, <1>5, <1>6, <1>9 DEF SearchInv

\* The search begins with the first source that is configured.
LEMMA BeginsSearch ==
  ASSUME SearchInv, BeginSearch
  PROVE  SearchInv'
<1>0. /\ config \in Configs /\ answer = NoAnswer /\ TriedInv /\ at \in Position
      /\ config.keys \in Nat /\ at.stage = "start"
      /\ UNCHANGED <<config, tried, spent, answer>>
  BY SearchSizes DEF SearchInv, AnswerInv, Configs, BeginSearch
<1>1. answer.status = 0 /\ answer.origin = "none" BY <1>0 DEF NoAnswer
<1>2. TriedInv' BY <1>0 DEF TriedInv
<1>3. CASE at' = Pos("public") /\ config.public
  <2>1. at' \in Position /\ at'.stage = "public" BY <1>3, Fresh DEF Stages
  <2>2. OrderInv' BY <1>0, <1>1, <1>3, <2>1 DEF OrderInv
  <2>3. SpentInv' /\ AnswerInv' BY <1>0, <1>1, <2>1 DEF SpentInv, AnswerInv
  <2> QED BY <1>0, <1>2, <2>1, <2>2, <2>3 DEF SearchInv
<1>4. CASE at' = Pos("openai") /\ config.keys > 0
  <2>1. at' \in Position /\ at'.stage = "openai" /\ at'.key = 1 /\ at'.model = 1
    BY <1>4, Fresh DEF Stages
  <2>2. SpentInv' BY <1>0, <2>1 DEF SpentInv, SearchInv
  <2>3. at'.key \in 1 .. config'.keys /\ at'.model \in 1 .. Models
    BY <1>0, <1>4, <2>1, SearchSizes
  <2>4. AskedOpenAI(at.key - 1)' BY <2>1 DEF AskedOpenAI
  <2>5. OrderInv' BY <1>0, <1>1, <2>1, <2>3, <2>4 DEF OrderInv, BeforeOpenAI
  <2>6. AnswerInv' BY <1>0, <1>1, <2>1 DEF AnswerInv
  <2> QED BY <1>0, <1>2, <2>1, <2>2, <2>5, <2>6 DEF SearchInv
<1>5. CASE at' = AfterOpenAI /\ ~(config.keys > 0)
  <2>1. config.keys = 0 /\ AskedOpenAI(0)' BY <1>0, <1>5 DEF AskedOpenAI
  <2> QED BY <1>0, <1>2, <1>5, <2>1, OpenAIGivenUp
<1> QED BY <1>3, <1>4, <1>5 DEF BeginSearch

LEMMA SearchInvNext == SearchInv /\ [SearchNext]_searchVars => SearchInv'
<1> SUFFICES ASSUME SearchInv, [SearchNext]_searchVars PROVE SearchInv' OBVIOUS
<1>1. CASE UNCHANGED searchVars
  BY <1>1 DEF searchVars, SearchInv, TriedInv, SpentInv, OrderInv, AnswerInv, BeforeOpenAI,
     BeforeGemini, BeforeGateway, AllAsked, AskedOpenAI, AskedGemini
<1> QED
  BY <1>1, BeginsSearch, CallsOpenAI, CallsGemini, CallsGateway, AsksFeeds DEF SearchNext

\* What was called is what is configured, once the feeds are asked.
LEMMA SearchInTurn == SearchInv => EveryProviderInTurn
<1> SUFFICES ASSUME SearchInv PROVE EveryProviderInTurn OBVIOUS
<1>0. /\ config \in Configs /\ at \in Position /\ TriedInv /\ SpentInv /\ OrderInv /\ AnswerInv
      /\ config.keys \in 0 .. KeyLimit /\ at.key \in Nat /\ at.model \in Nat
  BY DEF SearchInv, Configs, Position
<1>1. ASSUME at.stage = "openai"
      PROVE  <<at.key, 0>> \notin spent /\ <<at.key, at.model>> \notin spent
  <2>1. \A m \in Nat : <<at.key, m>> \in spent => m \in 1 .. at.model - 1
    BY <1>0, <1>1 DEF SpentInv
  <2> QED BY <1>0, <2>1
<1>2. ASSUME answer.status = 503 \/ answer.origin = "public", ~config.public
      PROVE  /\ Called("openai") = 1 .. config.keys
             /\ config.gemini => Called("gemini") = 1 .. GeminiModels
             /\ config.gateway => 1 \in Called("gateway")
  <2>1. AllAsked BY <1>0, <1>2 DEF OrderInv
  <2> DEFINE numbers == 1 .. KeyLimit + GeminiModels + GatewayModels
  <2>2. /\ 1 .. config.keys \subseteq numbers /\ 1 .. GeminiModels \subseteq numbers
        /\ 1 \in numbers /\ numbers \subseteq Nat
    BY <1>0, SearchSizes
  <2>3. Called("openai") = {n \in numbers : <<"openai", n>> \in tried} BY DEF Called
  <2>4. Called("gemini") = {n \in numbers : <<"gemini", n>> \in tried} BY DEF Called
  <2>5. Called("gateway") = {n \in numbers : <<"gateway", n>> \in tried} BY DEF Called
  <2> HIDE DEF numbers
  <2>6. \A n \in 1 .. config.keys : <<"openai", n>> \in tried
    BY <2>1 DEF AllAsked, AskedOpenAI
  <2>7. Called("openai") = 1 .. config.keys BY <1>0, <2>2, <2>3, <2>6 DEF TriedInv
  <2>8. ASSUME config.gemini PROVE Called("gemini") = 1 .. GeminiModels
    <3>1. \A n \in 1 .. GeminiModels : <<"gemini", n>> \in tried
      BY <2>1, <2>8 DEF AllAsked, AskedGemini
    <3> QED BY <1>0, <2>2, <2>4, <3>1 DEF TriedInv
  <2>9. config.gateway => 1 \in Called("gateway") BY <2>1, <2>2, <2>5 DEF AllAsked
  <2> QED BY <2>7, <2>8, <2>9
<1>3. answer.status = 200 =>
        /\ answer.sources >= IF answer.origin = "public" THEN MinMatched ELSE 1
        /\ answer.origin = "public" /\ answer.wanted > 0 =>
             LET total == AtLeast(42, AtMost(answer.wanted, 365)) IN
             answer.days \in total .. total + 2
  BY <1>0 DEF AnswerInv, PlanLength
<1> QED BY <1>1, <1>2, <1>3 DEF EveryProviderInTurn

(* However many keys and models are configured, no call is made with a key or a model     *)
(* that is spent; the feeds answer, or nothing does, only after every configured source   *)
(* was asked; and a plan from the feeds is at most two days longer than was asked for     *)
(* (roadmap_market.py, roadmap_public_market.py).                                         *)
THEOREM ProvidersAskedInTurn == SearchSpec => []EveryProviderInTurn
<1>1. SearchInit => SearchInv BY SearchInvInit
<1>2. SearchInv /\ [SearchNext]_searchVars => SearchInv' BY SearchInvNext
<1>3. SearchInv => EveryProviderInTurn BY SearchInTurn
<1> QED BY <1>1, <1>2, <1>3, PTL DEF SearchSpec

-----------------------------------------------------------------------------
(***************************************************************************)
(* The action list of an institution (PlacementActions).                   *)
(***************************************************************************)
Statuses == {"none", "resolved", "dismissed"} \union OpenStates
Outcomes == {"none", "condition_cleared"} \union Human
ActionRows == [status : Statuses, owned : BOOLEAN, closed : BOOLEAN, outcome : Outcomes]
Places == [kind : {"free", "sync", "clear", "update"}, keys : SUBSET SourceKeys, key : SourceKeys,
           loaded : [SourceKeys -> ActionRows], to : [SourceKeys -> ActionRows], stale : BOOLEAN]

ActionTypes ==
  /\ situation \in Records
  /\ actionRow \in [SourceKeys -> ActionRows]
  /\ centre \in [Desks -> Places]

\* What a desk means to write of what it loaded.
Means(p) ==
  CASE p.kind = "sync" ->
         \A k \in SourceKeys :
           p.to[k] = IF k \in p.keys THEN Upserted(p.loaded[k]) ELSE p.loaded[k]
    [] p.kind = "clear" ->
         \A k \in SourceKeys :
           p.to[k] = IF k \in p.keys THEN Upserted(p.loaded[k])
                     ELSE IF p.loaded[k].status \in OpenStates THEN ClearedRow(p.loaded[k])
                     ELSE p.loaded[k]
    [] p.kind = "update" ->
         /\ \A k \in SourceKeys : k # p.key => p.to[k] = p.loaded[k]
         /\ \E status \in OpenStates \union {"resolved", "dismissed"} :
               p.to[p.key] = Updated(p.loaded[p.key], status)
    [] OTHER -> TRUE

\* What a desk that nothing overtook has read still stands.
StillStands(p) ==
  p.kind # "free" /\ ~p.stale =>
    /\ p.loaded = actionRow
    /\ p.kind \in {"sync", "clear"} => p.keys = ActiveKeys(situation)

\* Rows do not vanish: what a desk has found is there.
Found(p) ==
  p.kind # "free" =>
    /\ \A k \in SourceKeys :
         /\ p.loaded[k].status = "none" => p.loaded[k] = NoRow
         /\ actionRow[k] = NoRow => p.loaded[k] = NoRow
    /\ p.kind = "update" => p.loaded[p.key] # NoRow

NoneIsNoRow == \A k \in SourceKeys : actionRow[k].status = "none" => actionRow[k] = NoRow

ActionsInv ==
  /\ ActionTypes /\ NoneIsNoRow
  /\ \A d \in Desks : Means(centre[d]) /\ StillStands(centre[d]) /\ Found(centre[d])
LEMMA NoRowTyped == NoRow \in ActionRows
BY DEF NoRow, Row, ActionRows, Statuses, Outcomes

LEMMA FreePlaceTyped == FreePlace \in Places /\ FreePlace.kind = "free" /\ ~FreePlace.stale
BY NoRowTyped DEF FreePlace, Places, SourceKeys

LEMMA FreePlaceKey == FreePlace.key = "profile" /\ FreePlace.stale = FALSE
BY DEF FreePlace

LEMMA RowsTyped ==
  ASSUME NEW row \in ActionRows
  PROVE  /\ Upserted(row) \in ActionRows /\ ClearedRow(row) \in ActionRows
         /\ \A status \in OpenStates \union {"resolved", "dismissed"} :
              Updated(row, status) \in ActionRows
BY DEF Upserted, ClearedRow, Updated, Row, ActionRows, Statuses, Outcomes, OpenStates, Human

LEMMA OpenIsTold ==
  ASSUME NEW status \in OpenStates, NEW owned \in BOOLEAN
  PROVE  Told(Row(status, owned, FALSE, "none"))
<1> DEFINE row == Row(status, owned, FALSE, "none")
<1>1. ~(row.status \in {"resolved", "dismissed"}) BY DEF Row, OpenStates
<1>2. row.closed = FALSE /\ (row.outcome # "none") = FALSE BY DEF Row
<1> HIDE DEF row
<1>6. (row.status \in {"resolved", "dismissed"}) = FALSE BY <1>1
<1>3. (row.status \in {"resolved", "dismissed"}) = row.closed BY <1>2, <1>6
<1>4. row.closed = (row.outcome # "none") BY <1>2
<1>5. Told(row) BY <1>3, <1>4 DEF Told
<1> QED BY <1>5 DEF row

\* A row is told as one thing after a request that meant to change it.
LEMMA RowsTold ==
  ASSUME NEW row \in ActionRows
  PROVE  /\ Told(row) => Told(Upserted(row))
         /\ Told(ClearedRow(row))
         /\ \A status \in OpenStates \union {"resolved", "dismissed"} : Told(Updated(row, status))
<1>1. Told(row) => Told(Upserted(row)) BY OpenIsTold DEF Upserted, OpenStates
<1>2. Told(ClearedRow(row)) BY DEF Told, ClearedRow, Row
<1>3. ASSUME NEW status \in OpenStates \union {"resolved", "dismissed"}
      PROVE  Told(Updated(row, status))
  <2>1. CASE status = "in_progress" BY <2>1, OpenIsTold DEF Updated, OpenStates
  <2>2. CASE status = "resolved" BY <2>2 DEF Told, Updated, Row
  <2>3. CASE status = "dismissed" BY <2>3 DEF Told, Updated, Row
  <2>4. CASE status = "open"
    <3>1. row.owned \in BOOLEAN BY DEF ActionRows
    <3> QED BY <2>4, <3>1, OpenIsTold DEF Updated, OpenStates
  <2> QED BY <1>3, <2>1, <2>2, <2>3, <2>4 DEF OpenStates
<1> QED BY <1>1, <1>2, <1>3

LEMMA WrittenRow ==
  ASSUME NEW loaded \in ActionRows, NEW new \in ActionRows, NEW now \in ActionRows
  PROVE  /\ Written(loaded, new, now) \in ActionRows
         /\ loaded = now => Written(loaded, new, now) = new
         /\ new = loaded => Written(loaded, new, now) = now
         /\ Written(loaded, new, now).status =
              IF new.status = loaded.status THEN now.status ELSE new.status
<1>1. DOMAIN now = {"status", "owned", "closed", "outcome"} BY DEF ActionRows
<1>2. Written(loaded, new, now) =
        [status |-> IF new.status = loaded.status THEN now.status ELSE new.status,
         owned |-> IF new.owned = loaded.owned THEN now.owned ELSE new.owned,
         closed |-> IF new.closed = loaded.closed THEN now.closed ELSE new.closed,
         outcome |-> IF new.outcome = loaded.outcome THEN now.outcome ELSE new.outcome]
  BY <1>1 DEF Written
<1> QED BY <1>2 DEF ActionRows

LEMMA ActionsInvInit == ActionsInit => ActionsInv
<1> SUFFICES ASSUME ActionsInit PROVE ActionsInv OBVIOUS
<1>1. ActionTypes
  BY NoRowTyped, FreePlaceTyped, PlacementActionsAssumption DEF ActionsInit, ActionTypes
<1>2. ASSUME NEW d \in Desks PROVE centre[d].kind = "free"
  BY FreePlaceTyped DEF ActionsInit
<1>3. NoneIsNoRow BY DEF ActionsInit, NoneIsNoRow
<1> QED BY <1>1, <1>2, <1>3 DEF ActionsInv, Means, StillStands, Found

\* One desk takes up, reads on or gives up.
LEMMA DeskKeeps ==
  ASSUME ActionsInv, NEW d \in Desks, NEW p \in Places, Means(p), StillStands(p), Found(p),
         centre' = [centre EXCEPT ![d] = p], situation' = situation, actionRow' = actionRow
  PROVE  ActionsInv'
<1>2. ActionTypes' BY DEF ActionsInv, ActionTypes
<1>3. ASSUME NEW e \in Desks PROVE centre'[e] = IF e = d THEN p ELSE centre[e]
  BY DEF ActionsInv, ActionTypes
<1>4. ASSUME NEW e \in Desks
      PROVE  Means(centre'[e]) /\ StillStands(centre'[e]) /\ Found(centre'[e])
  BY <1>3 DEF ActionsInv
<1>5. ASSUME NEW e \in Desks PROVE StillStands(centre[e])' /\ Found(centre[e])'
  BY <1>4 DEF StillStands, Found
<1>6. NoneIsNoRow' BY DEF ActionsInv, NoneIsNoRow
<1> QED BY <1>2, <1>4, <1>5, <1>6 DEF ActionsInv, Means

\* What is on record, or a row, changes: everyone who has read it is overtaken.
LEMMA OvertakingKeeps ==
  ASSUME ActionsInv, situation' \in Records, actionRow' \in [SourceKeys -> ActionRows],
         \A k \in SourceKeys : actionRow'[k].status = "none" =>
            actionRow'[k] = NoRow /\ actionRow[k] = NoRow,
         centre' \in [Desks -> Places],
         \A d \in Desks :
           \/ centre'[d].kind = "free"
           \/ /\ centre'[d].kind = centre[d].kind /\ centre'[d].keys = centre[d].keys
              /\ centre'[d].key = centre[d].key /\ centre'[d].loaded = centre[d].loaded
              /\ centre'[d].to = centre[d].to /\ centre'[d].stale
  PROVE  ActionsInv'
<1>1. ActionTypes' BY DEF ActionTypes
<1>2. ASSUME NEW d \in Desks PROVE StillStands(centre[d])' BY DEF StillStands
<1>3. ASSUME NEW d \in Desks PROVE Means(centre[d])'
  <2>1. CASE centre'[d].kind = "free" BY <2>1 DEF Means
  <2>2. CASE centre'[d].kind # "free"
    <3>1. Means(centre[d]) BY DEF ActionsInv
    <3> QED BY <2>2, <3>1 DEF Means
  <2> QED BY <2>1, <2>2
<1>4. NoneIsNoRow' BY DEF NoneIsNoRow
<1>5. ASSUME NEW d \in Desks PROVE Found(centre[d])'
  <2>1. NoRow.status = "none" BY DEF NoRow, Row
  <2>2. Found(centre[d]) BY DEF ActionsInv
  <2> QED BY <2>1, <2>2 DEF Found
<1> QED BY <1>1, <1>2, <1>3, <1>4, <1>5 DEF ActionsInv

LEMMA OutdatedPlace ==
  ASSUME NEW p \in Places
  PROVE  LET q == [p EXCEPT !.stale = p.kind # "free"] IN
         /\ q \in Places /\ q.kind = p.kind /\ q.keys = p.keys /\ q.key = p.key
         /\ q.loaded = p.loaded /\ q.to = p.to /\ q.stale = (p.kind # "free")
BY DEF Places

LEMMA ChangeKeeps ==
  ASSUME ActionsInv, NEW s \in Situations, Change(s)
  PROVE  ActionsInv'
<1>1. /\ situation' = s /\ actionRow' = actionRow
      /\ centre' = [d \in Desks |-> [centre[d] EXCEPT !.stale = centre[d].kind # "free"]]
  BY DEF Change, Outdated
<1>2. \A d \in Desks : centre[d] \in Places BY DEF ActionsInv, ActionTypes
<1>3. centre' \in [Desks -> Places] BY <1>1, <1>2, OutdatedPlace
<1>4. ASSUME NEW d \in Desks
      PROVE  \/ centre'[d].kind = "free"
             \/ /\ centre'[d].kind = centre[d].kind /\ centre'[d].keys = centre[d].keys
                /\ centre'[d].key = centre[d].key /\ centre'[d].loaded = centre[d].loaded
                /\ centre'[d].to = centre[d].to /\ centre'[d].stale
  BY <1>1, <1>2, OutdatedPlace
<1> QED BY <1>1, <1>3, <1>4, OvertakingKeeps, PlacementActionsAssumption
           DEF ActionsInv, ActionTypes, NoneIsNoRow

\* A desk leaves a row as it found it, or gives it a status.
LEMMA MeansToLeaveOrSet ==
  ASSUME NEW p \in Places, Means(p), Found(p), p.kind \in {"clear", "update"}, NEW k \in SourceKeys
  PROVE  p.to[k] = p.loaded[k] \/ p.to[k].status # "none"
<1>1. CASE p.kind = "clear"
  <2>1. \/ p.to[k] \in {Upserted(p.loaded[k]), p.loaded[k]} \/ p.to[k] = ClearedRow(p.loaded[k])
    BY <1>1 DEF Means
  <2> QED BY <2>1 DEF Upserted, ClearedRow, Row
<1>2. CASE p.kind = "update"
  <2>1. CASE k # p.key BY <1>2, <2>1 DEF Means
  <2>2. CASE k = p.key
    <3>1. PICK status \in OpenStates \union {"resolved", "dismissed"} :
             p.to[k] = Updated(p.loaded[k], status)
      BY <1>2, <2>2 DEF Means
    <3> QED BY <3>1 DEF Updated, Row, OpenStates
  <2> QED BY <2>1, <2>2
<1> QED BY <1>1, <1>2

LEMMA RowsStay ==
  ASSUME ActionsInv, NEW d \in Desks, CommitsRows(d), centre[d].kind \in {"clear", "update"},
         NEW k \in SourceKeys, actionRow'[k].status = "none"
  PROVE  actionRow'[k] = actionRow[k]
<1> DEFINE p == centre[d]
<1>1. actionRow'[k] = Written(p.loaded[k], p.to[k], actionRow[k]) BY DEF CommitsRows
<1>2. p \in Places /\ actionRow[k] \in ActionRows /\ Means(p) /\ Found(p)
  BY DEF ActionsInv, ActionTypes
<1>3. p.loaded[k] \in ActionRows /\ p.to[k] \in ActionRows BY <1>2 DEF Places
<1>4. p.to[k] = p.loaded[k] \/ p.to[k].status # "none" BY <1>2, MeansToLeaveOrSet
<1>5. p.loaded[k].status # "none" => actionRow[k].status # "none"
  <2>1. NoRow.status = "none" BY DEF NoRow, Row
  <2> QED BY <1>2, <2>1 DEF Found, ActionsInv, NoneIsNoRow
<1> HIDE DEF p
<1>6. CASE p.to[k] = p.loaded[k] BY <1>1, <1>2, <1>3, <1>6, WrittenRow
<1>7. CASE p.to[k] # p.loaded[k]
  <2>1. actionRow'[k].status = IF p.to[k].status = p.loaded[k].status THEN actionRow[k].status
                               ELSE p.to[k].status
    BY <1>1, <1>2, <1>3, WrittenRow
  <2> QED BY <1>4, <1>5, <1>7, <2>1
<1> QED BY <1>6, <1>7

LEMMA CommitsRowsKeeps ==
  ASSUME ActionsInv, NEW d \in Desks, CommitsRows(d), centre[d].kind \in {"clear", "update"}
  PROVE  ActionsInv'
<1>1. /\ actionRow' = [k \in SourceKeys |-> Written(centre[d].loaded[k], centre[d].to[k], actionRow[k])]
      /\ situation' = situation
      /\ centre' = [[e \in Desks |-> [centre[e] EXCEPT !.stale = centre[e].kind # "free"]]
                      EXCEPT ![d] = FreePlace]
  BY DEF CommitsRows, Cleared, Outdated
<1>2. \A e \in Desks : centre[e] \in Places BY DEF ActionsInv, ActionTypes
<1>3. centre' \in [Desks -> Places] BY <1>1, <1>2, OutdatedPlace, FreePlaceTyped
<1>4. ASSUME NEW e \in Desks
      PROVE  \/ centre'[e].kind = "free"
             \/ /\ centre'[e].kind = centre[e].kind /\ centre'[e].keys = centre[e].keys
                /\ centre'[e].key = centre[e].key /\ centre'[e].loaded = centre[e].loaded
                /\ centre'[e].to = centre[e].to /\ centre'[e].stale
  <2>1. CASE e = d BY <1>1, <2>1, FreePlaceTyped
  <2>2. CASE e # d
    <3>1. centre'[e] = [centre[e] EXCEPT !.stale = centre[e].kind # "free"] BY <1>1, <2>2
    <3>2. centre[e] \in Places BY <1>2
    <3>3. /\ centre'[e].kind = centre[e].kind /\ centre'[e].keys = centre[e].keys
          /\ centre'[e].key = centre[e].key /\ centre'[e].loaded = centre[e].loaded
          /\ centre'[e].to = centre[e].to /\ centre'[e].stale = (centre[e].kind # "free")
      BY <3>1, <3>2, OutdatedPlace
    <3> QED BY <3>3
  <2> QED BY <2>1, <2>2
<1>5. actionRow' \in [SourceKeys -> ActionRows]
  <2>1. ASSUME NEW k \in SourceKeys
        PROVE  Written(centre[d].loaded[k], centre[d].to[k], actionRow[k]) \in ActionRows
    <3>1. /\ centre[d].loaded[k] \in ActionRows /\ centre[d].to[k] \in ActionRows
          /\ actionRow[k] \in ActionRows
      BY <1>2 DEF Places, ActionsInv, ActionTypes
    <3> QED BY <3>1, WrittenRow
  <2> QED BY <1>1, <2>1
<1>6. ASSUME NEW k \in SourceKeys, actionRow'[k].status = "none"
      PROVE  actionRow'[k] = NoRow /\ actionRow[k] = NoRow
  BY <1>6, RowsStay DEF ActionsInv, NoneIsNoRow
<1> QED BY <1>1, <1>3, <1>4, <1>5, <1>6, OvertakingKeeps DEF ActionsInv, ActionTypes

LEMMA BeginSyncKeeps ==
  ASSUME ActionsInv, NEW d \in Desks, BeginSync(d)
  PROVE  ActionsInv'
<1> DEFINE active == ActiveKeys(situation)
           meant == [k \in SourceKeys |-> IF k \in active THEN Upserted(actionRow[k])
                                          ELSE actionRow[k]]
           p == [FreePlace EXCEPT !.kind = "sync", !.keys = active, !.loaded = actionRow,
                                  !.to = meant]
<1>1. /\ centre' = [centre EXCEPT ![d] = p] /\ situation' = situation /\ actionRow' = actionRow
  BY DEF BeginSync, TakesUp
<1>6. \A k \in SourceKeys : meant[k] = IF k \in active THEN Upserted(actionRow[k]) ELSE actionRow[k]
  OBVIOUS
<1>4. actionRow \in [SourceKeys -> ActionRows] BY DEF ActionsInv, ActionTypes
<1>5. meant \in [SourceKeys -> ActionRows] BY <1>4, RowsTyped
<1>3. active \subseteq SourceKeys
  BY DEF ActiveKeys, ProfileKeys, DriveKeys, PrepKeys, SourceKeys
<1> HIDE DEF meant, active
<1>2. /\ p.kind = "sync" /\ p.keys = active /\ p.loaded = actionRow /\ p.to = meant
      /\ p.stale = FALSE /\ p \in Places
  BY <1>3, <1>4, <1>5, FreePlaceTyped, FreePlaceKey DEF Places
<1> HIDE DEF p
<1>8. Means(p) BY <1>2, <1>6 DEF Means
<1>9. StillStands(p) BY <1>2 DEF StillStands, active
<1>10. Found(p) BY <1>2 DEF Found, ActionsInv, NoneIsNoRow
<1> QED BY <1>1, <1>2, <1>8, <1>9, <1>10, DeskKeeps

LEMMA ReadOpenKeeps ==
  ASSUME ActionsInv, NEW d \in Desks, ReadOpen(d)
  PROVE  ActionsInv'
<1> DEFINE place == centre[d]
           late == {k \in SourceKeys \ place.keys : actionRow[k].status \in OpenStates}
           read == [k \in SourceKeys |-> IF k \in place.keys THEN place.loaded[k] ELSE actionRow[k]]
           meant == [k \in SourceKeys |-> IF k \in late THEN ClearedRow(actionRow[k])
                                          ELSE IF k \in place.keys THEN place.to[k] ELSE actionRow[k]]
           p == [place EXCEPT !.kind = "clear", !.loaded = read, !.to = meant]
<1>1. /\ centre' = [centre EXCEPT ![d] = p] /\ situation' = situation /\ actionRow' = actionRow
      /\ place.kind = "sync"
  BY DEF ReadOpen
<1>2. /\ place \in Places /\ actionRow \in [SourceKeys -> ActionRows] /\ Means(place) /\ StillStands(place)
  BY DEF ActionsInv, ActionTypes
<1>3. /\ p.kind = "clear" /\ p.keys = place.keys /\ p.loaded = read /\ p.to = meant
      /\ p.key = place.key /\ p.stale = place.stale
  BY <1>2 DEF Places
<1>4. read \in [SourceKeys -> ActionRows] BY <1>2 DEF Places
<1>5. meant \in [SourceKeys -> ActionRows] BY <1>2, RowsTyped DEF Places
<1>6. p \in Places
  <2> HIDE DEF read, meant
  <2> QED BY <1>2, <1>4, <1>5 DEF Places
<1>7. ASSUME NEW k \in SourceKeys
      PROVE  meant[k] = IF k \in p.keys THEN Upserted(read[k])
                        ELSE IF read[k].status \in OpenStates THEN ClearedRow(read[k]) ELSE read[k]
  <2>1. place.to[k] = IF k \in place.keys THEN Upserted(place.loaded[k]) ELSE place.loaded[k]
    BY <1>1, <1>2 DEF Means
  <2>2. CASE k \in place.keys BY <1>3, <2>1, <2>2
  <2>3. CASE k \notin place.keys BY <1>3, <2>3
  <2> QED BY <2>2, <2>3
<1>8. ~place.stale => read = actionRow
  BY <1>1, <1>2 DEF StillStands
<1> HIDE DEF read, meant, p
<1>9. Means(p) BY <1>3, <1>7 DEF Means
<1>10. StillStands(p)
  BY <1>1, <1>2, <1>3, <1>8 DEF StillStands
<1>11. Found(p)
  <2>1. Found(place) /\ NoneIsNoRow BY DEF ActionsInv
  <2>2. ASSUME NEW k \in SourceKeys PROVE read[k] = IF k \in place.keys THEN place.loaded[k] ELSE actionRow[k]
    BY DEF read
  <2> QED BY <1>1, <1>3, <2>1, <2>2 DEF Found, NoneIsNoRow
<1> QED BY <1>1, <1>6, <1>9, <1>10, <1>11, DeskKeeps

LEMMA UpdateKeeps ==
  ASSUME ActionsInv, NEW d \in Desks, NEW k \in SourceKeys,
         NEW status \in OpenStates \union {"resolved", "dismissed"}, BeginActionUpdate(d, k, status)
  PROVE  ActionsInv'
<1> DEFINE meant == [actionRow EXCEPT ![k] = Updated(actionRow[k], status)]
           p == [FreePlace EXCEPT !.kind = "update", !.key = k, !.loaded = actionRow, !.to = meant]
<1>1. /\ centre' = [centre EXCEPT ![d] = p] /\ situation' = situation /\ actionRow' = actionRow
  BY DEF BeginActionUpdate, TakesUp
<1>4. actionRow \in [SourceKeys -> ActionRows] BY DEF ActionsInv, ActionTypes
<1>5. meant \in [SourceKeys -> ActionRows] BY <1>4, RowsTyped
<1>6. /\ \A j \in SourceKeys : j # k => meant[j] = actionRow[j]
      /\ meant[k] = Updated(actionRow[k], status)
  BY <1>4
<1> HIDE DEF meant
<1>2. /\ p.kind = "update" /\ p.key = k /\ p.loaded = actionRow /\ p.to = meant
      /\ p.stale = FALSE /\ p \in Places
  BY <1>4, <1>5, FreePlaceTyped, FreePlaceKey DEF Places
<1> HIDE DEF p
<1>8. Means(p) BY <1>2, <1>6 DEF Means
<1>9. StillStands(p) BY <1>2 DEF StillStands
<1>10. Found(p)
  <2>1. actionRow[k] # NoRow BY DEF BeginActionUpdate
  <2> QED BY <1>2, <2>1 DEF Found, ActionsInv, NoneIsNoRow
<1> QED BY <1>1, <1>2, <1>8, <1>9, <1>10, DeskKeeps

LEMMA ActionsInvNext == ActionsInv /\ [ActionsNext]_actionsVars => ActionsInv'
<1> SUFFICES ASSUME ActionsInv, [ActionsNext]_actionsVars PROVE ActionsInv' OBVIOUS
<1>1. ASSUME NEW s \in Situations, Change(s) PROVE ActionsInv' BY <1>1, ChangeKeeps
<1>2. ASSUME NEW d \in Desks, BeginSync(d) PROVE ActionsInv' BY <1>2, BeginSyncKeeps
<1>3. ASSUME NEW d \in Desks, ReadOpen(d) PROVE ActionsInv' BY <1>3, ReadOpenKeeps
<1>4. ASSUME NEW d \in Desks, CommitSync(d) \/ CommitActionUpdate(d) PROVE ActionsInv'
  BY <1>4, CommitsRowsKeeps DEF CommitSync, CommitActionUpdate
<1>5. ASSUME NEW d \in Desks, FailSync(d) PROVE ActionsInv'
  <2>1. Means(FreePlace) /\ StillStands(FreePlace) /\ Found(FreePlace)
    BY FreePlaceTyped DEF Means, StillStands, Found
  <2> QED BY <1>5, <2>1, DeskKeeps, FreePlaceTyped DEF FailSync
<1>6. ASSUME NEW d \in Desks, NEW k \in SourceKeys,
             NEW status \in OpenStates \union {"resolved", "dismissed"}, BeginActionUpdate(d, k, status)
      PROVE  ActionsInv'
  BY <1>6, UpdateKeeps
<1>7. CASE UNCHANGED actionsVars
  BY <1>7 DEF actionsVars, ActionsInv, ActionTypes, StillStands, Means, Found, NoneIsNoRow
<1> QED BY <1>1, <1>2, <1>3, <1>4, <1>5, <1>6, <1>7 DEF ActionsNext

\* A commit that nothing overtook writes what the desk means to write.
LEMMA WritesWhatItMeant ==
  ASSUME ActionsInv, NEW d \in Desks, CommitsRows(d), NEW k \in SourceKeys
  PROVE  LET p == centre[d] IN
         /\ ~p.stale /\ p.kind # "free" => p.loaded[k] = actionRow[k] /\ actionRow'[k] = p.to[k]
         /\ p.to[k] = p.loaded[k] => actionRow'[k] = actionRow[k]
<1> DEFINE p == centre[d]
<1>1. actionRow'[k] = Written(p.loaded[k], p.to[k], actionRow[k]) BY DEF CommitsRows
<1>2. p \in Places /\ actionRow[k] \in ActionRows /\ StillStands(p)
  BY DEF ActionsInv, ActionTypes
<1>3. p.loaded[k] \in ActionRows /\ p.to[k] \in ActionRows BY <1>2 DEF Places
<1>4. ~p.stale /\ p.kind # "free" => p.loaded[k] = actionRow[k] BY <1>2 DEF StillStands
<1> HIDE DEF p
<1>5. /\ p.loaded[k] = actionRow[k] => actionRow'[k] = p.to[k]
      /\ p.to[k] = p.loaded[k] => actionRow'[k] = actionRow[k]
  BY <1>1, <1>2, <1>3, WrittenRow
<1> QED BY <1>4, <1>5 DEF p

LEMMA StepListsRecord == ActionsInv /\ [ActionsNext]_actionsVars => RecordIsListedStep
<1> SUFFICES ASSUME ActionsInv, [ActionsNext]_actionsVars, NEW d \in Desks,
                    centre[d].kind # "free", centre'[d].kind = "free", ~centre[d].stale
             PROVE  /\ \A k \in SourceKeys : Told(actionRow[k]) => Told(actionRow'[k])
                    /\ CommitSync(d) => \A k \in SourceKeys :
                         actionRow'[k].status \in OpenStates <=>
                           k \in ActiveKeys(situation) /\ actionRow[k].status \in OpenStates \union {"none"}
  BY DEF RecordIsListedStep
<1> DEFINE p == centre[d]
<1>1. p \in Places /\ Means(p) /\ StillStands(p) /\ actionRow \in [SourceKeys -> ActionRows]
  BY DEF ActionsInv, ActionTypes
<1>2. CommitSync(d) \/ CommitActionUpdate(d) \/ actionRow' = actionRow
  <2>1. ASSUME NEW e \in Desks \ {d}, CommitsRows(e) PROVE FALSE
    <3>1. centre'[d] = [centre[d] EXCEPT !.stale = centre[d].kind # "free"]
      BY <2>1 DEF CommitsRows, Cleared, Outdated
    <3>2. centre'[d].kind = centre[d].kind BY <1>1, <3>1, OutdatedPlace
    <3> QED BY <3>2
  <2> QED BY <2>1 DEF ActionsNext, Change, BeginSync, TakesUp, ReadOpen, FailSync, BeginActionUpdate,
                      CommitSync, CommitActionUpdate, actionsVars
<1>3. ASSUME NEW k \in SourceKeys, Told(actionRow[k]) PROVE Told(actionRow'[k])
  <2>1. CASE CommitSync(d)
    <3>1. p.kind = "clear" /\ p.loaded[k] = actionRow[k] /\ actionRow'[k] = p.to[k]
      BY <2>1, WritesWhatItMeant DEF CommitSync
    <3>2. p.to[k] \in {Upserted(actionRow[k]), ClearedRow(actionRow[k]), actionRow[k]}
      BY <1>1, <3>1 DEF Means
    <3>3. actionRow[k] \in ActionRows BY <1>1
    <3> QED BY <1>3, <3>1, <3>2, <3>3, RowsTold
  <2>2. CASE CommitActionUpdate(d)
    <3>1. p.kind = "update" /\ p.loaded[k] = actionRow[k] /\ actionRow'[k] = p.to[k]
      BY <2>2, WritesWhatItMeant DEF CommitActionUpdate
    <3>2. \/ p.to[k] = actionRow[k]
          \/ \E status \in OpenStates \union {"resolved", "dismissed"} :
               p.to[k] = Updated(actionRow[k], status)
      BY <1>1, <3>1 DEF Means
    <3>3. actionRow[k] \in ActionRows BY <1>1
    <3> QED BY <1>3, <3>1, <3>2, <3>3, RowsTold
  <2> QED BY <1>2, <1>3, <2>1, <2>2
<1>4. ASSUME CommitSync(d), NEW k \in SourceKeys
      PROVE  actionRow'[k].status \in OpenStates <=>
               k \in ActiveKeys(situation) /\ actionRow[k].status \in OpenStates \union {"none"}
  <2>1. /\ p.kind = "clear" /\ p.loaded[k] = actionRow[k] /\ actionRow'[k] = p.to[k]
        /\ p.keys = ActiveKeys(situation)
    BY <1>1, <1>4, WritesWhatItMeant DEF CommitSync, StillStands
  <2>2. p.to[k] = IF k \in ActiveKeys(situation) THEN Upserted(actionRow[k])
                  ELSE IF actionRow[k].status \in OpenStates THEN ClearedRow(actionRow[k])
                  ELSE actionRow[k]
    BY <1>1, <2>1 DEF Means
  <2>3. actionRow[k] \in ActionRows BY <1>1
  <2>4. actionRow[k].status = "none" => actionRow[k] = NoRow
    BY DEF ActionsInv, NoneIsNoRow
  <2> QED BY <2>1, <2>2, <2>3, <2>4 DEF Upserted, ClearedRow, Row, OpenStates, NoRow
<1> QED BY <1>3, <1>4
LEMMA StepLeavesPeopleTheLastWord == ActionsInv /\ [ActionsNext]_actionsVars => PeopleDecideStep
<1> SUFFICES ASSUME ActionsInv, NEW k \in SourceKeys, actionRow'[k] # actionRow[k],
                    actionRow[k].outcome \in Human, NEW d \in Desks, CommitSync(d)
             PROVE  centre[d].loaded[k].status \in OpenStates
  BY DEF PeopleDecideStep
<1> DEFINE p == centre[d]
<1>1. p.to[k] # p.loaded[k] BY WritesWhatItMeant DEF CommitSync
<1>2. p.kind = "clear" /\ ~Twice(d) /\ Means(p) BY DEF CommitSync, ActionsInv
<1>3. actionRow[k] # NoRow BY DEF NoRow, Row, Human
<1>4. CASE k \in p.keys
  <2>1. p.to[k] = Upserted(p.loaded[k]) BY <1>2, <1>4 DEF Means
  <2>2. p.loaded[k] = NoRow BY <1>1, <2>1 DEF Upserted
  <2> QED BY <1>1, <1>2, <1>3, <2>2 DEF Twice
<1>5. CASE k \notin p.keys BY <1>1, <1>2, <1>5 DEF Means
<1> QED BY <1>4, <1>5

LEMMA RecordsAdviseAlike == ActionsInv => AdvisedAlike
<1> SUFFICES ASSUME ActionsInv, situation.verified, NEW k \in {"eligible-not-applied", "prep"}
             PROVE  k \in NextActions(situation) <=> k \in ActiveKeys(situation)
  BY DEF AdvisedAlike
<1> DEFINE s == situation
<1>1. s \in Records BY DEF ActionsInv, ActionTypes
<1>2. CASE k = "eligible-not-applied"
  <2>1. k \in NextActions(s) <=> Invited(s) /\ Eligible(s)
    BY <1>2 DEF NextActions, SourceKeys
  <2>2. k \in ActiveKeys(s) <=> k \in DriveKeys(s) BY <1>2 DEF ActiveKeys, ProfileKeys, PrepKeys
  <2>3. k \in DriveKeys(s) <=> Invited(s) /\ s.suitable /\ Eligible(s)
    BY <1>2 DEF DriveKeys
  <2> QED BY <2>1, <2>2, <2>3 DEF Eligible
<1>3. CASE k = "prep"
  <2>1. k \in NextActions(s) <=> Unprepared(s) BY <1>3 DEF NextActions, SourceKeys
  <2>2. k \in ActiveKeys(s) <=> Unprepared(s) BY <1>3 DEF ActiveKeys, ProfileKeys, DriveKeys, PrepKeys
  <2> QED BY <2>1, <2>2
<1> QED BY <1>2, <1>3

(* The action list of an institution follows the record: the student is      *)
(* advised as the institution is, a request that nothing overtook leaves     *)
(* rows that say one thing and a sync lists what holds, and what people      *)
(* resolved or dismissed no sync opens again unless it read the row open.    *)
THEOREM ActionListFollowsRecord == ActionsSpec => ListFollowsRecord
<1>1. ActionsSpec => []ActionsInv
  BY ActionsInvInit, ActionsInvNext, PTL DEF ActionsSpec
<1>2. ActionsSpec => RecordIsListed
  BY <1>1, StepListsRecord, PTL DEF ActionsSpec, RecordIsListed
<1>3. ActionsSpec => PeopleDecide
  BY <1>1, StepLeavesPeopleTheLastWord, PTL DEF ActionsSpec, PeopleDecide
<1>4. ActionsSpec => []AdvisedAlike
  BY <1>1, RecordsAdviseAlike, PTL
<1> QED BY <1>2, <1>3, <1>4 DEF ListFollowsRecord

-----------------------------------------------------------------------------
(***************************************************************************)
(* What a campus keeps for its students (CampusDesk).                      *)
(***************************************************************************)
PaperKinds == {"submit", "edit", "withdraw"}
Setups == {"install", "add"}
Sheets == [semester : BOOLEAN, shared : BOOLEAN]
OfficeRows == [kind : PaperKinds \union Setups \union {"free", "read"}, sheet : Sheets,
               key : StageKeys \union {"none"}, count : Nat, stale : BOOLEAN]

CampusTypes ==
  /\ marksheet \in Sheets /\ opened \in Sheets /\ told \in Nat
  /\ stages \in [StageKeys -> Nat] /\ IsFiniteSet(Installed)
  /\ office \in [Desks -> OfficeRows]

\* A request about the document holds its lock, so that what it has read still stands.
SheetsInv ==
  /\ marksheet.shared => marksheet.semester
  /\ opened.semester
  /\ \A d \in Desks : office[d].kind \in PaperKinds => lockedBy = d /\ office[d].sheet = marksheet

\* Unless two lists were read together, one is at most, and it has counted what was told.
ReadsInv ==
  /\ ~notice.posted => told = 0 /\ \A d \in Desks : office[d].kind # "read"
  /\ "read" \notin crossed =>
       /\ told <= 1
       /\ \A d, e \in Desks : office[d].kind = "read" /\ office[e].kind = "read" => d = e
       /\ \A d \in Desks : office[d].kind = "read" => office[d].count = told

\* Unless two setups were read together, or a place was named, one is at most, it has counted
\* the stages that there are, and no place is behind their number.
StagesInv ==
  "stages" \notin crossed =>
    /\ \A j, k \in Installed : stages[j] = stages[k] => j = k
    /\ \A k \in Installed : stages[k] <= Cardinality(Installed)
    /\ \A d, e \in Desks : office[d].kind \in Setups /\ office[e].kind \in Setups => d = e
    /\ \A d \in Desks : office[d].kind \in Setups =>
         /\ office[d].count = Cardinality(Installed)
         /\ office[d].kind = "install" => Installed = {}
         /\ office[d].kind = "add" => office[d].key \in StageKeys \ Installed

CampusInv == CampusTypes /\ SheetsInv /\ ReadsInv /\ StagesInv

LEMMA FreeOfficeTyped == FreeOffice \in OfficeRows /\ FreeOffice.kind = "free"
BY DEF FreeOffice, OfficeRows, Sheet, Sheets

LEMMA CampusInvInit == CampusInit => CampusInv
<1> SUFFICES ASSUME CampusInit PROVE CampusInv OBVIOUS
<1>1. Installed = {} BY DEF CampusInit, Installed
<1>2. IsFiniteSet(Installed) BY <1>1, FS_EmptySet
<1>3. \A d \in Desks : office[d].kind = "free" BY FreeOfficeTyped DEF CampusInit
<1>4. CampusTypes
  <2>1. marksheet \in Sheets /\ opened \in Sheets
    <3>1. \A a, b \in BOOLEAN : Sheet(a, b) \in Sheets BY DEF Sheet, Sheets
    <3>2. marksheet \in {Sheet(FALSE, FALSE), Sheet(TRUE, FALSE)} /\ opened = Sheet(TRUE, TRUE) BY DEF CampusInit
    <3> QED BY <3>1, <3>2
  <2>2. told \in Nat /\ stages \in [StageKeys -> Nat] /\ office \in [Desks -> OfficeRows]
    BY FreeOfficeTyped DEF CampusInit
  <2> QED BY <1>2, <2>1, <2>2 DEF CampusTypes
<1>5. SheetsInv BY <1>3 DEF CampusInit, SheetsInv, Sheet, PaperKinds
<1>6. ReadsInv BY <1>3 DEF CampusInit, ReadsInv
<1>7. StagesInv BY <1>1, <1>3 DEF CampusInit, StagesInv, Setups
<1> QED BY <1>4, <1>5, <1>6, <1>7 DEF CampusInv

\* What a step does at the desk that takes it; the others keep what they have read.
At(d, kind) ==
  /\ office' \in [Desks -> OfficeRows] /\ office'[d].kind = kind
  /\ \A e \in Desks \ {d} :
       /\ office'[e].kind = office[e].kind /\ office'[e].sheet = office[e].sheet
       /\ office'[e].key = office[e].key /\ office'[e].count = office[e].count

LEMMA ServeAt ==
  ASSUME CampusTypes, NEW d \in Desks, NEW p \in OfficeRows, Serve(d, p)
  PROVE  At(d, p.kind) /\ office'[d] = p /\ office[d].kind = "free"
BY DEF Serve, At, CampusTypes

LEMMA LeaveAt ==
  ASSUME CampusTypes, NEW d \in Desks, Leave(d)
  PROVE  At(d, "free")
<1>1. office' = [[e \in Desks |-> [office[e] EXCEPT !.stale = office[e].kind # "free"]]
                   EXCEPT ![d] = FreeOffice]
  BY DEF Leave, Cleared, Outdated
<1>2. ASSUME NEW p \in OfficeRows
      PROVE  LET q == [p EXCEPT !.stale = p.kind # "free"] IN
             /\ q \in OfficeRows /\ q.kind = p.kind /\ q.sheet = p.sheet /\ q.key = p.key
             /\ q.count = p.count
  BY DEF OfficeRows
<1>3. \A e \in Desks : office[e] \in OfficeRows BY DEF CampusTypes
<1>4. office' \in [Desks -> OfficeRows] BY <1>1, <1>2, <1>3, FreeOfficeTyped
<1>5. office'[d].kind = "free" BY <1>1, FreeOfficeTyped
<1>6. ASSUME NEW e \in Desks \ {d}
      PROVE  /\ office'[e].kind = office[e].kind /\ office'[e].sheet = office[e].sheet
             /\ office'[e].key = office[e].key /\ office'[e].count = office[e].count
  <2>1. office'[e] = [office[e] EXCEPT !.stale = office[e].kind # "free"] BY <1>1
  <2>2. office[e] \in OfficeRows BY <1>3
  <2> QED BY <1>2, <2>1, <2>2
<1> QED BY <1>4, <1>5, <1>6 DEF At

LEMMA SheetsStay ==
  ASSUME CampusInv, NEW d \in Desks, NEW kind, At(d, kind), kind \notin PaperKinds,
         marksheet' = marksheet, opened' = opened, lockedBy' = lockedBy
  PROVE  SheetsInv'
BY DEF CampusInv, SheetsInv, At

LEMMA ReadsStay ==
  ASSUME CampusInv, NEW d \in Desks, NEW kind, At(d, kind), kind # "read",
         notice' = notice, told' = told, "read" \notin crossed' => "read" \notin crossed
  PROVE  ReadsInv'
BY DEF CampusInv, ReadsInv, At

LEMMA StagesStay ==
  ASSUME CampusInv, NEW d \in Desks, NEW kind, At(d, kind), kind \notin Setups,
         stages' = stages, "stages" \notin crossed' => "stages" \notin crossed
  PROVE  StagesInv'
<1>1. Installed' = Installed BY DEF Installed
<1> QED BY <1>1 DEF CampusInv, StagesInv, At

LEMMA TypesStay ==
  ASSUME CampusInv, NEW d \in Desks, NEW kind, At(d, kind), marksheet' \in Sheets,
         opened' = opened, told' \in Nat, stages' = stages
  PROVE  CampusTypes'
<1>1. Installed' = Installed BY DEF Installed
<1> QED BY <1>1 DEF CampusInv, CampusTypes, At

LEMMA BeginPaperKeeps ==
  ASSUME CampusInv, NEW d \in Desks, NEW kind \in PaperKinds, BeginPaper(d, kind)
  PROVE  CampusInv'
<1> DEFINE p == [FreeOffice EXCEPT !.kind = kind, !.sheet = marksheet]
<1>1. CampusTypes BY DEF CampusInv
<1>2. p \in OfficeRows /\ p.kind = kind /\ p.sheet = marksheet
  BY <1>1, FreeOfficeTyped DEF OfficeRows, CampusTypes
<1>3. Serve(d, p) /\ lockedBy = NoDesk /\ lockedBy' = d
      /\ UNCHANGED <<marksheet, notice, told, stages, opened, crossed>>
  BY DEF BeginPaper
<1> HIDE DEF p
<1>4. At(d, kind) /\ office'[d].sheet = marksheet BY <1>1, <1>2, <1>3, ServeAt
<1>5. \A e \in Desks : office[e].kind \notin PaperKinds
  BY <1>3, CampusDeskAssumption DEF CampusInv, SheetsInv
<1>6. SheetsInv' BY <1>3, <1>4, <1>5 DEF SheetsInv, CampusInv, At
<1>7. kind # "read" /\ kind \notin Setups BY DEF PaperKinds, Setups
<1>8. CampusTypes' BY <1>1, <1>3, <1>4, TypesStay DEF CampusTypes
<1>9. ReadsInv' BY <1>3, <1>4, <1>7, ReadsStay
<1>10. StagesInv' BY <1>3, <1>4, <1>7, StagesStay
<1> QED BY <1>6, <1>8, <1>9, <1>10 DEF CampusInv

LEMMA WrittenSheet ==
  ASSUME NEW new \in Sheets, NEW now \in Sheets
  PROVE  Written(now, new, now) = new
<1>1. DOMAIN now = {"semester", "shared"} BY DEF Sheets
<1>2. Written(now, new, now) =
        [semester |-> IF new.semester = now.semester THEN now.semester ELSE new.semester,
         shared |-> IF new.shared = now.shared THEN now.shared ELSE new.shared]
  BY <1>1 DEF Written
<1> QED BY <1>2 DEF Sheets

LEMMA SheetsAfter ==
  ASSUME NEW kind, NEW sheet \in Sheets, sheet.shared => sheet.semester,
         NEW new \in SheetAfter(kind, sheet)
  PROVE  kind \in PaperKinds /\ new \in Sheets /\ (new.shared => new.semester)
<1>1. CASE kind = "submit"
  <2>1. new \in IF sheet.semester THEN {Sheet(TRUE, TRUE)} ELSE {sheet} BY <1>1 DEF SheetAfter
  <2>2. new = sheet \/ new = [semester |-> TRUE, shared |-> TRUE] BY <2>1 DEF Sheet
  <2>3. kind \in PaperKinds BY <1>1 DEF PaperKinds
  <2>4. CASE new = sheet BY <2>3, <2>4
  <2>5. CASE new = [semester |-> TRUE, shared |-> TRUE] BY <2>3, <2>5 DEF Sheets
  <2> QED BY <2>2, <2>4, <2>5
<1>2. CASE kind = "edit"
  <2>1. new \in IF sheet.shared THEN {sheet} ELSE {Sheet(TRUE, FALSE), Sheet(FALSE, FALSE)}
    BY <1>2 DEF SheetAfter
  <2>2. \/ new = sheet \/ new = [semester |-> TRUE, shared |-> FALSE]
        \/ new = [semester |-> FALSE, shared |-> FALSE]
    BY <2>1 DEF Sheet
  <2>3. kind \in PaperKinds BY <1>2 DEF PaperKinds
  <2>4. CASE new = sheet BY <2>3, <2>4
  <2>5. CASE new = [semester |-> TRUE, shared |-> FALSE] BY <2>3, <2>5 DEF Sheets
  <2>6. CASE new = [semester |-> FALSE, shared |-> FALSE] BY <2>3, <2>6 DEF Sheets
  <2> QED BY <2>2, <2>4, <2>5, <2>6
<1>3. CASE kind = "withdraw"
  <2>1. new = [sheet EXCEPT !.shared = FALSE] BY <1>3 DEF SheetAfter
  <2> QED BY <1>3, <2>1 DEF Sheets, PaperKinds
<1> QED BY <1>1, <1>2, <1>3 DEF SheetAfter

LEMMA CommitPaperKeeps ==
  ASSUME CampusInv, NEW d \in Desks, CommitPaper(d)
  PROVE  CampusInv'
<1>1. CampusTypes /\ SheetsInv BY DEF CampusInv
<1>2. PICK new \in SheetAfter(office[d].kind, office[d].sheet) :
        /\ marksheet' = Written(office[d].sheet, new, marksheet)
        /\ lockedBy' = IF lockedBy = d THEN NoDesk ELSE lockedBy
        /\ Leave(d)
        /\ UNCHANGED <<notice, told, stages, opened, crossed>>
  BY DEF CommitPaper
<1>3. office[d].kind \in PaperKinds
  BY <1>2 DEF SheetAfter, PaperKinds
<1>4. office[d].sheet = marksheet /\ lockedBy = d /\ marksheet \in Sheets
  BY <1>1, <1>3 DEF SheetsInv, CampusTypes
<1>5. new \in Sheets /\ (new.shared => new.semester)
  BY <1>1, <1>2, <1>4, SheetsAfter DEF SheetsInv
<1>6. marksheet' = new BY <1>2, <1>4, <1>5, WrittenSheet
<1>7. At(d, "free") BY <1>1, <1>2, LeaveAt
<1>8. \A e \in Desks \ {d} : office[e].kind \notin PaperKinds BY <1>1, <1>4 DEF SheetsInv
<1>9. SheetsInv' BY <1>1, <1>2, <1>5, <1>6, <1>7, <1>8 DEF SheetsInv, At, PaperKinds
<1>10. CampusTypes' BY <1>1, <1>2, <1>5, <1>6, <1>7, TypesStay DEF CampusTypes
<1>11. ReadsInv' BY <1>2, <1>7, ReadsStay
<1>12. StagesInv' BY <1>2, <1>7, StagesStay DEF Setups
<1> QED BY <1>9, <1>10, <1>11, <1>12 DEF CampusInv

LEMMA BeginReadKeeps ==
  ASSUME CampusInv, NEW d \in Desks, BeginRead(d)
  PROVE  CampusInv'
<1> DEFINE p == [FreeOffice EXCEPT !.kind = "read", !.count = told]
<1>1. CampusTypes /\ ReadsInv BY DEF CampusInv
<1>2. p \in OfficeRows /\ p.kind = "read" /\ p.count = told
  BY <1>1, FreeOfficeTyped DEF OfficeRows, CampusTypes
<1>3. /\ Serve(d, p) /\ notice.posted
      /\ crossed' = IF \E e \in Desks \ {d} : office[e].kind = "read"
                    THEN crossed \union {"read"} ELSE crossed
      /\ UNCHANGED <<marksheet, lockedBy, notice, told, stages, opened>>
  BY DEF BeginRead, IsOn
<1> HIDE DEF p
<1>4. At(d, "read") /\ office'[d].count = told BY <1>1, <1>2, <1>3, ServeAt
<1>5. ReadsInv' BY <1>1, <1>3, <1>4 DEF ReadsInv, At
<1>6. CampusTypes' BY <1>1, <1>3, <1>4, TypesStay DEF CampusTypes
<1>7. SheetsInv' BY <1>3, <1>4, SheetsStay DEF PaperKinds
<1>8. StagesInv' BY <1>3, <1>4, StagesStay DEF Setups
<1> QED BY <1>5, <1>6, <1>7, <1>8 DEF CampusInv

LEMMA CommitReadKeeps ==
  ASSUME CampusInv, NEW d \in Desks, CommitRead(d)
  PROVE  CampusInv'
<1>1. CampusTypes /\ ReadsInv BY DEF CampusInv
<1>2. /\ office[d].kind = "read" /\ told' = told + ToldMore(d) /\ Leave(d)
      /\ UNCHANGED <<marksheet, lockedBy, notice, stages, opened, crossed>>
  BY DEF CommitRead
<1>3. At(d, "free") BY <1>1, <1>2, LeaveAt
<1>4. told \in Nat /\ ToldMore(d) \in {0, 1} BY <1>1 DEF CampusTypes, ToldMore
<1>5. told' \in Nat BY <1>2, <1>4
<1>6. notice.posted BY <1>1, <1>2 DEF ReadsInv
<1>7. ASSUME "read" \notin crossed PROVE told' <= 1
  <2>1. told <= 1 /\ office[d].count = told BY <1>1, <1>2, <1>7 DEF ReadsInv
  <2>2. told > 0 => ToldMore(d) = 0 BY <1>4, <2>1 DEF ToldMore
  <2> QED BY <1>2, <1>4, <2>1, <2>2
<1>8. "read" \notin crossed => \A e \in Desks : office'[e].kind # "read"
  BY <1>1, <1>2, <1>3 DEF ReadsInv, At
<1>9. ReadsInv' BY <1>2, <1>6, <1>7, <1>8 DEF ReadsInv
<1>10. CampusTypes' BY <1>1, <1>2, <1>3, <1>5, TypesStay DEF CampusTypes
<1>11. SheetsInv' BY <1>2, <1>3, SheetsStay DEF PaperKinds
<1>12. StagesInv' BY <1>2, <1>3, StagesStay DEF Setups
<1> QED BY <1>9, <1>10, <1>11, <1>12 DEF CampusInv

\* The stages that come with a drive can be put in an order.
LEMMA OrderExists == DefaultOrder \in DefaultOrders
<1> DEFINE n == Cardinality(DefaultStages)
<1>1. n \in Nat /\ ExistsBijection(1 .. n, DefaultStages)
  BY CampusDeskAssumption, FS_CardinalityType
<1>2. ExistsBijection(DefaultStages, 1 .. n) BY <1>1, Fun_ExistsBijSymmetric
<1>3. PICK f \in [DefaultStages -> 1 .. n] : \A j, k \in DefaultStages : f[j] = f[k] => j = k
  BY <1>2 DEF ExistsBijection, Bijection, Injection, IsInjective
<1>4. f \in DefaultOrders BY <1>3 DEF DefaultOrders
<1> QED BY <1>4 DEF DefaultOrder

LEMMA BeginStagesKeeps ==
  ASSUME CampusInv, NEW d \in Desks, NEW kind \in Setups, NEW key \in StageKeys \union {"none"},
         NEW placed \in BOOLEAN, BeginStages(d, kind, key, placed),
         kind = "add" => key \in StageKeys
  PROVE  CampusInv'
<1> DEFINE n == IF placed THEN 0 ELSE Cardinality(Installed)
           p == [FreeOffice EXCEPT !.kind = kind, !.key = key, !.count = n]
<1>1. CampusTypes /\ StagesInv BY DEF CampusInv
<1>2. n \in Nat BY <1>1, FS_CardinalityType DEF CampusTypes
<1> HIDE DEF n
<1>3. p \in OfficeRows /\ p.kind = kind /\ p.key = key /\ p.count = n
  BY <1>2, FreeOfficeTyped DEF OfficeRows
<1>4. /\ Serve(d, p) /\ IF kind = "install" THEN Installed = {} ELSE key \notin Installed
      /\ crossed' = IF placed \/ Meets(d) THEN crossed \union {"stages"} ELSE crossed
      /\ UNCHANGED <<marksheet, lockedBy, notice, told, stages, opened>>
  BY DEF BeginStages, n
<1> HIDE DEF p
<1>5. At(d, kind) /\ office'[d].key = key /\ office'[d].count = n BY <1>1, <1>3, <1>4, ServeAt
<1>6. Installed' = Installed BY <1>4 DEF Installed
<1>7. ASSUME "stages" \notin crossed'
      PROVE  /\ "stages" \notin crossed /\ n = Cardinality(Installed)
             /\ \A e \in Desks \ {d} : office[e].kind \notin Setups
  BY <1>4, <1>7 DEF Meets, Setups, n
<1>8. StagesInv' BY <1>1, <1>4, <1>5, <1>6, <1>7 DEF StagesInv, At, Setups
<1>9. CampusTypes' BY <1>1, <1>4, <1>5, TypesStay DEF CampusTypes
<1>10. kind # "read" /\ kind \notin PaperKinds BY DEF PaperKinds, Setups
<1>11. SheetsInv' BY <1>4, <1>5, <1>10, SheetsStay
<1>12. ReadsInv' BY <1>4, <1>5, <1>10, ReadsStay
<1> QED BY <1>8, <1>9, <1>11, <1>12 DEF CampusInv

\* What a setup writes, whether it was overtaken or not.
LEMMA AddedTyped ==
  ASSUME CampusTypes, NEW d \in Desks, stages' = Added(d)
  PROVE  stages' \in [StageKeys -> Nat] /\ IsFiniteSet(Installed')
<1>1. DefaultOrder \in [DefaultStages -> Nat] BY OrderExists DEF DefaultOrders
<1>2. stages \in [StageKeys -> Nat] /\ office[d].count + 1 \in Nat
  BY DEF CampusTypes, OfficeRows
<1>3. stages' \in [StageKeys -> Nat] BY <1>1, <1>2 DEF Added
<1>4. Installed' \subseteq (Installed \union DefaultStages) \union {office[d].key}
  BY <1>2 DEF Added, Installed
<1>5. IsFiniteSet((Installed \union DefaultStages) \union {office[d].key})
  BY CampusDeskAssumption, FS_Union, FS_Singleton DEF CampusTypes
<1>6. IsFiniteSet(Installed') BY <1>4, <1>5, FS_Subset
<1> QED BY <1>3, <1>6

LEMMA InstallsInOrder ==
  ASSUME CampusTypes, NEW d \in Desks, office[d].kind = "install", Installed = {},
         stages' = Added(d)
  PROVE  /\ \A j, k \in Installed' : stages'[j] = stages'[k] => j = k
         /\ \A k \in Installed' : stages'[k] <= Cardinality(Installed')
<1> DEFINE n == Cardinality(DefaultStages)
<1>1. /\ DefaultOrder \in [DefaultStages -> 1 .. n]
      /\ \A j, k \in DefaultStages : DefaultOrder[j] = DefaultOrder[k] => j = k
  BY OrderExists DEF DefaultOrders
<1>2. \A k \in StageKeys : stages[k] = 0 BY DEF CampusTypes, Installed
<1>3. \A k \in StageKeys : stages'[k] = IF k \in DefaultStages THEN DefaultOrder[k] ELSE 0
  BY <1>2 DEF Added
<1>4. n \in Nat BY CampusDeskAssumption, FS_CardinalityType
<1> HIDE DEF n
<1>5. Installed' = DefaultStages BY <1>1, <1>3, <1>4 DEF Installed, StageKeys
<1>6. \A k \in DefaultStages : stages'[k] = DefaultOrder[k] BY <1>3 DEF StageKeys
<1>7. Cardinality(Installed') = n BY <1>5 DEF n
<1> QED BY <1>1, <1>4, <1>5, <1>6, <1>7

LEMMA AddsBehind ==
  ASSUME CampusTypes, NEW d \in Desks, office[d].kind = "add",
         office[d].key \in StageKeys \ Installed, office[d].count = Cardinality(Installed),
         \A j, k \in Installed : stages[j] = stages[k] => j = k,
         \A k \in Installed : stages[k] <= Cardinality(Installed),
         stages' = Added(d)
  PROVE  /\ \A j, k \in Installed' : stages'[j] = stages'[k] => j = k
         /\ \A k \in Installed' : stages'[k] <= Cardinality(Installed')
<1> DEFINE n == Cardinality(Installed)
           key == office[d].key
<1>1. n \in Nat /\ IsFiniteSet(Installed) BY FS_CardinalityType DEF CampusTypes
<1>2. \A k \in StageKeys : stages'[k] = IF k = key THEN n + 1 ELSE stages[k]
  BY DEF Added, CampusTypes
<1>3. key \in StageKeys /\ key \notin Installed OBVIOUS
<1> HIDE DEF key
<1>4. Cardinality(Installed \union {key}) = n + 1 BY <1>1, <1>3, FS_AddElement
<1>5. Installed \subseteq StageKeys BY DEF Installed
<1> HIDE DEF n
<1>6. Installed' = Installed \union {key} BY <1>1, <1>2, <1>3 DEF Installed
<1>7. Cardinality(Installed') = n + 1 BY <1>4, <1>6
<1>8. \A k \in Installed : stages'[k] = stages[k] /\ stages[k] <= n /\ stages[k] \in Nat
  BY <1>2, <1>3, <1>5 DEF n, CampusTypes
<1>9. stages'[key] = n + 1 BY <1>2, <1>3
<1>10. \A k \in Installed' : stages'[k] <= n + 1 BY <1>1, <1>6, <1>8, <1>9
<1>11. ASSUME NEW j \in Installed', NEW k \in Installed', stages'[j] = stages'[k] PROVE j = k
  BY <1>1, <1>6, <1>8, <1>9, <1>11
<1> QED BY <1>7, <1>10, <1>11

LEMMA CommitStagesKeeps ==
  ASSUME CampusInv, NEW d \in Desks, CommitStages(d)
  PROVE  CampusInv'
<1>1. CampusTypes /\ StagesInv BY DEF CampusInv
<1>2. /\ office[d].kind \in Setups /\ Leave(d) /\ stages' \in {Added(d), stages}
      /\ UNCHANGED <<marksheet, lockedBy, notice, told, opened, crossed>>
  BY DEF CommitStages, Setups
<1>3. At(d, "free") BY <1>1, <1>2, LeaveAt
<1>4. CampusTypes'
  <2>1. CASE stages' = stages BY <1>1, <1>2, <1>3, <2>1, TypesStay DEF CampusTypes
  <2>2. CASE stages' = Added(d) BY <1>1, <1>2, <1>3, <2>2, AddedTyped DEF CampusTypes, At
  <2> QED BY <1>2, <2>1, <2>2
<1>5. ASSUME "stages" \notin crossed'
      PROVE  /\ \A j, k \in Installed' : stages'[j] = stages'[k] => j = k
             /\ \A k \in Installed' : stages'[k] <= Cardinality(Installed')
             /\ \A e \in Desks : office'[e].kind \notin Setups
  <2>1. "stages" \notin crossed BY <1>2, <1>5
  <2>2. /\ \A j, k \in Installed : stages[j] = stages[k] => j = k
        /\ \A k \in Installed : stages[k] <= Cardinality(Installed)
        /\ office[d].count = Cardinality(Installed)
        /\ office[d].kind = "install" => Installed = {}
        /\ office[d].kind = "add" => office[d].key \in StageKeys \ Installed
        /\ \A e \in Desks \ {d} : office[e].kind \notin Setups
    BY <1>1, <1>2, <2>1 DEF StagesInv
  <2>3. /\ \A j, k \in Installed' : stages'[j] = stages'[k] => j = k
        /\ \A k \in Installed' : stages'[k] <= Cardinality(Installed')
    <3>1. CASE stages' = stages
      <4>1. Installed' = Installed BY <3>1 DEF Installed
      <4> QED BY <2>2, <3>1, <4>1
    <3>2. CASE stages' = Added(d)
      <4>1. CASE office[d].kind = "install" BY <1>1, <2>2, <3>2, <4>1, InstallsInOrder
      <4>2. CASE office[d].kind = "add" BY <1>1, <2>2, <3>2, <4>2, AddsBehind
      <4> QED BY <1>2, <4>1, <4>2 DEF Setups
    <3> QED BY <1>2, <3>1, <3>2
  <2>4. \A e \in Desks : office'[e].kind \notin Setups BY <1>3, <2>2 DEF At, Setups
  <2> QED BY <2>3, <2>4
<1>6. StagesInv' BY <1>5 DEF StagesInv
<1>7. SheetsInv' BY <1>2, <1>3, SheetsStay DEF PaperKinds
<1>8. ReadsInv' BY <1>2, <1>3, ReadsStay
<1> QED BY <1>4, <1>6, <1>7, <1>8 DEF CampusInv

\* Steps at no desk.
LEMMA OthersKeep ==
  ASSUME CampusInv,
         \/ HourPasses \/ AudienceChanges \/ OpenPaper \/ UNCHANGED campusVars
         \/ \E from, to \in 0 .. Horizon : Announce(from, to)
  PROVE  CampusInv'
<1>1. /\ UNCHANGED <<marksheet, lockedBy, stages, office, crossed>>
      /\ opened' = opened \/ (marksheet.shared /\ opened' = marksheet)
      /\ \/ UNCHANGED <<notice, told>>
         \/ ~notice.posted /\ notice'.posted /\ told' \in {0, 1}
  BY DEF HourPasses, AudienceChanges, OpenPaper, Announce, campusVars
<1>2. Installed' = Installed BY <1>1 DEF Installed
<1>3. CampusTypes' BY <1>1, <1>2 DEF CampusInv, CampusTypes
<1>4. SheetsInv' BY <1>1 DEF CampusInv, SheetsInv
<1>5. StagesInv' BY <1>1, <1>2 DEF CampusInv, StagesInv
<1>6. ReadsInv'
  <2>1. CASE UNCHANGED <<notice, told>> BY <1>1, <2>1 DEF CampusInv, ReadsInv
  <2>2. CASE ~notice.posted /\ notice'.posted /\ told' \in {0, 1}
    BY <1>1, <2>2 DEF CampusInv, ReadsInv
  <2> QED BY <1>1, <2>1, <2>2
<1> QED BY <1>3, <1>4, <1>5, <1>6 DEF CampusInv

LEMMA CampusInvNext == CampusInv /\ [CampusNext]_campusVars => CampusInv'
<1> SUFFICES ASSUME CampusInv, [CampusNext]_campusVars PROVE CampusInv' OBVIOUS
<1>1. ASSUME NEW d \in Desks, NEW kind \in {"submit", "edit", "withdraw"}, BeginPaper(d, kind)
      PROVE  CampusInv'
  BY <1>1, BeginPaperKeeps DEF PaperKinds
<1>2. ASSUME NEW d \in Desks, CommitPaper(d) \/ BeginRead(d) \/ CommitRead(d) \/ CommitStages(d)
      PROVE  CampusInv'
  BY <1>2, CommitPaperKeeps, BeginReadKeeps, CommitReadKeeps, CommitStagesKeeps
<1>3. ASSUME NEW d \in Desks, BeginStages(d, "install", "none", FALSE) PROVE CampusInv'
  BY <1>3, BeginStagesKeeps DEF Setups
<1>4. ASSUME NEW d \in Desks, NEW key \in StageKeys, NEW placed \in BOOLEAN,
             BeginStages(d, "add", key, placed)
      PROVE  CampusInv'
  BY <1>4, BeginStagesKeeps DEF Setups
<1> QED BY <1>1, <1>2, <1>3, <1>4, OthersKeep DEF CampusNext

(* What a campus shows of its students is as they left it, an announcement   *)
(* is told once and the stages of a drive have places of their own, for any  *)
(* number of desks and stages, unless two requests read before either wrote. *)
THEOREM CampusRecordsStand == CampusSpec => []CampusRecordsHold
<1>1. CampusSpec => []CampusInv
  BY CampusInvInit, CampusInvNext, PTL DEF CampusSpec
<1>2. CampusInv => CampusRecordsHold
  BY DEF CampusInv, SheetsInv, ReadsInv, StagesInv, CampusRecordsHold
<1> QED BY <1>1, <1>2, PTL

==================================================================================
