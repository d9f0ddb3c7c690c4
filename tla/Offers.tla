------------------------------- MODULE Offers -------------------------------
(***************************************************************************)
(* The offers one student holds, the placement status and the number of    *)
(* offers kept on the student's row, the letter of each offer, and the     *)
(* institution's policies, which decide by them what the student may still *)
(* apply for: routers/enterprise.py, storage.py and                        *)
(* evaluate_placement_policies of services.py.                             *)
(*                                                                         *)
(* Nothing is locked: a request reads, and commits later (RowWrites).      *)
(* Files are kept in the database, and so are saved and deleted by the     *)
(* commit.                                                                 *)
(***************************************************************************)
EXTENDS RowWrites, Naturals, FiniteSets

CONSTANTS
  Openings,          \* jobs the student may apply for
  Pay,               \* what each opening pays, 0 when its salary range names no figure
  Internships,       \* the openings that are internships
  Policies,          \* sets of active policies the institution may have
  Letters, NoLetter, \* uploaded files
  MaxOfferRequests   \* bound: requests taken in all

OfferStatuses == {"issued", "accepted", "declined", "withdrawn", "joining_confirmed", "joined"}
Accepts == {"accepted", "joining_confirmed", "joined"}     \* PLACED_OFFER_STATUSES
Decisions == {"accepted", "declined"}                      \* STUDENT_OFFER_DECISIONS
Off == 0                                                   \* a rule a policy does not have

PolicyRules == [maxOffers : Nat, blockIfPlaced : BOOLEAN, minNext : Nat, floor : Nat,
                internshipsFree : BOOLEAN, dream : Nat]

ASSUME OffersAssumption ==
  /\ Internships \subseteq Openings
  /\ IsFiniteSet(Openings)
  /\ Pay \in [Openings -> Nat]
  /\ \A ps \in Policies : ps \subseteq PolicyRules
  /\ NoLetter \notin Letters
  /\ MaxOfferRequests \in Nat

VARIABLES
  policies,      \* the active policies of the student's institution
  applications,  \* openings the student has applied for
  offer,         \* rows of offers, by the opening
  student,       \* placement_status and offers_count of the student's row
  files,         \* rows of stored_files
  counter,       \* what each request in progress has read
  asked          \* how many requests were taken

offersVars == <<policies, applications, offer, student, files, counter, asked>>

NoOffer == [status |-> "none", letter |-> NoLetter]
OfferRows == [status : OfferStatuses \union {"none"}, letter : Letters \union {NoLetter}]
StudentRows == [placed : BOOLEAN, count : 0 .. Cardinality(Openings)]
FreeCounter == [kind |-> "free", at |-> CHOOSE a \in Openings : TRUE, offer |-> NoOffer,
                to |-> NoOffer, student |-> [placed |-> FALSE, count |-> 0],
                toStudent |-> [placed |-> FALSE, count |-> 0], stale |-> FALSE]

OffersTypeOK ==
  /\ policies \in Policies
  /\ applications \subseteq Openings
  /\ offer \in [Openings -> OfferRows]
  /\ student \in StudentRows
  /\ files \subseteq Letters
  /\ counter \in [Desks -> [kind : {"free", "apply", "create", "update", "letter"},
                            at : Openings, offer : OfferRows, to : OfferRows,
                            student : StudentRows, toStudent : StudentRows, stale : BOOLEAN]]
  /\ asked \in 0 .. MaxOfferRequests

OffersInit ==
  /\ policies \in Policies
  /\ applications \in SUBSET Openings     \* of before the institution had policies
  /\ offer = [a \in Openings |-> NoOffer]
  /\ student = [placed |-> FALSE, count |-> 0]
  /\ files = {}
  /\ counter = [d \in Desks |-> FreeCounter]
  /\ asked = 0

-----------------------------------------------------------------------------
(* Policies *)

WithStatus(statuses) == {a \in Openings : offer[a].status \in statuses}

\* The rules of policy p that speak against opening a, before its exceptions.
Against(p, a) ==
  LET accepted == {Pay[b] : b \in WithStatus({"accepted", "joining_confirmed"})} \ {0}
      active == Cardinality(WithStatus({"issued", "accepted", "joining_confirmed"}))
      Holds(rule) ==
        CASE rule = "maxOffers" -> p.maxOffers # Off /\ active >= p.maxOffers
          [] rule = "blockIfPlaced" -> p.blockIfPlaced /\ student.placed
          [] rule = "minNext" -> student.placed /\ Pay[a] # 0 /\ Pay[a] < p.minNext
          [] rule = "floor" -> /\ p.floor # Off /\ Pay[a] # 0
                               /\ \E paid \in accepted : Pay[a] < paid * p.floor
  IN {rule \in {"maxOffers", "blockIfPlaced", "minNext", "floor"} : Holds(rule)}

\* Of an internship only minNext is held against it: the exception looks for "offer" or
\* "placed" in the reasons.
Objections(p, a) ==
  CASE p.dream # Off /\ Pay[a] # 0 /\ Pay[a] >= p.dream -> {}
    [] a \in Internships /\ p.internshipsFree -> Against(p, a) \intersect {"minNext"}
    [] OTHER -> Against(p, a)

Allowed(a) == \A p \in policies : Objections(p, a) = {}

-----------------------------------------------------------------------------
(* Requests *)

Asks(d, request) == /\ asked < MaxOfferRequests
                    /\ asked' = asked + 1
                    /\ counter[d].kind = "free"
                    /\ counter' = [counter EXCEPT ![d] = request]
                    /\ UNCHANGED <<policies, applications, offer, student, files>>

Answers(d) == counter' = Cleared(counter, d, FreeCounter) /\ UNCHANGED <<policies, asked>>

Request(kind, a) ==
  [FreeCounter EXCEPT !.kind = kind, !.at = a, !.offer = offer[a], !.to = offer[a],
                      !.student = student, !.toStudent = student]

BeginApplication(d, a) ==
  /\ a \notin applications
  /\ Allowed(a)
  /\ Asks(d, Request("apply", a))

\* The row is unique; of two, one fails.
CommitApplication(d) ==
  /\ counter[d].kind = "apply"
  /\ applications' = applications \union {counter[d].at}
  /\ Answers(d)
  /\ UNCHANGED <<offer, student, files>>

\* create_offer takes any status, and leaves the placement status alone.
BeginOffer(d, a, status) ==
  /\ a \in applications
  /\ offer[a].status = "none"
  /\ Asks(d, [Request("create", a) EXCEPT !.to = [NoOffer EXCEPT !.status = status],
                                          !.toStudent.count = student.count + 1])

\* One offer per application: the insert of a second fails, and all of its transaction.
CommitOffer(d) ==
  /\ counter[d].kind = "create"
  /\ IF offer[counter[d].at].status = "none"
     THEN /\ offer' = [offer EXCEPT ![counter[d].at] = counter[d].to]
          /\ student' = Written(counter[d].student, counter[d].toStudent, student)
     ELSE UNCHANGED <<offer, student>>
  /\ Answers(d)
  /\ UNCHANGED <<applications, files>>

\* Variant: a student who was placed stays so.
PlacedWithKept(a, status) == student.placed \/ status \in Accepts

\* _recalculate_student_placement_status, with the new status of the offer at hand
\* and the others as committed.
PlacedWith(a, status) == status \in Accepts \/ WithStatus(Accepts) \ {a} # {}

BeginUpdate(d, a, status) ==
  /\ offer[a].status # "none"
  /\ Asks(d, [Request("update", a) EXCEPT !.to.status = status,
                                          !.toStudent.placed = PlacedWith(a, status)])

CommitUpdate(d) ==
  /\ counter[d].kind = "update"
  /\ offer' = [offer EXCEPT ![counter[d].at] = Written(counter[d].offer, counter[d].to, @)]
  /\ student' = Written(counter[d].student, counter[d].toStudent, student)
  /\ Answers(d)
  /\ UNCHANGED <<applications, files>>

-----------------------------------------------------------------------------
(* Offer letters *)

\* The offer is read before the upload is; every upload has a name of its own.
BeginLetter(d, a, f) ==
  /\ offer[a].status # "none"
  /\ \A e \in Desks : f \notin {counter[e].offer.letter, counter[e].to.letter}
  /\ \A b \in Openings : f # offer[b].letter
  /\ f \notin files
  /\ Asks(d, [Request("letter", a) EXCEPT !.to.letter = f])

\* Deleting a file that another upload has deleted already is no error.
CommitLetter(d) ==
  /\ counter[d].kind = "letter"
  /\ files' = (files \ {counter[d].offer.letter}) \union {counter[d].to.letter}
  /\ offer' = [offer EXCEPT ![counter[d].at].letter = counter[d].to.letter]
  /\ Answers(d)
  /\ UNCHANGED <<applications, student>>

\* A request that fails, or whose process dies: its transaction is rolled back.
Abandon(d) ==
  /\ counter[d].kind # "free"
  /\ counter' = [counter EXCEPT ![d] = FreeCounter]
  /\ UNCHANGED <<policies, applications, offer, student, files, asked>>

OffersNext ==
  \E d \in Desks :
    \/ \E a \in Openings :
         \/ BeginApplication(d, a)
         \/ \E status \in OfferStatuses : BeginOffer(d, a, status)
         \/ \E status \in Decisions : BeginUpdate(d, a, status)                  \* the student
         \/ \E status \in OfferStatuses \ Decisions : BeginUpdate(d, a, status)  \* the others
         \/ \E f \in Letters : BeginLetter(d, a, f)
    \/ CommitApplication(d)
    \/ CommitOffer(d)
    \/ CommitUpdate(d)
    \/ CommitLetter(d)
    \/ Abandon(d)

-----------------------------------------------------------------------------
(* Properties *)

Placed == WithStatus(Accepts) # {}
Drifted == student.placed # Placed

\* The placement status agrees with the offers: update_offer recomputes it over all of
\* them.  Only two things part them: an update that another request overtook (each of two
\* sees the other offer as it was), and an offer created as accepted, for which
\* create_offer recomputes nothing.
PlacementFollowsOffers ==
  [][Drifted' => \/ Drifted
                 \/ OvertakenCommit(counter, counter')
                 \/ \E a \in Openings : offer[a].status = "none" /\ offer'[a].status \in Accepts
    ]_offersVars

\* The letter an offer names can be read, whatever uploads overlap and wherever one fails.
LetterReadable == \A a \in Openings : offer[a].letter # NoLetter => offer[a].letter \in files

\* What is said of a student's offers follows them, but for a request that was overtaken:
\* the placement status, and the letters that can be read.
OffersAgree == []LetterReadable /\ PlacementFollowsOffers
=============================================================================
