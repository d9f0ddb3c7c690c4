---------------------------- MODULE MCPlacement ----------------------------
(* Bounded instances of six parts that share no row, for TLC. *)
EXTENDS CampusJobs, Offers, StudentAccess, MarketSearch, PlacementActions, CampusDesk, TLC

SomeCandidates == {[verified |-> TRUE, suitable |-> TRUE, allowed |-> TRUE],
                   [verified |-> FALSE, suitable |-> FALSE, allowed |-> FALSE]}

Strict == [maxOffers |-> 2, blockIfPlaced |-> TRUE, minNext |-> 0, floor |-> 0,
           internshipsFree |-> FALSE, dream |-> 0]
Ladder == [Strict EXCEPT !.blockIfPlaced = FALSE, !.maxOffers = 1, !.minNext = 6, !.floor = 2,
                         !.internshipsFree = TRUE, !.dream = 12]
SomePolicies == {{}, {Strict, Ladder}}
PayScale == [a \in Openings |-> IF a \in Internships THEN 5 ELSE 12]

\* Days that are too short, at the edges of the rounding, and too long.
Asked == {0, 14, 42, 43, 44, 45, 90, 200, 365, 730}

\* Nothing to do, an eligible drive before and after verification, a document that is
\* missing, and an interview ahead.
Settled == [complete |-> TRUE, resume |-> TRUE, optedIn |-> TRUE, verified |-> TRUE,
            suitable |-> TRUE, documents |-> TRUE, applied |-> FALSE,
            open |-> TRUE, interview |-> FALSE, prepared |-> FALSE]
SomeSituations ==
  {Settled,
   [Settled EXCEPT !.verified = FALSE],
   [Settled EXCEPT !.documents = FALSE, !.complete = FALSE],
   [Settled EXCEPT !.applied = TRUE, !.interview = TRUE, !.open = FALSE]}

\* A run takes one part at a time, chosen by the first state: its states are the sum of
\* theirs and not the product.
VARIABLE part

Parts == {"jobs", "offers", "actions", "campus", "entitlement", "market"}
ofCampus == <<jobsVars, offersVars, actionsVars, campusVars>>
ofStudents == <<accessVars, searchVars>>
vars == <<part, ofCampus, ofStudents>>

Best == CHOOSE c \in SomeCandidates : c.verified /\ c.allowed

Init == /\ part \in Parts
        /\ JobsInit /\ OffersInit /\ ActionsInit /\ CampusInit
        /\ AccessInit /\ SearchInit
        /\ part # "jobs" => candidate = Best
        /\ part # "offers" => policies = {} /\ applications = {}
        /\ part # "actions" => situation = Settled
        /\ part # "campus" => ~marksheet.semester
        /\ part # "entitlement" => ~unified /\ ~campus
        /\ part # "market" => config = [keys |-> 0, gemini |-> FALSE, gateway |-> FALSE,
                                       public |-> TRUE]

Next ==
  /\ UNCHANGED part
  /\ \/ part = "jobs" /\ JobsNext /\ UNCHANGED <<offersVars, actionsVars, campusVars, ofStudents>>
     \/ part = "offers" /\ OffersNext /\ UNCHANGED <<jobsVars, actionsVars, campusVars, ofStudents>>
     \/ part = "actions" /\ ActionsNext /\ UNCHANGED <<jobsVars, offersVars, campusVars, ofStudents>>
     \/ part = "campus" /\ CampusNext /\ UNCHANGED <<jobsVars, offersVars, actionsVars, ofStudents>>
     \/ part = "entitlement" /\ AccessNext /\ UNCHANGED <<searchVars, ofCampus>>
     \/ part = "market" /\ SearchNext /\ UNCHANGED <<accessVars, ofCampus>>

Spec == Init /\ [][Next]_vars

\* Desks and Tabs are given the same values, and so are Contents and Letters.
Symm == Permutations(Desks) \union Permutations(Contents)
=============================================================================
