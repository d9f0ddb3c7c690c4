----------------------------- MODULE MCAccounts -----------------------------
EXTENDS Accounts, TLC

TwoSteps == {0, 1}

Interchangeable == Permutations(Requests) \union Permutations(Passwords) \union Permutations(ResetLinks)
                   \union Permutations(EmailLinks) \union Permutations(Jtis)
                   \union Permutations(Challenges)

\* What no step and no property tells apart is left out: earlier versions from one another,
\* how a session was granted that is of an earlier version or overtaken, what was read by a
\* login under an earlier version, by a signup that lost, by a password change and by a refresh
\* that will be refused, a code mailed for an earlier version, the version of a challenge
\* that is gone.
Seen(version) == IF version < user.version THEN 1 ELSE version

Distinguished ==
  << user, uses, mayReturn, google.linked, user.version \in google.mailed,
     [protection EXCEPT !.challengeVersion = IF protection.challenge = NoLink THEN 1 ELSE Seen(@)],
     [j \in Jtis |->
        IF sessions[j].overtaken \/ sessions[j].version < user.version
        THEN [sessions[j] EXCEPT !.version = Seen(@), !.proof = 1, !.knew = NoPassword,
                                 !.factor = FALSE]
        ELSE sessions[j]],
     [r \in Requests |->
        IF op[r].stage = "refresh" /\ sessions[op[r].jti].revoked
        THEN [op[r] EXCEPT !.version = 1, !.jti = NoLink]
        ELSE IF op[r].stage = "signup" /\ user.exists THEN [op[r] EXCEPT !.knew = NoPassword]
        ELSE IF op[r].stage = "change" THEN [op[r] EXCEPT !.version = 1]
        ELSE IF op[r].stage \in {"login", "rotated"} /\ op[r].version < user.version
        THEN [op[r] EXCEPT !.version = 1, !.knew = NoPassword]
        ELSE [op[r] EXCEPT !.version = Seen(@)]] >>
=============================================================================
