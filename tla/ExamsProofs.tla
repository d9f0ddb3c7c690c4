------------------------------ MODULE ExamsProofs ------------------------------
(* Theorems about IntegrityReport, StudyTracker, ExamScoring and ExamPaper,   *)
(* for every value of their constants.                                        *)
EXTENDS IntegrityReport, StudyTracker, ExamScoring, ExamPaper, FiniteSetTheorems, SequenceTheorems,
        NaturalsInduction, WellFoundedInduction, TLAPS

LEMMA LeastOf ==
  ASSUME NEW T, T \subseteq Nat, T # {}
  PROVE  \E x \in T : \A y \in T : x <= y
<1> DEFINE Less == OpToRel(<, Nat)
<1>1. \E x \in T : \A y \in T : <<y, x>> \notin Less
  <2>1. IsWellFoundedOn(Less, Nat) BY NatLessThanWellFounded
  <2> HIDE DEF Less
  <2> QED BY <2>1, WFMin
<1>2. PICK x \in T : \A y \in T : <<y, x>> \notin Less BY <1>1
<1>3. ASSUME NEW y \in T PROVE x <= y
  <2>1. <<y, x>> \notin Less BY <1>2
  <2>2. ~(y < x) BY <2>1 DEF OpToRel
  <2> QED BY <2>2
<1> QED BY <1>3

(* What holds of 0, and of the next of each number it holds of, holds of all. *)
LEMMA EachNumber ==
  ASSUME NEW S, 0 \in S, \A n \in Nat : n \in S => n + 1 \in S
  PROVE  Nat \subseteq S
<1> SUFFICES ASSUME Nat \ S # {} PROVE FALSE OBVIOUS
<1>1. PICK n \in Nat \ S : \A m \in Nat \ S : n <= m
  BY LeastOf
<1>2. n # 0 /\ n \in Nat
  OBVIOUS
<1>3. n - 1 \in Nat /\ ~(n <= n - 1) /\ (n - 1) + 1 = n
  BY <1>2
<1>4. n - 1 \in S
  BY <1>1, <1>3
<1>5. (n - 1) + 1 \in S
  BY <1>3, <1>4
<1> QED BY <1>1, <1>3, <1>5

(* Of the events that came, each is kept, and no others. *)
LEMMA EachIsKept ==
  ASSUME NEW E, NEW s \in Seq(E)
  PROVE  Once(s) \in Seq(E) /\ ToSet(Once(s)) = ToSet(s)
<1> DEFINE N == Len(s)
           TakenFrom(prior, e) == IF e \in ToSet(prior) THEN prior ELSE Append(prior, e)
           kept[n \in 0 .. N] == IF n = 0 THEN <<>>
                                 ELSE IF s[n] \in ToSet(kept[n - 1]) THEN kept[n - 1]
                                 ELSE Append(kept[n - 1], s[n])
           Fits(f, m) == \A n \in 0 .. m :
                           f[n] = IF n = 0 THEN <<>>
                                  ELSE IF s[n] \in ToSet(f[n - 1]) THEN f[n - 1]
                                  ELSE Append(f[n - 1], s[n])
           Reached == {m \in Nat : m <= N => \E f : f = [n \in 0 .. m |-> f[n]] /\ Fits(f, m)}
<1>1. N \in Nat /\ s \in [1 .. N -> E]
  BY LenProperties
<1> HIDE DEF N
<1>2. 0 \in Reached
  <2> DEFINE f == [n \in 0 .. 0 |-> <<>>]
  <2>1. f = [n \in 0 .. 0 |-> f[n]] /\ Fits(f, 0)
    OBVIOUS
  <2> QED BY <2>1
<1>3. \A m \in Nat : m \in Reached => m + 1 \in Reached
  <2> SUFFICES ASSUME NEW m \in Nat, m \in Reached, m + 1 <= N
               PROVE  \E f : f = [n \in 0 .. m + 1 |-> f[n]] /\ Fits(f, m + 1)
    OBVIOUS
  <2>1. PICK f : f = [n \in 0 .. m |-> f[n]] /\ Fits(f, m)
    BY <1>1
  <2> DEFINE g == [n \in 0 .. m + 1 |-> IF n <= m THEN f[n]
                                        ELSE IF s[m + 1] \in ToSet(f[m]) THEN f[m]
                                        ELSE Append(f[m], s[m + 1])]
  <2>2. g = [n \in 0 .. m + 1 |-> g[n]]
    OBVIOUS
  <2>3. Fits(g, m + 1)
    <3> SUFFICES ASSUME NEW n \in 0 .. m + 1
                 PROVE  g[n] = IF n = 0 THEN <<>>
                               ELSE IF s[n] \in ToSet(g[n - 1]) THEN g[n - 1]
                               ELSE Append(g[n - 1], s[n])
      OBVIOUS
    <3>1. CASE n <= m
      <4>1. g[n] = f[n] /\ (n # 0 => g[n - 1] = f[n - 1])
        BY <3>1
      <4> HIDE DEF g
      <4> QED BY SMTT(30), <2>1, <3>1, <4>1
    <3>2. CASE n = m + 1
      <4>1. n - 1 = m /\ n # 0 /\ ~(n <= m) /\ m \in 0 .. m + 1 /\ m <= m
        BY <3>2
      <4>2. g[m] = f[m]
        BY <4>1
      <4>3. g[n] = IF s[n] \in ToSet(f[m]) THEN f[m] ELSE Append(f[m], s[n])
        BY <3>2, <4>1
      <4> HIDE DEF g
      <4> QED BY <4>1, <4>2, <4>3
    <3> QED BY <3>1, <3>2
  <2> QED BY <2>2, <2>3
<1>4. N \in Reached
  <2> HIDE DEF Reached
  <2> QED BY SMTT(30), <1>1, <1>2, <1>3, EachNumber
<1>5. kept = [n \in 0 .. N |-> IF n = 0 THEN <<>>
                               ELSE IF s[n] \in ToSet(kept[n - 1]) THEN kept[n - 1]
                               ELSE Append(kept[n - 1], s[n])]
  <2>1. PICK f : f = [n \in 0 .. N |-> f[n]] /\ Fits(f, N)
    BY <1>1, <1>4
  <2>2. f = [n \in 0 .. N |-> IF n = 0 THEN <<>>
                               ELSE IF s[n] \in ToSet(f[n - 1]) THEN f[n - 1]
                               ELSE Append(f[n - 1], s[n])]
    BY <2>1
  <2> QED BY Zenon, <2>2
<1>6. Once(s) = kept[N]
  BY DEF Once, N
<1> HIDE DEF kept
<1> DEFINE Same(n) == kept[n] \in Seq(E) /\ ToSet(kept[n]) = {s[i] : i \in 1 .. n}
           Good == {n \in Nat : n <= N => Same(n)}
<1>7. 0 \in Good
  <2>1. kept[0] = <<>>
    BY <1>1, <1>5
  <2>2. kept[0] \in Seq(E)
    BY <2>1
  <2>3. ToSet(kept[0]) = {}
    BY <2>1 DEF ToSet
  <2>4. {s[i] : i \in 1 .. 0} = {}
    OBVIOUS
  <2>5. Same(0)
    BY <2>2, <2>3, <2>4
  <2> HIDE DEF Same
  <2> QED BY <2>5
<1>8. \A m \in Nat : m \in Good => m + 1 \in Good
  <2> HIDE DEF Same
  <2> SUFFICES ASSUME NEW m \in Nat, m \in Good, m + 1 <= N
               PROVE  Same(m + 1)
    OBVIOUS
  <2>0. Same(m)
    BY <1>1
  <2> USE DEF Same
  <2> HIDE DEF Good
  <2> DEFINE q == kept[m]
             e == s[m + 1]
  <2>1. q \in Seq(E) /\ ToSet(q) = {s[i] : i \in 1 .. m} /\ e \in E
    BY <1>1, <2>0
  <2>2. kept[m + 1] = IF e \in ToSet(q) THEN q ELSE Append(q, e)
    <3>1. m + 1 \in 0 .. N /\ m + 1 # 0 /\ (m + 1) - 1 = m
      BY <1>1
    <3> QED BY <1>5, <3>1
  <2>3. {s[i] : i \in 1 .. m + 1} = {s[i] : i \in 1 .. m} \union {e}
    <3>1. \A i \in 1 .. m + 1 : i \in 1 .. m \/ i = m + 1
      OBVIOUS
    <3>2. 1 .. m \subseteq 1 .. m + 1 /\ m + 1 \in 1 .. m + 1
      OBVIOUS
    <3> QED BY <3>1, <3>2
  <2> HIDE DEF q, e
  <2>4. ToSet(Append(q, e)) = ToSet(q) \union {e} /\ Append(q, e) \in Seq(E)
    <3>1. /\ Append(q, e) \in Seq(E) /\ Len(Append(q, e)) = Len(q) + 1
          /\ \A i \in 1 .. Len(q) : Append(q, e)[i] = q[i]
          /\ Append(q, e)[Len(q) + 1] = e
      BY <2>1, AppendProperties
    <3>2. DOMAIN q = 1 .. Len(q) /\ DOMAIN Append(q, e) = 1 .. Len(q) + 1 /\ Len(q) \in Nat
      BY <2>1, <3>1, LenProperties
    <3>3. \A i \in 1 .. Len(q) + 1 : i \in 1 .. Len(q) \/ i = Len(q) + 1
      BY <3>2
    <3>4. 1 .. Len(q) \subseteq 1 .. Len(q) + 1 /\ Len(q) + 1 \in 1 .. Len(q) + 1
      BY <3>2
    <3> QED BY <3>1, <3>2, <3>3, <3>4 DEF ToSet
  <2> QED BY <2>1, <2>2, <2>3, <2>4
<1>9. N \in Good
  <2> HIDE DEF Good, Same
  <2> QED BY <1>1, <1>7, <1>8, EachNumber
<1>10. ToSet(s) = {s[i] : i \in 1 .. N}
  BY <1>1 DEF ToSet
<1> QED BY <1>1, <1>6, <1>9, <1>10

(* One of finitely many natural numbers is the largest. *)
LEMMA LargestOf ==
  ASSUME NEW n \in Nat, NEW f, \A i \in 1 .. n : f[i] \in Nat
  PROVE  n # 0 => \E i \in 1 .. n : \A j \in 1 .. n : f[j] <= f[i]
<1> DEFINE S == {m \in Nat : m <= n /\ m # 0 => \E i \in 1 .. m : \A j \in 1 .. m : f[j] <= f[i]}
<1>1. 0 \in S
  OBVIOUS
<1>2. \A m \in Nat : m \in S => m + 1 \in S
  <2> SUFFICES ASSUME NEW m \in Nat, m \in S, m + 1 <= n
               PROVE  \E i \in 1 .. m + 1 : \A j \in 1 .. m + 1 : f[j] <= f[i]
    OBVIOUS
  <2>1. CASE m = 0
    <3>1. \A j \in 1 .. m + 1 : f[j] <= f[1]
      BY <2>1
    <3> QED BY <2>1, <3>1
  <2>2. CASE m # 0
    <3>1. PICK i \in 1 .. m : \A j \in 1 .. m : f[j] <= f[i]
      BY <2>2
    <3>2. f[i] \in Nat /\ f[m + 1] \in Nat /\ i \in 1 .. m + 1 /\ m + 1 \in 1 .. m + 1
      OBVIOUS
    <3>3. CASE f[m + 1] <= f[i]
      BY <3>1, <3>2, <3>3
    <3>4. CASE ~(f[m + 1] <= f[i])
      <4>1. \A j \in 1 .. m + 1 : f[j] <= f[m + 1]
        BY <3>1, <3>2, <3>4
      <4> QED BY <3>2, <4>1
    <3> QED BY <3>3, <3>4
  <2> QED BY <2>1, <2>2
<1>3. n \in S
  <2> HIDE DEF S
  <2> QED BY <1>1, <1>2, EachNumber
<1> QED BY <1>3

(* The kept events are of those that came; unless the report is full, all of them are. *)
LEMMA NewestOf ==
  ASSUME Cap \in Nat, NEW E, NEW q \in Seq(E)
  PROVE  /\ Newest(q) \in Seq(E)
         /\ Len(Newest(q)) # Cap => Newest(q) = q
<1>1. Len(q) \in Nat /\ q \in [1 .. Len(q) -> E]
  BY LenProperties
<1>2. CASE Len(q) > Cap
  <2> DEFINE a == (Len(q) - Cap) + 1
  <2>1. Newest(q) = SubSeq(q, a, Len(q))
    BY <1>1, <1>2 DEF Newest
  <2>2. a \in Nat /\ a >= 1 /\ a <= Len(q) + 1 /\ (Len(q) - a) + 1 = Cap
    BY <1>1, <1>2
  <2> HIDE DEF a
  <2>3. SubSeq(q, a, Len(q)) = [i \in 1 .. ((Len(q) - a) + 1) |-> q[(a + i) - 1]]
    BY <1>1, <2>2
  <2>4. \A i \in 1 .. Cap : (a + i) - 1 \in 1 .. Len(q)
    BY <1>1, <2>2
  <2>5. [i \in 1 .. Cap |-> q[(a + i) - 1]] \in [1 .. Cap -> E]
    BY <1>1, <2>4
  <2>6. Newest(q) \in [1 .. Cap -> E]
    BY SMTT(30), <2>1, <2>2, <2>3, <2>5
  <2> QED BY <2>6
<1>3. CASE ~(Len(q) > Cap)
  <2>1. Newest(q) = SubSeq(q, 1, Len(q))
    BY <1>1, <1>3 DEF Newest
  <2>2. SubSeq(q, 1, Len(q)) = q
    BY <1>1
  <2> QED BY <2>1, <2>2
<1> QED BY <1>2, <1>3

(* Each numbered event counts, whatever the browser claims. *)
LEMMA NumbersCount ==
  ASSUME NEW E, \A e \in E : e.warning \in Nat, NEW q \in Seq(E), NEW claimed \in {0, 5}
  PROVE  /\ Warnings(q, claimed) \in Nat
         /\ \A e \in ToSet(q) : Warnings(q, claimed) >= (IF e.warning < 4 THEN e.warning ELSE 4)
<1> DEFINE n == Len(q)
           S == Numbers(q)
<1>1. n \in Nat /\ q \in [1 .. n -> E] /\ ToSet(q) = {q[i] : i \in 1 .. n}
  BY LenProperties DEF ToSet
<1>2. S \subseteq Nat
  BY <1>1 DEF Numbers
<1>3. \A e \in ToSet(q) : e.warning \in Nat /\ (e.warning > 0 => e.warning \in S)
  BY <1>1 DEF Numbers
<1>4. ASSUME S # {} PROVE \E x \in S : \A y \in S : x >= y
  <2> DEFINE f == [i \in 1 .. n |-> q[i].warning]
  <2>1. \A i \in 1 .. n : f[i] \in Nat /\ f[i] = q[i].warning
    BY <1>1
  <2>2. \A y \in S : \E i \in 1 .. n : y = f[i] /\ y > 0
    BY <1>1, <2>1 DEF Numbers
  <2>2a. \A i \in 1 .. n : f[i] > 0 => f[i] \in S
    BY <1>1, <2>1 DEF Numbers
  <2>3. n # 0
    BY <1>1, <1>4, <2>2
  <2> HIDE DEF f, n, S
  <2>4. PICK i \in 1 .. n : \A j \in 1 .. n : f[j] <= f[i]
    BY <1>1, <2>1, <2>3, LargestOf
  <2>5. PICK y \in S : TRUE
    BY <1>4
  <2>6. f[i] \in S
    BY <1>2, <2>1, <2>2, <2>2a, <2>4, <2>5
  <2>7. \A z \in S : f[i] >= z
    BY <1>2, <2>1, <2>2, <2>4
  <2> QED BY <2>6, <2>7
<1>5. S # {} => Max(S) \in S /\ \A y \in S : Max(S) >= y
  BY <1>4 DEF Max
<1> DEFINE m == IF S # {} THEN Max(S) ELSE IF q # <<>> THEN 0 ELSE claimed
<1>6. Warnings(q, claimed) = IF m < 4 THEN m ELSE 4
  BY DEF Warnings
<1> HIDE DEF S
<1>7. m \in Nat /\ \A e \in ToSet(q) : m >= e.warning
  <2>1. CASE S # {}
    <3>1. m = Max(S) /\ m \in S /\ \A y \in S : m >= y
      BY <1>5, <2>1
    <3> HIDE DEF m
    <3>2. ASSUME NEW e \in ToSet(q) PROVE m >= e.warning
      <4>1. e.warning \in Nat /\ (e.warning > 0 => m >= e.warning) /\ m \in Nat
        BY <1>2, <1>3, <3>1
      <4> QED BY <4>1
    <3> QED BY <1>2, <3>1, <3>2
  <2>2. CASE S = {}
    <3>1. m \in Nat
      BY <2>2
    <3> HIDE DEF m
    <3>2. ASSUME NEW e \in ToSet(q) PROVE m >= e.warning
      <4>1. e.warning \in Nat /\ ~(e.warning > 0)
        BY <1>3, <2>2
      <4> QED BY <3>1, <4>1
    <3> QED BY <3>1, <3>2
  <2> QED BY <2>1, <2>2
<1> HIDE DEF m
<1>8. ASSUME NEW e \in ToSet(q)
      PROVE  Warnings(q, claimed) >= (IF e.warning < 4 THEN e.warning ELSE 4)
  <2>1. e.warning \in Nat /\ m >= e.warning
    BY <1>3, <1>7
  <2> QED BY <1>6, <1>7, <2>1
<1>9. Warnings(q, claimed) \in Nat
  BY <1>6, <1>7
<1> QED BY <1>8, <1>9

(* What every state keeps: signals only are recorded, and the last report
   counts what had been when it was made. *)
IntegrityInv == recorded \in Seq(Signals) /\ EvidenceCounts

LEMMA EvaluatedReport ==
  ASSUME IntegrityInv, NEW list \in Browser, NEW claimed \in {0, 5}, NEW ended \in BOOLEAN,
         Evaluate(list, claimed, ended)
  PROVE  IntegrityInv'
<1> DEFINE E == Signals \union ToSet(list)
           events == Merged(recorded, list)
           warnings == Warnings(events, claimed)
           auto == ended \/ warnings >= 4 \/ \E e \in ToSet(events) : e.auto
<1>1. \A e \in E : e.warning \in Nat
  BY IntegrityAssumption
<1>2. recorded \in Seq(E) /\ list \in Seq(E)
  <2>1. recorded \in Seq(Signals) /\ list \in Seq(ToSet(list))
    BY IntegrityAssumption DEF IntegrityInv
  <2>2. \A T : \A s \in Seq(T) : T \subseteq E => s \in Seq(E)
    OBVIOUS
  <2> QED BY <2>1, <2>2
<1>3. recorded \o list \in Seq(E) /\ ToSet(recorded) \subseteq ToSet(recorded \o list)
  <2> HIDE DEF E
  <2>1. /\ recorded \o list \in Seq(E) /\ Len(recorded \o list) = Len(recorded) + Len(list)
        /\ \A i \in 1 .. Len(recorded) : (recorded \o list)[i] = recorded[i]
    BY <1>2, ConcatProperties
  <2>2. /\ DOMAIN recorded = 1 .. Len(recorded) /\ Len(recorded) \in Nat /\ Len(list) \in Nat
        /\ DOMAIN (recorded \o list) = 1 .. Len(recorded) + Len(list)
    BY <1>2, <2>1, LenProperties
  <2>3. 1 .. Len(recorded) \subseteq 1 .. Len(recorded) + Len(list)
    BY <2>2
  <2> QED BY <2>1, <2>2, <2>3 DEF ToSet
<1> DEFINE once == Once(recorded \o list)
<1>4. once \in Seq(E) /\ ToSet(recorded) \subseteq ToSet(once)
  <2> HIDE DEF E
  <2> QED BY <1>3, EachIsKept
<1>5. events = Newest(once)
  BY DEF Merged
<1>6. events \in Seq(E) /\ (Len(events) # Cap => events = once)
  <2> HIDE DEF E, once, events
  <2>1. Cap \in Nat BY IntegrityAssumption
  <2> QED BY <1>4, <1>5, <2>1, NewestOf
<1>7. /\ warnings \in Nat
      /\ \A e \in ToSet(events) : warnings >= (IF e.warning < 4 THEN e.warning ELSE 4)
  <2> HIDE DEF E, once, events
  <2> QED BY <1>1, <1>6, NumbersCount
<1>8. \A e \in ToSet(events) : e.warning \in Nat
  <2> HIDE DEF E, once, events
  <2>1. events \in [1 .. Len(events) -> E] BY <1>6, LenProperties
  <2> QED BY <1>1, <2>1 DEF ToSet
<1>9. /\ report' = [events |-> events, warnings |-> warnings, auto |-> auto,
                    status |-> IF auto THEN "auto_submitted_review_required"
                               ELSE IF events # <<>> THEN "review_required" ELSE "clear"]
      /\ counted' = recorded /\ recorded' = recorded
  BY DEF Evaluate
<1>10. report'.events = events /\ report'.warnings = warnings /\ report'.auto = auto
  BY <1>9
<1>11. report'.status = "clear" => events = <<>>
  BY <1>9
<1>12. EvidenceCounts'
  <2> HIDE DEF E, once, events, warnings
  <2> SUFFICES ASSUME Len(events) # Cap
               PROVE  /\ ToSet(counted') \subseteq ToSet(events)
                      /\ \A e \in ToSet(counted') :
                            /\ warnings >= (IF e.warning < 4 THEN e.warning ELSE 4)
                            /\ e.auto \/ e.warning >= 4 => auto
                      /\ report'.status = "clear" => counted' = <<>>
    BY <1>10 DEF EvidenceCounts, Overflows
  <2>1. ToSet(counted') \subseteq ToSet(events)
    BY <1>4, <1>6, <1>9
  <2>2. ASSUME NEW e \in ToSet(counted')
        PROVE  /\ warnings >= (IF e.warning < 4 THEN e.warning ELSE 4)
               /\ e.auto \/ e.warning >= 4 => auto
    <3>1. e \in ToSet(events) /\ e.warning \in Nat
      BY <1>8, <2>1
    <3>2. warnings >= (IF e.warning < 4 THEN e.warning ELSE 4)
      BY <1>7, <3>1
    <3>3. e.warning >= 4 => warnings >= 4
      BY <1>7, <3>1, <3>2
    <3> QED BY <3>1, <3>2, <3>3
  <2>3. ASSUME report'.status = "clear" PROVE counted' = <<>>
    <3>1. events = <<>> BY <1>11, <2>3
    <3>2. ToSet(events) = {} BY <3>1 DEF ToSet
    <3>3. ToSet(recorded) = {} BY <1>9, <2>1, <3>2
    <3>4. Len(recorded) \in Nat /\ DOMAIN recorded = 1 .. Len(recorded)
      BY <1>2, LenProperties
    <3>5. Len(recorded) = 0
      <4> SUFFICES ASSUME Len(recorded) # 0 PROVE FALSE OBVIOUS
      <4>1. 1 \in DOMAIN recorded BY <3>4
      <4>2. recorded[1] \in ToSet(recorded) BY <4>1 DEF ToSet
      <4> QED BY <3>3, <4>2
    <3> QED BY <1>2, <1>9, <3>5, EmptySeq
  <2> QED BY <2>1, <2>2, <2>3
<1> QED BY <1>9, <1>12 DEF IntegrityInv

(* EvidenceCounts holds of every exam: whatever list, copies and claims the
   browser hands in, what the server recorded is in the report and counts. *)
THEOREM RecordedEvidenceCounts == IntegritySpec => []EvidenceCounts
<1>1. IntegrityInit => IntegrityInv
  BY DEF IntegrityInit, IntegrityInv, EvidenceCounts, NoReport
<1>2. IntegrityInv /\ [IntegrityNext]_integrityVars => IntegrityInv'
  <2> SUFFICES ASSUME IntegrityInv, [IntegrityNext]_integrityVars PROVE IntegrityInv'
    OBVIOUS
  <2>1. CASE UNCHANGED integrityVars
    BY <2>1 DEF integrityVars, IntegrityInv, EvidenceCounts, Overflows
  <2>2. ASSUME NEW e \in Signals, Signal(e) PROVE IntegrityInv'
    <3>1. Append(recorded, e) \in Seq(Signals)
      BY DEF IntegrityInv
    <3> QED BY <2>2, <3>1 DEF Signal, IntegrityInv, EvidenceCounts, Overflows
  <2>3. ASSUME NEW list \in Browser, NEW claimed \in {0, 5}, NEW ended \in BOOLEAN,
               Evaluate(list, claimed, ended)
        PROVE  IntegrityInv'
    BY <2>3, EvaluatedReport
  <2> QED BY <2>1, <2>2, <2>3 DEF IntegrityNext
<1>3. IntegrityInv => EvidenceCounts
  BY DEF IntegrityInv
<1> QED BY <1>1, <1>2, <1>3, PTL DEF IntegritySpec
-----------------------------------------------------------------------------
(* The study tracker. *)

(* The total of the days is that of the days before, and the next. *)
LEMMA TotalStep ==
  ASSUME NEW n \in Nat, NEW f \in [0 .. n -> Nat]
  PROVE  \E t : /\ t = [d \in 0 .. n |-> IF d = 0 THEN f[0] ELSE t[d - 1] + f[d]]
                /\ t[n] = Total(f, n)
<1> DEFINE upTo[d \in 0 .. n] == IF d = 0 THEN f[0] ELSE upTo[d - 1] + f[d]
           Sums(t, m) == \A d \in 0 .. m : t[d] = IF d = 0 THEN f[0] ELSE t[d - 1] + f[d]
           Reached == {m \in Nat : m <= n => \E t : t = [d \in 0 .. m |-> t[d]] /\ Sums(t, m)}
<1>1. 0 \in Reached
  <2> DEFINE t == [d \in 0 .. 0 |-> f[0]]
  <2>1. t = [d \in 0 .. 0 |-> t[d]] /\ Sums(t, 0)
    OBVIOUS
  <2> QED BY <2>1
<1>2. \A m \in Nat : m \in Reached => m + 1 \in Reached
  <2> HIDE DEF Sums
  <2> SUFFICES ASSUME NEW m \in Nat, m \in Reached, m + 1 <= n
               PROVE  \E t : t = [d \in 0 .. m + 1 |-> t[d]] /\ Sums(t, m + 1)
    OBVIOUS
  <2>1. PICK t : t = [d \in 0 .. m |-> t[d]] /\ Sums(t, m)
    OBVIOUS
  <2> USE DEF Sums
  <2> DEFINE g == [d \in 0 .. m + 1 |-> IF d <= m THEN t[d] ELSE t[m] + f[m + 1]]
  <2>2. g = [d \in 0 .. m + 1 |-> g[d]]
    OBVIOUS
  <2>3. Sums(g, m + 1)
    <3> SUFFICES ASSUME NEW d \in 0 .. m + 1
                 PROVE  g[d] = IF d = 0 THEN f[0] ELSE g[d - 1] + f[d]
      OBVIOUS
    <3>1. CASE d <= m
      <4>1. g[d] = t[d] /\ (d # 0 => g[d - 1] = t[d - 1])
        BY <3>1
      <4>2. d \in 0 .. m
        BY <3>1
      <4>3. t[d] = IF d = 0 THEN f[0] ELSE t[d - 1] + f[d]
        BY Zenon, <2>1, <4>2
      <4> HIDE DEF g
      <4> QED BY <4>1, <4>3
    <3>2. CASE d = m + 1
      <4>1. d - 1 = m /\ d # 0 /\ ~(d <= m) /\ m \in 0 .. m + 1 /\ m <= m
        BY <3>2
      <4>2. g[m] = t[m] /\ g[d] = t[m] + f[d]
        BY <3>2, <4>1
      <4> HIDE DEF g
      <4> QED BY <4>1, <4>2
    <3> QED BY <3>1, <3>2
  <2> QED BY <2>2, <2>3
<1>3. n \in Reached
  <2> HIDE DEF Reached
  <2> QED BY <1>1, <1>2, EachNumber
<1>4. upTo = [d \in 0 .. n |-> IF d = 0 THEN f[0] ELSE upTo[d - 1] + f[d]]
  <2>1. PICK t : t = [d \in 0 .. n |-> t[d]] /\ Sums(t, n)
    BY <1>3
  <2>2. t = [d \in 0 .. n |-> IF d = 0 THEN f[0] ELSE t[d - 1] + f[d]]
    BY <2>1
  <2> QED BY <2>2
<1>5. upTo[n] = Total(f, n)
  BY DEF Total
<1> QED BY <1>4, <1>5

(* What a day gains, the total gains. *)
GainsAt(g, f, D, e) == g = [f EXCEPT ![D] = f[D] + e]

LEMMA TotalGrows ==
  ASSUME NEW n \in Nat, NEW f \in [0 .. n -> Nat], NEW D \in 0 .. n, NEW e \in Nat,
         NEW g, GainsAt(g, f, D, e)
  PROVE  Total(f, n) \in Nat /\ Total(g, n) = Total(f, n) + e
<1>1. g \in [0 .. n -> Nat] /\ g[D] = f[D] + e /\ \A d \in 0 .. n : d # D => g[d] = f[d]
  BY DEF GainsAt
<1>2. PICK t : /\ t = [d \in 0 .. n |-> IF d = 0 THEN f[0] ELSE t[d - 1] + f[d]]
               /\ t[n] = Total(f, n)
  BY TotalStep
<1>3. PICK u : /\ u = [d \in 0 .. n |-> IF d = 0 THEN g[0] ELSE u[d - 1] + g[d]]
               /\ u[n] = Total(g, n)
  BY <1>1, TotalStep
<1> DEFINE Gains(m) == t[m] \in Nat /\ u[m] = t[m] + IF m < D THEN 0 ELSE e
           S == {m \in Nat : m <= n => Gains(m)}
<1>4. 0 \in S
  <2>1. t[0] = f[0] /\ u[0] = g[0] /\ f[0] \in Nat
    BY <1>2, <1>3
  <2>2. g[0] = f[0] + IF 0 < D THEN 0 ELSE e
    BY <1>1, <2>1
  <2>3. Gains(0)
    BY <2>1, <2>2
  <2> QED BY <2>3
<1>5. \A m \in Nat : m \in S => m + 1 \in S
  <2> SUFFICES ASSUME NEW m \in Nat, m \in S, m + 1 <= n PROVE Gains(m + 1)
    OBVIOUS
  <2>1. Gains(m)
    OBVIOUS
  <2>2. m + 1 \in 0 .. n /\ m + 1 # 0 /\ (m + 1) - 1 = m
    OBVIOUS
  <2>3. t[m + 1] = t[m] + f[m + 1] /\ u[m + 1] = u[m] + g[m + 1]
    BY <1>2, <1>3, <2>2
  <2>4. f[m + 1] \in Nat /\ g[m + 1] = f[m + 1] + IF m + 1 = D THEN e ELSE 0
    BY SMTT(30), <1>1, <2>2
  <2> QED BY SMTT(30), <2>1, <2>3, <2>4
<1>6. n \in S
  <2> HIDE DEF S
  <2> QED BY <1>4, <1>5, EachNumber
<1> QED BY <1>2, <1>3, <1>6

(* Days do not go back. *)
LEMMA Quotients ==
  ASSUME NEW a \in Nat, NEW b \in Nat, a <= b, NEW n \in Nat \ {0}
  PROVE  a \div n \in Nat /\ a \div n <= b \div n
<1>1. \A k \in Nat \ {0}, x, y \in Int : k * (y + 1) = k * y + k /\ (x <= y => k * x <= k * y)
  OBVIOUS
<1>2. \A x \in Nat : /\ x \div n \in Nat /\ x % n \in 0 .. n - 1
                     /\ x = n * (x \div n) + (x % n)
  OBVIOUS
<1> DEFINE p == a \div n
           q == b \div n
<1>3. p \in Nat /\ q \in Nat /\ n * p \in Nat /\ n * q \in Nat
  BY <1>2
<1>4. n * p <= a /\ b < n * q + n
  BY <1>2
<1> HIDE DEF p, q
<1>5. ASSUME ~(p <= q) PROVE FALSE
  <2>1. q + 1 <= p
    BY <1>3, <1>5
  <2>2. n * (q + 1) <= n * p /\ n * (q + 1) = n * q + n
    BY <1>1, <1>3, <2>1
  <2> QED BY <1>3, <1>4, <2>2
<1> QED BY <1>3, <1>5 DEF p, q

LEMMA LastDayOf == LastDay \in Nat /\ Days = 0 .. LastDay
<1> DEFINE A == {Ahead[z] : z \in Zones}
<1>1. A \subseteq Nat /\ A # {} /\ IsFiniteSet(Zones) /\ LastSecond \in Nat
  BY StudyAssumption
<1>2. PICK n \in Nat : \E b \in [1 .. n -> Zones] : \A z \in Zones : \E i \in 1 .. n : b[i] = z
  <2>1. PICK n \in Nat : ExistsBijection(1 .. n, Zones)
    BY <1>1, FS_NatBijection
  <2> QED BY <2>1 DEF ExistsBijection, Bijection, Injection, Surjection
<1>2a. PICK b \in [1 .. n -> Zones] : \A z \in Zones : \E i \in 1 .. n : b[i] = z
  BY <1>2
<1> DEFINE f == [i \in 1 .. n |-> Ahead[b[i]]]
<1>3. /\ \A i \in 1 .. n : f[i] \in Nat /\ f[i] \in A
      /\ \A x \in A : \E i \in 1 .. n : x = f[i]
  BY SMTT(30), <1>2a, StudyAssumption
<1> HIDE DEF f, A
<1>4. n # 0
  <2>1. PICK x \in A : TRUE BY <1>1
  <2>2. PICK i \in 1 .. n : x = f[i] BY <1>3, <2>1
  <2> QED BY <2>2
<1>5. PICK i \in 1 .. n : \A j \in 1 .. n : f[j] <= f[i]
  BY <1>3, <1>4, LargestOf
<1>6. f[i] \in A /\ \A x \in A : f[i] >= x
  BY <1>3, <1>5
<1>7. Max(A) \in Nat
  BY <1>1, <1>6 DEF Max
<1> QED BY <1>1, <1>7 DEF A, LastDay, Days


Row == [spent : Nat, marked : Nat, last : Nat, first : Nat]

(* A day counts no more time than went by between its first and its last pulse. *)
RowFits(w) ==
  /\ w.first <= w.last /\ w.last <= second /\ (w.first = Never => w.last = Never)
  /\ w.spent <= w.last - w.first

Spent(days) == [d \in Days |-> days[d].spent]

(* Unless the zone moved, a day's last pulse came on that day, and all of them
   together count no more than went by until the latest. *)
DaysFollow(days) ==
  /\ \A d \in Days : days[d].last # Never => Day(days[d].last) = d
  /\ \E latest \in 1 .. second :
       /\ \A d \in Days : days[d].last <= latest
       /\ latest = 1 \/ \E d \in Days : days[d].last = latest
       /\ Total(Spent(days), LastDay) <= latest - 1

TimesFit(days) == /\ \A d \in Days : RowFits(days[d])
                  /\ ~moved => DaysFollow(days)

LEMMA Clock ==
  ASSUME StudyTypeOK
  PROVE  second \in Nat \ {0} /\ DayLength \in Nat \ {0} /\ Ahead[zone] \in Nat
BY StudyAssumption DEF StudyTypeOK

(* A pulse makes the present moment the last one, and adds no more than went by. *)
LEMMA PulseAdds ==
  ASSUME StudyTypeOK, NEW w \in Row, RowFits(w), NEW claimed \in Nat
  PROVE  \E e \in Nat :
           /\ Pulsed(w, claimed) \in Row
           /\ Pulsed(w, claimed).spent = w.spent + e /\ Pulsed(w, claimed).marked = w.marked
           /\ Pulsed(w, claimed).last = second
           /\ Pulsed(w, claimed).first = IF w.first = Never THEN second ELSE w.first
           /\ e <= IF w.last = Never THEN 0 ELSE second - w.last
<1> DEFINE elapsed == IF w.last = Never THEN 0 ELSE second - w.last
           e == Min({claimed, elapsed, Pulse})
<1>1. second \in Nat /\ w.last \in Nat /\ w.last <= second /\ Pulse \in Nat
  BY Clock, StudyAssumption DEF RowFits, Row
<1>2. elapsed \in Nat
  BY <1>1 DEF Never
<1>3. Pulsed(w, claimed) = [w EXCEPT !.spent = @ + e, !.last = second,
                                     !.first = IF @ = Never THEN second ELSE @]
  BY DEF Pulsed
<1> HIDE DEF elapsed
<1>4. e \in Nat /\ e <= elapsed
  <2> DEFINE S == {claimed, elapsed, Pulse}
  <2>1. \E x \in S : \A y \in S : x <= y
    BY <1>1, <1>2
  <2>2. S \subseteq Nat /\ elapsed \in S
    BY <1>1, <1>2
  <2> HIDE DEF S
  <2>3. Min(S) \in S /\ \A y \in S : Min(S) <= y
    BY <2>1 DEF Min
  <2> QED BY <2>2, <2>3 DEF S
<1> HIDE DEF e
<1> DEFINE x == w.spent + e
           y == IF w.first = Never THEN second ELSE w.first
           v == [w EXCEPT !.spent = x, !.last = second, !.first = y]
<1>5. Pulsed(w, claimed) = v
  BY <1>3
<1>6. x \in Nat /\ y \in Nat
  BY <1>1, <1>4 DEF Row
<1> HIDE DEF x, y
<1>7. v \in Row /\ v.spent = x /\ v.marked = w.marked /\ v.last = second /\ v.first = y
  BY <1>1, <1>6 DEF Row
<1> HIDE DEF v
<1> QED BY <1>4, <1>5, <1>7 DEF elapsed, x, y

(* The hours of the days: times go forward, and so do days. *)
LEMMA DaysInOrder ==
  ASSUME StudyTypeOK, NEW s \in Nat, NEW t \in Nat, s <= t
  PROVE  Day(s) \in Nat /\ Day(s) <= Day(t)
<1> DEFINE a == s + Ahead[zone]
           b == t + Ahead[zone]
<1>1. a \in Nat /\ b \in Nat /\ a <= b /\ DayLength \in Nat \ {0}
  BY Clock
<1> HIDE DEF a, b
<1>2. a \div DayLength \in Nat /\ a \div DayLength <= b \div DayLength
  BY <1>1, Quotients
<1> QED BY <1>2 DEF a, b, Day

LEMMA PulseFits ==
  ASSUME StudyTypeOK, TimesFit(daily), NEW claimed \in Nat, Day(second) \in Days
  PROVE  /\ [daily EXCEPT ![Day(second)] = Pulsed(@, claimed)] \in [Days -> Row]
         /\ TimesFit([daily EXCEPT ![Day(second)] = Pulsed(@, claimed)])
         /\ \A d \in Days :
              [daily EXCEPT ![Day(second)] = Pulsed(@, claimed)][d].marked = daily[d].marked
<1> DEFINE D == Day(second)
           timed == [daily EXCEPT ![D] = Pulsed(@, claimed)]
           w == daily[D]
<1>0. second \in Nat \ {0} /\ daily \in [Days -> Row]
  BY Clock DEF StudyTypeOK, Row
<1>1. w \in Row /\ RowFits(w) /\ D \in Days
  BY <1>0 DEF TimesFit
<1> HIDE DEF w, D
<1>2. PICK e \in Nat :
        /\ Pulsed(w, claimed) \in Row
        /\ Pulsed(w, claimed).spent = w.spent + e /\ Pulsed(w, claimed).marked = w.marked
        /\ Pulsed(w, claimed).last = second
        /\ Pulsed(w, claimed).first = IF w.first = Never THEN second ELSE w.first
        /\ e <= IF w.last = Never THEN 0 ELSE second - w.last
  BY <1>1, PulseAdds
<1> DEFINE v == Pulsed(w, claimed)
<1>3. /\ v \in Row /\ v.spent = w.spent + e /\ v.marked = w.marked /\ v.last = second
      /\ v.first = IF w.first = Never THEN second ELSE w.first
  BY <1>0, <1>1, <1>2 DEF Row
<1> HIDE DEF v
<1>4. timed = [daily EXCEPT ![D] = v]
  BY DEF v, w
<1> HIDE DEF timed
<1>5. /\ timed \in [Days -> Row] /\ timed[D] = v
      /\ \A d \in Days : d # D => timed[d] = daily[d]
  BY <1>0, <1>1, <1>3, <1>4
<1>6. RowFits(v)
  BY <1>0, <1>1, <1>2, <1>3 DEF RowFits, Row, Never
<1>7. \A d \in Days : RowFits(timed[d])
  BY <1>5, <1>6 DEF TimesFit
<1>8. ASSUME ~moved PROVE DaysFollow(timed)
  <2>1. DaysFollow(daily)
    BY <1>8 DEF TimesFit
  <2>2. ASSUME NEW d \in Days, timed[d].last # Never PROVE Day(timed[d].last) = d
    BY <1>3, <1>5, <2>1, <2>2 DEF DaysFollow, D
  <2>3. PICK latest \in 1 .. second :
          /\ \A d \in Days : daily[d].last <= latest
          /\ latest = 1 \/ \E d \in Days : daily[d].last = latest
          /\ Total(Spent(daily), LastDay) <= latest - 1
    BY <2>1 DEF DaysFollow
  <2>4. latest \in Nat /\ latest <= second /\ second \in 1 .. second
    BY <1>0
  <2>5. w.last # Never => w.last = latest
    <3> SUFFICES ASSUME w.last # Never PROVE w.last = latest
      OBVIOUS
    <3>1. w.last \in Nat /\ w.last # 0 /\ w.last <= latest
      BY <1>1, <2>3 DEF Row, Never, w
    <3>2. CASE latest = 1
      BY <3>1, <3>2
    <3>3. CASE \E d \in Days : daily[d].last = latest
      <4>1. PICK d \in Days : daily[d].last = latest
        BY <3>3
      <4>2. daily[d].last # Never
        BY <2>3, <2>4, <3>1, <4>1 DEF Never
      <4>3. Day(latest) = d /\ Day(w.last) = D
        BY <1>1, <2>1, <4>1, <4>2 DEF DaysFollow, w
      <4>4. Day(w.last) <= Day(latest) /\ Day(latest) <= Day(second)
        BY <1>0, <2>4, <3>1, DaysInOrder
      <4>5. D \in Nat /\ d \in Nat
        BY <1>1, LastDayOf
      <4>6. D = d
        BY <4>3, <4>4, <4>5 DEF D
      <4> QED BY <4>1, <4>6 DEF w
    <3> QED BY <2>3, <3>2, <3>3
  <2> DEFINE f == Spent(daily)
             g == Spent(timed)
  <2>6. f \in [0 .. LastDay -> Nat] /\ D \in 0 .. LastDay /\ LastDay \in Nat
    BY <1>0, <1>1, LastDayOf DEF Spent, Row
  <2>7. GainsAt(g, f, D, e)
    <3>1. \A d \in Days : g[d] = [f EXCEPT ![D] = f[D] + e][d]
      BY <1>1, <1>3, <1>5 DEF Spent, w
    <3> QED BY <3>1 DEF GainsAt, Spent
  <2>8. Total(f, LastDay) \in Nat /\ Total(g, LastDay) = Total(f, LastDay) + e
    <3> HIDE DEF f, g
    <3> QED BY <2>6, <2>7, TotalGrows
  <2>9. Total(g, LastDay) <= second - 1
    <3> HIDE DEF f, g
    <3>1. Total(f, LastDay) <= latest - 1
      BY <2>3 DEF f
    <3>2. CASE w.last = Never
      BY <1>0, <1>2, <2>4, <2>8, <3>1, <3>2
    <3>3. CASE w.last # Never
      BY <1>0, <1>2, <2>4, <2>5, <2>8, <3>1, <3>3
    <3> QED BY <3>2, <3>3
  <2>10. \A d \in Days : timed[d].last <= second
    BY <1>7 DEF RowFits
  <2>11. timed[D].last = second
    BY <1>3, <1>5
  <2> QED BY <1>1, <2>2, <2>4, <2>9, <2>10, <2>11 DEF DaysFollow
<1>9. TimesFit(timed)
  BY <1>7, <1>8 DEF TimesFit
<1>10. \A d \in Days : timed[d].marked = daily[d].marked
  BY <1>3, <1>5 DEF w
<1> QED BY <1>5, <1>9, <1>10 DEF timed, D

(* What has the times of days that fit, fits. *)
Agree(a, b) ==
  \A d \in Days : b[d].spent = a[d].spent /\ b[d].last = a[d].last /\ b[d].first = a[d].first

LEMMA SameTimes ==
  ASSUME NEW a, NEW b, TimesFit(a), Agree(a, b)
  PROVE  TimesFit(b)
<1>1. Spent(b) = Spent(a)
  BY DEF Spent, Agree
<1>2. \A d \in Days : RowFits(b[d])
  BY DEF TimesFit, RowFits, Agree
<1>3. ~moved => DaysFollow(b)
  BY <1>1 DEF TimesFit, DaysFollow, Agree
<1> QED BY <1>2, <1>3 DEF TimesFit


MarkedOn(read, d) == {s \in OutlineSections : read[s].done /\ Day(read[s].at) = d}

MarksFit(days, read) == \A d \in Days : days[d].marked = Cardinality(MarkedOn(read, d))

LEMMA SectionsCount ==
  ASSUME NEW S \in SUBSET OutlineSections
  PROVE  IsFiniteSet(S) /\ Cardinality(S) \in Nat
<1>1. IsFiniteSet(OutlineSections)
  <2>1. Outline \in Int /\ 1 \in Int BY StudyAssumption
  <2> QED BY <2>1, FS_Interval DEF OutlineSections
<1> QED BY <1>1, FS_Subset, FS_CardinalityType

(* The rows once the selected ones are done, or no longer. *)
Rewritten(read, selected, done) ==
  \A s \in OutlineSections :
    /\ read[s].done = IF s \in selected THEN done ELSE reading[s].done
    /\ s \in selected /\ done /\ ~reading[s].done => read[s].at = second
    /\ s \notin selected \/ reading[s].done = done => read[s].at = reading[s].at

(* Marked anew or taken back, a section counts on the day it was marked. *)
LEMMA MarksCount ==
  ASSUME StudyTypeOK, NEW days \in [Days -> Row], NEW selected \in SUBSET OutlineSections,
         NEW done \in BOOLEAN, NEW read,
         Rewritten(read, selected, done)
  PROVE  /\ Marks(days, selected, done) \in [Days -> Row]
         /\ Agree(days, Marks(days, selected, done))
         /\ MarksFit(days, reading) => MarksFit(Marks(days, selected, done), read)
<1> DEFINE gained == {s \in selected : done /\ ~reading[s].done}
           lost(d) == {s \in selected : ~done /\ reading[s].done /\ Day(reading[s].at) = d}
           rest(d, n) == IF Cardinality(lost(d)) < n THEN n - Cardinality(lost(d)) ELSE 0
           count(d) == rest(d, days[d].marked) + IF d = Day(second) THEN Cardinality(gained) ELSE 0
           remarked == Marks(days, selected, done)
<1>1. Cardinality(gained) \in Nat /\ IsFiniteSet(gained)
  <2>1. gained \in SUBSET OutlineSections OBVIOUS
  <2> HIDE DEF gained
  <2> QED BY <2>1, SectionsCount
<1>2. ASSUME NEW d \in Days PROVE IsFiniteSet(lost(d)) /\ Cardinality(lost(d)) \in Nat
  <2>1. lost(d) \in SUBSET OutlineSections OBVIOUS
  <2> HIDE DEF lost
  <2> QED BY <2>1, SectionsCount
<1>3. remarked = [d \in Days |-> [days[d] EXCEPT !.marked = count(d)]]
  BY DEF Marks
<1>4. \A d \in Days : days[d] \in Row /\ days[d].marked \in Nat
  BY DEF Row
<1>5. ASSUME NEW d \in Days PROVE count(d) \in Nat
  <2> HIDE DEF lost, gained
  <2>1. rest(d, days[d].marked) \in Nat
    BY <1>2, <1>4
  <2> HIDE DEF rest
  <2> QED BY <1>1, <2>1
<1> HIDE DEF remarked
<1>6. ASSUME NEW d \in Days
      PROVE  /\ remarked[d] \in Row /\ remarked[d].marked = count(d)
             /\ remarked[d].spent = days[d].spent /\ remarked[d].last = days[d].last
             /\ remarked[d].first = days[d].first
  <2> HIDE DEF count
  <2>1. remarked[d] = [days[d] EXCEPT !.marked = count(d)]
    BY <1>3
  <2> QED BY <1>4, <1>5, <2>1 DEF Row
<1>7. remarked \in [Days -> Row]
  <2>1. DOMAIN remarked = Days /\ remarked = [d \in Days |-> remarked[d]]
    BY <1>3
  <2> QED BY <1>6, <2>1
<1>8. ASSUME MarksFit(days, reading), NEW d \in Days
      PROVE  remarked[d].marked = Cardinality(MarkedOn(read, d))
  <2> DEFINE old == MarkedOn(reading, d)
             new == MarkedOn(read, d)
             L == lost(d)
             n == days[d].marked
  <2>1. n = Cardinality(old)
    BY <1>8 DEF MarksFit
  <2>2. IsFiniteSet(old) /\ Cardinality(old) \in Nat
    BY SectionsCount DEF MarkedOn
  <2>3. IsFiniteSet(L) /\ Cardinality(L) \in Nat
    BY <1>2
  <2>4. remarked[d].marked = (IF Cardinality(L) < n THEN n - Cardinality(L) ELSE 0)
                           + IF d = Day(second) THEN Cardinality(gained) ELSE 0
    BY <1>6
  <2>5. CASE done
    <3>1. L = {}
      BY <2>5
    <3>2. Cardinality(L) = 0
      BY <3>1, FS_EmptySet
    <3>3. new = IF d = Day(second) THEN old \union gained ELSE old
      BY <2>5 DEF MarkedOn, Rewritten
    <3>4. old \cap gained = {}
      BY <2>5 DEF MarkedOn, Rewritten
    <3> HIDE DEF old, gained, L, new, n
    <3>5. Cardinality(old \union gained) = Cardinality(old) + Cardinality(gained)
      <4>1. Cardinality(old \union gained)
              = Cardinality(old) + Cardinality(gained) - Cardinality(old \cap gained)
        BY <1>1, <2>2, FS_Union
      <4>2. Cardinality(old \cap gained) = 0
        BY <3>4, FS_EmptySet
      <4> QED BY <1>1, <2>2, <4>1, <4>2
    <3>6. (IF Cardinality(L) < n THEN n - Cardinality(L) ELSE 0) = Cardinality(old)
      BY <2>1, <2>2, <3>2
    <3>7. Cardinality(new) = Cardinality(old) + IF d = Day(second) THEN Cardinality(gained) ELSE 0
      BY <1>1, <2>2, <3>3, <3>5
    <3> QED BY <2>4, <3>6, <3>7 DEF new
  <2>6. CASE ~done
    <3>1. gained = {}
      BY <2>6
    <3>2. Cardinality(gained) = 0
      BY <3>1, FS_EmptySet
    <3>3. new = old \ L /\ L \subseteq old /\ old \cap L = L
      BY <2>6 DEF MarkedOn, Rewritten
    <3> HIDE DEF old, gained, L, new, n
    <3>4. Cardinality(new) = Cardinality(old) - Cardinality(L) /\ Cardinality(L) <= Cardinality(old)
      <4>1. Cardinality(old \ L) = Cardinality(old) - Cardinality(old \cap L)
        BY <2>2, FS_Difference
      <4>2. Cardinality(L) <= Cardinality(old)
        BY <2>2, <3>3, FS_Subset
      <4> QED BY <3>3, <4>1, <4>2
    <3> QED BY <2>1, <2>2, <2>3, <2>4, <3>2, <3>4 DEF new
  <2> QED BY <2>5, <2>6
<1> HIDE DEF count
<1> QED BY <1>6, <1>7, <1>8 DEF MarksFit, Agree, remarked


StudyInv == /\ StudyTypeOK /\ watching.updated <= second
            /\ TimesFit(daily) /\ (~moved => MarksFit(daily, reading))

LEMMA RowsTyped == StudyTypeOK <=> /\ second \in 1 .. LastSecond /\ plans \subseteq PlanIds /\ zone \in Zones
  /\ reading \in [OutlineSections -> [done : BOOLEAN, at : Nat, event : Events \union {NoEvent}]]
  /\ daily \in [Days -> Row]
  /\ watching \in [at : 0 .. Duration, seen : SUBSET (1 .. Duration), updated : Nat,
                   finished : BOOLEAN]
  /\ moved \in BOOLEAN
BY DEF StudyTypeOK, Row

(* The day's row, whether or not the day is within the bound. *)
LEMMA Timed ==
  ASSUME StudyInv, NEW claimed \in Nat
  PROVE  /\ [daily EXCEPT ![Day(second)] = Pulsed(@, claimed)] \in [Days -> Row]
         /\ TimesFit([daily EXCEPT ![Day(second)] = Pulsed(@, claimed)])
         /\ ~moved => MarksFit([daily EXCEPT ![Day(second)] = Pulsed(@, claimed)], reading)
<1> DEFINE timed == [daily EXCEPT ![Day(second)] = Pulsed(@, claimed)]
<1>1. daily \in [Days -> Row] /\ StudyTypeOK /\ TimesFit(daily) /\ (~moved => MarksFit(daily, reading))
  BY RowsTyped DEF StudyInv
<1>2. CASE Day(second) \in Days
  <2>1. timed \in [Days -> Row] /\ TimesFit(timed) /\ \A d \in Days : timed[d].marked = daily[d].marked
    BY <1>1, <1>2, PulseFits
  <2> HIDE DEF timed
  <2>2. ~moved => MarksFit(timed, reading)
    BY <1>1, <2>1 DEF MarksFit
  <2> QED BY <2>1, <2>2 DEF timed
<1>3. CASE Day(second) \notin Days
  <2>1. timed = daily
    BY <1>1, <1>3
  <2> HIDE DEF timed
  <2> QED BY <1>1, <2>1 DEF timed
<1> QED BY <1>2, <1>3

(* The clock and the zone of the plans stand, and so do the rules of the days. *)
LEMMA StillFits ==
  ASSUME UNCHANGED <<second, zone, moved>>, NEW days, NEW read,
         TimesFit(days), ~moved => MarksFit(days, read), daily' = days, reading' = read
  PROVE  TimesFit(daily)' /\ (~moved => MarksFit(daily, reading))'
<1>1. \A d \in Days : RowFits(daily[d])'
  BY DEF TimesFit, RowFits
<1>2. (~moved => DaysFollow(daily))'
  BY DEF TimesFit, DaysFollow, Spent, Day
<1>3. (~moved => MarksFit(daily, reading))'
  BY DEF MarksFit, MarkedOn, Day
<1> QED BY <1>1, <1>2, <1>3 DEF TimesFit

LEMMA SavedReading ==
  ASSUME StudyInv, NEW s \in OutlineSections, NEW choice \in Wishes, NEW through \in BOOLEAN,
         NEW claimed \in 0 .. Pulse, NEW e \in Events, SaveReading(s, choice, through, claimed, e)
  PROVE  StudyInv'
<1> DEFINE selected == IF through THEN 1 .. s ELSE {s}
           timed == [daily EXCEPT ![Day(second)] = Pulsed(@, claimed)]
           row(k) == IF choice = "visited" \/ reading[k].done = (choice = "done")
                     THEN [reading[k] EXCEPT !.event = e]
                     ELSE [done |-> choice = "done",
                           at |-> IF choice = "done" THEN second ELSE Never, event |-> e]
           read == [k \in OutlineSections |-> IF k \in selected THEN row(k) ELSE reading[k]]
           done == choice = "done"
           Reading == [done : BOOLEAN, at : Nat, event : Events \union {NoEvent}]
<1>1. /\ daily' = IF choice = "visited" THEN timed ELSE Marks(timed, selected, done)
      /\ reading' = read /\ UNCHANGED <<second, plans, zone, watching, moved>>
  BY DEF SaveReading
<1>2. StudyTypeOK /\ second \in Nat \ {0} /\ reading \in [OutlineSections -> Reading]
  BY Clock, RowsTyped DEF StudyInv
<1>3. timed \in [Days -> Row] /\ TimesFit(timed) /\ (~moved => MarksFit(timed, reading))
  <2>1. claimed \in Nat
    BY StudyAssumption
  <2> QED BY <2>1, Timed
<1> HIDE DEF timed
<1>4. selected \in SUBSET OutlineSections
  BY StudyAssumption DEF OutlineSections
<1> HIDE DEF selected
<1>5. ASSUME NEW k \in OutlineSections
      PROVE  /\ row(k) \in Reading
             /\ choice = "visited" \/ reading[k].done = done
                  => row(k).done = reading[k].done /\ row(k).at = reading[k].at
             /\ ~(choice = "visited" \/ reading[k].done = done)
                  => row(k).done = done /\ (done => row(k).at = second)
  <2>1. reading[k] \in Reading
    BY <1>2
  <2>2. CASE choice = "visited" \/ reading[k].done = done
    <3>1. row(k) = [reading[k] EXCEPT !.event = e]
      BY <2>2
    <3> QED BY <2>1, <2>2, <3>1
  <2>3. CASE ~(choice = "visited" \/ reading[k].done = done)
    <3>1. row(k) = [done |-> choice = "done", at |-> IF choice = "done" THEN second ELSE Never, event |-> e]
      BY <2>3
    <3>2. (IF choice = "done" THEN second ELSE Never) \in Nat
      BY <1>2 DEF Never
    <3> QED BY <2>3, <3>1, <3>2
  <2> QED BY <2>2, <2>3
<1> HIDE DEF row
<1>6. read \in [OutlineSections -> Reading] /\ \A k \in OutlineSections :
        read[k] = IF k \in selected THEN row(k) ELSE reading[k]
  BY <1>2, <1>5
<1> HIDE DEF read, Reading
<1>7. CASE choice = "visited"
  <2>1. daily' = timed
    BY <1>1, <1>7
  <2>2. \A k \in OutlineSections : read[k].done = reading[k].done /\ read[k].at = reading[k].at
    BY <1>5, <1>6, <1>7
  <2>3. ~moved => MarksFit(timed, read)
    <3>1. \A d \in Days : MarkedOn(read, d) = MarkedOn(reading, d)
      BY <2>2 DEF MarkedOn
    <3> QED BY <1>3, <3>1 DEF MarksFit
  <2>4. TimesFit(daily)' /\ (~moved => MarksFit(daily, reading))'
    BY <1>1, <1>3, <2>1, <2>3, StillFits
  <2>5. StudyTypeOK'
    BY <1>1, <1>2, <1>3, <1>6, <2>1, RowsTyped DEF StudyTypeOK, Row, Reading
  <2> QED BY <1>1, <2>4, <2>5 DEF StudyInv
<1>8. CASE choice # "visited"
  <2> DEFINE marks == Marks(timed, selected, done)
  <2>1. daily' = marks
    BY <1>1, <1>8
  <2>2. Rewritten(read, selected, done)
    <3> SUFFICES ASSUME NEW k \in OutlineSections
                 PROVE  /\ read[k].done = IF k \in selected THEN done ELSE reading[k].done
                        /\ k \in selected /\ done /\ ~reading[k].done => read[k].at = second
                        /\ k \notin selected \/ reading[k].done = done => read[k].at = reading[k].at
      BY DEF Rewritten
    <3>1. read[k] = IF k \in selected THEN row(k) ELSE reading[k]
      BY <1>6
    <3>2. reading[k].done \in BOOLEAN /\ done \in BOOLEAN
      BY <1>2 DEF Reading
    <3> HIDE DEF done
    <3>3. CASE k \in selected
      <4>1. read[k] = row(k) BY <3>1, <3>3
      <4>2. CASE reading[k].done = done
        BY <1>5, <1>8, <3>3, <4>1, <4>2
      <4>3. CASE reading[k].done # done
        BY <1>5, <1>8, <3>2, <3>3, <4>1, <4>3
      <4> QED BY <4>2, <4>3
    <3>4. CASE k \notin selected
      BY <3>1, <3>4
    <3> QED BY <3>3, <3>4
  <2>3. /\ marks \in [Days -> Row]
        /\ Agree(timed, marks)
        /\ MarksFit(timed, reading) => MarksFit(marks, read)
    <3>1. done \in BOOLEAN OBVIOUS
    <3> HIDE DEF done
    <3> QED BY <1>2, <1>3, <1>4, <2>2, <3>1, MarksCount
  <2> HIDE DEF marks
  <2>4. TimesFit(marks)
    BY <1>3, <2>3, SameTimes
  <2>5. TimesFit(daily)' /\ (~moved => MarksFit(daily, reading))'
    BY <1>1, <1>3, <2>1, <2>3, <2>4, StillFits
  <2>6. StudyTypeOK'
    BY <1>1, <1>2, <1>6, <2>1, <2>3, RowsTyped DEF StudyTypeOK, Row, Reading
  <2> QED BY <1>1, <2>5, <2>6 DEF StudyInv
<1> QED BY <1>7, <1>8

LEMMA LesserOf == ASSUME NEW a \in Nat, NEW b \in Nat PROVE Min({a, b}) \in Nat
<1>1. \E x \in {a, b} : \A y \in {a, b} : x <= y
  OBVIOUS
<1> QED BY <1>1 DEF Min

LEMMA PlayedBack ==
  ASSUME StudyInv, NEW position \in 0 .. Duration, Playback(position)
  PROVE  StudyInv'
<1> DEFINE to == Min({position, Duration})
           elapsed == IF watching.updated = Never THEN 0 ELSE second - watching.updated
           watched == /\ watching.at < to
                      /\ 2 * Unit * (to - watching.at) <= Min({60, 5 * Unit * elapsed + 4})
           seen == watching.seen \union IF watched THEN watching.at + 1 .. to ELSE {}
           timed == [daily EXCEPT ![Day(second)] = Pulsed(@, Min({to - watching.at, elapsed}))]
<1>1. /\ daily' = IF watched THEN timed ELSE daily
      /\ watching' = [watching EXCEPT !.at = to, !.seen = seen, !.updated = second,
                                      !.finished = @ \/ 10 * Cardinality(seen) >= 9 * Duration]
      /\ UNCHANGED <<second, plans, zone, reading, moved>>
  BY DEF Playback
<1>2. StudyTypeOK /\ second \in Nat \ {0}
  BY Clock DEF StudyInv
<1>3. to \in 0 .. Duration
  <2>1. to = position
    BY StudyAssumption DEF Min
  <2> QED BY <2>1
<1> HIDE DEF to
<1>4. /\ watching.at \in 0 .. Duration /\ watching.seen \in SUBSET (1 .. Duration)
      /\ watching.updated \in Nat /\ watching.finished \in BOOLEAN /\ watching.updated <= second
  BY <1>2 DEF StudyTypeOK, StudyInv
<1>5. seen \in SUBSET (1 .. Duration)
  <2>1. watching.at + 1 .. to \subseteq 1 .. Duration
    BY <1>3, <1>4, StudyAssumption
  <2> HIDE DEF watched
  <2> QED BY <1>4, <2>1
<1> HIDE DEF seen
<1>6. watching' \in [at : 0 .. Duration, seen : SUBSET (1 .. Duration), updated : Nat,
                     finished : BOOLEAN]
  <2> DEFINE over == watching.finished \/ 10 * Cardinality(seen) >= 9 * Duration
  <2>1. over \in BOOLEAN
    OBVIOUS
  <2>2. watching' = [watching EXCEPT !.at = to, !.seen = seen, !.updated = second, !.finished = over]
    BY <1>1
  <2> HIDE DEF over
  <2> QED BY <1>2, <1>3, <1>5, <2>1, <2>2 DEF StudyTypeOK
<1>7. daily' \in [Days -> Row] /\ TimesFit(daily') /\ (~moved => MarksFit(daily', reading))
  <2>1. CASE watched
    <3> DEFINE claimed == Min({to - watching.at, elapsed})
    <3>1. to - watching.at \in Nat
      BY <1>3, <1>4, <2>1
    <3>2. elapsed \in Nat
      BY <1>2, <1>4
    <3>3. claimed \in Nat
      <4> HIDE DEF elapsed
      <4> QED BY <3>1, <3>2, LesserOf
    <3> HIDE DEF claimed, watched
    <3>4. daily' = [daily EXCEPT ![Day(second)] = Pulsed(@, claimed)]
      BY <1>1, <2>1 DEF claimed
    <3> QED BY <3>3, <3>4, Timed
  <2>2. CASE ~watched
    BY <1>1, <2>2, RowsTyped DEF StudyInv
  <2> QED BY <2>1, <2>2
<1>8. TimesFit(daily)' /\ (~moved => MarksFit(daily, reading))'
  BY <1>1, <1>7, StillFits
<1>9. StudyTypeOK'
  BY <1>1, <1>2, <1>6, <1>7 DEF StudyTypeOK, Row
<1>10. watching'.updated <= second'
  <2>1. watching'.updated = second
    BY <1>1, <1>2 DEF StudyTypeOK
  <2> QED BY <1>1, <1>2, <2>1
<1> QED BY <1>8, <1>9, <1>10 DEF StudyInv


LEMMA PlanCreated ==
  ASSUME StudyInv, NEW i \in PlanIds, NEW z \in Zones, CreatePlan(i, z)
  PROVE  StudyInv'
<1>1. /\ plans' = plans \union {i} /\ zone' = IF plans = {} THEN z ELSE zone
      /\ moved' = (moved \/ (Active /\ zone' # zone))
      /\ UNCHANGED <<second, reading, daily, watching>>
  BY DEF CreatePlan
<1>2. StudyTypeOK'
  <2> DEFINE m == moved \/ (Active /\ zone' # zone)
  <2>1. m \in BOOLEAN OBVIOUS
  <2>2. moved' = m BY <1>1
  <2> HIDE DEF m
  <2> QED BY <1>1, <2>1, <2>2 DEF StudyInv, StudyTypeOK, OutlineSections, Days, LastDay
<1>3. \A d \in Days : RowFits(daily[d])'
  BY <1>1 DEF StudyInv, TimesFit, RowFits
<1>4. watching'.updated <= second'
  BY <1>1 DEF StudyInv
<1>5. ASSUME ~moved' PROVE DaysFollow(daily)' /\ MarksFit(daily, reading)'
  <2>1. ~moved /\ (zone' = zone \/ ~Active)
    BY <1>1, <1>5, Zenon
  <2>2. DaysFollow(daily) /\ MarksFit(daily, reading)
    BY <2>1 DEF StudyInv, TimesFit
  <2>3. CASE zone' = zone
    <3>1. DaysFollow(daily)'
      BY <1>1, <2>2, <2>3 DEF DaysFollow, Spent, Day
    <3>2. MarksFit(daily, reading)'
      BY <1>1, <2>2, <2>3 DEF MarksFit, MarkedOn, Day
    <3> QED BY <3>1, <3>2
  <2>4. CASE ~Active
    <3>1. /\ \A s \in OutlineSections : reading[s] = Unread
          /\ \A d \in Days : daily[d] = NoDay
      BY <2>4 DEF Active
    <3>2. DaysFollow(daily)'
      <4>1. \A d \in Days : daily[d].last = Never
        BY <3>1 DEF NoDay
      <4> QED BY <1>1, <2>2, <4>1 DEF DaysFollow, Spent
    <3>3. MarksFit(daily, reading)'
      <4>1. \A d \in Days : MarkedOn(reading, d)' = {}
        BY <1>1, <3>1 DEF MarkedOn, Unread
      <4>2. \A d \in Days : daily[d].marked = 0
        BY <3>1 DEF NoDay
      <4> QED BY <1>1, <4>1, <4>2, FS_EmptySet DEF MarksFit
    <3> QED BY <3>2, <3>3
  <2> QED BY <2>1, <2>3, <2>4
<1> QED BY <1>2, <1>3, <1>4, <1>5 DEF StudyInv, TimesFit

LEMMA StudyBegins == StudyInit => StudyInv
<1> SUFFICES ASSUME StudyInit PROVE StudyInv
  OBVIOUS
<1>1. /\ second = 1 /\ plans = {} /\ zone = Local /\ reading = [s \in OutlineSections |-> Unread]
      /\ daily = [d \in Days |-> NoDay] /\ watching = Unwatched /\ moved = FALSE
  BY DEF StudyInit
<1>2. StudyTypeOK
  <2>1. LastSecond \in Nat \ {0} /\ Duration \in Nat \ {0} /\ Local \in Zones
    BY StudyAssumption
  <2>2. second \in 1 .. LastSecond /\ plans \subseteq PlanIds /\ zone \in Zones /\ moved \in BOOLEAN
    <3>1. 1 \in 1 .. LastSecond
      BY <2>1
    <3>2. second \in 1 .. LastSecond
      BY <1>1, <3>1
    <3>3. plans \subseteq PlanIds
      BY <1>1
    <3>4. zone \in Zones
      BY <1>1, <2>1
    <3>5. moved \in BOOLEAN
      BY <1>1
    <3> QED BY <3>2, <3>3, <3>4, <3>5
  <2>3. NoDay \in [spent : Nat, marked : Nat, last : Nat, first : Nat]
    BY DEF NoDay, Never
  <2>4. Unread \in [done : BOOLEAN, at : Nat, event : Events \union {NoEvent}]
    BY DEF Unread, Never
  <2>5. Unwatched \in [at : 0 .. Duration, seen : SUBSET (1 .. Duration), updated : Nat,
                       finished : BOOLEAN]
    <3>1. 0 \in 0 .. Duration
      BY <2>1
    <3> QED BY <3>1 DEF Unwatched, Never
  <2> QED BY <1>1, <2>2, <2>3, <2>4, <2>5 DEF StudyTypeOK
<1>3. \A d \in Days : daily[d] = NoDay /\ RowFits(daily[d])
  BY <1>1 DEF NoDay, RowFits, Never
<1>4. watching.updated <= second
  BY <1>1 DEF Unwatched, Never
<1>5. DaysFollow(daily)
  <2> DEFINE f == Spent(daily)
  <2>1. /\ f \in [0 .. LastDay -> Nat] /\ LastDay \in Nat
        /\ \A d \in 0 .. LastDay : f[d] = 0
    BY <1>1, LastDayOf DEF Spent, NoDay
  <2> HIDE DEF f
  <2>2. PICK t : /\ t = [d \in 0 .. LastDay |-> IF d = 0 THEN f[0] ELSE t[d - 1] + f[d]]
                 /\ t[LastDay] = Total(f, LastDay)
    BY <2>1, TotalStep
  <2> DEFINE S == {m \in Nat : m <= LastDay => t[m] = 0}
  <2>3. 0 \in S
    BY <2>1, <2>2
  <2>4. \A m \in Nat : m \in S => m + 1 \in S
    <3> SUFFICES ASSUME NEW m \in Nat, m \in S, m + 1 <= LastDay PROVE t[m + 1] = 0
      OBVIOUS
    <3>1. m + 1 \in 0 .. LastDay /\ m + 1 # 0 /\ (m + 1) - 1 = m /\ t[m] = 0
      BY <2>1
    <3>2. t[m + 1] = t[m] + f[m + 1] /\ f[m + 1] = 0
      BY <2>1, <2>2, <3>1
    <3> QED BY <3>1, <3>2
  <2>5. LastDay \in S
    <3> HIDE DEF S
    <3> QED BY <2>1, <2>3, <2>4, EachNumber
  <2>6. Total(f, LastDay) = 0
    BY <2>1, <2>2, <2>5
  <2>7. \A d \in Days : daily[d].last = 0
    BY <1>3 DEF NoDay, Never
  <2> QED BY <1>1, <2>6, <2>7 DEF DaysFollow, Never, f
<1>6. MarksFit(daily, reading)
  <2>1. \A d \in Days : MarkedOn(reading, d) = {}
    BY <1>1 DEF MarkedOn, Unread
  <2>2. \A d \in Days : daily[d].marked = 0
    BY <1>3 DEF NoDay
  <2> QED BY <2>1, <2>2, FS_EmptySet DEF MarksFit
<1> QED BY <1>2, <1>3, <1>4, <1>5, <1>6 DEF StudyInv, TimesFit

LEMMA StudyKeeps == StudyInv /\ [StudyNext]_studyVars => StudyInv'
<1> SUFFICES ASSUME StudyInv, [StudyNext]_studyVars PROVE StudyInv'
  OBVIOUS
<1>1. CASE UNCHANGED studyVars
  <2>1. UNCHANGED <<second, plans, zone, reading, daily, watching, moved>>
    BY <1>1 DEF studyVars
  <2>2. TimesFit(daily)' /\ (~moved => MarksFit(daily, reading))'
    BY <2>1, StillFits DEF StudyInv
  <2> QED BY <2>1, <2>2 DEF StudyInv, StudyTypeOK
<1>2. CASE SecondPasses
  <2>1. /\ second < LastSecond /\ second' = second + 1
        /\ UNCHANGED <<plans, zone, reading, daily, watching, moved>>
    BY <1>2 DEF SecondPasses
  <2>2. second \in Nat /\ LastSecond \in Nat /\ second \in 1 .. LastSecond
    BY StudyAssumption DEF StudyInv, StudyTypeOK
  <2>3. StudyTypeOK'
    <3>1. second' \in 1 .. LastSecond
      BY <2>1, <2>2
    <3> QED BY <2>1, <3>1 DEF StudyInv, StudyTypeOK
  <2>4. ASSUME NEW d \in Days PROVE RowFits(daily[d])'
    <3>1. daily[d] \in Row /\ RowFits(daily[d])
      BY RowsTyped DEF StudyInv, TimesFit
    <3> QED BY <2>1, <2>2, <3>1 DEF RowFits, Row
  <2>5. ASSUME ~moved PROVE DaysFollow(daily)'
    <3>1. PICK latest \in 1 .. second :
            /\ \A d \in Days : daily[d].last <= latest
            /\ latest = 1 \/ \E d \in Days : daily[d].last = latest
            /\ Total(Spent(daily), LastDay) <= latest - 1
      BY <2>5 DEF StudyInv, TimesFit, DaysFollow
    <3>2. latest \in 1 .. second'
      BY <2>1, <2>2
    <3>3. \A d \in Days : daily[d].last # Never => Day(daily[d].last) = d
      BY <2>5 DEF StudyInv, TimesFit, DaysFollow
    <3> QED BY <2>1, <3>1, <3>2, <3>3 DEF DaysFollow, Spent, Day
  <2>6. (~moved => MarksFit(daily, reading))'
    BY <2>1 DEF StudyInv, MarksFit, MarkedOn, Day
  <2>7. watching'.updated <= second'
    <3>1. watching.updated \in Nat /\ watching.updated <= second
      BY DEF StudyInv, StudyTypeOK
    <3> QED BY <2>1, <2>2, <3>1
  <2> QED BY <2>1, <2>3, <2>4, <2>5, <2>6, <2>7 DEF StudyInv, TimesFit
<1>3. ASSUME NEW s \in OutlineSections, NEW choice \in Wishes, NEW through \in BOOLEAN,
             NEW claimed \in 0 .. Pulse, NEW e \in Events, SaveReading(s, choice, through, claimed, e)
      PROVE  StudyInv'
  BY <1>3, SavedReading
<1>4. ASSUME NEW position \in 0 .. Duration, Playback(position) PROVE StudyInv'
  BY <1>4, PlayedBack
<1>5. CASE Practice
  <2>1. /\ watching' = [watching EXCEPT !.updated = IF @ = Never THEN second ELSE @]
        /\ UNCHANGED <<second, plans, zone, reading, daily, moved>>
    BY <1>5 DEF Practice
  <2>2. second \in Nat
    BY Clock DEF StudyInv
  <2>3. StudyTypeOK' /\ watching'.updated <= second'
    BY <2>1, <2>2 DEF StudyInv, StudyTypeOK
  <2>4. TimesFit(daily)' /\ (~moved => MarksFit(daily, reading))'
    BY <2>1, StillFits DEF StudyInv
  <2> QED BY <2>3, <2>4 DEF StudyInv
<1>6. ASSUME NEW i \in PlanIds, NEW z \in Zones, CreatePlan(i, z) PROVE StudyInv'
  BY <1>6, PlanCreated
<1> QED BY <1>1, <1>2, <1>3, <1>4, <1>5, <1>6 DEF StudyNext

(* StudyIsReal holds of every tracker: whatever is repeated, claimed or sent by
   several tabs, a day counts no more time than went by in it, and, until a plan
   moves the zone, its marks are those of the sections, and all days together
   count no more than went by. *)
THEOREM StudyTimeIsReal == StudySpec => []StudyIsReal
<1>1. StudyInv => StudyIsReal
  <2> SUFFICES ASSUME StudyInv PROVE StudyIsReal
    OBVIOUS
  <2>1. \A d \in Days : daily[d].spent <= daily[d].last - daily[d].first
    BY DEF StudyInv, TimesFit, RowFits
  <2>2. ASSUME ~moved, NEW d \in Days
        PROVE  daily[d].marked =
                 Cardinality({s \in OutlineSections : reading[s].done /\ Day(reading[s].at) = d})
    BY <2>2 DEF StudyInv, MarksFit, MarkedOn
  <2>3. ASSUME ~moved PROVE Total([d \in Days |-> daily[d].spent], LastDay) <= second - 1
    <3>1. PICK latest \in 1 .. second : Total(Spent(daily), LastDay) <= latest - 1
      BY <2>3 DEF StudyInv, TimesFit, DaysFollow
    <3>2. Total(Spent(daily), LastDay) \in Nat
      <4> DEFINE f == Spent(daily)
      <4>1. f \in [0 .. LastDay -> Nat] /\ LastDay \in Nat /\ 0 \in 0 .. LastDay
        BY RowsTyped, LastDayOf DEF StudyInv, Spent, Row
      <4> HIDE DEF f
      <4>2. \A g : GainsAt(g, f, 0, 0) => Total(f, LastDay) \in Nat
        BY <4>1, TotalGrows
      <4> QED BY <4>2 DEF f, GainsAt
    <3>3. second \in Nat
      BY Clock DEF StudyInv
    <3>4. Total(Spent(daily), LastDay) <= second - 1
      <4> DEFINE t == Total(Spent(daily), LastDay)
      <4>1. t \in Nat /\ t <= latest - 1 BY <3>1, <3>2
      <4> HIDE DEF t
      <4>2. t <= second - 1 BY <3>3, <4>1
      <4> QED BY <4>2 DEF t
    <3> QED BY <3>4 DEF Spent
  <2> QED BY <2>1, <2>2, <2>3 DEF StudyIsReal
<1> QED BY <1>1, StudyBegins, StudyKeeps, PTL DEF StudySpec


-----------------------------------------------------------------------------
(* The score of an exam. *)

LEMMA SumsBetween ==
  \A x, a, c, d, e, g \in Nat :
     c <= x /\ d <= a /\ x <= e /\ a <= g => c + d <= x + a /\ x + a <= e + g
OBVIOUS

(* Totals of numbers that lie between multiples lie between the same ones. *)
LEMMA TotalBetween ==
  ASSUME NEW n \in Nat, NEW f \in [0 .. n -> Nat], NEW w \in [0 .. n -> Nat],
         NEW lo \in Nat, NEW hi \in Nat,
         \A d \in 0 .. n : lo * w[d] <= f[d] /\ f[d] <= hi * w[d]
  PROVE  /\ Total(f, n) \in Nat /\ Total(w, n) \in Nat
         /\ lo * Total(w, n) <= Total(f, n) /\ Total(f, n) <= hi * Total(w, n)
<1>1. PICK t : /\ t = [d \in 0 .. n |-> IF d = 0 THEN f[0] ELSE t[d - 1] + f[d]]
               /\ t[n] = Total(f, n)
  BY TotalStep
<1>2. PICK u : /\ u = [d \in 0 .. n |-> IF d = 0 THEN w[0] ELSE u[d - 1] + w[d]]
               /\ u[n] = Total(w, n)
  BY TotalStep
<1> DEFINE Between(m) == t[m] \in Nat /\ u[m] \in Nat /\ lo * u[m] <= t[m] /\ t[m] <= hi * u[m]
           S == {m \in Nat : m <= n => Between(m)}
<1>3. \A k, x, y \in Nat : k * (x + y) = k * x + k * y /\ k * x \in Nat
  OBVIOUS
<1>4. 0 \in S
  <2>1. 0 \in 0 .. n /\ t[0] = f[0] /\ u[0] = w[0] /\ f[0] \in Nat /\ w[0] \in Nat
    BY <1>1, <1>2
  <2>2. Between(0)
    BY <2>1
  <2> QED BY <2>2
<1>5. \A m \in Nat : m \in S => m + 1 \in S
  <2> SUFFICES ASSUME NEW m \in Nat, m \in S, m + 1 <= n PROVE Between(m + 1)
    OBVIOUS
  <2>1. Between(m)
    OBVIOUS
  <2>2. m + 1 \in 0 .. n /\ m + 1 # 0 /\ (m + 1) - 1 = m
    OBVIOUS
  <2>3. t[m + 1] = t[m] + f[m + 1] /\ u[m + 1] = u[m] + w[m + 1]
    BY <1>1, <1>2, <2>2
  <2> DEFINE x == t[m]
             y == u[m]
             a == f[m + 1]
             b == w[m + 1]
  <2>4. a \in Nat /\ b \in Nat /\ lo * b <= a /\ a <= hi * b
    BY <2>2
  <2>5. x \in Nat /\ y \in Nat /\ lo * y <= x /\ x <= hi * y
    BY <2>1
  <2> DEFINE q == t[m + 1]
             p == u[m + 1]
  <2>6. q = x + a /\ p = y + b
    BY <2>3
  <2> HIDE DEF x, y, a, b, p, q
  <2>7. lo * (y + b) = lo * y + lo * b /\ hi * (y + b) = hi * y + hi * b
    BY <1>3, <2>4, <2>5
  <2>8. lo * y \in Nat /\ lo * b \in Nat /\ hi * y \in Nat /\ hi * b \in Nat
    BY <1>3, <2>4, <2>5
  <2>9. lo * (y + b) <= x + a /\ x + a <= hi * (y + b)
    <3>1. lo * y + lo * b <= x + a /\ x + a <= hi * y + hi * b
      BY Zenon, <2>4, <2>5, <2>8, SumsBetween
    <3> QED BY Zenon, <2>7, <3>1
  <2>10. p \in Nat /\ q \in Nat
    BY <2>4, <2>5, <2>6
  <2>11. lo * p <= q /\ q <= hi * p
    BY <2>6, <2>9
  <2> QED BY <2>10, <2>11 DEF p, q
<1>6. n \in S
  <2> HIDE DEF S
  <2> QED BY <1>4, <1>5, EachNumber
<1> QED BY <1>1, <1>2, <1>6

LEMMA TotalOrder ==
  ASSUME NEW n \in Nat, NEW f \in [0 .. n -> Nat], NEW g \in [0 .. n -> Nat],
         \A d \in 0 .. n : f[d] <= g[d]
  PROVE  /\ Total(f, n) \in Nat /\ Total(g, n) \in Nat /\ Total(f, n) <= Total(g, n)
<1>1. \A x \in Nat : 0 * x = 0 /\ 1 * x = x
  OBVIOUS
<1>2. \A d \in 0 .. n : 0 * g[d] <= f[d] /\ f[d] <= 1 * g[d]
  <2> SUFFICES ASSUME NEW d \in 0 .. n PROVE 0 * g[d] <= f[d] /\ f[d] <= 1 * g[d]
    OBVIOUS
  <2>1. f[d] \in Nat /\ g[d] \in Nat /\ f[d] <= g[d]
    OBVIOUS
  <2> QED BY <1>1, <2>1
<1>3. Total(f, n) \in Nat /\ Total(g, n) \in Nat /\ Total(f, n) <= 1 * Total(g, n)
  BY <1>2, TotalBetween
<1> QED BY <1>1, <1>3

(* The total is no less than any of its numbers. *)
LEMMA TotalHas ==
  ASSUME NEW n \in Nat, NEW f \in [0 .. n -> Nat], NEW d \in 0 .. n
  PROVE  Total(f, n) \in Nat /\ f[d] <= Total(f, n)
<1>1. PICK t : /\ t = [k \in 0 .. n |-> IF k = 0 THEN f[0] ELSE t[k - 1] + f[k]]
               /\ t[n] = Total(f, n)
  BY TotalStep
<1> DEFINE Has(m) == t[m] \in Nat /\ (d <= m => f[d] <= t[m])
           S == {m \in Nat : m <= n => Has(m)}
<1>2. 0 \in S
  <2>1. 0 \in 0 .. n /\ t[0] = f[0] /\ f[0] \in Nat
    BY <1>1
  <2>2. Has(0)
    BY <2>1
  <2> QED BY <2>2
<1>3. \A m \in Nat : m \in S => m + 1 \in S
  <2> SUFFICES ASSUME NEW m \in Nat, m \in S, m + 1 <= n PROVE Has(m + 1)
    OBVIOUS
  <2>1. Has(m)
    OBVIOUS
  <2>2. m + 1 \in 0 .. n /\ m + 1 # 0 /\ (m + 1) - 1 = m
    OBVIOUS
  <2>3. t[m + 1] = t[m] + f[m + 1] /\ f[m + 1] \in Nat /\ f[d] \in Nat
    BY <1>1, <2>2
  <2> QED BY <2>1, <2>3
<1>4. n \in S
  <2> HIDE DEF S
  <2> QED BY <1>2, <1>3, EachNumber
<1> QED BY <1>1, <1>4

(* One for each place of a set adds up to how many there are. *)
LEMMA TotalCounts ==
  ASSUME NEW n \in Nat, NEW P \in SUBSET (1 .. n)
  PROVE  /\ [i \in 0 .. n |-> IF i \in P THEN 1 ELSE 0] \in [0 .. n -> Nat]
         /\ IsFiniteSet(P) /\ Cardinality(P) \in Nat
         /\ Total([i \in 0 .. n |-> IF i \in P THEN 1 ELSE 0], n) = Cardinality(P)
<1> DEFINE w == [i \in 0 .. n |-> IF i \in P THEN 1 ELSE 0]
<1>0. /\ w \in [0 .. n -> Nat] /\ \A i \in 0 .. n : w[i] = IF i \in P THEN 1 ELSE 0
  OBVIOUS
<1> HIDE DEF w
<1>1. PICK t : /\ t = [k \in 0 .. n |-> IF k = 0 THEN w[0] ELSE t[k - 1] + w[k]]
               /\ t[n] = Total(w, n)
  BY <1>0, TotalStep
<1> DEFINE Upto(m) == P \cap (1 .. m)
           CountsTo(m) == IsFiniteSet(Upto(m)) /\ Cardinality(Upto(m)) \in Nat
                        /\ t[m] = Cardinality(Upto(m))
           S == {m \in Nat : m <= n => CountsTo(m)}
<1>2. 0 \in S
  <2>1. Upto(0) = {}
    OBVIOUS
  <2>2. 0 \in 0 .. n /\ t[0] = w[0] /\ 0 \notin P
    BY <1>1
  <2>3. t[0] = 0
    BY <1>0, <2>2
  <2> HIDE DEF Upto
  <2>4. CountsTo(0)
    BY <2>1, <2>3, FS_EmptySet
  <2> QED BY <2>4
<1>3. \A m \in Nat : m \in S => m + 1 \in S
  <2> HIDE DEF CountsTo
  <2> SUFFICES ASSUME NEW m \in Nat, m \in S, m + 1 <= n PROVE CountsTo(m + 1)
    OBVIOUS
  <2>1. CountsTo(m)
    OBVIOUS
  <2> USE DEF CountsTo
  <2>2. m + 1 \in 0 .. n /\ m + 1 # 0 /\ (m + 1) - 1 = m
    OBVIOUS
  <2>3. t[m + 1] = t[m] + w[m + 1]
    BY <1>1, <2>2
  <2>4. Upto(m + 1) = (IF m + 1 \in P THEN Upto(m) \union {m + 1} ELSE Upto(m)) /\ m + 1 \notin Upto(m)
    <3>1. \A i \in 1 .. m + 1 : i \in 1 .. m \/ i = m + 1
      OBVIOUS
    <3>2. 1 .. m \subseteq 1 .. m + 1 /\ m + 1 \in 1 .. m + 1 /\ m + 1 \notin 1 .. m
      OBVIOUS
    <3> QED BY <3>1, <3>2
  <2> HIDE DEF Upto
  <2>5. CASE m + 1 \in P
    <3>1. IsFiniteSet(Upto(m) \union {m + 1}) /\ Cardinality(Upto(m) \union {m + 1}) = Cardinality(Upto(m)) + 1
      BY <2>1, <2>4, FS_AddElement
    <3>2. w[m + 1] = 1
      BY <1>0, <2>2, <2>5
    <3> QED BY <2>1, <2>3, <2>4, <2>5, <3>1, <3>2
  <2>6. CASE m + 1 \notin P
    <3>1. w[m + 1] = 0
      BY <1>0, <2>2, <2>6
    <3> QED BY <2>1, <2>3, <2>4, <2>6, <3>1
  <2> QED BY <2>5, <2>6
<1>4. n \in S
  <2> HIDE DEF S
  <2> QED BY <1>2, <1>3, EachNumber
<1>5. Upto(n) = P
  OBVIOUS
<1> HIDE DEF Upto
<1> QED BY <1>0, <1>1, <1>4, <1>5 DEF w

(* Rounding keeps bounds that are whole, and order. *)
LEMMA RoundedFits ==
  ASSUME NEW a \in Nat, NEW b \in Nat \ {0}, NEW lo \in Nat, NEW hi \in Nat,
         lo * b <= a, a <= hi * b
  PROVE  Rounded(a, b) \in Nat /\ lo <= Rounded(a, b) /\ Rounded(a, b) <= hi
<1> DEFINE q == a \div b
           s == a % b
<1>1. \A k \in Nat \ {0}, x, y \in Int :
        (x + 1) * k = x * k + k /\ (x <= y => x * k <= y * k) /\ (k * x = x * k)
  OBVIOUS
<1>2. q \in Nat /\ s \in 0 .. b - 1 /\ a = b * q + s
  OBVIOUS
<1>3. Rounded(a, b) = IF 2 * s > b \/ (2 * s = b /\ q % 2 = 1) THEN q + 1 ELSE q
  BY DEF Rounded
<1> HIDE DEF q, s
<1>4. b * q = q * b /\ q * b \in Nat /\ lo * b \in Nat /\ hi * b \in Nat
  <2>1. \A x, y \in Nat : x * y \in Nat OBVIOUS
  <2> QED BY <1>1, <1>2, <2>1
<1>5. lo <= q
  <2> SUFFICES ASSUME q + 1 <= lo PROVE FALSE
    BY <1>2
  <2>1. (q + 1) * b <= lo * b /\ (q + 1) * b = q * b + b
    BY <1>1, <1>2
  <2> QED BY <1>2, <1>4, <2>1
<1>6. q <= hi
  <2> SUFFICES ASSUME hi + 1 <= q PROVE FALSE
    BY <1>2
  <2>1. (hi + 1) * b <= q * b /\ (hi + 1) * b = hi * b + b
    BY <1>1, <1>2
  <2> QED BY <1>2, <1>4, <2>1
<1>7. q = hi => s = 0
  BY <1>2, <1>4
<1> QED BY <1>2, <1>3, <1>5, <1>6, <1>7

LEMMA RoundedOrder ==
  ASSUME NEW a \in Nat, NEW c \in Nat, a <= c, NEW b \in Nat \ {0}
  PROVE  Rounded(a, b) \in Nat /\ Rounded(a, b) <= Rounded(c, b)
<1> DEFINE q == a \div b
           s == a % b
           p == c \div b
           r == c % b
<1>1. \A k \in Nat \ {0}, x, y \in Int :
        (x + 1) * k = x * k + k /\ (x <= y => x * k <= y * k) /\ (k * x = x * k)
  OBVIOUS
<1>2. q \in Nat /\ s \in 0 .. b - 1 /\ a = b * q + s
  OBVIOUS
<1>3. p \in Nat /\ r \in 0 .. b - 1 /\ c = b * p + r
  OBVIOUS
<1>4. Rounded(a, b) = IF 2 * s > b \/ (2 * s = b /\ q % 2 = 1) THEN q + 1 ELSE q
  BY DEF Rounded
<1>5. Rounded(c, b) = IF 2 * r > b \/ (2 * r = b /\ p % 2 = 1) THEN p + 1 ELSE p
  BY DEF Rounded
<1> HIDE DEF q, s, p, r
<1>6. b * q = q * b /\ q * b \in Nat /\ b * p = p * b /\ p * b \in Nat
  <2>1. \A x, y \in Nat : x * y \in Nat OBVIOUS
  <2> QED BY <1>1, <1>2, <1>3, <2>1
<1>7. q <= p
  <2> SUFFICES ASSUME p + 1 <= q PROVE FALSE
    BY <1>2, <1>3
  <2>1. (p + 1) * b <= q * b /\ (p + 1) * b = p * b + b
    BY <1>1, <1>2, <1>3
  <2> QED BY <1>2, <1>3, <1>6, <2>1
<1>8. q = p => s <= r
  BY <1>2, <1>3, <1>6
<1> QED BY <1>2, <1>3, <1>4, <1>5, <1>7, <1>8


Methods == {"none", "system", "code_execution", "ai_clip", "system_relevance_gate", "ai"}
Grades == [score : Percent, verdict : Verdicts \union {"none"}, method : Methods]

(* A grade that calls an answer bad is worth no more than 25, unless the
   weights of a clip or the tests of a program made it. *)
GradeFits(g) ==
  /\ g \in Grades
  /\ Bucket(g.verdict) \in {"incorrect", "insufficient"}
       /\ g.method \notin {"none", "ai_clip", "code_execution"} => g.score <= 25

LEMMA KeyFits == \A right \in BOOLEAN : GradeFits(ByKey(right))
BY DEF GradeFits, Grades, Methods, ByKey, Grade, Percent, Verdicts, Bucket

LEMMA PlainFits ==
  /\ GradeFits(Unanswered) /\ GradeFits(NotExecutable) /\ GradeFits(NoGrade)
  /\ \A section : GradeFits(Gated(section))
<1>1. GradeFits(Unanswered)
  BY DEF GradeFits, Grades, Methods, Unanswered, Grade, Percent, Verdicts, Bucket
<1>2. GradeFits(NotExecutable)
  BY DEF GradeFits, Grades, Methods, NotExecutable, Grade, Percent, Verdicts, Bucket
<1>3. GradeFits(NoGrade)
  BY DEF GradeFits, Grades, Methods, NoGrade, Percent, Verdicts, Bucket
<1>4. ASSUME NEW section PROVE GradeFits(Gated(section))
  BY DEF GradeFits, Grades, Methods, Gated, Grade, Percent, Verdicts, Bucket
<1> QED BY <1>1, <1>2, <1>3, <1>4

LEMMA ExecutionFits == \A r \in Runs : GradeFits(ByExecution(r))
<1> SUFFICES ASSUME NEW r \in Runs PROVE GradeFits(ByExecution(r))
  OBVIOUS
<1> DEFINE score == Rounded(100 * r.passed, r.tests)
           verdict == IF ~r.compiled \/ r.passed = 0 THEN "incorrect"
                      ELSE IF r.passed = r.tests THEN "correct" ELSE "partially_correct"
<1>1. score \in Percent
  <2> DEFINE a == 100 * r.passed
             b == r.tests
  <2>1. a \in Nat /\ b \in Nat \ {0} /\ 0 * b <= a /\ a <= 100 * b
    BY ScoringAssumption
  <2> HIDE DEF a, b
  <2>2. Rounded(a, b) \in Nat /\ 0 <= Rounded(a, b) /\ Rounded(a, b) <= 100
    BY <2>1, RoundedFits
  <2> QED BY <2>2 DEF a, b, Percent
<1>2. verdict \in Verdicts
  BY DEF Verdicts
<1>3. ByExecution(r) = [score |-> score, verdict |-> verdict, method |-> "code_execution"]
  BY DEF ByExecution, Grade
<1> HIDE DEF score, verdict
<1> QED BY <1>1, <1>2, <1>3 DEF GradeFits, Grades, Methods

LEMMA ClipFits == \A c \in Clips : GradeFits(ByClip(c))
<1> SUFFICES ASSUME NEW c \in Clips PROVE GradeFits(ByClip(c))
  OBVIOUS
<1> DEFINE score == Rounded(7 * c[1] + 2 * c[2] + c[3], 10)
           verdict == CASE score >= 75 -> "strong" [] score \in 55 .. 74 -> "acceptable"
                        [] score \in 20 .. 54 -> "weak" [] OTHER -> "insufficient"
<1>1. score \in Percent
  <2> DEFINE a == 7 * c[1] + 2 * c[2] + c[3]
  <2>1. c[1] \in 0 .. 100 /\ c[2] \in 0 .. 100 /\ c[3] \in 0 .. 100
    BY SMTT(30), ScoringAssumption DEF Percent
  <2>2. a \in Nat /\ 0 * 10 <= a /\ a <= 100 * 10
    <3>1. \A x, y, z \in 0 .. 100 : /\ 7 * x + 2 * y + z \in Nat /\ 0 * 10 = 0
                                    /\ 7 * x + 2 * y + z <= 100 * 10
      OBVIOUS
    <3>2. a \in Nat /\ a <= 100 * 10
      BY <2>1, <3>1
    <3> HIDE DEF a
    <3> QED BY <3>2
  <2> HIDE DEF a
  <2>3. Rounded(a, 10) \in Nat /\ 0 <= Rounded(a, 10) /\ Rounded(a, 10) <= 100
    BY <2>2, RoundedFits
  <2> QED BY <2>3 DEF a, Percent
<1> HIDE DEF score
<1>2. verdict \in Verdicts
  <2>1. CASE score >= 75
    BY <1>1, <2>1 DEF Verdicts, Percent
  <2>2. CASE score \in 55 .. 74
    BY <1>1, <2>2 DEF Verdicts, Percent
  <2>3. CASE score \in 20 .. 54
    BY <1>1, <2>3 DEF Verdicts, Percent
  <2>4. CASE ~(score >= 75 \/ score \in 55 .. 74 \/ score \in 20 .. 54)
    BY <2>4 DEF Verdicts
  <2> QED BY <2>1, <2>2, <2>3, <2>4
<1>3. ByClip(c) = [score |-> score, verdict |-> verdict, method |-> "ai_clip"]
  BY DEF ByClip, Grade, score
<1> HIDE DEF verdict
<1> QED BY <1>1, <1>2, <1>3 DEF GradeFits, Grades, Methods

LEMMA OpinionFits == \A section : \A o \in Opinions : GradeFits(ByOpinion(section, o))
<1> SUFFICES ASSUME NEW section, NEW o \in Opinions PROVE GradeFits(ByOpinion(section, o))
  OBVIOUS
<1> DEFINE irrelevant == o.relevance < 25
           wrong == section \in {"technical", "programming"} /\ o.correctness < 25
           first == IF irrelevant THEN IF section \in Told THEN "weak" ELSE "incorrect" ELSE o.verdict
           verdict == IF wrong /\ first \in {"correct", "strong", "acceptable"}
                      THEN "incorrect" ELSE first
           bad == wrong \/ verdict \in {"incorrect", "insufficient", "weak"}
           score == AtMost(o.score, IF irrelevant THEN 15 ELSE IF bad THEN 25 ELSE 100)
<1>1. o.score \in Percent /\ o.verdict \in Verdicts
  BY ScoringAssumption
<1>2. first \in Verdicts
  BY <1>1 DEF Verdicts
<1> HIDE DEF first
<1>3. verdict \in Verdicts
  BY <1>2 DEF Verdicts
<1>4. ByOpinion(section, o) = [score |-> score, verdict |-> verdict, method |-> "ai"]
  BY DEF ByOpinion, Grade, first
<1> HIDE DEF verdict
<1>5. score \in Percent
  <2> HIDE DEF irrelevant, bad
  <2> QED BY <1>1 DEF AtMost, Percent
<1>6. bad => score <= 25
  <2> HIDE DEF irrelevant, bad
  <2> QED BY <1>1 DEF AtMost, Percent
<1>7. Bucket(verdict) \in {"incorrect", "insufficient"} => bad
  <2> HIDE DEF wrong
  <2>1. CASE verdict = "correct" BY <2>1 DEF Bucket
  <2>2. CASE verdict = "strong" BY <2>2 DEF Bucket
  <2>3. CASE verdict = "partially_correct" BY <2>3 DEF Bucket
  <2>4. CASE verdict = "acceptable" BY <2>4 DEF Bucket
  <2>5. CASE verdict \in {"incorrect", "insufficient", "weak"} BY <2>5
  <2> QED BY <1>3, <2>1, <2>2, <2>3, <2>4, <2>5 DEF Verdicts
<1> HIDE DEF score, bad
<1> QED BY <1>3, <1>4, <1>5, <1>6, <1>7 DEF GradeFits, Grades, Methods

LEMMA GradersFit ==
  ASSUME NEW item \in Items, NEW g \in Graders(item)
  PROVE  GradeFits(g)
<1>1. item.mode \in {"mcq", "code", "spoken", "text"}
  BY DEF Items
<1>2. CASE item.mode = "mcq"
  BY <1>2, KeyFits, PlainFits DEF Graders
<1>3. CASE item.mode = "code"
  BY <1>3, ExecutionFits, PlainFits DEF Graders
<1>4. CASE item.mode = "spoken"
  BY <1>4, ClipFits, PlainFits DEF Graders
<1>5. CASE item.mode = "text"
  BY <1>5, PlainFits DEF Graders
<1> QED BY <1>1, <1>2, <1>3, <1>4, <1>5

-----------------------------------------------------------------------------
(* The means and the weights. *)
LEMMA Length ==
  ASSUME paper \in Papers
  PROVE  /\ Len(paper) \in Nat \ {0} /\ DOMAIN paper = 1 .. Len(paper)
         /\ \A i \in DOMAIN paper : paper[i] \in Items
<1>1. paper \in Seq(Items) /\ paper # <<>>
  BY ScoringAssumption
<1> QED BY <1>1, LenProperties, EmptySeq

LEMMA MeanFits ==
  ASSUME paper \in Papers, NEW g \in [DOMAIN paper -> Grades],
         NEW items \in SUBSET (DOMAIN paper), items # {}, NEW lo \in Nat, NEW hi \in Nat,
         \A i \in items : lo <= g[i].score /\ g[i].score <= hi
  PROVE  MeanScore(g, items) \in Nat /\ lo <= MeanScore(g, items) /\ MeanScore(g, items) <= hi
<1> DEFINE n == Len(paper)
           f == [i \in 0 .. n |-> IF i \in items THEN g[i].score ELSE 0]
           w == [i \in 0 .. n |-> IF i \in items THEN 1 ELSE 0]
<1>1. n \in Nat /\ items \in SUBSET (1 .. n)
  BY Length
<1>2. \A i \in items : g[i].score \in Nat
  BY DEF Grades, Percent
<1>3. MeanScore(g, items) = Rounded(Total(f, n), Cardinality(items))
  BY DEF MeanScore
<1> HIDE DEF n
<1>4. /\ w \in [0 .. n -> Nat] /\ IsFiniteSet(items) /\ Cardinality(items) \in Nat
      /\ Total(w, n) = Cardinality(items)
  BY <1>1, TotalCounts
<1>5. f \in [0 .. n -> Nat]
  BY <1>2
<1>6. \A i \in 0 .. n : lo * w[i] <= f[i] /\ f[i] <= hi * w[i]
  <2>1. \A x \in Nat : x * 1 = x /\ x * 0 = 0 OBVIOUS
  <2> QED BY <1>2, <2>1
<1> HIDE DEF f, w
<1>7. /\ Total(f, n) \in Nat /\ lo * Cardinality(items) <= Total(f, n)
      /\ Total(f, n) <= hi * Cardinality(items)
  BY <1>1, <1>4, <1>5, <1>6, TotalBetween
<1>8. Cardinality(items) # 0
  BY <1>4, FS_EmptySet
<1> DEFINE a == Total(f, n)
           b == Cardinality(items)
<1>9. a \in Nat /\ b \in Nat \ {0} /\ lo * b <= a /\ a <= hi * b
  BY <1>4, <1>7, <1>8
<1> HIDE DEF a, b
<1>10. Rounded(a, b) \in Nat /\ lo <= Rounded(a, b) /\ Rounded(a, b) <= hi
  BY <1>9, RoundedFits
<1> QED BY <1>3, <1>10 DEF a, b

LEMMA MeanOrder ==
  ASSUME paper \in Papers, NEW g \in [DOMAIN paper -> Grades], NEW h \in [DOMAIN paper -> Grades],
         NEW items \in SUBSET (DOMAIN paper), items # {},
         \A i \in items : g[i].score <= h[i].score
  PROVE  MeanScore(g, items) \in Nat /\ MeanScore(g, items) <= MeanScore(h, items)
<1> DEFINE n == Len(paper)
           f == [i \in 0 .. n |-> IF i \in items THEN g[i].score ELSE 0]
           k == [i \in 0 .. n |-> IF i \in items THEN h[i].score ELSE 0]
<1>1. n \in Nat /\ items \in SUBSET (1 .. n)
  BY Length
<1>2. \A i \in items : g[i].score \in Nat /\ h[i].score \in Nat
  BY SMTT(30) DEF Grades, Percent
<1>3. /\ MeanScore(g, items) = Rounded(Total(f, n), Cardinality(items))
      /\ MeanScore(h, items) = Rounded(Total(k, n), Cardinality(items))
  BY DEF MeanScore
<1> HIDE DEF n
<1>4. IsFiniteSet(items) /\ Cardinality(items) \in Nat
  BY <1>1, TotalCounts
<1>5. f \in [0 .. n -> Nat] /\ k \in [0 .. n -> Nat]
  BY <1>2
<1>6. \A i \in 0 .. n : f[i] <= k[i]
  BY <1>2
<1> HIDE DEF f, k
<1>7. Total(f, n) \in Nat /\ Total(k, n) \in Nat /\ Total(f, n) <= Total(k, n)
  BY <1>1, <1>5, <1>6, TotalOrder
<1>8. Cardinality(items) # 0
  BY <1>4, FS_EmptySet
<1> DEFINE a == Total(f, n)
           c == Total(k, n)
           b == Cardinality(items)
<1>9. a \in Nat /\ c \in Nat /\ a <= c /\ b \in Nat \ {0}
  BY <1>4, <1>7, <1>8
<1> HIDE DEF a, b, c
<1>10. Rounded(a, b) \in Nat /\ Rounded(a, b) <= Rounded(c, b)
  BY <1>9, RoundedOrder
<1> QED BY <1>3, <1>10 DEF a, b, c


LEMMA Places ==
  /\ Len(Blueprint) = 10 /\ DOMAIN Blueprint = 1 .. Len(Blueprint)
  /\ \A k \in DOMAIN Blueprint : Blueprint[k] \in ToSet(Blueprint) /\ WeightAt(k) \in Nat \ {0}
<1>1. Len(Blueprint) = 10 /\ DOMAIN Blueprint = 1 .. 10
  BY DEF Blueprint
<1>2. ASSUME NEW k \in 1 .. 10 PROVE WeightAt(k) \in Nat \ {0}
  <2>1. CASE k = 1 BY <2>1 DEF WeightAt, Weight, Blueprint
  <2>2. CASE k = 2 BY <2>2 DEF WeightAt, Weight, Blueprint
  <2>3. CASE k = 3 BY <2>3 DEF WeightAt, Weight, Blueprint
  <2>4. CASE k = 4 BY <2>4 DEF WeightAt, Weight, Blueprint
  <2>5. CASE k = 5 BY <2>5 DEF WeightAt, Weight, Blueprint
  <2>6. CASE k = 6 BY <2>6 DEF WeightAt, Weight, Blueprint
  <2>7. CASE k = 7 BY <2>7 DEF WeightAt, Weight, Blueprint
  <2>8. CASE k = 8 BY <2>8 DEF WeightAt, Weight, Blueprint
  <2>9. CASE k = 9 BY <2>9 DEF WeightAt, Weight, Blueprint
  <2>10. CASE k = 10 BY <2>10 DEF WeightAt, Weight, Blueprint
  <2> QED BY <2>1, <2>2, <2>3, <2>4, <2>5, <2>6, <2>7, <2>8, <2>9, <2>10
<1>3. \A k \in DOMAIN Blueprint : Blueprint[k] \in ToSet(Blueprint)
  BY DEF ToSet
<1> QED BY <1>1, <1>2, <1>3

(* The weights of the sections that have a grade. *)
LEMMA WeightsCount ==
  ASSUME NEW places \in SUBSET (DOMAIN Blueprint), places # {}
  PROVE  /\ Weights(places) \in [0 .. Len(Blueprint) -> Nat]
         /\ Total(Weights(places), Len(Blueprint)) \in Nat \ {0}
<1> DEFINE L == Len(Blueprint)
           w == Weights(places)
<1>1. L \in Nat /\ DOMAIN Blueprint = 1 .. L
  BY Places
<1>2. \A k \in places : WeightAt(k) \in Nat \ {0}
  BY Places
<1> HIDE DEF L
<1>3. w = [k \in 0 .. L |-> IF k \in places THEN WeightAt(k) ELSE 0]
  BY DEF Weights, L
<1> HIDE DEF w
<1>4. w \in [0 .. L -> Nat]
  BY <1>2, <1>3
<1>5. PICK k \in places : TRUE
  OBVIOUS
<1>6. k \in 0 .. L /\ w[k] \in Nat \ {0}
  BY <1>1, <1>2, <1>3, <1>5
<1>7. Total(w, L) \in Nat /\ w[k] <= Total(w, L)
  BY <1>1, <1>4, <1>6, TotalHas
<1>8. Total(w, L) \in Nat \ {0}
  BY <1>6, <1>7
<1> QED BY <1>4, <1>8 DEF w, L

LEMMA SectionMeans ==
  ASSUME paper \in Papers, NEW g \in [DOMAIN paper -> Grades]
  PROVE  /\ Evaluated(g) \in SUBSET (DOMAIN paper)
         /\ Graded(g) \in SUBSET (DOMAIN Blueprint)
         /\ \A k \in Graded(g) : /\ Of(g, Blueprint[k]) \in SUBSET (DOMAIN paper)
                                 /\ Of(g, Blueprint[k]) \in SUBSET Evaluated(g)
                                 /\ Of(g, Blueprint[k]) # {}
BY DEF Evaluated, Graded, Of

LEMMA ReadinessFits ==
  ASSUME paper \in Papers, NEW g \in [DOMAIN paper -> Grades], Graded(g) # {},
         NEW lo \in Nat, NEW hi \in Nat,
         \A i \in Evaluated(g) : lo <= g[i].score /\ g[i].score <= hi
  PROVE  Readiness(g) \in Nat /\ lo <= Readiness(g) /\ Readiness(g) <= hi
<1> DEFINE L == Len(Blueprint)
           P == Graded(g)
           w == Weights(P)
           f == Weighted(g, P)
<1>1. L \in Nat /\ DOMAIN Blueprint = 1 .. L /\ P \in SUBSET (DOMAIN Blueprint) /\ P # {}
  BY Places, SectionMeans
<1>2. ASSUME NEW k \in P
      PROVE  /\ MeanAt(g, k) \in Nat /\ lo <= MeanAt(g, k) /\ MeanAt(g, k) <= hi
             /\ WeightAt(k) \in Nat
  <2> DEFINE items == Of(g, Blueprint[k])
  <2>1. items \in SUBSET (DOMAIN paper) /\ items \in SUBSET Evaluated(g) /\ items # {}
    BY SectionMeans
  <2>2. \A i \in items : lo <= g[i].score /\ g[i].score <= hi
    BY <2>1
  <2> HIDE DEF items
  <2>3. MeanScore(g, items) \in Nat /\ lo <= MeanScore(g, items) /\ MeanScore(g, items) <= hi
    BY <2>1, <2>2, MeanFits
  <2>4. WeightAt(k) \in Nat
    BY <1>1, Places
  <2> QED BY <2>3, <2>4 DEF items, MeanAt
<1>3. Readiness(g) = Rounded(Total(f, L), Total(w, L))
  BY DEF Readiness
<1>4. w \in [0 .. L -> Nat] /\ Total(w, L) \in Nat \ {0}
  BY <1>1, WeightsCount
<1> HIDE DEF L, P
<1>5. /\ w = [k \in 0 .. L |-> IF k \in P THEN WeightAt(k) ELSE 0]
      /\ f = [k \in 0 .. L |-> IF k \in P THEN WeightAt(k) * MeanAt(g, k) ELSE 0]
  BY DEF Weights, Weighted, L
<1> HIDE DEF w, f
<1>6. \A x, y, z \in Nat : /\ x * y \in Nat /\ x * y = y * x /\ x * 0 = 0
                           /\ (y <= z => y * x <= z * x)
  OBVIOUS
<1>7. ASSUME NEW k \in 0 .. L
      PROVE  f[k] \in Nat /\ lo * w[k] <= f[k] /\ f[k] <= hi * w[k]
  <2>1. CASE k \in P
    <3> DEFINE x == WeightAt(k)
               y == MeanAt(g, k)
    <3>1. x \in Nat /\ y \in Nat /\ lo <= y /\ y <= hi
      BY <1>2, <2>1
    <3>2. w[k] = x /\ f[k] = x * y
      BY <1>5, <2>1
    <3> HIDE DEF x, y
    <3>3. x * y \in Nat /\ x * y = y * x /\ lo * x <= y * x /\ y * x <= hi * x
      BY <1>6, <3>1
    <3> QED BY <3>2, <3>3
  <2>2. CASE k \notin P
    <3>1. w[k] = 0 /\ f[k] = 0
      BY <1>5, <2>2
    <3>2. lo * 0 = 0 /\ hi * 0 = 0
      BY <1>6
    <3> QED BY <3>1, <3>2
  <2> QED BY <2>1, <2>2
<1>8. f \in [0 .. L -> Nat]
  <2>1. f = [k \in 0 .. L |-> f[k]]
    BY <1>5
  <2> QED BY <1>7, <2>1
<1>9. /\ Total(f, L) \in Nat /\ lo * Total(w, L) <= Total(f, L)
      /\ Total(f, L) <= hi * Total(w, L)
  BY <1>1, <1>4, <1>7, <1>8, TotalBetween
<1> DEFINE a == Total(f, L)
           b == Total(w, L)
<1>10. a \in Nat /\ b \in Nat \ {0} /\ lo * b <= a /\ a <= hi * b
  BY <1>4, <1>9
<1> HIDE DEF a, b
<1>11. Rounded(a, b) \in Nat /\ lo <= Rounded(a, b) /\ Rounded(a, b) <= hi
  BY <1>10, RoundedFits
<1> QED BY <1>3, <1>11 DEF a, b

LEMMA ReadinessOrder ==
  ASSUME paper \in Papers, NEW g \in [DOMAIN paper -> Grades], NEW h \in [DOMAIN paper -> Grades],
         Graded(g) # {}, Evaluated(h) = Evaluated(g),
         \A i \in DOMAIN paper : g[i].score <= h[i].score
  PROVE  Readiness(g) <= Readiness(h)
<1> DEFINE L == Len(Blueprint)
           P == Graded(g)
           w == Weights(P)
           f == Weighted(g, P)
           v == Weighted(h, P)
<1>1. L \in Nat /\ DOMAIN Blueprint = 1 .. L /\ P \in SUBSET (DOMAIN Blueprint) /\ P # {}
  BY Places, SectionMeans
<1>2. Graded(h) = P /\ \A k : Of(h, Blueprint[k]) = Of(g, Blueprint[k])
  BY DEF Graded, Of
<1>3. ASSUME NEW k \in P
      PROVE  /\ MeanAt(g, k) \in Nat /\ MeanAt(h, k) \in Nat /\ MeanAt(g, k) <= MeanAt(h, k)
             /\ WeightAt(k) \in Nat
  <2> DEFINE items == Of(g, Blueprint[k])
  <2>1. items \in SUBSET (DOMAIN paper) /\ items # {}
    BY SectionMeans
  <2>2. \A i \in items : g[i].score <= h[i].score /\ h[i].score <= h[i].score
    <3>1. \A i \in items : h[i].score \in Nat
      BY <2>1 DEF Grades, Percent
    <3> QED BY <2>1, <3>1
  <2>3. MeanAt(g, k) = MeanScore(g, items) /\ MeanAt(h, k) = MeanScore(h, items)
    BY <1>2 DEF MeanAt
  <2> HIDE DEF items
  <2>4. MeanScore(g, items) \in Nat /\ MeanScore(g, items) <= MeanScore(h, items)
    BY <2>1, <2>2, MeanOrder
  <2>5. MeanScore(h, items) \in Nat
    BY <2>1, <2>2, MeanOrder
  <2>6. WeightAt(k) \in Nat
    BY <1>1, Places
  <2> QED BY <2>3, <2>4, <2>5, <2>6
<1>4. Readiness(g) = Rounded(Total(f, L), Total(w, L)) /\ Readiness(h) = Rounded(Total(v, L), Total(w, L))
  BY <1>2 DEF Readiness
<1>5. w \in [0 .. L -> Nat] /\ Total(w, L) \in Nat \ {0}
  BY <1>1, WeightsCount
<1> HIDE DEF L, P, w
<1>6. /\ f = [k \in 0 .. L |-> IF k \in P THEN WeightAt(k) * MeanAt(g, k) ELSE 0]
      /\ v = [k \in 0 .. L |-> IF k \in P THEN WeightAt(k) * MeanAt(h, k) ELSE 0]
  BY DEF Weighted, L
<1> HIDE DEF f, v
<1>7. \A x, y, z \in Nat : /\ x * y \in Nat /\ (y <= z => x * y <= x * z)
  OBVIOUS
<1>8. ASSUME NEW k \in 0 .. L
      PROVE  f[k] \in Nat /\ v[k] \in Nat /\ f[k] <= v[k]
  <2>1. CASE k \in P
    <3> DEFINE x == WeightAt(k)
               y == MeanAt(g, k)
               z == MeanAt(h, k)
    <3>1. x \in Nat /\ y \in Nat /\ z \in Nat /\ y <= z
      BY <1>3, <2>1
    <3>2. f[k] = x * y /\ v[k] = x * z
      BY <1>6, <2>1
    <3> HIDE DEF x, y, z
    <3>3. x * y \in Nat /\ x * z \in Nat /\ x * y <= x * z
      BY <1>7, <3>1
    <3> QED BY <3>2, <3>3
  <2>2. CASE k \notin P
    BY <1>6, <2>2
  <2> QED BY <2>1, <2>2
<1>9. f \in [0 .. L -> Nat] /\ v \in [0 .. L -> Nat]
  <2>1. f = [k \in 0 .. L |-> f[k]] /\ v = [k \in 0 .. L |-> v[k]]
    BY <1>6
  <2> QED BY <1>8, <2>1
<1>10. Total(f, L) \in Nat /\ Total(v, L) \in Nat /\ Total(f, L) <= Total(v, L)
  BY <1>1, <1>8, <1>9, TotalOrder
<1> DEFINE a == Total(f, L)
           c == Total(v, L)
           b == Total(w, L)
<1>11. a \in Nat /\ c \in Nat /\ a <= c /\ b \in Nat \ {0}
  BY <1>5, <1>10
<1> HIDE DEF a, b, c
<1>12. Rounded(a, b) <= Rounded(c, b)
  BY <1>11, RoundedOrder
<1> QED BY <1>4, <1>12 DEF a, b, c

(* An exam with every grade scores between its items, and a better answer is
   worth no less. *)
LEMMA OverallFits ==
  ASSUME paper \in Papers, NEW g \in [DOMAIN paper -> Grades], Evaluated(g) # {},
         NEW lo \in Nat, NEW hi \in Nat,
         \A i \in Evaluated(g) : lo <= g[i].score /\ g[i].score <= hi
  PROVE  lo <= Overall(g) /\ Overall(g) <= hi
<1>1. Evaluated(g) \in SUBSET (DOMAIN paper)
  BY SectionMeans
<1>2. lo <= MeanScore(g, Evaluated(g)) /\ MeanScore(g, Evaluated(g)) <= hi
  BY <1>1, MeanFits
<1>3. Graded(g) # {} => lo <= Readiness(g) /\ Readiness(g) <= hi
  BY ReadinessFits
<1> QED BY <1>2, <1>3 DEF Overall

LEMMA OverallOrder ==
  ASSUME paper \in Papers, NEW g \in [DOMAIN paper -> Grades], NEW h \in [DOMAIN paper -> Grades],
         Evaluated(g) # {}, Evaluated(h) = Evaluated(g),
         \A i \in DOMAIN paper : g[i].score <= h[i].score
  PROVE  Overall(g) <= Overall(h)
<1>1. Evaluated(g) \in SUBSET (DOMAIN paper)
  BY SectionMeans
<1>2. \A i \in Evaluated(g) : g[i].score <= h[i].score
  BY <1>1
<1>3. MeanScore(g, Evaluated(g)) <= MeanScore(h, Evaluated(g))
  BY <1>1, <1>2, MeanOrder
<1>4. Graded(g) # {} => Readiness(g) <= Readiness(h)
  BY ReadinessOrder
<1>5. Graded(h) = Graded(g)
  BY DEF Graded, Of
<1> QED BY <1>3, <1>4, <1>5 DEF Overall


(* Every graded item is in one of the four counts. *)
LEMMA CountsAddUp ==
  ASSUME paper \in Papers, NEW g \in [DOMAIN paper -> Grades]
  PROVE  CountOf(g, "correct") + CountOf(g, "partial") + CountOf(g, "incorrect")
           + CountOf(g, "insufficient") = Cardinality(Evaluated(g))
<1> DEFINE E == Evaluated(g)
           Judged(b) == {i \in E : paper[i].section \in ToSet(Blueprint) /\ Bucket(g[i].verdict) = b}
           A == Judged("correct")
           B == Judged("partial")
           C == Judged("incorrect")
           D == Judged("insufficient")
<1>1. E \in SUBSET (1 .. Len(paper)) /\ Len(paper) \in Nat
  BY Length, SectionMeans
<1>2. IsFiniteSet(E) /\ \A T \in SUBSET E : IsFiniteSet(T) /\ Cardinality(T) \in Nat
  <2> HIDE DEF E
  <2>1. IsFiniteSet(E)
    BY <1>1, TotalCounts
  <2> QED BY <2>1, FS_Subset, FS_CardinalityType
<1>3. \A i \in E : paper[i].section \in ToSet(Blueprint)
  <2>1. \A i \in E : paper[i] \in Items
    BY Length, SectionMeans
  <2> QED BY <2>1 DEF Items
<1>4. \A x : Bucket(x) \in {"correct", "partial", "incorrect", "insufficient"}
  <2> SUFFICES ASSUME NEW x PROVE Bucket(x) \in {"correct", "partial", "incorrect", "insufficient"}
    OBVIOUS
  <2>1. CASE x \in {"correct", "strong"} BY <2>1 DEF Bucket
  <2>2. CASE x \in {"partially_correct", "acceptable"} BY <2>2 DEF Bucket
  <2>3. CASE x \in {"incorrect", "weak"} BY <2>3 DEF Bucket
  <2>4. CASE ~(x \in {"correct", "strong"} \/ x \in {"partially_correct", "acceptable"}
               \/ x \in {"incorrect", "weak"})
    BY <2>4 DEF Bucket
  <2> QED BY <2>1, <2>2, <2>3, <2>4
<1>5. /\ CountOf(g, "correct") = Cardinality(A) /\ CountOf(g, "partial") = Cardinality(B)
      /\ CountOf(g, "incorrect") = Cardinality(C) /\ CountOf(g, "insufficient") = Cardinality(D)
  BY DEF CountOf
<1>6. /\ E = ((A \union B) \union C) \union D
      /\ A \cap B = {} /\ (A \union B) \cap C = {} /\ ((A \union B) \union C) \cap D = {}
      /\ A \in SUBSET E /\ B \in SUBSET E /\ C \in SUBSET E /\ D \in SUBSET E
  <2> HIDE DEF E
  <2> QED BY <1>3, <1>4
<1> HIDE DEF A, B, C, D, E
<1>7. ASSUME NEW S \in SUBSET E, NEW T \in SUBSET E, S \cap T = {}
      PROVE  Cardinality(S \union T) = Cardinality(S) + Cardinality(T)
  <2>1. Cardinality(S \union T) = Cardinality(S) + Cardinality(T) - Cardinality(S \cap T)
    BY <1>2, FS_Union
  <2>2. Cardinality(S \cap T) = 0
    BY <1>7, FS_EmptySet
  <2> QED BY <1>2, <2>1, <2>2
<1>8. Cardinality(A \union B) = Cardinality(A) + Cardinality(B)
  BY <1>6, <1>7
<1>9. Cardinality((A \union B) \union C) = Cardinality(A \union B) + Cardinality(C)
  <2>1. A \union B \in SUBSET E BY <1>6
  <2> QED BY <1>6, <1>7, <2>1
<1>10. Cardinality(E) = Cardinality((A \union B) \union C) + Cardinality(D)
  <2>1. (A \union B) \union C \in SUBSET E BY <1>6
  <2> QED BY <1>6, <1>7, <2>1
<1>11. /\ Cardinality(A) \in Nat /\ Cardinality(B) \in Nat /\ Cardinality(C) \in Nat
       /\ Cardinality(D) \in Nat
  BY <1>2, <1>6
<1> QED BY <1>5, <1>8, <1>9, <1>10, <1>11 DEF E

(* The worst and the best score of an exam with every grade. *)
LEMMA ScoresBetween ==
  ASSUME paper \in Papers, NEW g \in [DOMAIN paper -> Grades], Evaluated(g) = DOMAIN paper
  PROVE  /\ Min(Scores(g)) \in Nat /\ Max(Scores(g)) \in Nat
         /\ \A i \in Evaluated(g) : Min(Scores(g)) <= g[i].score /\ g[i].score <= Max(Scores(g))
<1> DEFINE n == Len(paper)
           f == [i \in 1 .. n |-> g[i].score]
           S == Scores(g)
<1>1. n \in Nat \ {0} /\ DOMAIN paper = 1 .. n
  BY Length
<1> HIDE DEF n
<1>2. \A i \in 1 .. n : f[i] \in Nat /\ f[i] = g[i].score /\ f[i] \in S
  <2>1. S = {g[i].score : i \in 1 .. n}
    BY <1>1 DEF Scores
  <2>2. \A i \in 1 .. n : g[i].score \in Nat
    <3>1. \A i \in 1 .. n : g[i] \in Grades
      BY <1>1
    <3>2. \A x \in Grades : x.score \in Nat
      BY DEF Grades, Percent
    <3> QED BY <3>1, <3>2
  <2>3. \A i \in 1 .. n : f[i] = g[i].score
    OBVIOUS
  <2> HIDE DEF f, S
  <2> QED BY <2>1, <2>2, <2>3
<1>3. \A x \in S : x \in Nat /\ \E i \in 1 .. n : x = f[i]
  BY <1>1, <1>2 DEF Scores
<1> HIDE DEF f, S
<1>4. PICK i \in 1 .. n : \A j \in 1 .. n : f[j] <= f[i]
  BY <1>1, <1>2, LargestOf
<1>5. f[i] \in S /\ \A y \in S : f[i] >= y
  <2>1. \A y \in S : f[i] >= y
    BY <1>2, <1>3, <1>4
  <2> QED BY <1>2, <2>1
<1>6. S \subseteq Nat /\ S # {}
  BY <1>3, <1>5
<1>7. \E x \in S : \A y \in S : x <= y
  BY <1>6, LeastOf
<1>8. Max(S) \in S /\ \A y \in S : Max(S) >= y
  BY <1>5 DEF Max
<1>9. Min(S) \in S /\ \A y \in S : Min(S) <= y
  BY <1>7 DEF Min
<1>10. \A k \in Evaluated(g) : g[k].score \in S
  BY <1>1, <1>2
<1>11. ASSUME NEW k \in Evaluated(g) PROVE Min(S) <= g[k].score /\ g[k].score <= Max(S)
  <2>1. g[k].score \in S /\ g[k].score \in Nat /\ Max(S) \in Nat
    BY <1>6, <1>8, <1>10
  <2> QED BY <1>8, <1>9, <2>1
<1> QED BY <1>6, <1>8, <1>9, <1>11 DEF S

(* What is built of the grades. *)
ScoringInv ==
  /\ paper \in Papers
  /\ grade \in [DOMAIN paper -> Grades] /\ \A i \in DOMAIN paper : GradeFits(grade[i])
  /\ phase = "built" =>
       /\ result.withheld <=> Evaluated(grade) # DOMAIN paper
       /\ ~result.withheld => result.overall = Overall(grade)
       /\ result.correct = CountOf(grade, "correct") /\ result.partial = CountOf(grade, "partial")
       /\ result.incorrect = CountOf(grade, "incorrect")
       /\ result.insufficient = CountOf(grade, "insufficient")

LEMMA AnsweredFits ==
  ASSUME ScoringInv, NEW items, Answered(items), UNCHANGED paper
  PROVE  grade' \in [DOMAIN paper -> Grades] /\ \A i \in DOMAIN paper : GradeFits(grade'[i])
<1>1. PICK replied \in SUBSET items : \E o \in [replied -> Opinions] :
        grade' = [i \in DOMAIN paper |->
                    IF i \in replied THEN ByOpinion(paper[i].section, o[i]) ELSE grade[i]]
  BY DEF Answered
<1>2. PICK o \in [replied -> Opinions] :
        grade' = [i \in DOMAIN paper |->
                    IF i \in replied THEN ByOpinion(paper[i].section, o[i]) ELSE grade[i]]
  BY <1>1
<1>3. ASSUME NEW i \in DOMAIN paper PROVE GradeFits(grade'[i])
  <2>1. CASE i \in replied
    <3>1. o[i] \in Opinions BY <2>1
    <3>2. grade'[i] = ByOpinion(paper[i].section, o[i]) BY <1>2, <2>1
    <3> QED BY <3>1, <3>2, OpinionFits
  <2>2. CASE i \notin replied
    BY <1>2, <2>2 DEF ScoringInv
  <2> QED BY <2>1, <2>2
<1>4. grade' \in [DOMAIN paper -> Grades]
  <2>1. grade' = [i \in DOMAIN paper |-> grade'[i]] BY <1>2
  <2> QED BY <1>3, <2>1 DEF GradeFits
<1> QED BY <1>3, <1>4

LEMMA ScoringKeeps == ScoringInv /\ [ScoringNext]_scoringVars => ScoringInv'
<1> SUFFICES ASSUME ScoringInv, [ScoringNext]_scoringVars PROVE ScoringInv'
  OBVIOUS
<1>1. CASE UNCHANGED scoringVars
  BY <1>1 DEF scoringVars, ScoringInv, Evaluated, Overall, CountOf, Readiness, Graded, Of, Weights,
     Weighted, MeanAt, MeanScore
<1>2. CASE GradeItem
  <2>1. PICK g \in Graders(paper[next]) : grade' = [grade EXCEPT ![next] = g]
    BY <1>2 DEF GradeItem
  <2>2. next \in DOMAIN paper /\ paper' = paper /\ phase' = "grading"
    BY <1>2 DEF GradeItem
  <2>3. GradeFits(g)
    <3>1. paper[next] \in Items BY <2>2, Length DEF ScoringInv
    <3> QED BY <2>1, <3>1, GradersFit
  <2>4. g \in Grades BY <2>3 DEF GradeFits
  <2> QED BY <2>1, <2>2, <2>3, <2>4 DEF ScoringInv
<1>3. CASE LeaveToAI
  BY <1>3 DEF LeaveToAI, ScoringInv
<1>4. CASE NotExecuted
  BY <1>4 DEF NotExecuted, ScoringInv
<1>5. CASE AskAll
  <2>1. paper' = paper /\ phase' \in {"graded", "batches"}
    BY <1>5 DEF AskAll
  <2>2. CASE Answered(ToSet(asked))
    <3>1. grade' \in [DOMAIN paper -> Grades] /\ \A i \in DOMAIN paper : GradeFits(grade'[i])
      BY <2>1, <2>2, AnsweredFits
    <3> QED BY <2>1, <3>1 DEF ScoringInv
  <2>3. CASE UNCHANGED grade
    BY <2>1, <2>3 DEF ScoringInv
  <2> QED BY <1>5, <2>2, <2>3 DEF AskAll
<1>6. CASE AskBatch
  <2>1. paper' = paper /\ phase' \in {"graded", "batches"}
    BY <1>6 DEF AskBatch
  <2>2. \E items : Answered(items)
    BY <1>6 DEF AskBatch
  <2>3. grade' \in [DOMAIN paper -> Grades] /\ \A i \in DOMAIN paper : GradeFits(grade'[i])
    BY <2>1, <2>2, AnsweredFits
  <2> QED BY <2>1, <2>3 DEF ScoringInv
<1>7. CASE Build
  <2> DEFINE complete == Evaluated(grade) = DOMAIN paper
  <2>1. /\ result' = [complete |-> complete, withheld |-> ~complete,
                      overall |-> IF complete THEN Overall(grade) ELSE 0,
                      correct |-> CountOf(grade, "correct"), partial |-> CountOf(grade, "partial"),
                      incorrect |-> CountOf(grade, "incorrect"),
                      insufficient |-> CountOf(grade, "insufficient")]
        /\ paper' = paper /\ grade' = grade
    BY <1>7 DEF Build
  <2> HIDE DEF complete
  <2>2. /\ result'.withheld = ~complete /\ result'.overall = (IF complete THEN Overall(grade) ELSE 0)
        /\ result'.correct = CountOf(grade, "correct") /\ result'.partial = CountOf(grade, "partial")
        /\ result'.incorrect = CountOf(grade, "incorrect")
        /\ result'.insufficient = CountOf(grade, "insufficient")
    BY <2>1
  <2>3. /\ Evaluated(grade)' = Evaluated(grade) /\ Overall(grade)' = Overall(grade)
        /\ CountOf(grade, "correct")' = CountOf(grade, "correct")
        /\ CountOf(grade, "partial")' = CountOf(grade, "partial")
        /\ CountOf(grade, "incorrect")' = CountOf(grade, "incorrect")
        /\ CountOf(grade, "insufficient")' = CountOf(grade, "insufficient")
    BY <2>1 DEF Evaluated, Overall, CountOf, Readiness, Graded, Of, Weights, Weighted, MeanAt, MeanScore
  <2> QED BY <2>1, <2>2, <2>3 DEF ScoringInv, complete
<1> QED BY <1>1, <1>2, <1>3, <1>4, <1>5, <1>6, <1>7 DEF ScoringNext

LEMMA ScoringInvEarns == ScoringInv => ScoreIsEarned
<1> SUFFICES ASSUME ScoringInv, phase = "built" PROVE ScoreIsEarned
  BY DEF ScoreIsEarned
<1>1. paper \in Papers /\ grade \in [DOMAIN paper -> Grades] /\ \A i \in DOMAIN paper : GradeFits(grade[i])
  BY DEF ScoringInv
<1>2. result.withheld <=> Evaluated(grade) # DOMAIN paper
  BY DEF ScoringInv
<1>3. result.withheld <=> \E i \in DOMAIN paper : grade[i].method = "none"
  BY <1>2 DEF Evaluated
<1>4. result.correct + result.partial + result.incorrect + result.insufficient
        = Cardinality(Evaluated(grade))
  BY <1>1, CountsAddUp DEF ScoringInv
<1>5. ASSUME ~result.withheld
      PROVE  /\ Min(Scores(grade)) <= result.overall /\ result.overall <= Max(Scores(grade))
             /\ \A i \in DOMAIN paper : Overall([grade EXCEPT ![i].score = 100]) >= result.overall
  <2>1. Evaluated(grade) = DOMAIN paper /\ result.overall = Overall(grade)
    BY <1>2, <1>5 DEF ScoringInv
  <2>2. Evaluated(grade) # {}
    BY <1>1, <2>1, Length
  <2>3. Min(Scores(grade)) <= Overall(grade) /\ Overall(grade) <= Max(Scores(grade))
    BY <1>1, <2>1, <2>2, ScoresBetween, OverallFits
  <2>4. ASSUME NEW i \in DOMAIN paper
        PROVE  Overall([grade EXCEPT ![i].score = 100]) >= Overall(grade)
    <3> DEFINE h == [grade EXCEPT ![i].score = 100]
    <3>1. grade[i] \in Grades
      BY <1>1
    <3>2. h = [grade EXCEPT ![i] = [grade[i] EXCEPT !.score = 100]]
      OBVIOUS
    <3> DEFINE v == [grade[i] EXCEPT !.score = 100]
    <3>3. v \in Grades /\ v.score = 100 /\ v.method = grade[i].method
      BY <3>1 DEF Grades, Percent
    <3> HIDE DEF h, v
    <3>4. /\ h \in [DOMAIN paper -> Grades] /\ h[i] = v
          /\ \A j \in DOMAIN paper : j # i => h[j] = grade[j]
      BY <1>1, <3>2, <3>3 DEF v
    <3>5. Evaluated(h) = Evaluated(grade)
      BY <3>3, <3>4 DEF Evaluated
    <3>6. \A j \in DOMAIN paper : grade[j].score <= h[j].score
      <4>1. \A j \in DOMAIN paper : grade[j].score \in 0 .. 100
        BY <1>1 DEF Grades, Percent
      <4> QED BY <3>3, <3>4, <4>1
    <3>7. Overall(grade) <= Overall(h)
      BY <1>1, <2>2, <3>4, <3>5, <3>6, OverallOrder
    <3>8. Overall(grade) \in Int /\ Overall(h) \in Int
      <4>1. \A k \in [DOMAIN paper -> Grades] : Evaluated(k) # {} => Overall(k) \in Int
        <5> SUFFICES ASSUME NEW k \in [DOMAIN paper -> Grades], Evaluated(k) # {}
                     PROVE  Overall(k) \in Int
          OBVIOUS
        <5>1. Evaluated(k) \in SUBSET (DOMAIN paper)
          BY <1>1, SectionMeans
        <5>2. \A j \in Evaluated(k) : 0 <= k[j].score /\ k[j].score <= 100
          BY <5>1 DEF Grades, Percent
        <5>3. MeanScore(k, Evaluated(k)) \in Nat
          BY <1>1, <5>1, <5>2, MeanFits
        <5>4. Graded(k) # {} => Readiness(k) \in Nat
          BY <1>1, <5>2, ReadinessFits
        <5> QED BY <5>3, <5>4 DEF Overall
      <4> QED BY <1>1, <2>2, <3>4, <3>5, <4>1
    <3> QED BY <3>7, <3>8 DEF h
  <2> QED BY <2>1, <2>3, <2>4
<1>6. ASSUME NEW i \in Evaluated(grade),
             Bucket(grade[i].verdict) \in {"incorrect", "insufficient"},
             grade[i].method \notin {"ai_clip", "code_execution"}
      PROVE  grade[i].score <= 25
  <2>1. i \in DOMAIN paper /\ grade[i].method # "none"
    BY DEF Evaluated
  <2> QED BY <1>1, <1>6, <2>1 DEF GradeFits
<1> QED BY <1>3, <1>4, <1>5, <1>6 DEF ScoreIsEarned

(* ScoreIsEarned holds of every paper, whatever the graders and the AI say: a
   score is withheld while a grade is missing, lies between the worst and the
   best item, never falls for a better answer, and counts every item once. *)
THEOREM EveryScoreIsEarned == ScoringSpec => []ScoreIsEarned
<1>1. ScoringInit => ScoringInv
  <2> SUFFICES ASSUME ScoringInit PROVE ScoringInv
    OBVIOUS
  <2>1. paper \in Papers /\ phase = "grading" /\ grade = [i \in DOMAIN paper |-> NoGrade]
    BY DEF ScoringInit
  <2>2. GradeFits(NoGrade) /\ NoGrade \in Grades
    BY PlainFits DEF GradeFits
  <2> QED BY <2>1, <2>2 DEF ScoringInv
<1> QED BY <1>1, ScoringKeeps, ScoringInvEarns, PTL DEF ScoringSpec

-----------------------------------------------------------------------------
(* The questions of an exam. *)

(* What holds of the empty sequence, and of each longer one, holds of all. *)
LEMMA EachSequence ==
  ASSUME NEW T, NEW P, <<>> \in P, \A x \in Seq(T), e \in T : x \in P => Append(x, e) \in P
  PROVE  Seq(T) \subseteq P
<1> DEFINE S == {n \in Nat : \A x \in Seq(T) : Len(x) = n => x \in P}
<1>1. 0 \in S
  <2>1. \A x \in Seq(T) : Len(x) = 0 => x = <<>>
    BY EmptySeq
  <2> QED BY <2>1
<1>2. \A n \in Nat : n \in S => n + 1 \in S
  <2> SUFFICES ASSUME NEW n \in Nat, n \in S, NEW x \in Seq(T), Len(x) = n + 1 PROVE x \in P
    OBVIOUS
  <2> DEFINE y == SubSeq(x, 1, n)
             e == x[n + 1]
  <2>1. y \in Seq(T) /\ Len(y) = n /\ e \in T /\ \A i \in 1 .. n : y[i] = x[i]
    OBVIOUS
  <2>2. x = Append(y, e)
    <3>1. Append(y, e) \in Seq(T) /\ Len(Append(y, e)) = Len(x)
      BY <2>1
    <3>2. \A i \in 1 .. Len(x) : Append(y, e)[i] = x[i]
      BY <2>1
    <3> HIDE DEF y, e
    <3> QED BY <3>1, <3>2, SeqEqual
  <2> HIDE DEF y, e
  <2>3. y \in P
    BY <2>1
  <2> QED BY <2>1, <2>2, <2>3
<1>3. Nat \subseteq S
  <2> HIDE DEF S
  <2> QED BY SMTT(30), <1>1, <1>2, EachNumber
<1> QED BY <1>3

(* FlattenSeq, one piece at a time. *)
LEMMA FlattenUnfolds ==
  ASSUME NEW p, Len(p) \in Nat \ {0}
  PROVE  \E u : /\ u = [d \in 1 .. Len(p) |-> IF d = 1 THEN p[1] ELSE u[d - 1] \o p[d]]
                /\ u[Len(p)] = FlattenSeq(p)
<1> DEFINE n == Len(p)
           flatten[d \in 1 .. Len(p)] == IF d = 1 THEN p[d] ELSE flatten[d - 1] \o p[d]
           Joins(t, m) == \A d \in 1 .. m : t[d] = IF d = 1 THEN p[d] ELSE t[d - 1] \o p[d]
           Reached == {m \in Nat : m + 1 <= n =>
                         \E t : t = [d \in 1 .. m + 1 |-> t[d]] /\ Joins(t, m + 1)}
<1> HIDE DEF n
<1>1. 0 \in Reached
  <2> DEFINE t == [d \in 1 .. 1 |-> p[1]]
  <2>1. t = [d \in 1 .. 1 |-> t[d]] /\ Joins(t, 1) /\ 0 + 1 = 1
    OBVIOUS
  <2> HIDE DEF Joins, t
  <2>2. \E r : r = [d \in 1 .. 0 + 1 |-> r[d]] /\ Joins(r, 0 + 1)
    BY <2>1
  <2> QED BY <2>2
<1>2. \A m \in Nat : m \in Reached => m + 1 \in Reached
  <2> HIDE DEF Joins
  <2> SUFFICES ASSUME NEW m \in Nat, m \in Reached, (m + 1) + 1 <= n
               PROVE  \E t : t = [d \in 1 .. (m + 1) + 1 |-> t[d]] /\ Joins(t, (m + 1) + 1)
    OBVIOUS
  <2>0. n \in Nat
    BY DEF n
  <2>1. PICK t : t = [d \in 1 .. m + 1 |-> t[d]] /\ Joins(t, m + 1)
    BY <2>0
  <2> USE DEF Joins
  <2> DEFINE k == m + 1
             g == [d \in 1 .. k + 1 |-> IF d <= k THEN t[d] ELSE t[k] \o p[k + 1]]
  <2>2. g = [d \in 1 .. k + 1 |-> g[d]]
    OBVIOUS
  <2>3. Joins(g, k + 1)
    <3> SUFFICES ASSUME NEW d \in 1 .. k + 1
                 PROVE  g[d] = IF d = 1 THEN p[d] ELSE g[d - 1] \o p[d]
      OBVIOUS
    <3>1. CASE d <= k
      <4>1. g[d] = t[d] /\ (d # 1 => g[d - 1] = t[d - 1])
        BY <3>1
      <4>2. d \in 1 .. k
        BY <3>1
      <4>3. t[d] = IF d = 1 THEN p[d] ELSE t[d - 1] \o p[d]
        BY Zenon, <2>1, <4>2
      <4> HIDE DEF g
      <4> QED BY <4>1, <4>3
    <3>2. CASE d = k + 1
      <4>1. d - 1 = k /\ d # 1 /\ ~(d <= k) /\ k \in 1 .. k + 1 /\ k <= k
        BY <3>2
      <4>2. g[k] = t[k] /\ g[d] = t[k] \o p[d]
        BY Zenon, <3>2, <4>1
      <4> HIDE DEF g, k
      <4> QED BY <4>1, <4>2
    <3> QED BY <3>1, <3>2
  <2> QED BY <2>2, <2>3
<1>3. n \in Nat \ {0}
  BY DEF n
<1>4. n - 1 \in Reached /\ (n - 1) + 1 = n
  <2> HIDE DEF Reached
  <2> QED BY <1>1, <1>2, <1>3, EachNumber
<1>5. flatten = [d \in 1 .. Len(p) |-> IF d = 1 THEN p[d] ELSE flatten[d - 1] \o p[d]]
  <2>1. PICK t : t = [d \in 1 .. n |-> t[d]] /\ Joins(t, n)
    BY <1>3, <1>4
  <2>2. t = [d \in 1 .. Len(p) |-> IF d = 1 THEN p[d] ELSE t[d - 1] \o p[d]]
    BY <2>1 DEF n
  <2> QED BY Zenon, <2>2
<1>6. flatten[Len(p)] = FlattenSeq(p)
  BY <1>3 DEF FlattenSeq, n
<1>7. flatten = [d \in 1 .. Len(p) |-> IF d = 1 THEN p[1] ELSE flatten[d - 1] \o p[d]]
  <2> HIDE DEF flatten
  <2> QED BY <1>5
<1> QED BY Zenon, <1>6, <1>7

LEMMA FlattenStep ==
  ASSUME NEW T, NEW p \in Seq(Seq(T)), NEW y \in Seq(T)
  PROVE  FlattenSeq(Append(p, y)) = IF p = <<>> THEN y ELSE FlattenSeq(p) \o y
<1> DEFINE n == Len(p)
           q == Append(p, y)
<1>0. n \in Nat /\ Len(q) = n + 1 /\ q[n + 1] = y /\ \A i \in 1 .. n : q[i] = p[i]
  OBVIOUS
<1>1. PICK v : /\ v = [d \in 1 .. Len(q) |-> IF d = 1 THEN q[1] ELSE v[d - 1] \o q[d]]
               /\ v[Len(q)] = FlattenSeq(q)
  <2> HIDE DEF q, n
  <2>1. Len(q) \in Nat \ {0}
    BY <1>0
  <2> QED BY <2>1, FlattenUnfolds
<1>2. CASE p = <<>>
  <2>1. n = 0
    BY <1>2
  <2> HIDE DEF q, n
  <2>2. v[1] = y /\ Len(q) = 1
    BY <1>0, <1>1, <2>1
  <2> QED BY <1>1, <1>2, <2>2 DEF q
<1>3. CASE p # <<>>
  <2>1. n \in Nat \ {0}
    BY <1>3, EmptySeq
  <2>2. PICK u : /\ u = [d \in 1 .. n |-> IF d = 1 THEN p[1] ELSE u[d - 1] \o p[d]]
                 /\ u[n] = FlattenSeq(p)
    BY <2>1, FlattenUnfolds
  <2> HIDE DEF q, n
  <2> DEFINE S == {m \in Nat : m + 1 <= n => v[m + 1] = u[m + 1]}
  <2>3. 0 \in S
    BY <1>0, <1>1, <2>1, <2>2
  <2>4. \A m \in Nat : m \in S => m + 1 \in S
    <3> SUFFICES ASSUME NEW m \in Nat, m \in S, (m + 1) + 1 <= n
                 PROVE  v[(m + 1) + 1] = u[(m + 1) + 1]
      OBVIOUS
    <3>1. v[m + 1] = u[m + 1]
      BY <1>0
    <3> DEFINE k == (m + 1) + 1
    <3>2. k \in 1 .. n /\ k \in 1 .. Len(q) /\ k # 1 /\ k - 1 = m + 1
      BY SMTT(30), <1>0
    <3> HIDE DEF k
    <3>3. v[k] = v[k - 1] \o q[k] /\ u[k] = u[k - 1] \o p[k] /\ q[k] = p[k]
      BY <1>0, <1>1, <2>2, <3>2
    <3> QED BY <3>1, <3>2, <3>3 DEF k
  <2>5. n - 1 \in S /\ (n - 1) + 1 = n
    <3> HIDE DEF S
    <3> QED BY SMTT(30), <2>1, <2>3, <2>4, EachNumber
  <2>6. v[n] = u[n]
    BY <2>1, <2>5
  <2>7. v[n + 1] = v[n] \o y
    <3>1. n + 1 \in 1 .. Len(q) /\ n + 1 # 1 /\ (n + 1) - 1 = n
      BY <1>0, <2>1
    <3> QED BY <1>0, <1>1, <3>1
  <2>8. FlattenSeq(q) = FlattenSeq(p) \o y
    BY <1>0, <1>1, <2>2, <2>6, <2>7
  <2> QED BY <1>3, <2>8 DEF q
<1> QED BY <1>2, <1>3

LEMMA FlattenNone == FlattenSeq(<<>>) = <<>>
BY DEF FlattenSeq

LEMMA FlattenTyped ==
  ASSUME NEW T
  PROVE  \A p \in Seq(Seq(T)) : FlattenSeq(p) \in Seq(T)
<1> DEFINE P == {p \in Seq(Seq(T)) : FlattenSeq(p) \in Seq(T)}
<1>1. <<>> \in P
  <2>1. <<>> \in Seq(T) /\ <<>> \in Seq(Seq(T))
    OBVIOUS
  <2> QED BY <2>1, FlattenNone
<1>2. \A x \in Seq(Seq(T)), e \in Seq(T) : x \in P => Append(x, e) \in P
  <2> SUFFICES ASSUME NEW x \in Seq(Seq(T)), NEW e \in Seq(T), FlattenSeq(x) \in Seq(T)
               PROVE  Append(x, e) \in Seq(Seq(T)) /\ FlattenSeq(Append(x, e)) \in Seq(T)
    OBVIOUS
  <2>1. FlattenSeq(Append(x, e)) = IF x = <<>> THEN e ELSE FlattenSeq(x) \o e
    BY FlattenStep
  <2>2. FlattenSeq(x) \o e \in Seq(T)
    BY ConcatProperties
  <2>3. Append(x, e) \in Seq(Seq(T))
    BY AppendProperties
  <2> QED BY <2>1, <2>2, <2>3
<1>3. Seq(Seq(T)) \subseteq P
  <2> HIDE DEF P
  <2> QED BY <1>1, <1>2, EachSequence
<1> QED BY <1>3

LEMMA FlattenAppend ==
  ASSUME NEW T, NEW p \in Seq(Seq(T)), NEW y \in Seq(T)
  PROVE  FlattenSeq(Append(p, y)) = FlattenSeq(p) \o y
BY FlattenStep, FlattenNone, ConcatEmptySeq


LEMMA AppendJoins ==
  ASSUME NEW T, NEW x \in Seq(T), NEW y \in Seq(T), NEW e \in T
  PROVE  x \o Append(y, e) = Append(x \o y, e)
<1> DEFINE a == x \o Append(y, e)
           b == Append(x \o y, e)
<1>1. /\ a \in Seq(T) /\ Len(a) = Len(x) + Len(y) + 1 /\ b \in Seq(T) /\ Len(b) = Len(a)
      /\ Len(x) \in Nat /\ Len(y) \in Nat
  OBVIOUS
<1>2. \A i \in 1 .. Len(a) : a[i] = b[i]
  OBVIOUS
<1> HIDE DEF a, b
<1>3. a = b
  BY <1>1, <1>2, SeqEqual
<1> QED BY <1>3 DEF a, b

(* The items of a section, one item at a time. *)
LEMMA InNone == \A s : In(<<>>, s) = <<>>
<1> SUFFICES ASSUME NEW s PROVE In(<<>>, s) = <<>>
  OBVIOUS
<1> DEFINE p == [i \in DOMAIN <<>> |-> IF <<>>[i].section = s THEN <<(<<>>)[i]>> ELSE <<>>]
<1>1. DOMAIN <<>> = 1 .. 0 /\ Len(<<>>) = 0
  OBVIOUS
<1>2. p \in Seq({}) /\ Len(p) = 0
  BY <1>1
<1>3. p = <<>>
  <2> HIDE DEF p
  <2> QED BY <1>2, EmptySeq
<1> QED BY <1>3, FlattenNone DEF In

LEMMA InAppend ==
  ASSUME NEW T, NEW x \in Seq(T), NEW e \in T, NEW s
  PROVE  /\ In(x, s) \in Seq(T)
         /\ In(Append(x, e), s) = IF e.section = s THEN Append(In(x, s), e) ELSE In(x, s)
<1> DEFINE n == Len(x)
           y == Append(x, e)
           Piece(a) == IF a.section = s THEN <<a>> ELSE <<>>
           p == [i \in DOMAIN x |-> Piece(x[i])]
           q == [i \in DOMAIN y |-> Piece(y[i])]
<1>1. n \in Nat /\ DOMAIN x = 1 .. n /\ \A i \in 1 .. n : x[i] \in T
  BY LenProperties
<1>2. y \in Seq(T) /\ DOMAIN y = 1 .. n + 1 /\ y[n + 1] = e /\ \A i \in 1 .. n : y[i] = x[i]
  OBVIOUS
<1>3. \A a \in T : Piece(a) \in Seq(T)
  OBVIOUS
<1> HIDE DEF n, y, Piece
<1>4. p \in Seq(Seq(T)) /\ Len(p) = n
  BY <1>1, <1>3
<1>5. q = Append(p, Piece(e))
  <2>1. q \in Seq(Seq(T)) /\ Len(q) = n + 1
    BY <1>1, <1>2, <1>3
  <2>2. \A i \in 1 .. n + 1 : q[i] = IF i = n + 1 THEN Piece(e) ELSE p[i]
    BY <1>1, <1>2
  <2>3. Piece(e) \in Seq(T)
    BY <1>3
  <2> HIDE DEF p, q
  <2>4. /\ Append(p, Piece(e)) \in Seq(Seq(T)) /\ Len(Append(p, Piece(e))) = n + 1
        /\ \A i \in 1 .. n + 1 : Append(p, Piece(e))[i] = IF i = n + 1 THEN Piece(e) ELSE p[i]
    BY <1>1, <1>4, <2>3
  <2> QED BY <2>1, <2>2, <2>4, SeqEqual
<1>6. In(x, s) = FlattenSeq(p) /\ In(y, s) = FlattenSeq(q)
  BY DEF In, Piece
<1> HIDE DEF p, q
<1>7. FlattenSeq(p) \in Seq(T)
  BY <1>4, FlattenTyped
<1>8. FlattenSeq(q) = FlattenSeq(p) \o Piece(e)
  BY <1>3, <1>4, <1>5, FlattenAppend
<1>9. Piece(e) = IF e.section = s THEN <<e>> ELSE <<>>
  BY DEF Piece
<1>10. FlattenSeq(p) \o <<e>> = Append(FlattenSeq(p), e)
  BY <1>7
<1>11. FlattenSeq(p) \o <<>> = FlattenSeq(p)
  BY <1>7, ConcatEmptySeq
<1>12. CASE e.section = s
  BY <1>6, <1>7, <1>8, <1>9, <1>10, <1>12 DEF y
<1>13. CASE e.section # s
  BY <1>6, <1>7, <1>8, <1>9, <1>11, <1>13 DEF y
<1> QED BY <1>12, <1>13

(* Only those of the section. *)
ItemsOf(T, s) == {e \in T : e.section = s}

LEMMA InTyped ==
  ASSUME NEW T, NEW s
  PROVE  \A x \in Seq(T) : In(x, s) \in Seq(ItemsOf(T, s))
<1> USE DEF ItemsOf
<1> DEFINE P == {x \in Seq(T) : In(x, s) \in Seq({e \in T : e.section = s})}
<1>1. <<>> \in P
  <2>1. <<>> \in Seq(T) /\ <<>> \in Seq({e \in T : e.section = s})
    OBVIOUS
  <2> QED BY <2>1, InNone
<1>2. \A x \in Seq(T), e \in T : x \in P => Append(x, e) \in P
  <2> SUFFICES ASSUME NEW x \in Seq(T), NEW e \in T, x \in P
               PROVE  Append(x, e) \in P
    OBVIOUS
  <2>1. In(Append(x, e), s) = IF e.section = s THEN Append(In(x, s), e) ELSE In(x, s)
    BY InAppend
  <2>2. Append(x, e) \in Seq(T)
    OBVIOUS
  <2>3. e.section = s => Append(In(x, s), e) \in Seq({a \in T : a.section = s})
    OBVIOUS
  <2> QED BY <2>1, <2>2, <2>3
<1>3. Seq(T) \subseteq P
  <2> HIDE DEF P
  <2> QED BY <1>1, <1>2, EachSequence
<1> QED BY <1>3

(* First those of the one, then those of the other. *)
LEMMA InJoins ==
  ASSUME NEW T, NEW x \in Seq(T), NEW s
  PROVE  \A y \in Seq(T) : In(x \o y, s) = In(x, s) \o In(y, s)
<1> DEFINE P == {y \in Seq(T) : In(x \o y, s) = In(x, s) \o In(y, s)}
<1>0. In(x, s) \in Seq(T)
  <2> DEFINE U == ItemsOf(T, s)
  <2>1. In(x, s) \in Seq(U) /\ U \subseteq T
    BY InTyped DEF ItemsOf
  <2> HIDE DEF U
  <2> QED BY <2>1, SeqMonotonic
<1>1. <<>> \in P
  <2>1. <<>> \in Seq(T)
    OBVIOUS
  <2>2. x \o <<>> = x /\ In(x, s) \o <<>> = In(x, s)
    BY <1>0, ConcatEmptySeq
  <2> QED BY <2>1, <2>2, InNone
<1>2. \A y \in Seq(T), e \in T : y \in P => Append(y, e) \in P
  <2> SUFFICES ASSUME NEW y \in Seq(T), NEW e \in T, y \in P
               PROVE  Append(y, e) \in P
    OBVIOUS
  <2> DEFINE z == x \o y
  <2>0. z \in Seq(T)
    BY ConcatProperties
  <2>6. Append(y, e) \in Seq(T) /\ In(z, s) = In(x, s) \o In(y, s)
    OBVIOUS
  <2>1. x \o Append(y, e) = Append(z, e)
    BY AppendJoins
  <2> HIDE DEF z
  <2>2. In(Append(z, e), s) = IF e.section = s THEN Append(In(z, s), e) ELSE In(z, s)
    BY <2>0, InAppend
  <2>3. In(Append(y, e), s) = IF e.section = s THEN Append(In(y, s), e) ELSE In(y, s)
    BY InAppend
  <2>4. In(x, s) \in Seq(T) /\ In(y, s) \in Seq(T)
    BY InAppend
  <2>5. In(x, s) \o Append(In(y, s), e) = Append(In(x, s) \o In(y, s), e)
    BY <2>4, AppendJoins
  <2> QED BY <2>1, <2>2, <2>3, <2>5, <2>6
<1>3. Seq(T) \subseteq P
  <2> HIDE DEF P
  <2> QED BY <1>1, <1>2, EachSequence
<1> QED BY <1>3

(* A section's own items are all of it, and none of another. *)
LEMMA InOwn ==
  ASSUME NEW T, NEW s
  PROVE  \A x \in Seq(ItemsOf(T, s)) : In(x, s) = x /\ \A z : z # s => In(x, z) = <<>>
<1> DEFINE U == ItemsOf(T, s)
           P == {x \in Seq(U) : In(x, s) = x /\ \A z : z # s => In(x, z) = <<>>}
<1>0. \A e \in U : e.section = s
  BY DEF ItemsOf
<1> HIDE DEF U
<1>1. <<>> \in P
  <2>1. <<>> \in Seq(U)
    OBVIOUS
  <2> QED BY <2>1, InNone
<1>2. \A x \in Seq(U), e \in U : x \in P => Append(x, e) \in P
  <2> SUFFICES ASSUME NEW x \in Seq(U), NEW e \in U, x \in P
               PROVE  Append(x, e) \in P
    OBVIOUS
  <2>1. \A z : In(Append(x, e), z) = IF e.section = z THEN Append(In(x, z), e) ELSE In(x, z)
    BY InAppend
  <2>2. Append(x, e) \in Seq(U)
    OBVIOUS
  <2> QED BY <1>0, <2>1, <2>2
<1>3. Seq(U) \subseteq P
  <2> HIDE DEF P
  <2> QED BY <1>1, <1>2, EachSequence
<1> QED BY <1>3 DEF U

(* A paper in pieces, each of one section. *)
Pieces(f, T) == \A k \in 1 .. Len(f) : f[k] \in Seq(ItemsOf(T, Sections[k]))

LEMMA PaperBlueprint ==
  /\ Len(Sections) \in Nat \ {0}
  /\ \A k \in 1 .. Len(Sections) : Sections[k] \in ToSet(Sections)
  /\ \A j, k \in 1 .. Len(Sections) : Sections[j] = Sections[k] => j = k
  /\ \A s \in ToSet(Sections) : \E k \in 1 .. Len(Sections) : Sections[k] = s
  /\ \A s \in ToSet(Sections) : Quota[s] \in Nat \ {0}
<1> USE PaperAssumption DEF PaperAssumption
<1>1. Sections \in Seq(ToSet(Sections))
  OBVIOUS
<1>2. "coding" \in ToSet(Sections)
  OBVIOUS
<1> HIDE PaperAssumption DEF PaperAssumption
<1>3. Sections # <<>>
  BY <1>2 DEF ToSet
<1>4. Len(Sections) \in Nat \ {0} /\ DOMAIN Sections = 1 .. Len(Sections)
  BY <1>1, <1>3, EmptySeq, LenProperties
<1> QED BY <1>4, PaperAssumption DEF PaperAssumption, ToSet

LEMMA InPieces ==
  ASSUME NEW T
  PROVE  \A f \in Seq(Seq(T)) : Len(f) <= Len(Sections) /\ Pieces(f, T) =>
             \A k \in 1 .. Len(Sections) :
                 In(FlattenSeq(f), Sections[k]) = IF k <= Len(f) THEN f[k] ELSE <<>>
<1> DEFINE n == Len(Sections)
           Fits(f) == \A k \in 1 .. n :
                        In(FlattenSeq(f), Sections[k]) = IF k <= Len(f) THEN f[k] ELSE <<>>
           P == {f \in Seq(Seq(T)) : Len(f) <= n /\ Pieces(f, T) => Fits(f)}
<1>0. n \in Nat /\ \A j, k \in 1 .. n : Sections[j] = Sections[k] => j = k
  BY PaperBlueprint
<1> HIDE DEF n
<1>1. <<>> \in P
  <2>1. <<>> \in Seq(Seq(T)) /\ Len(<<>>) = 0
    OBVIOUS
  <2>2. \A k \in 1 .. n : ~(k <= 0)
    BY <1>0
  <2> QED BY <2>1, <2>2, InNone, FlattenNone
<1>2. \A f \in Seq(Seq(T)), y \in Seq(T) : f \in P => Append(f, y) \in P
  <2> SUFFICES ASSUME NEW f \in Seq(Seq(T)), NEW y \in Seq(T), f \in P
               PROVE  Append(f, y) \in P
    OBVIOUS
  <2> DEFINE m == Len(f)
             g == Append(f, y)
  <2>1. /\ m \in Nat /\ g \in Seq(Seq(T)) /\ Len(g) = m + 1 /\ g[m + 1] = y
        /\ \A k \in 1 .. m : g[k] = f[k]
    OBVIOUS
  <2>2. FlattenSeq(g) = FlattenSeq(f) \o y /\ FlattenSeq(f) \in Seq(T)
    BY FlattenAppend, FlattenTyped
  <2> HIDE DEF g, m
  <2> SUFFICES ASSUME m + 1 <= n, Pieces(g, T) PROVE Fits(g)
    BY <2>1 DEF g
  <2>3. m <= n /\ m + 1 \in 1 .. n /\ m + 1 \in 1 .. m + 1 /\ \A k \in 1 .. m : k \in 1 .. m + 1
    BY <1>0, <2>1
  <2>4. Pieces(f, T)
    BY <2>1, <2>3 DEF Pieces, m
  <2>5. Fits(f)
    BY <2>3, <2>4 DEF m
  <2>6. y \in Seq(ItemsOf(T, Sections[m + 1]))
    BY <2>1, <2>3 DEF Pieces
  <2>7. In(y, Sections[m + 1]) = y /\ \A z : z # Sections[m + 1] => In(y, z) = <<>>
    BY <2>6, InOwn
  <2> SUFFICES ASSUME NEW k \in 1 .. n
               PROVE  In(FlattenSeq(g), Sections[k]) = IF k <= m + 1 THEN g[k] ELSE <<>>
    BY <2>1
  <2> DEFINE a == FlattenSeq(f)
             s == Sections[k]
  <2>8. In(a \o y, s) = In(a, s) \o In(y, s)
    <3> HIDE DEF a, s
    <3>1. a \in Seq(T)
      BY <2>2 DEF a
    <3> QED BY <3>1, InJoins
  <2>9. In(a, s) = IF k <= m THEN f[k] ELSE <<>>
    BY <2>5 DEF m
  <2>10. <<>> \o y = y /\ <<>> \o <<>> = <<>> /\ \A x \in Seq(T) : x \o <<>> = x
    BY ConcatEmptySeq
  <2>11. CASE k <= m
    <3>1. k # m + 1 /\ k <= m + 1 /\ k \in 1 .. m
      BY <2>1, <2>11
    <3>2. s # Sections[m + 1]
      BY <1>0, <2>3, <3>1
    <3>3. f[k] \in Seq(T) /\ g[k] = f[k]
      BY <2>1, <3>1 DEF m
    <3>4. In(a, s) = f[k] /\ In(y, s) = <<>>
      BY <2>7, <2>9, <2>11, <3>2
    <3> HIDE DEF a, s
    <3>5. In(a \o y, s) = g[k]
      BY <2>8, <2>10, <3>3, <3>4
    <3> QED BY <2>2, <3>1, <3>5 DEF a, s
  <2>12. CASE k = m + 1
    <3>1. ~(k <= m) /\ k <= m + 1
      BY <2>1, <2>12
    <3>2. In(a, s) = <<>> /\ In(y, s) = y
      BY <2>7, <2>9, <2>12, <3>1
    <3> HIDE DEF a, s
    <3>3. In(a \o y, s) = y
      BY <2>8, <2>10, <3>2
    <3> QED BY <2>1, <2>2, <2>12, <3>1, <3>3 DEF a, s
  <2>13. CASE m + 1 < k
    <3>1. k # m + 1 /\ ~(k <= m + 1) /\ ~(k <= m)
      BY <2>1, <2>13
    <3>2. s # Sections[m + 1]
      BY <1>0, <2>3, <3>1
    <3>3. In(a, s) = <<>> /\ In(y, s) = <<>>
      BY <2>7, <2>9, <3>1, <3>2
    <3> HIDE DEF a, s
    <3>4. In(a \o y, s) = <<>>
      BY <2>8, <2>10, <3>3
    <3> QED BY <2>2, <3>1, <3>4 DEF a, s
  <2> QED BY <1>0, <2>1, <2>11, <2>12, <2>13
<1>3. Seq(Seq(T)) \subseteq P
  <2> HIDE DEF P
  <2> QED BY <1>1, <1>2, EachSequence
<1> QED BY <1>3 DEF n

(* In order, a paper in the pieces of the blueprint is itself. *)
LEMMA OrderedPieces ==
  ASSUME NEW T, NEW f \in Seq(Seq(T)), Len(f) = Len(Sections), Pieces(f, T)
  PROVE  /\ FlattenSeq(f) \in Seq(T)
         /\ \A k \in 1 .. Len(Sections) : In(FlattenSeq(f), Sections[k]) = f[k]
         /\ Ordered(FlattenSeq(f)) = FlattenSeq(f)
<1> DEFINE n == Len(Sections)
           a == FlattenSeq(f)
           g == [k \in 1 .. n |-> In(a, Sections[k])]
<1>1. n \in Nat
  BY PaperBlueprint
<1>2. a \in Seq(T)
  BY FlattenTyped
<1>3. \A k \in 1 .. n : In(a, Sections[k]) = f[k]
  <2>1. Len(f) <= Len(Sections)
    BY <1>1
  <2>2. \A k \in 1 .. n : k <= Len(f)
    BY <1>1
  <2> QED BY <2>1, <2>2, InPieces
<1>4. g = f
  <2>1. f = [k \in 1 .. n |-> f[k]]
    OBVIOUS
  <2> HIDE DEF a, n
  <2> QED BY <1>3, <2>1
<1>5. Ordered(a) = FlattenSeq(g)
  BY DEF Ordered
<1> QED BY <1>2, <1>3, <1>4, <1>5

(* As long as all its pieces. *)
Lengths(f) == [k \in 0 .. Len(f) |-> IF k = 0 THEN 0 ELSE Len(f[k])]

LEMMA FlattenLength ==
  ASSUME NEW T, NEW f \in Seq(Seq(T)), f # <<>>
  PROVE  Lengths(f) \in [0 .. Len(f) -> Nat] /\ Len(FlattenSeq(f)) = Total(Lengths(f), Len(f))
<1> DEFINE n == Len(f)
           w == Lengths(f)
<1>0. n \in Nat \ {0}
  BY EmptySeq
<1>1. n \in Nat \ {0} /\ \A k \in 1 .. n : f[k] \in Seq(T)
  BY <1>0, ElementOfSeq
<1>2. w \in [0 .. n -> Nat] /\ w[0] = 0 /\ \A k \in 1 .. n : w[k] = Len(f[k])
  BY <1>1, LenProperties DEF Lengths
<1>3. PICK u : /\ u = [d \in 1 .. n |-> IF d = 1 THEN f[1] ELSE u[d - 1] \o f[d]]
               /\ u[n] = FlattenSeq(f)
  BY <1>1, FlattenUnfolds
<1> HIDE DEF n, w
<1>4. PICK t : /\ t = [d \in 0 .. n |-> IF d = 0 THEN w[0] ELSE t[d - 1] + w[d]]
               /\ t[n] = Total(w, n)
  BY <1>1, <1>2, TotalStep
<1> DEFINE Agrees(m) == u[m + 1] \in Seq(T) /\ Len(u[m + 1]) = t[m + 1] /\ t[m + 1] \in Nat
           S == {m \in Nat : m + 1 <= n => Agrees(m)}
<1>5. 0 \in S
  <2>1. u[1] = f[1] /\ f[1] \in Seq(T) /\ w[1] = Len(f[1]) /\ w[1] \in Nat
    BY <1>1, <1>2, <1>3
  <2>2. t[0] = 0 /\ t[1] = w[1]
    BY <1>1, <1>2, <1>4
  <2>3. Agrees(0)
    BY <2>1, <2>2
  <2> QED BY <2>3
<1>6. \A m \in Nat : m \in S => m + 1 \in S
  <2> SUFFICES ASSUME NEW m \in Nat, m \in S, (m + 1) + 1 <= n PROVE Agrees(m + 1)
    OBVIOUS
  <2>1. Agrees(m)
    BY <1>1
  <2> DEFINE k == (m + 1) + 1
  <2>2. k \in 1 .. n /\ k \in 0 .. n /\ k # 0 /\ k # 1 /\ k - 1 = m + 1
    BY <1>1
  <2> HIDE DEF k
  <2>3. u[k] = u[k - 1] \o f[k] /\ t[k] = t[k - 1] + w[k]
    BY <1>3, <1>4, <2>2
  <2>4. f[k] \in Seq(T) /\ w[k] = Len(f[k]) /\ w[k] \in Nat
    BY <1>1, <1>2, <2>2
  <2>5. u[k] \in Seq(T) /\ Len(u[k]) = Len(u[k - 1]) + Len(f[k])
    BY <2>1, <2>2, <2>3, <2>4, ConcatProperties
  <2>6. Len(u[k - 1]) = t[k - 1] /\ t[k - 1] \in Nat
    BY <2>1, <2>2
  <2>7. Agrees(m + 1) <=> u[k] \in Seq(T) /\ Len(u[k]) = t[k] /\ t[k] \in Nat
    BY DEF k
  <2> HIDE DEF Agrees
  <2> QED BY SMTT(30), <2>3, <2>4, <2>5, <2>6, <2>7
<1>7. n - 1 \in S /\ (n - 1) + 1 = n
  <2> HIDE DEF S
  <2> QED BY SMTT(30), <1>0, <1>5, <1>6, EachNumber
<1>8. Len(u[n]) = t[n]
  BY <1>1, <1>7
<1> QED BY <1>2, <1>3, <1>4, <1>8 DEF n, w

(* How many items each section has. *)
SectionCounts(x) == [k \in 0 .. Len(Sections) |-> IF k = 0 THEN 0 ELSE Len(In(x, Sections[k]))]
Quotas == [k \in 0 .. Len(Sections) |-> IF k = 0 THEN 0 ELSE Quota[Sections[k]]]

LEMMA QuotasTyped == Quotas \in [0 .. Len(Sections) -> Nat] /\ FullCount = Total(Quotas, Len(Sections))
BY PaperBlueprint DEF Quotas, FullCount

LEMMA CountsTyped ==
  ASSUME NEW T, NEW x \in Seq(T)
  PROVE  SectionCounts(x) \in [0 .. Len(Sections) -> Nat]
<1>1. \A s : Len(In(x, s)) \in Nat
  <2> SUFFICES ASSUME NEW s PROVE Len(In(x, s)) \in Nat
    OBVIOUS
  <2>1. In(x, s) \in Seq(ItemsOf(T, s))
    BY InTyped
  <2> QED BY <2>1, LenProperties
<1> QED BY <1>1 DEF SectionCounts

LEMMA TotalOfNone ==
  ASSUME NEW n \in Nat
  PROVE  Total([d \in 0 .. n |-> 0], n) = 0
<1> DEFINE f == [d \in 0 .. n |-> 0]
<1>1. f \in [0 .. n -> Nat]
  OBVIOUS
<1>2. PICK t : /\ t = [d \in 0 .. n |-> IF d = 0 THEN f[0] ELSE t[d - 1] + f[d]]
               /\ t[n] = Total(f, n)
  <2> HIDE DEF f
  <2> QED BY <1>1, TotalStep
<1> DEFINE S == {m \in Nat : m <= n => t[m] = 0}
<1>3. 0 \in S
  BY <1>2
<1>4. \A m \in Nat : m \in S => m + 1 \in S
  <2> SUFFICES ASSUME NEW m \in Nat, m \in S, m + 1 <= n PROVE t[m + 1] = 0
    OBVIOUS
  <2>1. m + 1 \in 0 .. n /\ m + 1 # 0 /\ (m + 1) - 1 = m /\ t[m] = 0
    OBVIOUS
  <2> QED BY <1>2, <2>1
<1>5. n \in S
  <2> HIDE DEF S
  <2> QED BY <1>3, <1>4, EachNumber
<1> QED BY <1>2, <1>5

(* As long as all its sections. *)
LEMMA CountsAll ==
  ASSUME NEW T, \A e \in T : e.section \in ToSet(Sections)
  PROVE  \A x \in Seq(T) : Len(x) = Total(SectionCounts(x), Len(Sections))
<1> DEFINE n == Len(Sections)
           P == {x \in Seq(T) : Len(x) = Total(SectionCounts(x), n)}
<1>0. n \in Nat
  BY PaperBlueprint
<1>1. <<>> \in P
  <2>1. <<>> \in Seq(T) /\ Len(<<>>) = 0
    OBVIOUS
  <2>2. SectionCounts(<<>>) = [d \in 0 .. n |-> 0]
    BY <2>1, InNone DEF SectionCounts
  <2> HIDE DEF n
  <2> QED BY <1>0, <2>1, <2>2, TotalOfNone
<1>2. \A x \in Seq(T), e \in T : x \in P => Append(x, e) \in P
  <2> SUFFICES ASSUME NEW x \in Seq(T), NEW e \in T, x \in P
               PROVE  Append(x, e) \in P
    OBVIOUS
  <2> DEFINE y == Append(x, e)
             f == SectionCounts(x)
             g == SectionCounts(y)
  <2>1. y \in Seq(T) /\ Len(y) = Len(x) + 1
    OBVIOUS
  <2>2. f \in [0 .. n -> Nat] /\ g \in [0 .. n -> Nat]
    <3> HIDE DEF y
    <3> QED BY <2>1, CountsTyped
  <2>3. PICK D \in 1 .. n : Sections[D] = e.section
    BY PaperBlueprint
  <2>4. \A k \in 1 .. n : In(y, Sections[k]) = IF k = D THEN Append(In(x, Sections[k]), e) ELSE In(x, Sections[k])
    <3> SUFFICES ASSUME NEW k \in 1 .. n
                 PROVE  In(y, Sections[k]) = IF k = D THEN Append(In(x, Sections[k]), e) ELSE In(x, Sections[k])
      OBVIOUS
    <3> DEFINE s == Sections[k]
    <3>1. e.section = s <=> k = D
      BY <2>3, PaperBlueprint
    <3> HIDE DEF s
    <3>2. In(y, s) = IF e.section = s THEN Append(In(x, s), e) ELSE In(x, s)
      BY InAppend
    <3> QED BY <3>1, <3>2 DEF s
  <2>5. \A k \in 1 .. n : Len(Append(In(x, Sections[k]), e)) = Len(In(x, Sections[k])) + 1
    <3> SUFFICES ASSUME NEW k \in 1 .. n
                 PROVE  Len(Append(In(x, Sections[k]), e)) = Len(In(x, Sections[k])) + 1
      OBVIOUS
    <3>1. In(x, Sections[k]) \in Seq(T)
      BY InAppend
    <3> QED BY <3>1
  <2>6. GainsAt(g, f, D, 1)
    <3> HIDE DEF y
    <3>1. \A k \in 0 .. n : g[k] = IF k = D THEN f[k] + 1 ELSE f[k]
      <4>1. D # 0 /\ f[0] = 0 /\ g[0] = 0
        BY <1>0, <2>3 DEF SectionCounts
      <4>2. \A k \in 1 .. n : f[k] = Len(In(x, Sections[k])) /\ g[k] = Len(In(y, Sections[k]))
        BY <1>0 DEF SectionCounts
      <4>3. \A k \in 0 .. n : k = 0 \/ k \in 1 .. n
        BY <1>0
      <4> HIDE DEF f, g, n
      <4> QED BY <2>4, <2>5, <4>1, <4>2, <4>3
    <3> HIDE DEF f, g
    <3> QED BY <2>2, <3>1 DEF GainsAt
  <2> HIDE DEF f, g, y, n
  <2>7. Total(g, n) = Total(f, n) + 1
    <3>1. D \in 0 .. n /\ 1 \in Nat
      BY <1>0, <2>3
    <3> QED BY ZenonT(30), <1>0, <2>2, <2>6, <3>1, TotalGrows
  <2> QED BY <2>1, <2>7 DEF f, g, y
<1>3. Seq(T) \subseteq P
  <2> HIDE DEF P
  <2> QED BY <1>1, <1>2, EachSequence
<1> QED BY <1>3

(* What is no more anywhere, and as much in all, is as much everywhere. *)
LEMMA TotalSame ==
  ASSUME NEW n \in Nat, NEW f \in [0 .. n -> Nat], NEW g \in [0 .. n -> Nat],
         \A d \in 0 .. n : f[d] <= g[d], Total(f, n) = Total(g, n)
  PROVE  f = g
<1> SUFFICES ASSUME NEW D \in 0 .. n, f[D] # g[D] PROVE FALSE
  OBVIOUS
<1> DEFINE h == [f EXCEPT ![D] = f[D] + 1]
<1>1. GainsAt(h, f, D, 1)
  BY DEF GainsAt
<1>2. h \in [0 .. n -> Nat] /\ \A d \in 0 .. n : h[d] <= g[d]
  <2>1. f[D] \in Nat /\ g[D] \in Nat /\ f[D] + 1 <= g[D]
    OBVIOUS
  <2> QED BY <2>1
<1> HIDE DEF h
<1>3. Total(f, n) \in Nat /\ Total(h, n) = Total(f, n) + 1
  <2>1. 1 \in Nat
    OBVIOUS
  <2> QED BY ZenonT(30), <1>1, <2>1, TotalGrows
<1>4. Total(h, n) <= Total(g, n) /\ Total(g, n) \in Nat
  BY <1>2, TotalOrder
<1> QED BY <1>3, <1>4

(* What two have, they have together. *)
AddsUp(h, f, g, n) == \A d \in 0 .. n : h[d] = f[d] + g[d]

LEMMA TotalAdds ==
  ASSUME NEW n \in Nat, NEW f \in [0 .. n -> Nat], NEW g \in [0 .. n -> Nat],
         NEW h \in [0 .. n -> Nat], AddsUp(h, f, g, n)
  PROVE  /\ Total(f, n) \in Nat /\ Total(g, n) \in Nat
         /\ Total(h, n) = Total(f, n) + Total(g, n)
<1>1. PICK t : /\ t = [d \in 0 .. n |-> IF d = 0 THEN f[0] ELSE t[d - 1] + f[d]]
               /\ t[n] = Total(f, n)
  BY TotalStep
<1>2. PICK u : /\ u = [d \in 0 .. n |-> IF d = 0 THEN g[0] ELSE u[d - 1] + g[d]]
               /\ u[n] = Total(g, n)
  BY TotalStep
<1>3. PICK v : /\ v = [d \in 0 .. n |-> IF d = 0 THEN h[0] ELSE v[d - 1] + h[d]]
               /\ v[n] = Total(h, n)
  BY TotalStep
<1> DEFINE Both(m) == t[m] \in Nat /\ u[m] \in Nat /\ v[m] = t[m] + u[m]
           S == {m \in Nat : m <= n => Both(m)}
<1>4. 0 \in S
  <2>1. t[0] = f[0] /\ u[0] = g[0] /\ v[0] = h[0] /\ f[0] \in Nat /\ g[0] \in Nat
        /\ h[0] = f[0] + g[0]
    BY <1>1, <1>2, <1>3 DEF AddsUp
  <2>2. Both(0)
    BY <2>1
  <2> QED BY <2>2
<1>5. \A m \in Nat : m \in S => m + 1 \in S
  <2> SUFFICES ASSUME NEW m \in Nat, m \in S, m + 1 <= n PROVE Both(m + 1)
    OBVIOUS
  <2>1. Both(m)
    OBVIOUS
  <2> DEFINE k == m + 1
  <2>2. k \in 0 .. n /\ k # 0 /\ k - 1 = m
    OBVIOUS
  <2> HIDE DEF k
  <2>3. t[k] = t[m] + f[k] /\ t[m] \in Nat /\ f[k] \in Nat
    BY <1>1, <2>1, <2>2
  <2>4. u[k] = u[m] + g[k] /\ u[m] \in Nat /\ g[k] \in Nat
    BY <1>2, <2>1, <2>2
  <2>5. v[k] = v[m] + h[k] /\ v[m] = t[m] + u[m] /\ h[k] = f[k] + g[k]
    BY <1>3, <2>1, <2>2 DEF AddsUp
  <2> HIDE DEF Both, S
  <2>6. t[k] \in Nat /\ u[k] \in Nat
    <3>1. \A a, b \in Nat : a + b \in Nat
      OBVIOUS
    <3> QED BY Zenon, <2>3, <2>4, <3>1
  <2>7. v[k] = t[k] + u[k]
    <3> DEFINE b == t[m]
               c == u[m]
               d == f[k]
               e == g[k]
               x == t[k]
               y == u[k]
               w == v[m]
               z == h[k]
    <3>1. /\ x = b + d /\ y = c + e /\ w = b + c /\ z = d + e /\ v[k] = w + z
          /\ b \in Nat /\ c \in Nat /\ d \in Nat /\ e \in Nat
      BY Zenon, <2>3, <2>4, <2>5
    <3> HIDE DEF b, c, d, e, x, y, w, z
    <3>2. w + z = x + y
      BY <3>1
    <3>3. v[k] = x + y
      BY Zenon, <3>1, <3>2
    <3> QED BY Zenon, <3>3 DEF x, y
  <2>8. Both(k)
    BY <2>6, <2>7 DEF Both
  <2> QED BY <2>8 DEF k
<1>6. n \in S
  <2> HIDE DEF S
  <2> QED BY <1>4, <1>5, EachNumber
<1> QED BY <1>1, <1>2, <1>3, <1>6

(* What an item is: its section is one of the blueprint, or it is practice. *)
AnyItem == [section : ToSet(Sections) \cup {"practice"}, topic : STRING, keyed : BOOLEAN,
            difficulty : 0 .. 2, steps : BOOLEAN, size : -1 .. 2, own : BOOLEAN]

(* An exam's: keyed where options are, own where it is coding, and the provider's only when it
   was not asked before. *)
FullItem(U) == {e \in AnyItem : /\ e.section \in ToSet(Sections)
                                /\ e.section \in Objective => e.keyed
                                /\ e.section = "coding" => e.own
                                /\ e.own \/ e.topic \notin U}

WithTime(e) == [e EXCEPT !.size = IF e.section \in Audio THEN AnswerSize(e) ELSE -1]

(* The contract gives the same time to an item that has its time. *)
LEMMA TimeStands ==
  ASSUME NEW U, NEW e \in FullItem(U)
  PROVE  /\ WithTime(e) \in FullItem(U) /\ WithTime(e).section = e.section
         /\ WithTime(WithTime(e)) = WithTime(e)
<1>1. e \in AnyItem
  BY DEF FullItem
<1> DEFINE floor == IF e.section \in {"resume", "situational"} /\ e.difficulty = 0
                    THEN 1 ELSE e.difficulty
           rank == IF e.steps /\ floor < 2 THEN floor + 1 ELSE floor
<1>2. /\ e.size \in -1 .. 2 /\ e.difficulty \in 0 .. 2 /\ rank \in 0 .. 2
  BY <1>1 DEF AnyItem
<1>3. AnswerSize(e) = IF e.size > rank THEN e.size ELSE rank
  BY DEF AnswerSize
<1> HIDE DEF rank
<1>4. AnswerSize(e) \in -1 .. 2
  BY <1>2, <1>3
<1> DEFINE m == IF e.section \in Audio THEN AnswerSize(e) ELSE -1
           g == [e EXCEPT !.size = m]
<1>5. m \in -1 .. 2
  BY <1>4
<1> HIDE DEF m
<1>6. /\ g \in AnyItem /\ g.size = m /\ g.section = e.section /\ g.difficulty = e.difficulty
      /\ g.steps = e.steps /\ g.keyed = e.keyed /\ g.own = e.own /\ g.topic = e.topic
  BY <1>1, <1>5 DEF AnyItem
<1>7. g = WithTime(e)
  BY DEF WithTime, m
<1>8. [g EXCEPT !.size = m] = g
  BY <1>1 DEF AnyItem
<1> HIDE DEF g
<1>9. AnswerSize(g) = IF g.size > rank THEN g.size ELSE rank
  BY <1>6 DEF AnswerSize, rank
<1>10. (IF g.section \in Audio THEN AnswerSize(g) ELSE -1) = m
  <2>1. CASE e.section \in Audio
    <3>1. m = AnswerSize(e)
      BY <2>1 DEF m
    <3>2. AnswerSize(g) = m
      BY <1>2, <1>3, <1>6, <1>9, <3>1
    <3> QED BY <1>6, <2>1, <3>2
  <2>2. CASE e.section \notin Audio
    BY <1>6, <2>2 DEF m
  <2> QED BY <2>1, <2>2
<1>11. WithTime(g) = g
  BY <1>8, <1>10 DEF WithTime
<1>12. g \in FullItem(U)
  BY <1>6 DEF FullItem
<1> QED BY <1>6, <1>7, <1>11, <1>12

(* The contract, piece by piece. *)
ContractEach(f) == [k \in DOMAIN f |-> Contract(f[k])]

LEMMA ContractTyped ==
  ASSUME NEW T, \A e \in T : WithTime(e) \in T, NEW x \in Seq(T)
  PROVE  /\ Contract(x) \in Seq(T) /\ Len(Contract(x)) = Len(x)
         /\ \A i \in 1 .. Len(x) : Contract(x)[i] = WithTime(x[i])
<1>1. Contract(x) = [i \in DOMAIN x |-> WithTime(x[i])]
  BY DEF Contract, WithTime
<1>2. Len(x) \in Nat /\ DOMAIN x = 1 .. Len(x) /\ \A i \in 1 .. Len(x) : x[i] \in T
  BY LenProperties
<1> QED BY <1>1, <1>2

LEMMA ContractJoins ==
  ASSUME NEW T, \A e \in T : WithTime(e) \in T, NEW x \in Seq(T), NEW y \in Seq(T)
  PROVE  Contract(x \o y) = Contract(x) \o Contract(y)
<1> DEFINE z == x \o y
           cx == Contract(x)
           cy == Contract(y)
           cz == Contract(z)
<1>1. /\ z \in Seq(T) /\ Len(z) = Len(x) + Len(y) /\ Len(x) \in Nat /\ Len(y) \in Nat
      /\ \A i \in 1 .. Len(x) + Len(y) : z[i] = IF i <= Len(x) THEN x[i] ELSE y[i - Len(x)]
  BY ConcatProperties, LenProperties
<1>2. /\ cx \in Seq(T) /\ Len(cx) = Len(x)
      /\ \A i \in 1 .. Len(x) : cx[i] = WithTime(x[i])
  BY ContractTyped
<1>3. /\ cy \in Seq(T) /\ Len(cy) = Len(y)
      /\ \A i \in 1 .. Len(y) : cy[i] = WithTime(y[i])
  BY ContractTyped
<1> HIDE DEF z
<1>4. /\ cz \in Seq(T) /\ Len(cz) = Len(z)
      /\ \A i \in 1 .. Len(z) : cz[i] = WithTime(z[i])
  BY <1>1, ContractTyped
<1> HIDE DEF cx, cy, cz
<1>5. /\ cx \o cy \in Seq(T) /\ Len(cx \o cy) = Len(x) + Len(y)
      /\ \A i \in 1 .. Len(x) + Len(y) : (cx \o cy)[i] = IF i <= Len(x) THEN cx[i] ELSE cy[i - Len(x)]
  <2>1. cx \in Seq(T) /\ cy \in Seq(T)
    BY <1>2, <1>3
  <2>2. /\ cx \o cy \in Seq(T) /\ Len(cx \o cy) = Len(cx) + Len(cy)
        /\ \A i \in 1 .. Len(cx) + Len(cy) :
              (cx \o cy)[i] = IF i <= Len(cx) THEN cx[i] ELSE cy[i - Len(cx)]
    BY <2>1, ConcatProperties
  <2>3. Len(cx) = Len(x) /\ Len(cy) = Len(y)
    BY <1>2, <1>3
  <2> QED BY <2>2, <2>3
<1> DEFINE j == cx \o cy
<1>6. \A i \in 1 .. Len(x) + Len(y) : cz[i] = j[i]
  <2> SUFFICES ASSUME NEW i \in 1 .. Len(x) + Len(y) PROVE cz[i] = j[i]
    OBVIOUS
  <2>1. CASE i <= Len(x)
    <3>1. i \in 1 .. Len(x)
      BY <1>1, <2>1
    <3>2. cz[i] = WithTime(x[i])
      BY <1>1, <1>4, <2>1
    <3> QED BY <1>2, <1>5, <2>1, <3>1, <3>2
  <2>2. CASE ~(i <= Len(x))
    <3>1. i - Len(x) \in 1 .. Len(y)
      BY <1>1, <2>2
    <3>2. cz[i] = WithTime(y[i - Len(x)])
      BY <1>1, <1>4, <2>2
    <3> QED BY <1>3, <1>5, <2>2, <3>1, <3>2
  <2> QED BY <2>1, <2>2
<1>7. j \in Seq(T) /\ Len(j) = Len(cz)
  BY <1>1, <1>4, <1>5
<1> HIDE DEF j
<1>8. cz = j
  BY <1>1, <1>4, <1>6, <1>7, SeqEqual
<1> QED BY <1>8 DEF z, cx, cy, cz, j

LEMMA ContractFlattens ==
  ASSUME NEW T, \A e \in T : WithTime(e) \in T
  PROVE  \A f \in Seq(Seq(T)) : /\ ContractEach(f) \in Seq(Seq(T))
                                /\ Contract(FlattenSeq(f)) = FlattenSeq(ContractEach(f))
<1> DEFINE P == {f \in Seq(Seq(T)) : Contract(FlattenSeq(f)) = FlattenSeq(ContractEach(f))}
<1>0. ASSUME NEW f \in Seq(Seq(T))
      PROVE  /\ ContractEach(f) \in Seq(Seq(T)) /\ Len(ContractEach(f)) = Len(f)
             /\ \A k \in 1 .. Len(f) : ContractEach(f)[k] = Contract(f[k])
  <2>1. Len(f) \in Nat /\ DOMAIN f = 1 .. Len(f) /\ \A k \in 1 .. Len(f) : f[k] \in Seq(T)
    BY LenProperties
  <2>2. \A k \in 1 .. Len(f) : Contract(f[k]) \in Seq(T)
    <3> SUFFICES ASSUME NEW k \in 1 .. Len(f) PROVE Contract(f[k]) \in Seq(T)
      OBVIOUS
    <3> DEFINE x == f[k]
    <3>1. x \in Seq(T)
      BY <2>1
    <3> HIDE DEF x
    <3>2. Contract(x) \in Seq(T)
      BY <3>1, ContractTyped
    <3> QED BY <3>2 DEF x
  <2> QED BY <2>1, <2>2 DEF ContractEach
<1>1. <<>> \in P
  <2>1. <<>> \in Seq(T) /\ Len(<<>>) = 0 /\ <<>> \in Seq(Seq(T))
    OBVIOUS
  <2>2. Contract(<<>>) = <<>>
    <3> DEFINE x == <<>>
    <3>1. x \in Seq(T) /\ Len(x) = 0
      BY <2>1
    <3> HIDE DEF x
    <3>2. Contract(x) \in Seq(T) /\ Len(Contract(x)) = 0
      BY <3>1, ContractTyped
    <3>3. Contract(x) = <<>>
      BY <3>2, EmptySeq
    <3> QED BY <3>3 DEF x
  <2>3. ContractEach(<<>>) = <<>>
    <3> DEFINE x == <<>>
    <3>1. x \in Seq(Seq(T)) /\ Len(x) = 0
      BY <2>1
    <3> HIDE DEF x
    <3>2. ContractEach(x) \in Seq(Seq(T)) /\ Len(ContractEach(x)) = 0
      BY <1>0, <3>1
    <3>3. ContractEach(x) = <<>>
      BY <3>2, EmptySeq
    <3> QED BY <3>3 DEF x
  <2> QED BY <2>1, <2>2, <2>3, FlattenNone
<1>2. \A f \in Seq(Seq(T)), y \in Seq(T) : f \in P => Append(f, y) \in P
  <2> SUFFICES ASSUME NEW f \in Seq(Seq(T)), NEW y \in Seq(T), f \in P
               PROVE  Append(f, y) \in P
    OBVIOUS
  <2> DEFINE g == Append(f, y)
             cf == ContractEach(f)
             cy == Contract(y)
             a == FlattenSeq(f)
  <2>1. g \in Seq(Seq(T)) /\ Len(g) = Len(f) + 1 /\ Len(f) \in Nat /\ g[Len(f) + 1] = y
        /\ \A k \in 1 .. Len(f) : g[k] = f[k]
    OBVIOUS
  <2>2. cf \in Seq(Seq(T)) /\ Len(cf) = Len(f) /\ \A k \in 1 .. Len(f) : cf[k] = Contract(f[k])
    BY <1>0
  <2>3. cy \in Seq(T)
    BY ContractTyped
  <2>4. FlattenSeq(g) = a \o y /\ a \in Seq(T)
    BY FlattenAppend, FlattenTyped
  <2> HIDE DEF cf, cy
  <2>5. FlattenSeq(Append(cf, cy)) = FlattenSeq(cf) \o cy
    BY <2>2, <2>3, FlattenAppend
  <2> HIDE DEF a
  <2>6. Contract(a \o y) = Contract(a) \o Contract(y)
    BY <2>4, ContractJoins
  <2> HIDE DEF g
  <2>7. ContractEach(g) = Append(cf, cy)
    <3> DEFINE cg == ContractEach(g)
               h == Append(cf, cy)
    <3>1. cg \in Seq(Seq(T)) /\ Len(cg) = Len(g) /\ \A k \in 1 .. Len(g) : cg[k] = Contract(g[k])
      BY <1>0, <2>1
    <3>2. h \in Seq(Seq(T)) /\ Len(h) = Len(g) /\ \A k \in 1 .. Len(g) : h[k] = Contract(g[k])
      <4>1. h \in Seq(Seq(T)) /\ Len(h) = Len(f) + 1 /\ h[Len(f) + 1] = cy
            /\ \A k \in 1 .. Len(f) : h[k] = cf[k]
        BY <2>1, <2>2, <2>3
      <4> HIDE DEF h
      <4>2. \A k \in 1 .. Len(g) : k \in 1 .. Len(f) \/ k = Len(f) + 1
        BY <2>1
      <4> QED BY <2>1, <2>2, <4>1, <4>2 DEF cy
    <3> HIDE DEF cg, h
    <3>3. cg = h
      <4>1. Len(cg) = Len(h) /\ \A k \in 1 .. Len(cg) : cg[k] = h[k]
        BY <3>1, <3>2
      <4> QED BY <3>1, <3>2, <4>1, SeqEqual
    <3> QED BY <3>3 DEF cg, h
  <2>8. Contract(a) = FlattenSeq(cf)
    BY DEF a, cf
  <2>9. Contract(FlattenSeq(g)) = FlattenSeq(ContractEach(g))
    BY <2>4, <2>5, <2>6, <2>7, <2>8 DEF cy
  <2> QED BY <2>1, <2>9 DEF g
<1>3. Seq(Seq(T)) \subseteq P
  <2> HIDE DEF P
  <2> QED BY <1>1, <1>2, EachSequence
<1> QED BY <1>0, <1>3

(* A paper with every section's items, in the order of the blueprint. *)
Arranged(a, U) ==
  \E f \in Seq(Seq(FullItem(U))) :
     /\ Len(f) = Len(Sections) /\ Pieces(f, FullItem(U))
     /\ \A k \in 1 .. Len(Sections) : Len(f[k]) = Quota[Sections[k]]
     /\ a = FlattenSeq(f)

(* Such a paper meets the contract, *)
LEMMA ArrangedMeets ==
  ASSUME NEW U, NEW a, Arranged(a, U)
  PROVE  a \in Seq(FullItem(U)) /\ MeetsContract(a) /\ Ordered(a) = a
<1> DEFINE n == Len(Sections)
           T == FullItem(U)
<1>1. PICK f \in Seq(Seq(T)) :
        /\ Len(f) = n /\ Pieces(f, T)
        /\ \A k \in 1 .. n : Len(f[k]) = Quota[Sections[k]]
        /\ a = FlattenSeq(f)
  BY DEF Arranged
<1>2. \A e \in T : e.section \in Objective => e.keyed
  BY DEF FullItem
<1>3. n \in Nat \ {0} /\ \A s \in ToSet(Sections) : \E k \in 1 .. n : Sections[k] = s
  BY PaperBlueprint
<1> HIDE DEF T
<1>4. a \in Seq(T) /\ Ordered(a) = a /\ \A k \in 1 .. n : In(a, Sections[k]) = f[k]
  BY <1>1, OrderedPieces
<1> HIDE DEF n
<1>5. f # <<>>
  <2>1. Len(<<>>) = 0
    OBVIOUS
  <2> QED BY <1>1, <1>3, <2>1
<1>6. Len(a) = Total(Lengths(f), n)
  BY <1>1, <1>5, FlattenLength
<1>7. Lengths(f) = Quotas
  BY <1>1 DEF Lengths, Quotas, n
<1>8. Len(a) = FullCount
  BY <1>6, <1>7, QuotasTyped DEF n
<1>9. \A s \in ToSet(Sections) : Len(In(a, s)) = Quota[s]
  <2> SUFFICES ASSUME NEW s \in ToSet(Sections) PROVE Len(In(a, s)) = Quota[s]
    OBVIOUS
  <2>1. PICK k \in 1 .. n : Sections[k] = s
    BY <1>3
  <2>2. In(a, Sections[k]) = f[k] /\ Len(f[k]) = Quota[Sections[k]]
    BY <1>1, <1>4
  <2> QED BY <2>1, <2>2
<1>10. \A i \in DOMAIN a : a[i].section \in Objective => a[i].keyed
  BY <1>2, <1>4, LenProperties
<1> QED BY <1>4, <1>8, <1>9, <1>10 DEF MeetsContract, T

(* and still does with the times of the contract. *)
LEMMA ArrangedContract ==
  ASSUME NEW U, NEW a, Arranged(a, U)
  PROVE  Arranged(Contract(a), U) /\ Contract(Contract(a)) = Contract(a)
<1> DEFINE n == Len(Sections)
           T == FullItem(U)
<1>1. PICK f \in Seq(Seq(T)) :
        /\ Len(f) = n /\ Pieces(f, T)
        /\ \A k \in 1 .. n : Len(f[k]) = Quota[Sections[k]]
        /\ a = FlattenSeq(f)
  BY DEF Arranged
<1>2. \A e \in T : WithTime(e) \in T
  BY TimeStands
<1>3. \A e \in T : WithTime(e).section = e.section /\ WithTime(WithTime(e)) = WithTime(e)
  BY TimeStands
<1>4. n \in Nat
  BY PaperBlueprint
<1>5. a \in Seq(T)
  BY ArrangedMeets
<1> HIDE DEF T, n
<1> DEFINE g == ContractEach(f)
<1>6. g \in Seq(Seq(T)) /\ Contract(a) = FlattenSeq(g)
  BY <1>1, <1>2, ContractFlattens
<1>7. Len(g) = n /\ \A k \in 1 .. n : g[k] = Contract(f[k])
  BY <1>1, <1>4, <1>6 DEF ContractEach
<1>8. ASSUME NEW k \in 1 .. n
      PROVE  g[k] \in Seq(ItemsOf(T, Sections[k])) /\ Len(g[k]) = Quota[Sections[k]]
  <2> DEFINE V == ItemsOf(T, Sections[k])
             x == f[k]
  <2>1. x \in Seq(V) /\ Len(x) = Quota[Sections[k]]
    BY <1>1 DEF Pieces
  <2>2. \A e \in V : WithTime(e) \in V
    BY <1>2, <1>3 DEF ItemsOf
  <2>3. g[k] = Contract(x)
    BY <1>7
  <2> HIDE DEF V, x, g
  <2>4. Contract(x) \in Seq(V) /\ Len(Contract(x)) = Len(x)
    BY <2>1, <2>2, ContractTyped
  <2> QED BY <2>1, <2>3, <2>4 DEF V
<1>9. Arranged(Contract(a), U)
  <2> HIDE DEF g
  <2>1. Pieces(g, T)
    BY <1>7, <1>8 DEF Pieces
  <2> QED BY <1>6, <1>7, <1>8, <2>1 DEF Arranged, T, n
<1>10. Contract(Contract(a)) = Contract(a)
  <2> DEFINE c == Contract(a)
             d == Contract(c)
  <2>1. c \in Seq(T) /\ Len(c) = Len(a) /\ \A i \in 1 .. Len(a) : c[i] = WithTime(a[i])
    BY <1>2, <1>5, ContractTyped
  <2> HIDE DEF c
  <2>2. d \in Seq(T) /\ Len(d) = Len(c) /\ \A i \in 1 .. Len(c) : d[i] = WithTime(c[i])
    BY <1>2, <2>1, ContractTyped
  <2> HIDE DEF d
  <2>3. \A i \in 1 .. Len(d) : d[i] = c[i]
    <3>1. \A i \in 1 .. Len(a) : a[i] \in T
      BY <1>5, ElementOfSeq
    <3> QED BY <1>3, <2>1, <2>2, <3>1
  <2>4. d = c
    BY <2>1, <2>2, <2>3, SeqEqual
  <2> QED BY <2>4 DEF c, d
<1> QED BY <1>9, <1>10

(* With every section's items, a paper put in order is one. *)
LEMMA OrderedArranged ==
  ASSUME NEW U, NEW x \in Seq(FullItem(U)), \A k \in 1 .. Len(Sections) : Len(In(x, Sections[k])) = Quota[Sections[k]]
  PROVE  Arranged(Ordered(x), U)
<1> DEFINE n == Len(Sections)
           T == FullItem(U)
           f == [k \in 1 .. n |-> In(x, Sections[k])]
<1>1. n \in Nat
  BY PaperBlueprint
<1> HIDE DEF T
<1>2. \A k \in 1 .. n : In(x, Sections[k]) \in Seq(T)
  <2> SUFFICES ASSUME NEW k \in 1 .. n PROVE In(x, Sections[k]) \in Seq(T)
    OBVIOUS
  <2> DEFINE V == ItemsOf(T, Sections[k])
  <2>0. x \in Seq(T)
    BY DEF T
  <2>1. In(x, Sections[k]) \in Seq(V)
    BY <2>0, InTyped
  <2>2. V \subseteq T
    BY DEF ItemsOf
  <2> HIDE DEF V
  <2> QED BY <2>1, <2>2, SeqMonotonic
<1>3. f \in Seq(Seq(T)) /\ Len(f) = n /\ \A k \in 1 .. n : f[k] = In(x, Sections[k])
  BY <1>1, <1>2
<1> HIDE DEF f
<1>4. Pieces(f, T)
  <2>0. x \in Seq(T)
    BY DEF T
  <2> SUFFICES ASSUME NEW k \in 1 .. n PROVE f[k] \in Seq(ItemsOf(T, Sections[k]))
    BY <1>3 DEF Pieces
  <2>1. In(x, Sections[k]) \in Seq(ItemsOf(T, Sections[k]))
    BY <2>0, InTyped
  <2> QED BY <1>3, <2>1
<1>5. Ordered(x) = FlattenSeq(f)
  BY DEF Ordered, f
<1> QED BY <1>3, <1>4, <1>5 DEF Arranged, T

(* What the bank fills up is of its section, the server's own, and what was missing. *)
LEMMA FillFits ==
  ASSUME NEW U, NEW acc, NEW s \in ToSet(Sections), NEW m \in Nat, m = Quota[s] - Len(In(acc, s))
  PROVE  FillOf(s, acc) \in Seq(ItemsOf(FullItem(U), s)) /\ Len(FillOf(s, acc)) = m
<1> DEFINE V == ItemsOf(FullItem(U), s)
           b == Bank[s]
           entry(i) == b[((i - 1) % Len(b)) + 1]
           e(i) == Item(s, entry(i).topic, s \in Objective,
                        IF s \in Objective THEN 1 ELSE DifficultyFor(i, m), entry(i).steps, -1, TRUE)
           f == [i \in 1 .. m |-> e(i)]
<1>1. b \in Seq(BankItems) /\ b # <<>>
  BY PaperAssumption DEF PaperAssumption
<1>2. Len(b) \in Nat \ {0}
  BY <1>1, EmptySeq
<1>3. ASSUME NEW i \in 1 .. m PROVE e(i) \in V
  <2>1. ((i - 1) % Len(b)) + 1 \in 1 .. Len(b)
    <3> DEFINE q == Len(b)
               j == i - 1
    <3>1. q \in Nat \ {0} /\ j \in Nat
      BY <1>2
    <3> HIDE DEF q, j
    <3>2. j % q \in 0 .. q - 1
      BY <3>1
    <3>3. (j % q) + 1 \in 1 .. q
      BY <3>1, <3>2
    <3> QED BY <3>3 DEF q, j
  <2>2. entry(i) \in BankItems
    <3> DEFINE k == ((i - 1) % Len(b)) + 1
    <3>1. k \in 1 .. Len(b)
      BY <2>1
    <3> HIDE DEF k, b
    <3>2. b[k] \in BankItems
      BY <1>1, <3>1, ElementOfSeq
    <3> QED BY <3>2 DEF k
  <2> DEFINE d == IF s \in Objective THEN 1 ELSE DifficultyFor(i, m)
  <2>3. d \in 0 .. 2
    BY DEF DifficultyFor
  <2> HIDE DEF d, entry, b
  <2>4. entry(i).topic \in STRING /\ entry(i).steps \in BOOLEAN
    BY <2>2 DEF BankItems
  <2> DEFINE a == Item(s, entry(i).topic, s \in Objective, d, entry(i).steps, -1, TRUE)
  <2>6. a = e(i)
    BY DEF d
  <2>5. /\ a \in AnyItem /\ a.section = s /\ a.own = TRUE /\ (s \in Objective => a.keyed)
    <3> DEFINE key == s \in Objective
               topic == entry(i).topic
               steps == entry(i).steps
               c == [section |-> s, topic |-> topic, keyed |-> key, difficulty |-> d,
                     steps |-> steps, size |-> -1, own |-> TRUE]
    <3>1. key \in BOOLEAN /\ topic \in STRING /\ steps \in BOOLEAN
      BY <2>4
    <3>2. c = a
      BY DEF Item
    <3>3. c.section = s /\ c.own = TRUE /\ c.keyed = key
      OBVIOUS
    <3>4. s \in ToSet(Sections) \cup {"practice"} /\ -1 \in -1 .. 2 /\ TRUE \in BOOLEAN
      OBVIOUS
    <3> HIDE DEF key, topic, steps
    <3>5. c \in AnyItem
      BY <2>3, <3>1, <3>4 DEF AnyItem
    <3> HIDE DEF c, a
    <3> QED BY <3>2, <3>3, <3>5 DEF key
  <2> HIDE DEF a, e
  <2>7. a \in V
    BY <2>5 DEF FullItem, ItemsOf
  <2> QED BY <2>6, <2>7
<1>4. FillOf(s, acc) = f
  BY DEF FillOf
<1> HIDE DEF e, V
<1>5. f \in Seq(V) /\ Len(f) = m
  BY <1>3
<1> QED BY <1>4, <1>5 DEF V

(* No section has more items than it is to have. *)
Within(x) == \A s \in ToSet(Sections) : Len(In(x, s)) <= Quota[s]

(* The bank fills an exam up to its length and every section. *)
LEMMA FillingFits ==
  ASSUME NEW U, NEW acc \in Seq(FullItem(U)), Within(acc)
  PROVE  /\ Len(acc) \in Nat /\ FullCount \in Nat /\ Len(acc) <= FullCount
         /\ Filling(acc) \in Seq(FullItem(U)) /\ Len(Filling(acc)) = FullCount - Len(acc)
         /\ \A k \in 1 .. Len(Sections) :
               Len(In(Filling(acc), Sections[k])) = Quota[Sections[k]] - Len(In(acc, Sections[k]))
<1> DEFINE n == Len(Sections)
           T == FullItem(U)
           missing == [k \in 0 .. n |-> IF k = 0 THEN 0 ELSE Quota[Sections[k]] - Len(In(acc, Sections[k]))]
           f == [k \in 1 .. n |-> FillOf(Sections[k], acc)]
<1>1. n \in Nat \ {0} /\ \A k \in 1 .. n : Sections[k] \in ToSet(Sections)
  BY PaperBlueprint
<1>2. \A e \in T : e.section \in ToSet(Sections)
  BY DEF FullItem
<1> HIDE DEF T
<1>3. SectionCounts(acc) \in [0 .. n -> Nat] /\ Len(acc) = Total(SectionCounts(acc), n)
  <2>1. acc \in Seq(T)
    BY DEF T
  <2> QED BY <1>2, <2>1, CountsTyped, CountsAll
<1>4. Quotas \in [0 .. n -> Nat] /\ FullCount = Total(Quotas, n)
  BY QuotasTyped
<1>5. \A k \in 1 .. n : /\ SectionCounts(acc)[k] = Len(In(acc, Sections[k]))
                        /\ Quotas[k] = Quota[Sections[k]]
                        /\ missing[k] = Quota[Sections[k]] - Len(In(acc, Sections[k]))
                        /\ Len(In(acc, Sections[k])) <= Quota[Sections[k]]
  BY <1>1 DEF SectionCounts, Quotas, Within
<1>6. SectionCounts(acc)[0] = 0 /\ Quotas[0] = 0 /\ missing[0] = 0
  BY <1>1 DEF SectionCounts, Quotas
<1>7. missing \in [0 .. n -> Nat]
  <2>0. \A k \in 0 .. n : k = 0 \/ k \in 1 .. n
    BY <1>1
  <2>3. missing = [k \in 0 .. n |-> missing[k]]
    OBVIOUS
  <2> HIDE DEF missing
  <2> SUFFICES ASSUME NEW k \in 1 .. n PROVE missing[k] \in Nat
    BY <1>6, <2>0, <2>3
  <2>1. k \in 0 .. n
    BY <1>1
  <2>2. SectionCounts(acc)[k] \in Nat /\ Quotas[k] \in Nat
    BY <1>3, <1>4, <2>1
  <2> QED BY <1>5, <2>2
<1> HIDE DEF missing
<1>8. AddsUp(Quotas, SectionCounts(acc), missing, n)
  <2> SUFFICES ASSUME NEW k \in 0 .. n PROVE Quotas[k] = SectionCounts(acc)[k] + missing[k]
    BY DEF AddsUp
  <2>1. SectionCounts(acc)[k] \in Nat /\ Quotas[k] \in Nat /\ missing[k] \in Nat
    BY <1>3, <1>4, <1>7
  <2>2. k = 0 \/ k \in 1 .. n
    BY <1>1
  <2> QED BY <1>5, <1>6, <2>1, <2>2
<1>9. /\ Len(acc) \in Nat /\ Total(missing, n) \in Nat
      /\ FullCount = Len(acc) + Total(missing, n)
  <2> DEFINE c == SectionCounts(acc)
  <2>1. n \in Nat /\ c \in [0 .. n -> Nat] /\ AddsUp(Quotas, c, missing, n)
    BY <1>1, <1>3, <1>8
  <2> HIDE DEF c, n
  <2>2. /\ Total(c, n) \in Nat /\ Total(missing, n) \in Nat
        /\ Total(Quotas, n) = Total(c, n) + Total(missing, n)
    BY <1>4, <1>7, <2>1, TotalAdds
  <2> QED BY <1>3, <1>4, <2>2 DEF c
<1>10. ASSUME NEW k \in 1 .. n
       PROVE  FillOf(Sections[k], acc) \in Seq(ItemsOf(T, Sections[k])) /\ Len(FillOf(Sections[k], acc)) = missing[k]
  <2> DEFINE s == Sections[k]
             m == missing[k]
  <2>1. s \in ToSet(Sections) /\ m \in Nat /\ m = Quota[s] - Len(In(acc, s))
    BY <1>1, <1>5, <1>7
  <2> HIDE DEF s, m
  <2>2. FillOf(s, acc) \in Seq(ItemsOf(T, s)) /\ Len(FillOf(s, acc)) = m
    BY <2>1, FillFits DEF T
  <2> QED BY <2>2 DEF s, m
<1>11. \A k \in 1 .. n : FillOf(Sections[k], acc) \in Seq(T)
  <2> SUFFICES ASSUME NEW k \in 1 .. n PROVE FillOf(Sections[k], acc) \in Seq(T)
    OBVIOUS
  <2> DEFINE V == ItemsOf(T, Sections[k])
  <2>1. FillOf(Sections[k], acc) \in Seq(V)
    BY <1>10
  <2>2. V \subseteq T
    BY DEF ItemsOf
  <2> HIDE DEF V
  <2> QED BY <2>1, <2>2, SeqMonotonic
<1>12. f \in Seq(Seq(T)) /\ Len(f) = n /\ \A k \in 1 .. n : f[k] = FillOf(Sections[k], acc)
  BY <1>1, <1>11
<1>13. Filling(acc) = FlattenSeq(f)
  BY DEF Filling
<1> HIDE DEF f, n
<1>14. Pieces(f, T)
  BY <1>10, <1>12 DEF Pieces
<1>15. /\ FlattenSeq(f) \in Seq(T)
       /\ \A k \in 1 .. n : In(FlattenSeq(f), Sections[k]) = f[k]
  BY <1>12, <1>14, OrderedPieces DEF n
<1>16. Len(FlattenSeq(f)) = Total(missing, n)
  <2>1. f # <<>>
    <3>1. Len(<<>>) = 0
      OBVIOUS
    <3> QED BY <1>1, <1>12, <3>1
  <2>2. Lengths(f) \in [0 .. n -> Nat] /\ Len(FlattenSeq(f)) = Total(Lengths(f), n)
    BY <1>12, <2>1, FlattenLength
  <2>3. \A k \in 0 .. n : Lengths(f)[k] = missing[k]
    <3>1. \A k \in 0 .. n : k = 0 \/ k \in 1 .. n
      BY <1>1
    <3>2. Lengths(f)[0] = 0 /\ \A k \in 1 .. n : Lengths(f)[k] = Len(f[k])
      BY <1>1, <1>12 DEF Lengths
    <3> QED BY <1>6, <1>10, <1>12, <3>1, <3>2
  <2>4. Lengths(f) = missing
    <3> DEFINE w == Lengths(f)
    <3>1. w \in [0 .. n -> Nat] /\ \A k \in 0 .. n : w[k] = missing[k]
      BY <2>2, <2>3
    <3> HIDE DEF w
    <3>2. w = [k \in 0 .. n |-> w[k]] /\ missing = [k \in 0 .. n |-> missing[k]]
      BY <1>7, <3>1
    <3>3. [k \in 0 .. n |-> w[k]] = [k \in 0 .. n |-> missing[k]]
      BY <3>1
    <3>4. w = missing
      BY Zenon, <3>2, <3>3
    <3> QED BY <3>4 DEF w
  <2> QED BY <2>2, <2>4
<1>17. \A k \in 1 .. n : Len(In(FlattenSeq(f), Sections[k])) = Quota[Sections[k]] - Len(In(acc, Sections[k]))
  <2> SUFFICES ASSUME NEW k \in 1 .. n
               PROVE  Len(In(FlattenSeq(f), Sections[k])) = Quota[Sections[k]] - Len(In(acc, Sections[k]))
    OBVIOUS
  <2>1. In(FlattenSeq(f), Sections[k]) = FillOf(Sections[k], acc)
    BY <1>12, <1>15
  <2>2. Len(FillOf(Sections[k], acc)) = missing[k]
    BY <1>10
  <2>3. missing[k] = Quota[Sections[k]] - Len(In(acc, Sections[k]))
    BY <1>5
  <2> QED BY <2>1, <2>2, <2>3
<1>18. FullCount \in Nat /\ Len(acc) <= FullCount /\ Len(FlattenSeq(f)) = FullCount - Len(acc)
  BY <1>9, <1>16
<1> QED BY <1>9, <1>13, <1>15, <1>17, <1>18 DEF T, n

(* So what the student gets is a paper, whatever the provider sent, *)
LEMMA FilledArranged ==
  ASSUME NEW U, NEW acc \in Seq(FullItem(U)), Within(acc)
  PROVE  Arranged(Ordered(acc \o SubSeq(Filling(acc), 1, FullCount - Len(acc))), U)
<1> DEFINE T == FullItem(U)
           g == Filling(acc)
           x == acc \o g
<1>1. /\ g \in Seq(T) /\ Len(g) = FullCount - Len(acc)
      /\ \A k \in 1 .. Len(Sections) :
            Len(In(g, Sections[k])) = Quota[Sections[k]] - Len(In(acc, Sections[k]))
  BY FillingFits
<1> HIDE DEF g, T
<1>2. SubSeq(g, 1, FullCount - Len(acc)) = g
  BY <1>1, SubSeqFull
<1>3. x \in Seq(T)
  BY <1>1, ConcatProperties DEF T
<1>4. ASSUME NEW k \in 1 .. Len(Sections)
      PROVE  Len(In(x, Sections[k])) = Quota[Sections[k]]
  <2> DEFINE s == Sections[k]
             a == In(acc, s)
             b == In(g, s)
  <2>1. s \in ToSet(Sections) /\ Quota[s] \in Nat
    BY PaperBlueprint
  <2>2. Len(b) = Quota[s] - Len(a)
    BY <1>1
  <2> HIDE DEF s
  <2>3. acc \in Seq(T)
    BY DEF T
  <2>4. In(x, s) = a \o b
    BY SMTT(30), <1>1, <2>3, InJoins
  <2>5. a \in Seq(ItemsOf(T, s)) /\ b \in Seq(ItemsOf(T, s))
    BY <1>1, <2>3, InTyped
  <2> HIDE DEF a, b
  <2>6. Len(a \o b) = Len(a) + Len(b) /\ Len(a) \in Nat /\ Len(b) \in Nat
    BY <2>5, ConcatProperties, LenProperties
  <2>7. Len(In(x, s)) = Quota[s]
    BY <2>1, <2>2, <2>4, <2>6
  <2> QED BY <2>7 DEF s
<1> HIDE DEF x
<1>5. Arranged(Ordered(x), U)
  BY <1>3, <1>4, OrderedArranged DEF T
<1> QED BY <1>2, <1>5 DEF x, g

(* also when the provider sent all, *)
LEMMA AllArranged ==
  ASSUME NEW U, NEW acc \in Seq(FullItem(U)), Within(acc), ~(Len(acc) < FullCount)
  PROVE  Arranged(Ordered(acc), U)
<1>0. Len(acc) \in Nat /\ FullCount \in Nat /\ Len(acc) <= FullCount
  BY FillingFits
<1>2. Len(acc) = FullCount
  BY <1>0
<1> DEFINE n == Len(Sections)
           T == FullItem(U)
           c == SectionCounts(acc)
<1>1. n \in Nat /\ \A k \in 1 .. n : Sections[k] \in ToSet(Sections)
  BY PaperBlueprint
<1>3. \A e \in T : e.section \in ToSet(Sections)
  BY DEF FullItem
<1>4. Quotas \in [0 .. n -> Nat] /\ FullCount = Total(Quotas, n)
  BY QuotasTyped
<1> HIDE DEF T
<1>5. c \in [0 .. n -> Nat] /\ Len(acc) = Total(c, n)
  <2>1. acc \in Seq(T)
    BY DEF T
  <2> QED BY <1>3, <2>1, CountsTyped, CountsAll
<1>6. \A k \in 1 .. n : /\ c[k] = Len(In(acc, Sections[k])) /\ Quotas[k] = Quota[Sections[k]]
                        /\ c[k] <= Quotas[k]
  BY <1>1 DEF SectionCounts, Quotas, Within
<1>7. \A k \in 0 .. n : c[k] <= Quotas[k]
  <2>1. c[0] <= Quotas[0]
    BY <1>1 DEF SectionCounts, Quotas
  <2>2. \A k \in 0 .. n : k = 0 \/ k \in 1 .. n
    BY <1>1
  <2> QED BY <1>6, <2>1, <2>2
<1> HIDE DEF c
<1>8. c = Quotas
  <2> HIDE DEF n
  <2>1. Total(c, n) = Total(Quotas, n)
    BY <1>2, <1>4, <1>5
  <2> QED BY <1>1, <1>4, <1>5, <1>7, <2>1, TotalSame
<1>9. \A k \in 1 .. n : Len(In(acc, Sections[k])) = Quota[Sections[k]]
  BY <1>6, <1>8
<1> QED BY <1>9, OrderedArranged

(* and the curated exam, of the bank alone. *)
LEMMA CuratedArranged == Arranged(Filling(<<>>), {})
<1> DEFINE T == FullItem({})
           n == Len(Sections)
           x == <<>>
           f == [k \in 1 .. n |-> FillOf(Sections[k], x)]
<1>1. n \in Nat /\ \A k \in 1 .. n : Sections[k] \in ToSet(Sections) /\ Quota[Sections[k]] \in Nat
  BY PaperBlueprint
<1>2. \A s : Len(In(x, s)) = 0
  BY InNone
<1> HIDE DEF T, x
<1>3. ASSUME NEW k \in 1 .. n
      PROVE  FillOf(Sections[k], x) \in Seq(ItemsOf(T, Sections[k])) /\ Len(FillOf(Sections[k], x)) = Quota[Sections[k]]
  <2> DEFINE s == Sections[k]
             m == Quota[s]
  <2>1. s \in ToSet(Sections) /\ m \in Nat /\ m = Quota[s] - Len(In(x, s))
    BY <1>1, <1>2
  <2> HIDE DEF s, m
  <2>2. FillOf(s, x) \in Seq(ItemsOf(T, s)) /\ Len(FillOf(s, x)) = m
    BY <2>1, FillFits DEF T
  <2> QED BY <2>2 DEF s, m
<1>4. \A k \in 1 .. n : FillOf(Sections[k], x) \in Seq(T)
  <2> SUFFICES ASSUME NEW k \in 1 .. n PROVE FillOf(Sections[k], x) \in Seq(T)
    OBVIOUS
  <2> DEFINE V == ItemsOf(T, Sections[k])
  <2>1. FillOf(Sections[k], x) \in Seq(V)
    BY <1>3
  <2>2. V \subseteq T
    BY DEF ItemsOf
  <2> HIDE DEF V
  <2> QED BY <2>1, <2>2, SeqMonotonic
<1>5. f \in Seq(Seq(T)) /\ Len(f) = n /\ \A k \in 1 .. n : f[k] = FillOf(Sections[k], x)
  BY <1>1, <1>4
<1>6. Filling(x) = FlattenSeq(f)
  BY DEF Filling
<1> HIDE DEF f
<1>7. Pieces(f, T)
  BY <1>3, <1>5 DEF Pieces
<1>8. Arranged(Filling(x), {})
  BY <1>3, <1>5, <1>6, <1>7 DEF Arranged, T
<1> QED BY <1>8 DEF x

(* No question twice, and none that was asked before. *)
Distinct(a, U) ==
  \A i \in DOMAIN a : /\ a[i].topic \notin U
                      /\ \A j \in DOMAIN a : i # j => a[j].topic # a[i].topic

(* Places of the pool that were passed over since a question was chosen. *)
Behind(r, p) == \/ p < r.turn /\ p >= r.turn - r.skipped
                \/ p >= r.turn /\ p >= (r.turn + Len(Pool)) - r.skipped

Asked(r) == r.used \cup Topics(r.accepted)

Shaped(r) ==
  r = [phase |-> r.phase, full |-> r.full, count |-> r.count, used |-> r.used,
       accepted |-> r.accepted, turn |-> r.turn, skipped |-> r.skipped]

LEMMA ShapeKept ==
  ASSUME NEW x, NEW y, Shaped(x), DOMAIN y = DOMAIN x, y = [k \in DOMAIN y |-> y[k]]
  PROVE  Shaped(y)
<1>1. DOMAIN x = {"phase", "full", "count", "used", "accepted", "turn", "skipped"}
  BY DEF Shaped
<1> QED BY <1>1 DEF Shaped

(* What a start has at any time: an exam's items, no section overfull, and then a paper in order;
   or a round's items, all different; and what was passed over in the pool is a repeat. *)
RoundOk(r) ==
  /\ Shaped(r)
  /\ r.full \in BOOLEAN /\ r.accepted \in Seq(AnyItem)
  /\ r.turn \in 1 .. Len(Pool) /\ r.skipped \in 0 .. Len(Pool)
  /\ r.full /\ r.phase \in {"asking", "filling"} =>
        r.accepted \in Seq(FullItem(r.used)) /\ Within(r.accepted) /\ r.count = FullCount
  /\ r.full /\ r.phase = "ready" => Arranged(r.accepted, r.used)
  /\ ~r.full => Distinct(r.accepted, r.used)
  /\ r.phase # "filling" \/ r.full => r.skipped = 0
  /\ \A p \in 1 .. Len(Pool) : Behind(r, p) => Pool[p] \in Asked(r)

IssuedOk(i) ==
  /\ i.full => Arranged(i.items, i.used) /\ Contract(i.items) = i.items
  /\ ~i.full => Distinct(i.items, i.used)

PaperInv == RoundOk(round) /\ IssuedOk(issued) /\ refused = FALSE

LEMMA PoolTyped == Len(Pool) \in Nat \ {0} /\ DOMAIN Pool = 1 .. Len(Pool)
<1>1. Pool \in Seq(STRING) /\ Pool # <<>>
  BY PaperAssumption DEF PaperAssumption
<1> QED BY <1>1, EmptySeq, LenProperties

LEMMA NothingBehind ==
  ASSUME NEW r, r.turn \in 1 .. Len(Pool), r.skipped = 0
  PROVE  \A p \in 1 .. Len(Pool) : ~Behind(r, p)
BY PoolTyped DEF Behind

LEMMA NoneWithin == Within(<<>>)
<1>1. \A s : Len(In(<<>>, s)) = 0
  BY InNone
<1> QED BY <1>1, PaperBlueprint DEF Within

LEMMA NoneShaped == Shaped(NoRound)
BY DEF Shaped, NoRound

LEMMA StartsOk ==
  ASSUME NEW full \in BOOLEAN, NEW count, NEW used, NEW stage \in {"idle", "asking"},
         full => count = FullCount
  PROVE  RoundOk([NoRound EXCEPT !.phase = stage, !.full = full, !.count = count, !.used = used])
<1> DEFINE r == [NoRound EXCEPT !.phase = stage, !.full = full, !.count = count, !.used = used]
<1>1. Shaped(r)
  <2>1. DOMAIN r = DOMAIN NoRound /\ r = [k \in DOMAIN r |-> r[k]]
    OBVIOUS
  <2> HIDE DEF r
  <2> QED BY <2>1, NoneShaped, ShapeKept
<1>2. /\ r.phase = stage /\ r.full = full /\ r.count = count /\ r.used = used
      /\ r.accepted = <<>> /\ r.turn = 1 /\ r.skipped = 0
  BY DEF NoRound
<1> HIDE DEF r
<1>3. /\ <<>> \in Seq(AnyItem) /\ <<>> \in Seq(FullItem(used)) /\ 1 \in 1 .. Len(Pool)
      /\ 0 \in 0 .. Len(Pool) /\ DOMAIN <<>> = {}
  BY PoolTyped
<1>4. \A p \in 1 .. Len(Pool) : ~Behind(r, p)
  BY <1>2, <1>3, NothingBehind
<1>5. Distinct(<<>>, used)
  BY <1>3 DEF Distinct
<1>6. /\ r.full \in BOOLEAN /\ r.accepted \in Seq(AnyItem)
      /\ r.turn \in 1 .. Len(Pool) /\ r.skipped \in 0 .. Len(Pool)
  BY <1>2, <1>3
<1>7. r.full => r.accepted \in Seq(FullItem(r.used)) /\ Within(r.accepted) /\ r.count = FullCount
  BY <1>2, <1>3, NoneWithin
<1>8. r.phase # "ready"
  BY <1>2
<1>10. RoundOk(r)
  BY <1>2, <1>4, <1>1, <1>5, <1>6, <1>7, <1>8 DEF RoundOk
<1> QED BY <1>10 DEF r

LEMMA NoRoundOk == RoundOk(NoRound)
<1> DEFINE r == [NoRound EXCEPT !.phase = "idle", !.full = FALSE, !.count = 0, !.used = {}]
<1>1. NoRound = r
  <2>1. Shaped(r)
    <3>1. DOMAIN r = DOMAIN NoRound /\ r = [k \in DOMAIN r |-> r[k]]
      OBVIOUS
    <3> HIDE DEF r
    <3> QED BY <3>1, NoneShaped, ShapeKept
  <2>2. /\ r.phase = "idle" /\ r.full = FALSE /\ r.count = 0 /\ r.used = {}
        /\ r.accepted = <<>> /\ r.turn = 1 /\ r.skipped = 0
    BY DEF NoRound
  <2> HIDE DEF r
  <2> QED BY <2>1, <2>2 DEF Shaped, NoRound
<1>2. RoundOk(r)
  BY StartsOk
<1> QED BY <1>1, <1>2

(* One more question that is no repeat leaves them all different. *)
LEMMA DistinctGrows ==
  ASSUME NEW T, NEW a \in Seq(T), NEW U, Distinct(a, U), NEW e \in T, e.topic \notin U \cup Topics(a)
  PROVE  Distinct(Append(a, e), U)
<1> DEFINE b == Append(a, e)
           n == Len(a)
<1>1. /\ n \in Nat /\ DOMAIN a = 1 .. n /\ DOMAIN b = 1 .. n + 1 /\ b[n + 1] = e
      /\ \A i \in 1 .. n : b[i] = a[i]
  OBVIOUS
<1>2. \A i \in 1 .. n : a[i].topic \notin U /\ a[i].topic # e.topic
  BY <1>1 DEF Distinct, Topics
<1> HIDE DEF b, n
<1>3. ASSUME NEW i \in 1 .. n + 1, NEW j \in 1 .. n + 1
      PROVE  b[i].topic \notin U /\ (i # j => b[j].topic # b[i].topic)
  <2>1. (i \in 1 .. n \/ i = n + 1) /\ (j \in 1 .. n \/ j = n + 1)
    BY <1>1
  <2>2. CASE i \in 1 .. n /\ j \in 1 .. n
    BY <1>1, <2>2 DEF Distinct
  <2>3. CASE i = n + 1 \/ j = n + 1
    BY <1>1, <1>2, <2>1, <2>3
  <2> QED BY <2>1, <2>2, <2>3
<1>4. Distinct(b, U)
  BY <1>1, <1>3 DEF Distinct
<1> QED BY <1>4 DEF b

LEMMA TopicsGrow ==
  ASSUME NEW T, NEW a \in Seq(T), NEW e \in T
  PROVE  Topics(a) \subseteq Topics(Append(a, e)) /\ e.topic \in Topics(Append(a, e))
<1> DEFINE b == Append(a, e)
           n == Len(a)
<1>1. /\ n \in Nat /\ DOMAIN a = 1 .. n /\ DOMAIN b = 1 .. n + 1 /\ b[n + 1] = e
      /\ \A i \in 1 .. n : b[i] = a[i]
  OBVIOUS
<1> HIDE DEF b, n
<1>2. \A i \in 1 .. n : i \in 1 .. n + 1
  BY <1>1
<1>3. n + 1 \in 1 .. n + 1
  BY <1>1
<1>4. Topics(a) \subseteq Topics(b) /\ e.topic \in Topics(b)
  BY <1>1, <1>2, <1>3 DEF Topics
<1> QED BY <1>4 DEF b

(* start. *)
LEMMA StartKeeps ==
  ASSUME PaperInv, NEW full \in BOOLEAN, NEW count, full => count = FullCount, Start(full, count)
  PROVE  PaperInv'
<1>1. /\ round' = [NoRound EXCEPT !.phase = "asking", !.full = full, !.count = count, !.used = Previous]
      /\ issued' = issued /\ refused' = refused
  BY SMTT(30) DEF Start
<1>2. RoundOk(round')
  BY <1>1, StartsOk
<1> QED BY <1>1, <1>2 DEF PaperInv

(* One item of the provider's reply. *)
LEMMA ReplyKeeps ==
  ASSUME PaperInv, NEW r \in Replies, Reply(r)
  PROVE  PaperInv'
<1> DEFINE a == round.accepted
           e == AsItem(r)
           b == Append(a, e)
<1>1. /\ round.phase = "asking" /\ Taken(r) /\ round' = [round EXCEPT !.accepted = b]
      /\ issued' = issued /\ refused' = refused
  BY DEF Reply
<1>2. RoundOk(round) /\ IssuedOk(issued) /\ refused = FALSE
  BY DEF PaperInv
<1>3. /\ r.topic \in STRING /\ r.difficulty \in 0 .. 2 /\ r.steps \in BOOLEAN /\ r.size \in -1 .. 2
  <2>1. Replies \subseteq ReplyItems
    BY PaperAssumption DEF PaperAssumption
  <2> QED BY <2>1 DEF ReplyItems
<1>4. r.topic \notin round.used /\ r.topic \notin Topics(a)
  BY <1>1 DEF Taken, Repeats
<1>5. /\ Shaped(round) /\ round.full \in BOOLEAN /\ a \in Seq(AnyItem)
      /\ round.turn \in 1 .. Len(Pool) /\ round.skipped = 0
  BY <1>1, <1>2 DEF RoundOk
<1>6. e \in AnyItem /\ e.topic = r.topic
  <2>1. CASE round.full
    <3> DEFINE key == r.section \in Objective
               c == [section |-> r.section, topic |-> r.topic, keyed |-> key,
                     difficulty |-> r.difficulty, steps |-> r.steps, size |-> r.size, own |-> FALSE]
    <3>1. r.section \in ToSet(Sections) /\ key \in BOOLEAN
      BY <1>1, <2>1 DEF Taken
    <3>2. e = c
      BY <2>1 DEF AsItem, Item
    <3>3. c.topic = r.topic
      OBVIOUS
    <3> HIDE DEF key
    <3>4. c \in AnyItem
      BY <1>3, <3>1 DEF AnyItem
    <3> HIDE DEF c, e
    <3> QED BY <3>2, <3>3, <3>4
  <2>2. CASE ~round.full
    BY <1>3, <2>2 DEF AsItem, Item, AnyItem
  <2> QED BY <2>1, <2>2
<1>7. round.full => b \in Seq(FullItem(round.used)) /\ Within(b) /\ round.count = FullCount
  <2> SUFFICES ASSUME round.full
               PROVE  b \in Seq(FullItem(round.used)) /\ Within(b) /\ round.count = FullCount
    OBVIOUS
  <2> DEFINE V == FullItem(round.used)
  <2>1. a \in Seq(V) /\ Within(a) /\ round.count = FullCount
    BY <1>1, <1>2 DEF RoundOk
  <2>2. /\ e.section = r.section /\ e.own = FALSE /\ (r.section \in Objective => e.keyed)
    BY DEF AsItem, Item
  <2>3. /\ r.section \in ToSet(Sections) /\ Len(In(a, r.section)) < Quota[r.section]
        /\ r.section # "coding"
    BY <1>1 DEF Taken
  <2> HIDE DEF e
  <2>4. e \in V
    BY <1>4, <1>6, <2>2, <2>3 DEF FullItem
  <2> HIDE DEF V, a
  <2>5. b \in Seq(V)
    BY <2>1, <2>4
  <2>6. ASSUME NEW s \in ToSet(Sections) PROVE Len(In(b, s)) <= Quota[s]
    <3>1. In(b, s) = IF e.section = s THEN Append(In(a, s), e) ELSE In(a, s)
      BY <2>1, <2>4, InAppend
    <3>2. In(a, s) \in Seq(V)
      BY <2>1, <2>4, InAppend
    <3>3. Len(In(a, s)) <= Quota[s] /\ Quota[s] \in Nat
      BY <2>1, PaperBlueprint DEF Within
    <3>4. Len(Append(In(a, s), e)) = Len(In(a, s)) + 1 /\ Len(In(a, s)) \in Nat
      BY <2>4, <3>2
    <3>5. CASE e.section = s
      <4>1. Len(In(a, s)) < Quota[s]
        BY <2>2, <2>3, <3>5
      <4> QED BY <3>1, <3>3, <3>4, <3>5, <4>1
    <3>6. CASE e.section # s
      BY <3>1, <3>3, <3>6
    <3> QED BY <3>5, <3>6
  <2> HIDE DEF b
  <2> QED BY <2>1, <2>5, <2>6 DEF Within, V
<1>8. ~round.full => Distinct(b, round.used)
  <2> SUFFICES ASSUME ~round.full PROVE Distinct(b, round.used)
    OBVIOUS
  <2>1. Distinct(a, round.used)
    BY <1>2 DEF RoundOk
  <2> HIDE DEF a, e
  <2> QED BY <1>4, <1>5, <1>6, <2>1, DistinctGrows
<1>9. b \in Seq(AnyItem)
  <2> HIDE DEF a, e
  <2> QED BY <1>5, <1>6
<1> HIDE DEF b
<1>10. /\ round'.phase = "asking" /\ round'.full = round.full /\ round'.count = round.count
       /\ round'.used = round.used /\ round'.accepted = b /\ round'.turn = round.turn
       /\ round'.skipped = round.skipped
       /\ Shaped(round')
  <2>1. Shaped(round')
    <3>1. DOMAIN round' = DOMAIN round /\ round' = [k \in DOMAIN round' |-> round'[k]]
      BY <1>1
    <3> QED BY <1>5, <3>1, ShapeKept
  <2> QED BY <1>1, <1>5, <2>1 DEF Shaped
<1>11. \A p \in 1 .. Len(Pool) : ~Behind(round', p)
  BY <1>5, <1>10, NothingBehind
<1>12. 0 \in 0 .. Len(Pool)
  BY PoolTyped
<1>13. RoundOk(round')
  BY <1>5, <1>7, <1>8, <1>9, <1>10, <1>11, <1>12 DEF RoundOk
<1> QED BY <1>1, <1>2, <1>13 DEF PaperInv

(* What generation returns is never refused. *)
LEMMA FinishKeeps ==
  ASSUME PaperInv, NEW acc, Finish(acc), issued' = issued, round.skipped = 0,
         round.full => Arranged(Ordered(acc), round.used), ~round.full => acc = round.accepted
  PROVE  PaperInv'
<1> DEFINE a == Ordered(acc)
           b == IF round.full THEN Contract(a) ELSE acc
<1>1. RoundOk(round) /\ IssuedOk(issued) /\ refused = FALSE
  BY DEF PaperInv
<1>2. /\ Shaped(round) /\ round.full \in BOOLEAN /\ round.accepted \in Seq(AnyItem)
      /\ round.turn \in 1 .. Len(Pool)
  BY <1>1 DEF RoundOk
<1>3. round.full => MeetsContract(a)
  <2> HIDE DEF a
  <2>1. round.full => Arranged(a, round.used)
    BY DEF a
  <2> QED BY <2>1, ArrangedMeets
<1>4. round' = [round EXCEPT !.phase = "ready", !.accepted = b] /\ refused' = refused
  BY <1>3 DEF Finish
<1>5. round.full => Arranged(b, round.used)
  <2> SUFFICES ASSUME round.full PROVE Arranged(b, round.used)
    OBVIOUS
  <2>1. Arranged(a, round.used)
    OBVIOUS
  <2>2. b = Contract(a)
    OBVIOUS
  <2> HIDE DEF a, b
  <2> QED BY <2>1, <2>2, ArrangedContract
<1>6. b \in Seq(AnyItem)
  <2>1. CASE round.full
    <3> HIDE DEF b
    <3> DEFINE V == FullItem(round.used)
    <3>1. b \in Seq(V)
      BY <1>5, <2>1, ArrangedMeets
    <3>2. V \subseteq AnyItem
      BY DEF FullItem
    <3> HIDE DEF V
    <3> QED BY <3>1, <3>2, SeqMonotonic
  <2>2. CASE ~round.full
    BY <1>2, <2>2
  <2> QED BY <2>1, <2>2
<1>7. ~round.full => Distinct(b, round.used)
  BY <1>1 DEF RoundOk
<1> HIDE DEF b
<1>8. /\ round'.phase = "ready" /\ round'.full = round.full /\ round'.count = round.count
      /\ round'.used = round.used /\ round'.accepted = b /\ round'.turn = round.turn
      /\ round'.skipped = 0
  BY <1>2, <1>4 DEF Shaped
<1>9. Shaped(round')
  <2>1. DOMAIN round' = DOMAIN round /\ round' = [k \in DOMAIN round' |-> round'[k]]
    BY <1>4
  <2> QED BY <1>2, <2>1, ShapeKept
<1>10. \A p \in 1 .. Len(Pool) : ~Behind(round', p)
  BY <1>2, <1>8, NothingBehind
<1>11. 0 \in 0 .. Len(Pool)
  BY PoolTyped
<1>12. RoundOk(round')
  BY <1>2, <1>5, <1>6, <1>7, <1>8, <1>9, <1>10, <1>11 DEF RoundOk
<1> QED BY <1>1, <1>4, <1>12 DEF PaperInv

(* The end of the reply. *)
LEMMA ReplyEndsKeeps ==
  ASSUME PaperInv, ReplyEnds
  PROVE  PaperInv'
<1>1. RoundOk(round) /\ IssuedOk(issued) /\ refused = FALSE
  BY DEF PaperInv
<1>2. round.phase = "asking" /\ issued' = issued
  BY DEF ReplyEnds
<1>3. CASE Len(round.accepted) < round.count
  <2>1. round' = [round EXCEPT !.phase = "filling"] /\ refused' = refused
    BY <1>3 DEF ReplyEnds
  <2>2. Shaped(round) /\ round.skipped = 0 /\ round.turn \in 1 .. Len(Pool)
    BY <1>1, <1>2 DEF RoundOk
  <2>3. /\ round'.phase = "filling" /\ round'.full = round.full /\ round'.count = round.count
        /\ round'.used = round.used /\ round'.accepted = round.accepted
        /\ round'.turn = round.turn /\ round'.skipped = round.skipped
    BY <2>1, <2>2 DEF Shaped
  <2>4. Shaped(round')
    <3>1. DOMAIN round' = DOMAIN round /\ round' = [k \in DOMAIN round' |-> round'[k]]
      BY <2>1
    <3> QED BY <2>2, <3>1, ShapeKept
  <2>5. \A p \in 1 .. Len(Pool) : ~Behind(round', p)
    BY <2>2, <2>3, NothingBehind
  <2>6. RoundOk(round')
    BY <1>1, <1>2, <2>2, <2>3, <2>4, <2>5 DEF RoundOk
  <2> QED BY <1>1, <1>2, <2>1, <2>6 DEF PaperInv
<1>4. CASE ~(Len(round.accepted) < round.count)
  <2> DEFINE acc == round.accepted
  <2>1. Finish(acc)
    BY <1>4 DEF ReplyEnds
  <2>2. round.full => Arranged(Ordered(acc), round.used)
    <3> SUFFICES ASSUME round.full PROVE Arranged(Ordered(acc), round.used)
      OBVIOUS
    <3>1. acc \in Seq(FullItem(round.used)) /\ Within(acc) /\ round.count = FullCount
      BY <1>1, <1>2 DEF RoundOk
    <3>2. ~(Len(acc) < FullCount)
      BY <1>4, <3>1
    <3> HIDE DEF acc
    <3> QED BY <3>1, <3>2, AllArranged
  <2>3. round.skipped = 0
    BY <1>1, <1>2 DEF RoundOk
  <2> HIDE DEF acc
  <2> QED BY <1>2, <2>1, <2>2, <2>3, FinishKeeps DEF acc
<1> QED BY <1>3, <1>4

(* The bank fills an exam. *)
LEMMA FillPaperKeeps ==
  ASSUME PaperInv, FillPaper
  PROVE  PaperInv'
<1> DEFINE acc == round.accepted
           x == acc \o SubSeq(Filling(acc), 1, round.count - Len(acc))
<1>1. RoundOk(round) /\ IssuedOk(issued) /\ refused = FALSE
  BY DEF PaperInv
<1>2. round.phase = "filling" /\ round.full /\ Finish(x) /\ issued' = issued
  BY DEF FillPaper
<1>3. /\ acc \in Seq(FullItem(round.used)) /\ Within(acc) /\ round.count = FullCount
      /\ round.skipped = 0
  BY <1>1, <1>2 DEF RoundOk
<1> HIDE DEF acc
<1>4. Arranged(Ordered(x), round.used)
  BY <1>3, FilledArranged
<1> HIDE DEF x
<1> QED BY <1>2, <1>3, <1>4, FinishKeeps

(* The pool, one place on. *)
LEMMA TurnedFits ==
  ASSUME NEW t \in 1 .. Len(Pool)
  PROVE  Turned(t) \in 1 .. Len(Pool)
<1> DEFINE n == Len(Pool)
<1>1. n \in Nat \ {0} /\ t \in 1 .. n
  BY PoolTyped
<1>2. Turned(t) = IF t = n THEN 1 ELSE t + 1
  BY DEF Turned
<1> HIDE DEF n
<1>3. Turned(t) \in 1 .. n
  BY <1>1, <1>2
<1> QED BY <1>3 DEF n

(* What was passed over, with the place that is passed over now, lies behind the next. *)
LEMMA BehindTurned ==
  ASSUME NEW r, NEW q, r.turn \in 1 .. Len(Pool), r.skipped \in 0 .. Len(Pool),
         q.turn = Turned(r.turn),
         q.skipped = IF r.skipped < Len(Pool) THEN r.skipped + 1 ELSE r.skipped,
         NEW p \in 1 .. Len(Pool), Behind(q, p)
  PROVE  p = r.turn \/ Behind(r, p)
<1> DEFINE n == Len(Pool)
           t == r.turn
           k == r.skipped
           m == q.skipped
<1>1. n \in Nat \ {0} /\ t \in 1 .. n /\ k \in 0 .. n /\ p \in 1 .. n
  BY PoolTyped
<1>2. m = IF k < n THEN k + 1 ELSE k
  OBVIOUS
<1>3. q.turn = IF t = n THEN 1 ELSE t + 1
  BY DEF Turned
<1>4. Behind(q, p) <=> (p < q.turn /\ p >= q.turn - m) \/ (p >= q.turn /\ p >= (q.turn + n) - m)
  BY DEF Behind
<1>5. Behind(r, p) <=> (p < t /\ p >= t - k) \/ (p >= t /\ p >= (t + n) - k)
  BY DEF Behind
<1>6. Behind(q, p)
  OBVIOUS
<1> HIDE DEF n, t, k, m
<1>7. CASE t = n
  BY <1>1, <1>2, <1>3, <1>4, <1>5, <1>6, <1>7 DEF t
<1>8. CASE t # n
  BY SMTT(30), <1>1, <1>2, <1>3, <1>4, <1>5, <1>6, <1>8 DEF t
<1> QED BY <1>7, <1>8

(* With a full turn passed over, all of the pool lies behind. *)
LEMMA AllBehind ==
  ASSUME NEW r, r.turn \in 1 .. Len(Pool), r.skipped = Len(Pool)
  PROVE  \A p \in 1 .. Len(Pool) : Behind(r, p)
BY PoolTyped DEF Behind

(* One place of the pool. *)
LEMMA FillRoundKeeps ==
  ASSUME PaperInv, FillRound
  PROVE  PaperInv'
<1> DEFINE topic == Pool[round.turn]
           a == round.accepted
           e == Item("practice", topic, FALSE, 0, FALSE, -1, TRUE)
           b == Append(a, e)
           stage == IF Len(a) + 1 = round.count THEN "ready" ELSE round.phase
           skips == IF round.skipped < Len(Pool) THEN round.skipped + 1 ELSE round.skipped
<1>1. RoundOk(round) /\ IssuedOk(issued) /\ refused = FALSE
  BY DEF PaperInv
<1>2. /\ round.phase = "filling" /\ ~round.full /\ issued' = issued /\ refused' = refused
      /\ round' = IF Repeats(topic)
                  THEN [round EXCEPT !.turn = Turned(round.turn), !.skipped = skips]
                  ELSE [round EXCEPT !.turn = Turned(round.turn), !.skipped = 0, !.accepted = b, !.phase = stage]
  BY DEF FillRound
<1>3. /\ Shaped(round) /\ round.full \in BOOLEAN /\ a \in Seq(AnyItem) /\ Distinct(a, round.used)
      /\ round.turn \in 1 .. Len(Pool) /\ round.skipped \in 0 .. Len(Pool)
      /\ \A p \in 1 .. Len(Pool) : Behind(round, p) => Pool[p] \in Asked(round)
  BY <1>1, <1>2 DEF RoundOk
<1>4. Turned(round.turn) \in 1 .. Len(Pool)
  <2> DEFINE t == round.turn
  <2>1. t \in 1 .. Len(Pool)
    BY <1>3
  <2> HIDE DEF t
  <2>2. Turned(t) \in 1 .. Len(Pool)
    BY <2>1, TurnedFits
  <2> QED BY <2>2 DEF t
<1>5. topic \in STRING
  <2>1. Pool \in Seq(STRING)
    BY PaperAssumption DEF PaperAssumption
  <2> QED BY <1>3, <2>1, ElementOfSeq
<1>6. Repeats(topic) <=> topic \in round.used \/ topic \in Topics(a)
  BY DEF Repeats
<1>7. skips \in 0 .. Len(Pool)
  BY <1>3, PoolTyped
<1>8. e \in AnyItem /\ e.topic = topic
  <2> HIDE DEF topic
  <2>1. e.topic = topic
    BY DEF Item
  <2>2. e \in AnyItem
    BY <1>5 DEF Item, AnyItem
  <2> QED BY <2>1, <2>2
<1>9. CASE Repeats(topic)
  <2> HIDE DEF skips, topic
  <2>1. round' = [round EXCEPT !.turn = Turned(round.turn), !.skipped = skips]
    BY <1>2, <1>9
  <2>2. /\ round'.phase = "filling" /\ round'.full = round.full /\ round'.count = round.count
        /\ round'.used = round.used /\ round'.accepted = a
        /\ round'.turn = Turned(round.turn) /\ round'.skipped = skips
    BY <1>2, <1>3, <2>1 DEF Shaped
  <2>3. Shaped(round')
    <3>1. DOMAIN round' = DOMAIN round /\ round' = [k \in DOMAIN round' |-> round'[k]]
      BY <2>1
    <3> QED BY <1>3, <3>1, ShapeKept
  <2>4. ASSUME NEW p \in 1 .. Len(Pool), Behind(round', p)
        PROVE  Pool[p] \in Asked(round')
    <3>1. p = round.turn \/ Behind(round, p)
      <4> DEFINE q == round'
      <4>1. /\ q.turn = Turned(round.turn) /\ Behind(q, p)
            /\ q.skipped = IF round.skipped < Len(Pool) THEN round.skipped + 1 ELSE round.skipped
        BY <2>2, <2>4 DEF skips
      <4> HIDE DEF q
      <4> QED BY <1>3, <4>1, BehindTurned
    <3>2. Asked(round') = Asked(round)
      BY <2>2 DEF Asked
    <3>3. topic \in Asked(round)
      BY <1>6, <1>9 DEF Asked
    <3> QED BY <1>3, <3>1, <3>2, <3>3 DEF topic
  <2>5. RoundOk(round')
    BY <1>2, <1>3, <1>4, <1>7, <2>2, <2>3, <2>4 DEF RoundOk
  <2> QED BY <1>1, <1>2, <2>5 DEF PaperInv
<1>10. CASE ~Repeats(topic)
  <2>1. Distinct(b, round.used) /\ b \in Seq(AnyItem)
    <3>1. e.topic \notin round.used \cup Topics(a)
      BY <1>6, <1>8, <1>10
    <3> HIDE DEF e, a
    <3> QED BY <1>3, <1>8, <3>1, DistinctGrows
  <2> HIDE DEF b, topic
  <2>2. round' = [round EXCEPT !.turn = Turned(round.turn), !.skipped = 0, !.accepted = b, !.phase = stage]
    BY <1>2, <1>10
  <2>3. stage \in {"ready", "filling"}
    BY <1>2
  <2> HIDE DEF stage
  <2>4. /\ round'.phase = stage /\ round'.full = round.full /\ round'.count = round.count
        /\ round'.used = round.used /\ round'.accepted = b
        /\ round'.turn = Turned(round.turn) /\ round'.skipped = 0
    BY <1>3, <2>2 DEF Shaped
  <2>5. Shaped(round')
    <3>1. DOMAIN round' = DOMAIN round /\ round' = [k \in DOMAIN round' |-> round'[k]]
      BY <2>2
    <3> QED BY <1>3, <3>1, ShapeKept
  <2>6. \A p \in 1 .. Len(Pool) : ~Behind(round', p)
    <3> DEFINE q == round'
    <3>1. q.turn \in 1 .. Len(Pool) /\ q.skipped = 0
      BY <1>4, <2>4
    <3> HIDE DEF q
    <3>2. \A p \in 1 .. Len(Pool) : ~Behind(q, p)
      BY <3>1, NothingBehind
    <3> QED BY <3>2 DEF q
  <2>7. 0 \in 0 .. Len(Pool)
    BY PoolTyped
  <2>8. RoundOk(round')
    BY <1>2, <1>3, <1>4, <2>1, <2>4, <2>5, <2>6, <2>7 DEF RoundOk
  <2> QED BY <1>1, <1>2, <2>8 DEF PaperInv
<1> QED BY <1>9, <1>10

(* The curated exam. *)
LEMMA CuratedKeeps ==
  ASSUME PaperInv, StartCurated
  PROVE  PaperInv'
<1> DEFINE b == Filling(<<>>)
<1>1. /\ round' = [NoRound EXCEPT !.phase = "ready", !.full = TRUE, !.count = FullCount, !.accepted = b]
      /\ issued' = issued /\ refused' = refused
  BY DEF StartCurated
<1>2. Arranged(b, {})
  BY CuratedArranged
<1> HIDE DEF b
<1>3. /\ round'.phase = "ready" /\ round'.full = TRUE /\ round'.count = FullCount
      /\ round'.used = {} /\ round'.accepted = b /\ round'.turn = 1 /\ round'.skipped = 0
  BY <1>1 DEF NoRound
<1>4. Shaped(round')
  <2>1. DOMAIN round' = DOMAIN NoRound /\ round' = [k \in DOMAIN round' |-> round'[k]]
    BY <1>1
  <2> QED BY <2>1, NoneShaped, ShapeKept
<1>5. 1 \in 1 .. Len(Pool) /\ 0 \in 0 .. Len(Pool)
  BY PoolTyped
<1>6. \A p \in 1 .. Len(Pool) : ~Behind(round', p)
  BY <1>3, <1>5, NothingBehind
<1>7. b \in Seq(AnyItem)
  <2> DEFINE V == FullItem({})
  <2>1. b \in Seq(V)
    BY <1>2, ArrangedMeets
  <2>2. V \subseteq AnyItem
    BY DEF FullItem
  <2> HIDE DEF V
  <2> QED BY <2>1, <2>2, SeqMonotonic
<1>8. RoundOk(round')
  BY <1>2, <1>3, <1>4, <1>5, <1>6, <1>7 DEF RoundOk
<1> QED BY <1>1, <1>8 DEF PaperInv

(* The row is stored: an exam meets the contract, and its times stand. *)
LEMMA IssueKeeps ==
  ASSUME PaperInv, Issue
  PROVE  PaperInv'
<1> DEFINE a == round.accepted
           b == IF round.full THEN Contract(a) ELSE a
           i == [full |-> round.full, items |-> b, used |-> round.used]
<1>1. RoundOk(round) /\ IssuedOk(issued) /\ refused = FALSE
  BY DEF PaperInv
<1>2. round.phase = "ready" /\ round' = NoRound
  BY DEF Issue
<1>3. round.full \in BOOLEAN /\ (round.full => Arranged(a, round.used)) /\ (~round.full => Distinct(a, round.used))
  BY <1>1, <1>2 DEF RoundOk
<1>4. ~(round.full /\ ~MeetsContract(a))
  <2> HIDE DEF a
  <2> QED BY <1>3, ArrangedMeets
<1>5. issued' = i /\ refused' = refused
  BY <1>4 DEF Issue
<1>6. i.full = round.full /\ i.items = b /\ i.used = round.used
  OBVIOUS
<1>7. round.full => Arranged(b, round.used) /\ Contract(b) = b
  <2> SUFFICES ASSUME round.full PROVE Arranged(b, round.used) /\ Contract(b) = b
    OBVIOUS
  <2>1. b = Contract(a) /\ Arranged(a, round.used)
    BY <1>3
  <2> HIDE DEF a, b
  <2>2. Arranged(Contract(a), round.used) /\ Contract(Contract(a)) = Contract(a)
    BY <2>1, ArrangedContract
  <2> QED BY <2>1, <2>2
<1>8. ~round.full => Distinct(b, round.used)
  BY <1>3
<1> HIDE DEF b, i
<1>9. IssuedOk(i)
  BY <1>6, <1>7, <1>8 DEF IssuedOk
<1> QED BY <1>1, <1>2, <1>5, <1>9, NoRoundOk DEF PaperInv

LEMMA PaperKeeps == PaperInv /\ [PaperNext]_paperVars => PaperInv'
<1> SUFFICES ASSUME PaperInv, [PaperNext]_paperVars PROVE PaperInv'
  OBVIOUS
<1>1. CASE Start(TRUE, FullCount)
  BY <1>1, StartKeeps
<1>2. CASE \E count \in Counts : Start(FALSE, count)
  BY <1>2, StartKeeps
<1>3. CASE StartCurated
  BY <1>3, CuratedKeeps
<1>4. CASE \E r \in Replies : Reply(r)
  BY <1>4, ReplyKeeps
<1>5. CASE ReplyEnds
  BY <1>5, ReplyEndsKeeps
<1>6. CASE FillPaper
  BY <1>6, FillPaperKeeps
<1>7. CASE FillRound
  BY <1>7, FillRoundKeeps
<1>8. CASE Issue
  BY <1>8, IssueKeeps
<1>9. CASE UNCHANGED paperVars
  BY <1>9 DEF paperVars, PaperInv
<1> QED BY <1>1, <1>2, <1>3, <1>4, <1>5, <1>6, <1>7, <1>8, <1>9 DEF PaperNext

(* What is issued, and what was passed over, is as it should be. *)
LEMMA PaperInvFits == PaperInv => PapersAreFit
<1> SUFFICES ASSUME PaperInv PROVE PapersAreFit
  OBVIOUS
<1> DEFINE x == issued.items
           U == issued.used
<1>1. RoundOk(round) /\ IssuedOk(issued) /\ refused = FALSE
  BY DEF PaperInv
<1>2. issued.full => Arranged(x, U) /\ Contract(x) = x
  BY <1>1 DEF IssuedOk
<1>3. ~issued.full => Distinct(x, U)
  BY <1>1 DEF IssuedOk
<1> HIDE DEF x, U
<1>4. issued.full => MeetsContract(x) /\ Ordered(x) = x /\ \A i \in DOMAIN x : x[i] \in FullItem(U)
  <2> SUFFICES ASSUME issued.full
               PROVE  MeetsContract(x) /\ Ordered(x) = x /\ \A i \in DOMAIN x : x[i] \in FullItem(U)
    OBVIOUS
  <2> DEFINE V == FullItem(U)
  <2>1. x \in Seq(V) /\ MeetsContract(x) /\ Ordered(x) = x
    BY <1>2, ArrangedMeets
  <2> HIDE DEF V
  <2>2. \A i \in DOMAIN x : x[i] \in V
    BY <2>1, LenProperties, ElementOfSeq
  <2> QED BY <2>1, <2>2 DEF V
<1>5. PaperIsStandard
  <2>1. issued.full => \A i \in DOMAIN x : x[i].section = "coding" => x[i].own
    BY <1>4 DEF FullItem
  <2> QED BY <1>1, <1>2, <1>4, <2>1 DEF PaperIsStandard, x
<1>6. RoundsDiffer
  <2>1. ASSUME NEW i \in DOMAIN x, ~issued.full \/ ~x[i].own
        PROVE  /\ x[i].topic \notin U
               /\ \A j \in DOMAIN x : ~issued.full /\ i # j => x[j].topic # x[i].topic
    <3>1. CASE issued.full
      BY <1>4, <2>1, <3>1 DEF FullItem
    <3>2. CASE ~issued.full
      BY <1>3, <3>2 DEF Distinct
    <3> QED BY <3>1, <3>2
  <2>2. round.skipped = Len(Pool) => ToSet(Pool) \subseteq round.used \cup Topics(round.accepted)
    <3> SUFFICES ASSUME round.skipped = Len(Pool) PROVE ToSet(Pool) \subseteq Asked(round)
      BY DEF Asked
    <3>1. round.turn \in 1 .. Len(Pool)
          /\ \A p \in 1 .. Len(Pool) : Behind(round, p) => Pool[p] \in Asked(round)
      BY <1>1 DEF RoundOk
    <3>2. \A p \in 1 .. Len(Pool) : Behind(round, p)
      BY <3>1, AllBehind
    <3>3. \A p \in DOMAIN Pool : Pool[p] \in Asked(round)
      BY <3>1, <3>2, PoolTyped
    <3> QED BY <3>3 DEF ToSet
  <2> QED BY <2>1, <2>2 DEF RoundsDiffer, x, U
<1> QED BY <1>5, <1>6 DEF PapersAreFit

(* PapersAreFit, whatever the provider sends and however the questions repeat:
   no start ends with 502 for want of questions, the exam a student gets keeps
   the blueprint and its times, a round repeats nothing that is read back, and
   the fill goes in circles only when the pool has nothing left. *)
THEOREM PapersStayFit == PaperSpec => []PapersAreFit
<1>1. PaperInit => PaperInv
  <2> SUFFICES ASSUME PaperInit PROVE PaperInv
    OBVIOUS
  <2>1. round = NoRound /\ refused = FALSE
        /\ issued.full = FALSE /\ issued.items = <<>>
    BY DEF PaperInit
  <2>2. DOMAIN <<>> = {}
    OBVIOUS
  <2>3. IssuedOk(issued)
    BY <2>1, <2>2 DEF IssuedOk, Distinct
  <2> QED BY <2>1, <2>3, NoRoundOk DEF PaperInv
<1>2. PaperInv /\ [PaperNext]_paperVars => PaperInv'
  BY PaperKeeps
<1>3. PaperInv => PapersAreFit
  BY PaperInvFits
<1> QED BY <1>1, <1>2, <1>3, PTL DEF PaperSpec
================================================================================
