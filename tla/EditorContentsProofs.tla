------------------------- MODULE EditorContentsProofs -------------------------
(***************************************************************************)
(* Theorems about EditorContents, for any departments, subjects, scores,   *)
(* names, numbers of additions and saves, and kinds of requests: what the  *)
(* requests of a save do to the server, the type invariant, that the cards *)
(* show what a save sends, that the percentages add up, and that no edit   *)
(* moves a card.                                                           *)
(***************************************************************************)
EXTENDS EditorContents, Sums

\* Where the page is in edit mode, or shows cards, it has the stored department's load.
LoadedIsStored ==
    /\ isEditing => loaded = stored
    /\ phase # "mount" /\ ~ failed => loaded = stored

-----------------------------------------------------------------------------
(* validateRequestBody reads the body before every handler.                 *)

LEMMA SecondReaderFindsNothing == ~ \A k \in DOMAIN ReadersOfBody : BodyIsLeft(k)
<1>1. 2 \in DOMAIN ReadersOfBody
  BY DEF ReadersOfBody
<1>2. ~ BodyIsLeft(2)
  BY DEF BodyIsLeft
<1>3. QED
  BY <1>1, <1>2

LEMMA NoneIsHandled ==
    ASSUME NEW request
    PROVE  ~ Handled(request)
BY SecondReaderFindsNothing DEF Handled

LEMMA AnswersStoreNothing ==
    ASSUME NEW request, NEW arrives, NEW answered, Answer(request, arrives, answered)
    PROVE  stored' = stored
BY NoneIsHandled DEF Answer

\* Whoever answers the page of a running save, the save has failed.
LEMMA AnswerFails ==
    ASSUME NEW request, NEW arrives, NEW answered, Answer(request, arrives, answered)
    PROVE  \/ phase' = "idle" /\ failed' = TRUE
           \/ phase' = phase /\ failed' = failed
<1>1. ~ Handled(request)
  BY NoneIsHandled
<1>2. CASE phase = "saving" /\ request.try = tries
  BY <1>1, <1>2 DEF Answer
<1>3. CASE ~ (phase = "saving" /\ request.try = tries)
  BY <1>3 DEF Answer
<1>4. QED
  BY <1>2, <1>3

-----------------------------------------------------------------------------
(* The invariant.                                                           *)

LEMMA LoadedInit ==
    ASSUME Begin
    PROVE  LoadedIsStored
BY DEF Begin, LoadedIsStored

\* The edits of the administrator touch neither what is stored nor what was loaded.
LEMMA EditsKeepLoaded ==
    ASSUME \/ \E field \in InfoFields, text \in Texts : handleInfoChange(field, text)
           \/ \E t \in TestTypes : \E subject \in Range(shown.tests[t]) :
                 \/ \E value \in Scores : handleScoreChange(t, subject.id, value)
                 \/ \E name \in Names : handleSubjectNameChange(subject.id, name)
           \/ \E t \in TestTypes : handleAddSubject(t)
    PROVE  UNCHANGED <<stored, loaded, isEditing, phase, failed>>
<1>1. ASSUME NEW field, NEW text, handleInfoChange(field, text)
      PROVE  UNCHANGED <<stored, loaded, isEditing, phase, failed>>
  BY <1>1 DEF handleInfoChange
<1>2. ASSUME NEW t, NEW id, NEW value, handleScoreChange(t, id, value)
      PROVE  UNCHANGED <<stored, loaded, isEditing, phase, failed>>
  BY <1>2 DEF handleScoreChange
<1>3. ASSUME NEW id, NEW name, handleSubjectNameChange(id, name)
      PROVE  UNCHANGED <<stored, loaded, isEditing, phase, failed>>
  BY <1>3 DEF handleSubjectNameChange
<1>4. ASSUME NEW t, handleAddSubject(t)
      PROVE  UNCHANGED <<stored, loaded, isEditing, phase, failed>>
  BY <1>4 DEF handleAddSubject
<1>5. QED
  BY <1>1, <1>2, <1>3, <1>4, Zenon

LEMMA LoadedStep ==
    ASSUME LoadedIsStored, [ContentsNext]_contents
    PROVE  LoadedIsStored' /\ stored' = stored
<1>1. CASE handleEdit
  BY <1>1 DEF handleEdit, EditButtons, CardsVisible, AdminPageContent, AdminLayout, LoadedIsStored
<1>2. CASE handleCancel
  BY <1>2 DEF handleCancel, EditButtons, CardsVisible, AdminPageContent, AdminLayout, LoadedIsStored
<1>3. CASE handleSave
  BY <1>3 DEF handleSave, EditButtons, CardsVisible, AdminPageContent, AdminLayout, LoadedIsStored
<1>4. CASE Load
  BY <1>4 DEF Load, LoadedIsStored
<1>5. CASE LoadFails
  BY <1>5 DEF LoadFails, LoadedIsStored
<1>6. CASE OpenPage
  BY <1>6 DEF OpenPage, LoadedIsStored
<1>7. CASE UNCHANGED <<stored, loaded, isEditing, phase, failed>>
  BY <1>7 DEF LoadedIsStored
<1>8. ASSUME NEW request \in sent, NEW arrives, NEW answered, Answer(request, arrives, answered)
      PROVE  LoadedIsStored' /\ stored' = stored
  <2>1. stored' = stored
    BY <1>8, AnswersStoreNothing
  <2>2. UNCHANGED <<loaded, isEditing>>
    BY <1>8 DEF Answer
  <2>3. QED
    BY <1>8, <2>1, <2>2, AnswerFails DEF LoadedIsStored
<1>9. CASE UNCHANGED contents
  BY <1>9, <1>7 DEF contents
<1>10. QED
  BY <1>1, <1>2, <1>3, <1>4, <1>5, <1>6, <1>7, <1>8, <1>9, EditsKeepLoaded DEF ContentsNext

LEMMA LoadedHolds == ContentsSpec => []LoadedIsStored
<1>1. Begin => LoadedIsStored
  BY LoadedInit
<1>2. LoadedIsStored /\ [ContentsNext]_contents => LoadedIsStored'
  BY LoadedStep
<1>3. QED
  BY <1>1, <1>2, PTL DEF ContentsSpec

\* A save that is reported as failed has left the server as it was loaded, whichever of its
\* requests were sent, lost, or answered after the page had given up.
THEOREM FailureIsWhole == ContentsSpec => []FailedSavesStoreNothing
<1>1. LoadedIsStored => FailedSavesStoreNothing
  BY DEF LoadedIsStored, FailedSavesStoreNothing
<1>2. QED
  BY <1>1, LoadedHolds, PTL

\* The reason: no request of the page, of any department and any number of saves, gets past
\* the two readers of its body, so the page never changes what the server holds.
THEOREM SavesStoreNothing == ContentsSpec => [][stored' = stored]_contents
<1>1. LoadedIsStored /\ [ContentsNext]_contents => [stored' = stored]_contents
  BY LoadedStep
<1>2. QED
  BY <1>1, LoadedHolds, PTL DEF ContentsSpec

-----------------------------------------------------------------------------
(* Percentages: rounded shares of a total.                                 *)

LEMMA DivisionRounds ==
    ASSUME NEW a \in Nat, NEW b \in Nat, b > 0
    PROVE  /\ a \div b \in Nat
           /\ b * (a \div b) <= a /\ a < b * (a \div b) + b
OBVIOUS

LEMMA Distributes ==
    ASSUME NEW a \in Int, NEW b \in Int, NEW c \in Int
    PROVE  c * (a + b) = c * a + c * b
OBVIOUS

LEMMA Cancels ==
    ASSUME NEW a \in Int, NEW b \in Int, NEW c \in Nat, c > 0, c * a <= c * b
    PROVE  a <= b
<1>1. a > b => c * a >= c * b + c
  <2>1. ASSUME NEW d \in Nat, d > 0
        PROVE  c * d >= c
    BY <2>1
  <2>2. a > b => a - b \in Nat /\ a - b > 0 /\ a = b + (a - b)
    OBVIOUS
  <2>3. a > b => c * a = c * b + c * (a - b)
    BY <2>2, Distributes
  <2> DEFINE ca == c * a
             cb == c * b
             cd == c * (a - b)
  <2>4. a > b => cd >= c
    BY <2>1, <2>2
  <2>5. ca \in Int /\ cb \in Int /\ cd \in Int /\ (a > b => ca = cb + cd)
    BY <2>3
  <2> HIDE DEF ca, cb, cd
  <2>6. a > b => ca >= cb + c
    BY <2>4, <2>5
  <2>7. QED
    BY <2>6 DEF ca, cb
<1> DEFINE ca == c * a
           cb == c * b
<1>2. ca \in Int /\ cb \in Int /\ ca <= cb /\ (a > b => ca >= cb + c)
  BY <1>1
<1> HIDE DEF ca, cb
<1>3. QED
  BY <1>2

\* A percentage in hundredths is wrong by half of one at most.
Rounds(share, score, total) ==
    /\ share \in Nat
    /\ 2 * (total * share) <= 20000 * score + total
    /\ 20000 * score <= 2 * (total * share) + total

LEMMA ShareRounds ==
    ASSUME NEW score \in Nat, NEW total \in Nat, total > 0
    PROVE  Rounds(Share(score, total), score, total)
<1> DEFINE q == Share(score, total)
<1>1. q = (20000 * score + total) \div (2 * total)
  BY DEF Share
<1>2. /\ q \in Nat /\ (2 * total) * q <= 20000 * score + total
      /\ 20000 * score + total < (2 * total) * q + 2 * total
  BY <1>1, DivisionRounds
<1> HIDE DEF q
<1>3. (2 * total) * q = 2 * (total * q) /\ total * q \in Nat
  BY <1>2
<1> DEFINE m == total * q
<1>4. m \in Nat /\ 2 * m <= 20000 * score + total /\ 20000 * score + total < 2 * m + 2 * total
  BY <1>2, <1>3
<1> HIDE DEF m
<1>5. 20000 * score <= 2 * m + total
  BY <1>4
<1>6. QED
  BY <1>2, <1>4, <1>5 DEF m, q, Rounds

LEMMA ShareIsPercentage ==
    ASSUME NEW score \in Nat, NEW total \in Nat, score <= total
    PROVE  Share(score, total) \in Percentages
<1>1. CASE total = 0
  BY <1>1 DEF Share, Percentages
<1>2. CASE total > 0
  <2> DEFINE q == Share(score, total)
  <2>1. q \in Nat /\ 2 * (total * q) <= 20000 * score + total
    BY <1>2, ShareRounds DEF Rounds
  <2> HIDE DEF q
  <2> DEFINE m == total * q
  <2>2. m \in Nat /\ 2 * m <= 20000 * score + total /\ total * (2 * q) = 2 * m
    <3>1. \A a, b \in Nat : a * b \in Nat /\ a * (2 * b) = 2 * (a * b)
      OBVIOUS
    <3>2. QED
      BY <2>1, <3>1
  <2> HIDE DEF m
  <2>3. 2 * m <= total * 20001
    BY <2>2
  <2>4. 2 * q <= 20001
    <3>1. 2 * q \in Nat
      BY <2>1
    <3>2. QED
      BY <1>2, <2>2, <2>3, <3>1, Cancels
  <2>5. q \in Percentages
    <3>1. q \in Nat /\ q <= 10000
      BY <2>1, <2>4
    <3>2. QED
      BY <3>1, SMTT(30) DEF Percentages
  <2>6. QED
    BY <2>5, Zenon DEF q
<1>3. QED
  BY <1>1, <1>2

ScoresOf(subjects) == [k \in DOMAIN subjects |-> subjects[k].score]
PercentagesOf(subjects) == [k \in DOMAIN subjects |-> subjects[k].percentage]

\* Every subject has its share of the total.
Shared(subjects) ==
    \A k \in DOMAIN subjects : subjects[k].percentage = Share(subjects[k].score, TotalScore(subjects))

LEMMA SubjectsAreFinite ==
    ASSUME NEW subjects \in Seq(Subject)
    PROVE  /\ DOMAIN subjects = 1..Len(subjects) /\ Len(subjects) \in Nat
           /\ IsFiniteSet(DOMAIN subjects) /\ Cardinality(DOMAIN subjects) = Len(subjects)
           /\ \A k \in DOMAIN subjects : subjects[k] \in Subject
<1>1. DOMAIN subjects = 1..Len(subjects) /\ Len(subjects) \in Nat
  OBVIOUS
<1>2. IsFiniteSet(1..Len(subjects)) /\ Cardinality(1..Len(subjects)) = Len(subjects)
  BY <1>1, FS_Interval
<1>3. QED
  BY <1>1, <1>2

LEMMA TotalIs ==
    ASSUME NEW subjects \in Seq(Subject)
    PROVE  /\ TotalScore(subjects) = SumFunctionOnSet(ScoresOf(subjects), DOMAIN subjects)
           /\ TotalScore(subjects) \in Nat
           /\ \A k \in DOMAIN subjects : /\ ScoresOf(subjects)[k] = subjects[k].score
                                        /\ subjects[k].score \in Nat
                                        /\ subjects[k].score <= TotalScore(subjects)
<1> DEFINE S == DOMAIN subjects
           f == ScoresOf(subjects)
<1>1. TotalScore(subjects) = SumFunctionOnSet(f, S)
  BY DEF TotalScore, SumFunction, ScoresOf
<1>2. \A k \in S : f[k] = subjects[k].score /\ f[k] \in Nat
  BY SubjectsAreFinite DEF ScoresOf, Subject
<1>3. IsFiniteSet(S)
  BY SubjectsAreFinite
<1> HIDE DEF f, S
<1>4. SumFunctionOnSet(f, S) \in Nat
  BY <1>2, <1>3, SumNat
<1>5. ASSUME NEW k \in S
      PROVE  f[k] <= SumFunctionOnSet(f, S)
  <2>0. \A x \in S : f[x] \in Int
    BY <1>2
  <2>1. SumFunctionOnSet(f, S) = f[k] + SumFunctionOnSet(f, S \ {k})
    BY <1>3, <2>0, SumRemove
  <2>2. IsFiniteSet(S \ {k})
    BY <1>3, FS_Subset
  <2>3. SumFunctionOnSet(f, S \ {k}) \in Nat
    BY <1>2, <2>2, SumNat
  <2>4. QED
    BY <1>2, <2>1, <2>3
<1>6. QED
  BY <1>1, <1>2, <1>4, <1>5 DEF S, f

\* Each share is wrong by half a hundredth at most, so their sum by half of their number.
LEMMA SharesAddUp ==
    ASSUME NEW subjects \in Seq(Subject), Shared(subjects), TotalScore(subjects) > 0
    PROVE  2 * (SumFunction(PercentagesOf(subjects)) - 10000) \in (- Len(subjects))..Len(subjects)
<1> DEFINE S == DOMAIN subjects
           n == Len(subjects)
           T == TotalScore(subjects)
           f == ScoresOf(subjects)
           p == PercentagesOf(subjects)
           ones == [k \in S |-> 1]
           Tp == [k \in S |-> (2 * T) * p[k]]
           Tf == [k \in S |-> 20000 * f[k]]
           Ts == [k \in S |-> T * ones[k]]
           high == [k \in S |-> Tf[k] + Ts[k]]
           over == [k \in S |-> Tp[k] + Ts[k]]
<1>1. T \in Nat /\ T > 0 /\ n \in Nat /\ IsFiniteSet(S) /\ Cardinality(S) = n
  BY TotalIs, SubjectsAreFinite
<1>2. ASSUME NEW k \in S
      PROVE  /\ f[k] \in Nat /\ p[k] \in Nat
             /\ 2 * (T * p[k]) <= 20000 * f[k] + T /\ 20000 * f[k] <= 2 * (T * p[k]) + T
  <2>1. f[k] = subjects[k].score /\ f[k] \in Nat
    BY TotalIs
  <2>2. p[k] = Share(f[k], T)
    BY <2>1 DEF PercentagesOf, Shared
  <2>3. T \in Nat /\ T > 0
    BY <1>1
  <2> HIDE DEF f, p, T
  <2>4. Rounds(Share(f[k], T), f[k], T)
    BY <2>1, <2>3, ShareRounds
  <2>5. Rounds(p[k], f[k], T)
    BY <2>2, <2>4
  <2>6. QED
    BY <2>1, <2>5 DEF Rounds
<1>3. SumFunction(p) = SumFunctionOnSet(p, S) /\ SumFunctionOnSet(f, S) = T
  BY TotalIs DEF SumFunction, PercentagesOf
<1> HIDE DEF S, n, T, f, p
<1>4. ASSUME NEW k \in S
      PROVE  /\ ones[k] = 1 /\ Tp[k] = (2 * T) * p[k] /\ Tf[k] = 20000 * f[k] /\ Ts[k] = T * ones[k]
             /\ Tp[k] \in Nat /\ Tf[k] \in Nat /\ Ts[k] \in Nat
             /\ high[k] = Tf[k] + Ts[k] /\ over[k] = Tp[k] + Ts[k]
             /\ Tp[k] <= high[k] /\ Tf[k] <= over[k]
  <2> DEFINE m == T * p[k]
  <2>1. m \in Nat /\ (2 * T) * p[k] = 2 * m
    <3>1. T \in Nat /\ p[k] \in Nat
      BY <1>1, <1>2
    <3>2. \A a, b \in Nat : a * b \in Nat /\ (2 * a) * b = 2 * (a * b)
      OBVIOUS
    <3>3. QED
      BY <3>1, <3>2
  <2>2. T * ones[k] = T
    BY <1>1
  <2>3. 2 * m <= 20000 * f[k] + T /\ 20000 * f[k] <= 2 * m + T
    BY <1>2
  <2>4. /\ ones[k] = 1 /\ Tp[k] = 2 * m /\ Tf[k] = 20000 * f[k] /\ Ts[k] = T
        /\ high[k] = Tf[k] + Ts[k] /\ over[k] = Tp[k] + Ts[k]
    BY <2>1, <2>2
  <2>5. Ts[k] = T * ones[k] /\ Tp[k] = (2 * T) * p[k]
    BY <2>1
  <2> HIDE DEF m, ones, Tp, Tf, Ts, high, over
  <2>6. QED
    <3>1. T \in Nat /\ 20000 * f[k] \in Nat
      BY <1>1, <1>2
    <3>2. Tp[k] \in Nat /\ Tf[k] \in Nat /\ Ts[k] \in Nat
      BY <2>1, <2>4, <3>1
    <3>3. Tp[k] <= high[k] /\ Tf[k] <= over[k]
      BY <2>3, <2>4
    <3>4. QED
      BY <2>4, <2>5, <3>2, <3>3
<1> HIDE DEF ones, Tp, Tf, Ts, high, over
<1>5. SumFunctionOnSet(p, S) \in Nat
  BY <1>1, <1>2, SumNat
<1>6. /\ SumFunctionOnSet(Tp, S) = (2 * T) * SumFunctionOnSet(p, S)
      /\ SumFunctionOnSet(Tf, S) = 20000 * T
      /\ SumFunctionOnSet(Ts, S) = T * n
  <2>1. SumFunctionOnSet(ones, S) = n
    BY <1>1, <1>4, SumOnes
  <2>2. SumFunctionOnSet(Ts, S) = T * SumFunctionOnSet(ones, S)
    BY <1>1, <1>4, SumTimes
  <2>3. SumFunctionOnSet(Tp, S) = (2 * T) * SumFunctionOnSet(p, S)
    <3> DEFINE c == 2 * T
    <3>1. c \in Int
      BY <1>1
    <3>2. \A k \in S : p[k] \in Int /\ Tp[k] = c * p[k]
      BY <1>2, <1>4
    <3> HIDE DEF c
    <3>3. SumFunctionOnSet(Tp, S) = c * SumFunctionOnSet(p, S)
      BY <1>1, <3>1, <3>2, SumTimes
    <3>4. QED
      BY <3>3 DEF c
  <2>4. SumFunctionOnSet(Tf, S) = 20000 * SumFunctionOnSet(f, S)
    <3> DEFINE c == 20000
    <3>1. c \in Int
      OBVIOUS
    <3>2. \A k \in S : f[k] \in Int /\ Tf[k] = c * f[k]
      BY <1>2, <1>4
    <3> HIDE DEF c
    <3>3. SumFunctionOnSet(Tf, S) = c * SumFunctionOnSet(f, S)
      BY <1>1, <3>1, <3>2, SumTimes
    <3>4. QED
      BY <3>3 DEF c
  <2>5. QED
    BY <1>3, <2>1, <2>2, <2>3, <2>4
<1>7. /\ SumFunctionOnSet(high, S) = SumFunctionOnSet(Tf, S) + SumFunctionOnSet(Ts, S)
      /\ SumFunctionOnSet(over, S) = SumFunctionOnSet(Tp, S) + SumFunctionOnSet(Ts, S)
  <2>1. \A k \in S : Tf[k] \in Int /\ Ts[k] \in Int /\ high[k] = Tf[k] + Ts[k]
    BY <1>4
  <2>2. \A k \in S : Tp[k] \in Int /\ Ts[k] \in Int /\ over[k] = Tp[k] + Ts[k]
    BY <1>4
  <2>3. QED
    BY <1>1, <2>1, <2>2, SumAdds
<1>8. /\ SumFunctionOnSet(Tp, S) <= SumFunctionOnSet(high, S)
      /\ SumFunctionOnSet(Tf, S) <= SumFunctionOnSet(over, S)
  <2>1. \A k \in S : high[k] \in Int /\ over[k] \in Int /\ Tp[k] \in Int /\ Tf[k] \in Int
    BY <1>4
  <2>2. QED
    BY <1>1, <1>4, <2>1, SumMonotone
<1> DEFINE P == SumFunctionOnSet(p, S)
<1>9. P \in Nat /\ (2 * T) * P <= 20000 * T + T * n /\ 20000 * T <= (2 * T) * P + T * n
  BY <1>5, <1>6, <1>7, <1>8
<1> HIDE DEF P
<1>10. 2 * P <= 20000 + n /\ 20000 <= 2 * P + n
  <2>1. (2 * T) * P = T * (2 * P) /\ 20000 * T = T * 20000
    BY <1>1, <1>9
  <2>2. T * (20000 + n) = T * 20000 + T * n /\ T * (2 * P + n) = T * (2 * P) + T * n
    BY <1>1, <1>9, Distributes
  <2>3. T * (2 * P) <= T * (20000 + n) /\ T * 20000 <= T * (2 * P + n)
    BY <1>9, <2>1, <2>2
  <2>4. QED
    BY <1>1, <1>9, <2>3, Cancels
<1>11. 2 * (P - 10000) \in (- n)..n
  BY <1>1, <1>9, <1>10
<1>12. QED
  BY <1>3, <1>11 DEF P, n, p
-----------------------------------------------------------------------------
(* The subjects in the list, and what the edits make of them.               *)

Listed(tests, n) ==
    /\ tests \in [TestTypes -> Seq(Subject)]
    /\ Distinct(tests)
    /\ \A t \in TestTypes : \A k \in DOMAIN tests[t] : tests[t][k].id < Now(n)

LEMMA SubjectFields ==
    ASSUME NEW s \in Subject
    PROVE  /\ s.id \in Nat /\ s.name \in STRING /\ s.score \in Nat
           /\ s.percentage \in Int /\ s.order \in Int
BY DEF Subject

LEMMA WithScore ==
    ASSUME NEW s \in Subject, NEW v \in Nat
    PROVE  /\ [s EXCEPT !.score = v] \in Subject
           /\ [s EXCEPT !.score = v].id = s.id
           /\ [s EXCEPT !.score = v].score = v
           /\ [s EXCEPT !.score = v].percentage = s.percentage
           /\ [s EXCEPT !.score = v].order = s.order
<1>1. [s EXCEPT !.score = v] \in Subject
  BY DEF Subject
<1>2. [s EXCEPT !.score = v].id = s.id
  BY DEF Subject
<1>3. [s EXCEPT !.score = v].score = v
  BY DEF Subject
<1>4. [s EXCEPT !.score = v].percentage = s.percentage
  BY DEF Subject
<1>5. [s EXCEPT !.score = v].order = s.order
  BY DEF Subject
<1>6. QED
  BY <1>1, <1>2, <1>3, <1>4, <1>5

LEMMA WithPercentage ==
    ASSUME NEW s \in Subject, NEW v \in Int
    PROVE  /\ [s EXCEPT !.percentage = v] \in Subject
           /\ [s EXCEPT !.percentage = v].id = s.id
           /\ [s EXCEPT !.percentage = v].score = s.score
           /\ [s EXCEPT !.percentage = v].percentage = v
           /\ [s EXCEPT !.percentage = v].order = s.order
<1>1. [s EXCEPT !.percentage = v] \in Subject
  BY DEF Subject
<1>2. [s EXCEPT !.percentage = v].id = s.id
  BY DEF Subject
<1>3. [s EXCEPT !.percentage = v].score = s.score
  BY DEF Subject
<1>4. [s EXCEPT !.percentage = v].percentage = v
  BY DEF Subject
<1>5. [s EXCEPT !.percentage = v].order = s.order
  BY DEF Subject
<1>6. QED
  BY <1>1, <1>2, <1>3, <1>4, <1>5

LEMMA WithOrder ==
    ASSUME NEW s \in Subject, NEW v \in Nat
    PROVE  /\ [s EXCEPT !.order = v] \in Subject
           /\ [s EXCEPT !.order = v].id = s.id
           /\ [s EXCEPT !.order = v].score = s.score
           /\ [s EXCEPT !.order = v].percentage = s.percentage
           /\ [s EXCEPT !.order = v].order = v
<1>1. [s EXCEPT !.order = v] \in Subject
  BY DEF Subject
<1>2. [s EXCEPT !.order = v].id = s.id
  BY DEF Subject
<1>3. [s EXCEPT !.order = v].score = s.score
  BY DEF Subject
<1>4. [s EXCEPT !.order = v].percentage = s.percentage
  BY DEF Subject
<1>5. [s EXCEPT !.order = v].order = v
  BY DEF Subject
<1>6. QED
  BY <1>1, <1>2, <1>3, <1>4, <1>5

LEMMA WithName ==
    ASSUME NEW s \in Subject, NEW v \in STRING
    PROVE  /\ [s EXCEPT !.name = v] \in Subject
           /\ [s EXCEPT !.name = v].id = s.id
           /\ [s EXCEPT !.name = v].score = s.score
           /\ [s EXCEPT !.name = v].percentage = s.percentage
           /\ [s EXCEPT !.name = v].order = s.order
<1>1. [s EXCEPT !.name = v] \in Subject
  BY DEF Subject
<1>2. [s EXCEPT !.name = v].id = s.id
  BY DEF Subject
<1>3. [s EXCEPT !.name = v].score = s.score
  BY DEF Subject
<1>4. [s EXCEPT !.name = v].percentage = s.percentage
  BY DEF Subject
<1>5. [s EXCEPT !.name = v].order = s.order
  BY DEF Subject
<1>6. QED
  BY <1>1, <1>2, <1>3, <1>4, <1>5

\* An edit that keeps the subjects and their ids, and their number, keeps the list in order.
LEMMA SameIds ==
    ASSUME NEW n, NEW tests, Listed(tests, n), NEW after \in [TestTypes -> Seq(Subject)],
           \A t \in TestTypes : /\ DOMAIN after[t] = DOMAIN tests[t]
                                /\ \A k \in DOMAIN after[t] : after[t][k].id = tests[t][k].id
    PROVE  Listed(after, n)
<1>1. Distinct(after)
  BY DEF Listed, Distinct
<1>2. \A t \in TestTypes : \A k \in DOMAIN after[t] : after[t][k].id < Now(n)
  BY DEF Listed
<1>3. QED
  BY <1>1, <1>2 DEF Listed

LEMMA SeqByPlace ==
    ASSUME NEW A, NEW B, NEW s \in Seq(A), NEW f, f = [k \in DOMAIN s |-> f[k]],
           \A k \in DOMAIN s : f[k] \in B
    PROVE  f \in Seq(B) /\ DOMAIN f = DOMAIN s /\ Len(f) = Len(s)
<1>1. DOMAIN s = 1..Len(s) /\ Len(s) \in Nat
  OBVIOUS
<1>2. f \in [1..Len(s) -> B]
  BY <1>1
<1>3. QED
  BY <1>1, <1>2

\* The subjects of a test type after a score was typed.
Rescored(subjects, id, value) ==
    [k \in DOMAIN subjects |-> transformSubjectFromAPI(calculateUpdatedSubjects(subjects, id, value)[k])]

LEMMA RescoredSubjects ==
    ASSUME NEW subjects \in Seq(Subject), NEW id, NEW value \in Nat
    PROVE  LET after == Rescored(subjects, id, value)
           IN  /\ after \in Seq(Subject) /\ DOMAIN after = DOMAIN subjects
               /\ Shared(after)
               /\ \A k \in DOMAIN after :
                     /\ after[k].id = subjects[k].id /\ after[k].order = 0
                     /\ after[k].score = IF subjects[k].id = id THEN value ELSE subjects[k].score
<1> DEFINE updated == [k \in DOMAIN subjects |->
                         IF subjects[k].id = id THEN [subjects[k] EXCEPT !.score = value]
                         ELSE subjects[k]]
           after == Rescored(subjects, id, value)
           T == TotalScore(updated)
<1>1. ASSUME NEW k \in DOMAIN subjects
      PROVE  /\ subjects[k] \in Subject
             /\ updated[k] \in Subject
             /\ updated[k].id = subjects[k].id
             /\ updated[k].score = IF subjects[k].id = id THEN value ELSE subjects[k].score
  <2>1. subjects[k] \in Subject
    BY SubjectsAreFinite
  <2>2. updated[k] = IF subjects[k].id = id THEN [subjects[k] EXCEPT !.score = value]
                     ELSE subjects[k]
    OBVIOUS
  <2>3. [subjects[k] EXCEPT !.score = value] \in Subject
    BY <2>1, WithScore
  <2>4. /\ [subjects[k] EXCEPT !.score = value].id = subjects[k].id
        /\ [subjects[k] EXCEPT !.score = value].score = value
    BY <2>1, WithScore
  <2>5. QED
    BY <2>1, <2>2, <2>3, <2>4
<1>2. updated \in Seq(Subject) /\ DOMAIN updated = DOMAIN subjects
  BY <1>1, SeqByPlace
<1>3. \A k \in DOMAIN subjects :
         after[k] = [[updated[k] EXCEPT !.percentage = Share(updated[k].score, T)] EXCEPT !.order = 0]
  BY <1>2 DEF Rescored, calculateUpdatedSubjects, transformSubjectFromAPI
<1>4. after = [k \in DOMAIN subjects |-> after[k]]
  BY DEF Rescored
<1> HIDE DEF updated, after
<1>5. T \in Nat /\ \A k \in DOMAIN subjects : updated[k].score \in Nat /\ updated[k].score <= T
  BY <1>2, TotalIs
<1> HIDE DEF T
<1>6. ASSUME NEW k \in DOMAIN subjects
      PROVE  /\ after[k] \in Subject
             /\ after[k].id = updated[k].id
             /\ after[k].score = updated[k].score
             /\ after[k].percentage = Share(updated[k].score, T)
             /\ after[k].order = 0
  <2> DEFINE share == Share(updated[k].score, T)
             shared == [updated[k] EXCEPT !.percentage = share]
  <2>0. updated[k].score \in Nat /\ updated[k].score <= T
    BY <1>5
  <2>1. share \in Int
    <3>1. share \in Percentages
      BY <1>5, <2>0, ShareIsPercentage, Zenon
    <3>2. Percentages \subseteq Int
      BY DEF Percentages
    <3>3. QED
      BY <3>1, <3>2, Zenon
  <2>2. updated[k] \in Subject
    BY <1>1
  <2> HIDE DEF share
  <2>3. /\ shared \in Subject /\ shared.id = updated[k].id /\ shared.score = updated[k].score
        /\ shared.percentage = share
    BY <2>1, <2>2, WithPercentage, Zenon
  <2>4. after[k] = [shared EXCEPT !.order = 0]
    BY <1>3 DEF share
  <2> HIDE DEF shared
  <2>5. 0 \in Nat
    OBVIOUS
  <2>6. /\ [shared EXCEPT !.order = 0] \in Subject
        /\ [shared EXCEPT !.order = 0].id = shared.id
        /\ [shared EXCEPT !.order = 0].score = shared.score
        /\ [shared EXCEPT !.order = 0].percentage = shared.percentage
        /\ [shared EXCEPT !.order = 0].order = 0
    BY <2>3, <2>5, WithOrder
  <2>7. QED
    BY <2>3, <2>4, <2>6 DEF share
<1>7. after \in Seq(Subject) /\ DOMAIN after = DOMAIN subjects
  BY <1>4, <1>6, SeqByPlace
<1>8. TotalScore(after) = T
  BY <1>2, <1>6, <1>7 DEF TotalScore, T
<1>9. Shared(after)
  BY <1>6, <1>7, <1>8 DEF Shared
<1>10. QED
  BY <1>1, <1>6, <1>7, <1>9 DEF after

LEMMA RescoredTests ==
    ASSUME NEW n, NEW tests, Listed(tests, n), NEW t \in TestTypes, NEW id, NEW value \in Nat
    PROVE  Listed([tests EXCEPT ![t] = Rescored(tests[t], id, value)], n)
<1> DEFINE new == Rescored(tests[t], id, value)
           after == [tests EXCEPT ![t] = new]
<1>1. tests \in [TestTypes -> Seq(Subject)]
  BY DEF Listed
<1>2. /\ new \in Seq(Subject) /\ DOMAIN new = DOMAIN tests[t]
      /\ \A k \in DOMAIN new : new[k].id = tests[t][k].id
  BY <1>1, RescoredSubjects
<1> HIDE DEF new
<1>3. after \in [TestTypes -> Seq(Subject)]
  BY <1>1, <1>2
<1>4. \A u \in TestTypes : after[u] = IF u = t THEN new ELSE tests[u]
  BY <1>1
<1> HIDE DEF after
<1>5. QED
  BY <1>2, <1>3, <1>4, SameIds DEF after, new

LEMMA RenamedTests ==
    ASSUME NEW n, NEW tests, Listed(tests, n), NEW id, NEW name \in STRING
    PROVE  LET after == updateTestTypesWithSubjectName(tests, id, name)
           IN  /\ Listed(after, n)
               /\ \A t \in TestTypes :
                     /\ DOMAIN after[t] = DOMAIN tests[t]
                     /\ \A k \in DOMAIN after[t] : /\ after[t][k].id = tests[t][k].id
                                                   /\ after[t][k].score = tests[t][k].score
                                                   /\ after[t][k].percentage = tests[t][k].percentage
                                                   /\ after[t][k].order = tests[t][k].order
<1> DEFINE after == updateTestTypesWithSubjectName(tests, id, name)
<1>1. tests \in [TestTypes -> Seq(Subject)]
  BY DEF Listed
<1>2. after = [t \in TestTypes |-> after[t]]
  BY DEF updateTestTypesWithSubjectName
<1>3. ASSUME NEW t \in TestTypes
      PROVE  /\ after[t] \in Seq(Subject) /\ DOMAIN after[t] = DOMAIN tests[t]
             /\ \A k \in DOMAIN after[t] : /\ after[t][k].id = tests[t][k].id
                                           /\ after[t][k].score = tests[t][k].score
                                           /\ after[t][k].percentage = tests[t][k].percentage
                                           /\ after[t][k].order = tests[t][k].order
  <2> DEFINE new == after[t]
             old == tests[t]
  <2>1. new = [k \in DOMAIN old |->
                  IF old[k].id = id THEN [old[k] EXCEPT !.name = name] ELSE old[k]]
    BY DEF updateTestTypesWithSubjectName
  <2>2. old \in Seq(Subject)
    BY <1>1
  <2> HIDE DEF old, new
  <2>3. ASSUME NEW k \in DOMAIN old
        PROVE  /\ new[k] \in Subject /\ new[k].id = old[k].id /\ new[k].score = old[k].score
               /\ new[k].percentage = old[k].percentage /\ new[k].order = old[k].order
    <3>1. old[k] \in Subject
      BY <2>2, SubjectsAreFinite
    <3>2. /\ [old[k] EXCEPT !.name = name] \in Subject
          /\ [old[k] EXCEPT !.name = name].id = old[k].id
          /\ [old[k] EXCEPT !.name = name].score = old[k].score
          /\ [old[k] EXCEPT !.name = name].percentage = old[k].percentage
          /\ [old[k] EXCEPT !.name = name].order = old[k].order
      BY <3>1, WithName
    <3>3. QED
      BY <2>1, <3>1, <3>2
  <2>4. new \in Seq(Subject) /\ DOMAIN new = DOMAIN old
    BY <2>1, <2>2, <2>3, SeqByPlace
  <2>5. QED
    BY <2>3, <2>4 DEF old, new
<1> HIDE DEF after
<1>4. after \in [TestTypes -> Seq(Subject)]
  BY <1>2, <1>3
<1>5. Listed(after, n)
  BY <1>3, <1>4, SameIds
<1>6. QED
  BY <1>3, <1>5 DEF after
LEMMA NoScoreNoShare ==
    ASSUME NEW total \in Nat
    PROVE  Share(0, total) = 0
<1>1. CASE total = 0
  BY <1>1 DEF Share
<1>2. CASE total > 0
  <2> DEFINE q == Share(0, total)
  <2>1. Rounds(q, 0, total)
    BY <1>2, ShareRounds
  <2> HIDE DEF q
  <2>2. q \in Nat /\ 2 * (total * q) <= total
    BY <2>1 DEF Rounds
  <2>3. total * (2 * q) <= total * 1
    BY <2>2
  <2>4. 2 * q <= 1
    BY <1>2, <2>2, <2>3, Cancels
  <2>5. q = 0
    BY <2>2, <2>4
  <2>6. QED
    BY <2>5 DEF q
<1>3. QED
  BY <1>1, <1>2

\* A subject without a score, put at the end, changes no total and has its share.
LEMMA AddedSubject ==
    ASSUME NEW subjects \in Seq(Subject), NEW new \in Subject, new.score = 0, new.percentage = 0
    PROVE  LET after == Append(subjects, new)
           IN  /\ after \in Seq(Subject)
               /\ DOMAIN after = DOMAIN subjects \cup {Len(subjects) + 1}
               /\ \A k \in DOMAIN subjects : after[k] = subjects[k] /\ k # Len(subjects) + 1
               /\ after[Len(subjects) + 1] = new
               /\ Shared(subjects) => Shared(after)
<1> DEFINE after == Append(subjects, new)
           last == Len(subjects) + 1
           S == DOMAIN subjects
           f == ScoresOf(subjects)
           g == ScoresOf(after)
<1>1. /\ after \in Seq(Subject) /\ last \in Nat
      /\ DOMAIN after = S \cup {last}
      /\ \A k \in S : after[k] = subjects[k] /\ k # last
      /\ after[last] = new
  BY SubjectsAreFinite
<1>2. (S \cup {last}) \ {last} = S
  BY <1>1
<1> HIDE DEF after, S, last
<1>3. /\ TotalScore(after) = SumFunctionOnSet(g, S \cup {last})
      /\ \A k \in S \cup {last} : g[k] = after[k].score /\ g[k] \in Int
      /\ TotalScore(subjects) = SumFunctionOnSet(f, S) /\ TotalScore(subjects) \in Nat
      /\ \A k \in S : f[k] = subjects[k].score /\ f[k] \in Int
  <2>1. /\ TotalScore(after) = SumFunctionOnSet(g, S \cup {last})
        /\ \A k \in S \cup {last} : g[k] = after[k].score /\ after[k].score \in Nat
    BY <1>1, TotalIs
  <2>2. /\ TotalScore(subjects) = SumFunctionOnSet(f, S) /\ TotalScore(subjects) \in Nat
        /\ \A k \in S : f[k] = subjects[k].score /\ subjects[k].score \in Nat
    BY TotalIs DEF S
  <2> HIDE DEF f, g
  <2>3. QED
    BY <2>1, <2>2
<1>4. IsFiniteSet(S) /\ IsFiniteSet(S \cup {last})
  <2>1. IsFiniteSet(S)
    BY SubjectsAreFinite DEF S
  <2>2. QED
    BY <2>1, FS_AddElement
<1> HIDE DEF f, g
<1>5. SumFunctionOnSet(g, S \cup {last}) = g[last] + SumFunctionOnSet(g, (S \cup {last}) \ {last})
  <2>1. \A k \in S \cup {last} : g[k] \in Int
    BY <1>3
  <2> HIDE DEF last
  <2>2. QED
    BY <1>4, <2>1, SumRemove
<1>6. g[last] = 0
  BY <1>1, <1>3
<1>7. SumFunctionOnSet(g, S) = SumFunctionOnSet(f, S)
  <2>1. \A k \in S : g[k] \in Int /\ g[k] = f[k]
    BY <1>1, <1>3
  <2>2. QED
    BY <1>4, <2>1, SumSame
<1>8. TotalScore(after) = TotalScore(subjects)
  <2>1. SumFunctionOnSet(g, (S \cup {last}) \ {last}) = SumFunctionOnSet(g, S)
    BY <1>2
  <2> DEFINE total == SumFunctionOnSet(g, S \cup {last})
             rest == SumFunctionOnSet(g, (S \cup {last}) \ {last})
  <2>2. total = 0 + rest /\ rest = TotalScore(subjects)
    BY <1>3, <1>5, <1>6, <1>7, <2>1
  <2>3. TotalScore(after) = total /\ TotalScore(subjects) \in Nat
    BY <1>3
  <2> HIDE DEF total, rest
  <2>4. QED
    BY <2>2, <2>3
<1>9. ASSUME Shared(subjects)
      PROVE  Shared(after)
  <2>1. ASSUME NEW k \in S
        PROVE  after[k].percentage = Share(after[k].score, TotalScore(after))
    BY <1>1, <1>8, <1>9 DEF Shared, S
  <2>2. after[last].percentage = Share(after[last].score, TotalScore(after))
    BY <1>1, <1>3, <1>8, NoScoreNoShare
  <2>3. QED
    BY <1>1, <2>1, <2>2 DEF Shared
<1>10. QED
  BY <1>1, <1>9 DEF after, last, S

LEMMA EmptySubjectIs ==
    ASSUME NEW n \in Nat, NEW subjects \in Seq(Subject)
    PROVE  LET new == EmptySubject(subjects, Now(n))
           IN  /\ new \in Subject /\ new.score = 0 /\ new.percentage = 0
               /\ new.id = Now(n) /\ Now(n) \in Nat /\ Now(n) < Now(n + 1)
               /\ new.order = Len(subjects) + 1
<1>1. NoText \in STRING
  BY ContentsAssumption
<1>2. Len(subjects) + 1 \in Nat /\ Now(n) \in Nat /\ Now(n) < Now(n + 1)
  BY DEF Now
<1>3. 0 \in Int
  OBVIOUS
<1>4. QED
  BY <1>1, <1>2, <1>3 DEF EmptySubject, Subject

LEMMA AddedTests ==
    ASSUME NEW n \in Nat, NEW tests, Listed(tests, n), NEW t \in TestTypes
    PROVE  Listed(updateTestTypesWithNewSubject(tests, t, EmptySubject(tests[t], Now(n))), n + 1)
<1> DEFINE new == EmptySubject(tests[t], Now(n))
           after == updateTestTypesWithNewSubject(tests, t, new)
           last == Len(tests[t]) + 1
<1>1. tests \in [TestTypes -> Seq(Subject)]
  BY DEF Listed
<1>2. /\ new \in Subject /\ new.score = 0 /\ new.percentage = 0 /\ new.id = Now(n)
      /\ Now(n) \in Nat /\ Now(n) < Now(n + 1)
  BY <1>1, EmptySubjectIs
<1> HIDE DEF new
<1>3. /\ after[t] \in Seq(Subject) /\ after[t] = Append(tests[t], new)
      /\ DOMAIN after[t] = DOMAIN tests[t] \cup {last}
      /\ \A k \in DOMAIN tests[t] : after[t][k] = tests[t][k] /\ k # last
      /\ after[t][last] = new
  <2>1. after[t] = Append(tests[t], new)
    BY <1>1 DEF updateTestTypesWithNewSubject
  <2> HIDE DEF after
  <2>2. QED
    BY <1>1, <1>2, <2>1, AddedSubject
<1>4. after \in [TestTypes -> Seq(Subject)] /\ \A u \in TestTypes : u # t => after[u] = tests[u]
  <2>1. Append(tests[t], new) \in Seq(Subject)
    BY <1>1, <1>2
  <2>2. QED
    BY <1>1, <2>1 DEF updateTestTypesWithNewSubject
<1> HIDE DEF after, last
<1>5. ASSUME NEW u \in TestTypes, NEW k \in DOMAIN after[u]
      PROVE  \/ /\ k \in DOMAIN tests[u] /\ after[u][k] = tests[u][k]
                /\ after[u][k].id \in Nat /\ after[u][k].id < Now(n)
             \/ u = t /\ k = last /\ after[u][k].id = Now(n)
  <2>1. ASSUME k \in DOMAIN tests[u]
        PROVE  tests[u][k].id \in Nat /\ tests[u][k].id < Now(n)
    <3>1. tests[u] \in Seq(Subject)
      BY <1>1
    <3>2. tests[u][k] \in Subject
      BY <2>1, <3>1, SubjectsAreFinite
    <3>3. QED
      BY <2>1, <3>2, SubjectFields DEF Listed
  <2>2. CASE u = t
    BY <1>2, <1>3, <2>1, <2>2
  <2>3. CASE u # t
    BY <1>4, <2>1, <2>3
  <2>4. QED
    BY <2>2, <2>3
<1>6. Distinct(after)
  <2> SUFFICES ASSUME NEW u \in TestTypes, NEW v \in TestTypes,
                      NEW j \in DOMAIN after[u], NEW k \in DOMAIN after[v],
                      after[u][j].id = after[v][k].id
               PROVE  u = v /\ j = k
    BY DEF Distinct
  <2>1. CASE u = t /\ j = last /\ after[u][j].id = Now(n)
    BY <1>2, <1>5, <2>1
  <2>2. CASE /\ j \in DOMAIN tests[u] /\ after[u][j] = tests[u][j]
             /\ after[u][j].id \in Nat /\ after[u][j].id < Now(n)
    <3>1. ~ (v = t /\ k = last /\ after[v][k].id = Now(n))
      BY <1>2, <2>2
    <3>2. k \in DOMAIN tests[v] /\ after[v][k] = tests[v][k]
      BY <1>5, <3>1
    <3>3. QED
      BY <2>2, <3>2 DEF Listed, Distinct
  <2>3. QED
    BY <1>5, <2>1, <2>2
<1>7. \A u \in TestTypes : \A k \in DOMAIN after[u] : after[u][k].id < Now(n + 1)
  <2> SUFFICES ASSUME NEW u \in TestTypes, NEW k \in DOMAIN after[u]
               PROVE  after[u][k].id < Now(n + 1)
    OBVIOUS
  <2>1. Now(n + 1) \in Nat
    BY DEF Now
  <2>2. QED
    BY <1>2, <1>5, <2>1
<1>8. QED
  BY <1>4, <1>6, <1>7 DEF Listed, after, new
-----------------------------------------------------------------------------
(* What every state of the page keeps.                                      *)

InList(d, n) ==
    /\ d = [info |-> d.info, tests |-> d.tests, dates |-> d.dates]
    /\ d.dates # NotLoaded.dates
    /\ DOMAIN d.info = InfoFields
    /\ Listed(d.tests, n)

Counts ==
    /\ stored \in Departments0
    /\ adds \in 0..MaxAdds /\ tries \in 0..MaxTries
    /\ phase \in {"mount", "idle", "saving", "reload"}

\* The list and its backup are departments that the ids of new subjects are still new to.
Lists ==
    /\ shown = NotLoaded \/ InList(shown, adds)
    /\ backupState = NotLoaded \/ InList(backupState, adds)
    /\ CardsVisible => shown # NotLoaded
    /\ isEditing <=> backupState # NotLoaded

Typed ==
    /\ DOMAIN editValues = TestTypes
    /\ \A t \in TestTypes : \A id \in DOMAIN editValues[t] : id \in Nat /\ id < Now(adds)

\* Whatever was added or renamed since, every subject of a test type has its share.
SharesKept ==
    /\ rescored \subseteq TestTypes
    /\ CardsVisible => \A t \in rescored : Shared(shown.tests[t])

Inv == Counts /\ Lists /\ Typed /\ SharesKept /\ CardsShowWhatIsSent

LEMMA DepartmentIsListed ==
    ASSUME NEW n \in Nat, NEW d, InList(d, n)
    PROVE  InList(d, n + 1) /\ d # NotLoaded
<1>1. Now(n) \in Nat /\ Now(n + 1) \in Nat /\ Now(n) < Now(n + 1)
  BY DEF Now
<1>2. ASSUME NEW t \in TestTypes, NEW k \in DOMAIN d.tests[t]
      PROVE  d.tests[t][k].id < Now(n + 1)
  <2>1. d.tests[t] \in Seq(Subject)
    BY DEF InList, Listed
  <2>2. d.tests[t][k].id \in Nat /\ d.tests[t][k].id < Now(n)
    BY <2>1, SubjectsAreFinite, SubjectFields DEF InList, Listed
  <2>3. QED
    BY <1>1, <2>2
<1>3. QED
  BY <1>2 DEF InList, Listed

LEMMA AddsIsNat ==
    ASSUME Counts
    PROVE  adds \in Nat /\ MaxAdds \in Nat /\ MaxTries \in Nat
BY ContentsAssumption DEF Counts

\* What the server sends, before and after the page has made texts of its dates.
LEMMA StoredInList ==
    ASSUME NEW n \in Nat, stored \in Departments0
    PROVE  InList(transformUniversity(stored), n)
<1> DEFINE d == transformUniversity(stored)
<1>1. IsDepartment(stored)
  BY ContentsAssumption
<1>2. stored = [info |-> stored.info, tests |-> stored.tests, dates |-> stored.dates]
  BY <1>1 DEF IsDepartment
<1>3. d = [info |-> stored.info, tests |-> stored.tests, dates |-> "Date.toString"]
  BY <1>2 DEF transformUniversity, formatDate
<1> HIDE DEF d
<1>4. /\ d = [info |-> d.info, tests |-> d.tests, dates |-> d.dates] /\ d.dates # NotLoaded.dates
      /\ d.info = stored.info /\ d.tests = stored.tests
  BY <1>3 DEF NotLoaded
<1>5. Now(0) \in Nat /\ Now(n) \in Nat /\ Now(0) <= Now(n)
  BY DEF Now
<1>6. ASSUME NEW t \in TestTypes, NEW k \in DOMAIN stored.tests[t]
      PROVE  stored.tests[t][k].id < Now(n)
  <2>1. stored.tests[t] \in Seq(Subject)
    BY <1>1 DEF IsDepartment
  <2>2. stored.tests[t][k].id \in Nat /\ stored.tests[t][k].id < Now(0)
    BY <1>1, <2>1, SubjectsAreFinite, SubjectFields DEF IsDepartment
  <2>3. QED
    BY <1>5, <2>2
<1>7. Listed(stored.tests, n)
  BY <1>1, <1>6 DEF IsDepartment, Listed
<1>8. QED
  BY <1>1, <1>4, <1>7 DEF IsDepartment, InList, d

LEMMA NothingTyped ==
    ASSUME editValues' = NoEditValues
    PROVE  Typed' /\ \A t \in TestTypes : \A subject : CardScore(t, subject)' = subject.score
<1>1. DOMAIN editValues' = TestTypes /\ \A t \in TestTypes : DOMAIN editValues'[t] = {}
  BY DEF NoEditValues
<1>2. QED
  BY <1>1 DEF Typed, CardScore

LEMMA InvInit ==
    ASSUME Begin
    PROVE  Inv
<1>1. Counts
  BY ContentsAssumption DEF Begin, Counts
<1>2. Lists
  BY DEF Begin, Lists, CardsVisible, AdminPageContent, AdminLayout
<1>3. Typed
  BY DEF Begin, NoEditValues, Typed
<1>4. SharesKept /\ CardsShowWhatIsSent
  BY DEF Begin, SharesKept, CardsShowWhatIsSent, CardsVisible, AdminPageContent, AdminLayout
<1>5. QED
  BY <1>1, <1>2, <1>3, <1>4 DEF Inv

-----------------------------------------------------------------------------
(* Steps that edit nothing.                                                 *)

LEMMA CardsKept ==
    ASSUME SharesKept, CardsShowWhatIsSent,
           UNCHANGED <<shown, editValues, phase, failed, discarded, rescored>>
    PROVE  SharesKept' /\ CardsShowWhatIsSent'
BY DEF SharesKept, CardsShowWhatIsSent, CardScore, CardsVisible, AdminPageContent, AdminLayout

LEMMA NoCards ==
    ASSUME SharesKept, phase' # "idle" \/ failed' = TRUE, rescored' = rescored \/ rescored' = {}
    PROVE  SharesKept' /\ CardsShowWhatIsSent' /\ ~ CardsVisible'
BY DEF SharesKept, CardsShowWhatIsSent, CardsVisible, AdminPageContent, AdminLayout

LEMMA EditKeepsInv ==
    ASSUME Inv, handleEdit
    PROVE  Inv'
<1>1. /\ CardsVisible /\ isEditing = FALSE /\ isEditing' = TRUE /\ backupState' = shown
      /\ UNCHANGED <<stored, shown, editValues, phase, failed, adds, tries, discarded, rescored>>
  BY DEF handleEdit, EditButtons
<1>2. Counts' /\ Typed'
  BY <1>1 DEF Inv, Counts, Typed
<1>3. Lists'
  BY <1>1 DEF Inv, Lists, CardsVisible, AdminPageContent, AdminLayout
<1>4. SharesKept' /\ CardsShowWhatIsSent'
  BY <1>1, CardsKept DEF Inv
<1>5. QED
  BY <1>2, <1>3, <1>4 DEF Inv

LEMMA CancelKeepsInv ==
    ASSUME Inv, handleCancel
    PROVE  Inv'
<1>1. /\ isEditing /\ shown' = backupState /\ isEditing' = FALSE
      /\ backupState' = NotLoaded /\ discarded' = TRUE /\ rescored' = {}
      /\ UNCHANGED <<stored, editValues, phase, failed, adds, tries>>
  BY DEF handleCancel, EditButtons
<1>2. Counts' /\ Typed'
  BY <1>1 DEF Inv, Counts, Typed
<1>3. Lists'
  BY <1>1 DEF Inv, Lists
<1>4. SharesKept' /\ CardsShowWhatIsSent'
  BY <1>1 DEF SharesKept, CardsShowWhatIsSent
<1>5. QED
  BY <1>2, <1>3, <1>4 DEF Inv

LEMMA SaveKeepsInv ==
    ASSUME Inv, handleSave
    PROVE  Inv'
<1>1. /\ tries < MaxTries /\ tries' = tries + 1 /\ phase' = "saving"
      /\ editValues' = NoEditValues
      /\ UNCHANGED <<stored, shown, isEditing, backupState, adds, rescored>>
  BY DEF handleSave, Unmounted
<1>2. Counts'
  BY <1>1, ContentsAssumption DEF Inv, Counts
<1>3. Typed'
  BY <1>1, NothingTyped
<1>4. SharesKept' /\ CardsShowWhatIsSent' /\ ~ CardsVisible'
  BY <1>1, NoCards DEF Inv
<1>5. Lists'
  BY <1>1, <1>4 DEF Inv, Lists
<1>6. QED
  BY <1>2, <1>3, <1>4, <1>5 DEF Inv

LEMMA LoadKeepsInv ==
    ASSUME Inv, Load
    PROVE  Inv'
<1>1. /\ shown' = transformUniversity(stored) /\ isEditing' = FALSE /\ backupState' = NotLoaded
      /\ phase' = "idle" /\ editValues' = NoEditValues /\ rescored' = {}
      /\ UNCHANGED <<stored, adds, tries>>
  BY DEF Load, Unmounted
<1>2. Counts'
  BY <1>1 DEF Inv, Counts
<1>3. InList(shown', adds) /\ shown' # NotLoaded
  BY <1>1, AddsIsNat, StoredInList, DepartmentIsListed DEF Inv, Counts
<1>4. Lists'
  BY <1>1, <1>3 DEF Inv, Lists
<1>5. Typed' /\ \A t \in TestTypes : \A subject : CardScore(t, subject)' = subject.score
  BY <1>1, NothingTyped
<1>6. CardsShowWhatIsSent'
  BY <1>5 DEF CardsShowWhatIsSent
<1>7. SharesKept'
  BY <1>1 DEF SharesKept
<1>8. QED
  BY <1>2, <1>4, <1>5, <1>6, <1>7 DEF Inv

LEMMA FailedLoadKeepsInv ==
    ASSUME Inv, LoadFails
    PROVE  Inv'
<1>1. /\ isEditing' = FALSE /\ backupState' = NotLoaded /\ phase' = "idle" /\ failed' = TRUE
      /\ UNCHANGED <<stored, shown, editValues, adds, tries, discarded, rescored>>
  BY DEF LoadFails
<1>2. Counts' /\ Typed'
  BY <1>1 DEF Inv, Counts, Typed
<1>3. SharesKept' /\ CardsShowWhatIsSent' /\ ~ CardsVisible'
  BY <1>1, NoCards DEF Inv
<1>4. Lists'
  BY <1>1, <1>3 DEF Inv, Lists
<1>5. QED
  BY <1>2, <1>3, <1>4 DEF Inv

LEMMA OpeningKeepsInv ==
    ASSUME Inv, OpenPage
    PROVE  Inv'
<1>1. /\ shown' = NotLoaded /\ backupState' = NotLoaded /\ isEditing' = FALSE /\ phase' = "mount"
      /\ editValues' = NoEditValues /\ rescored' = {}
      /\ UNCHANGED <<stored, adds, tries>>
  BY DEF OpenPage, Unmounted
<1>2. Counts'
  BY <1>1 DEF Inv, Counts
<1>3. Typed'
  BY <1>1, NothingTyped
<1>4. SharesKept' /\ CardsShowWhatIsSent' /\ ~ CardsVisible'
  BY <1>1, NoCards DEF Inv
<1>5. Lists'
  BY <1>1, <1>4 DEF Inv, Lists
<1>6. QED
  BY <1>2, <1>3, <1>4, <1>5 DEF Inv

\* No request is handled, so an answer that the page waits for ends the save.
LEMMA AnswerKeepsInv ==
    ASSUME Inv, NEW request, NEW arrives, NEW answered, Answer(request, arrives, answered)
    PROVE  Inv'
<1>1. UNCHANGED <<stored, isEditing, backupState, editValues, adds, tries, discarded>>
  BY AnswersStoreNothing DEF Answer
<1>2. CASE phase = "saving" /\ request.try = tries
  <2>1. phase' = "idle" /\ failed' = TRUE /\ shown' = backupState /\ rescored' = {}
    BY <1>2, NoneIsHandled DEF Answer
  <2>2. Counts' /\ Typed'
    BY <1>1, <2>1 DEF Inv, Counts, Typed
  <2>3. SharesKept' /\ CardsShowWhatIsSent' /\ ~ CardsVisible'
    BY <2>1, NoCards DEF Inv
  <2>4. Lists'
    BY <1>1, <2>1, <2>3 DEF Inv, Lists
  <2>5. QED
    BY <2>2, <2>3, <2>4 DEF Inv
<1>3. CASE ~ (phase = "saving" /\ request.try = tries)
  <2>1. UNCHANGED <<phase, failed, shown, rescored>>
    BY <1>3 DEF Answer
  <2>2. Counts' /\ Typed'
    BY <1>1, <2>1 DEF Inv, Counts, Typed
  <2>3. SharesKept' /\ CardsShowWhatIsSent'
    BY <1>1, <2>1, CardsKept DEF Inv
  <2>4. Lists'
    BY <1>1, <2>1 DEF Inv, Lists, CardsVisible, AdminPageContent, AdminLayout
  <2>5. QED
    BY <2>2, <2>3, <2>4 DEF Inv
<1>4. QED
  BY <1>2, <1>3
-----------------------------------------------------------------------------
(* Edits.                                                                   *)

\* CardScore, for the scores that are typed before or after a step.
ScoreShown(typed, t, subject) ==
    IF subject.id \in DOMAIN typed[t] THEN typed[t][subject.id] ELSE subject.score

LEMMA EditedIsListed ==
    ASSUME Inv, Edits
    PROVE  InList(shown, adds) /\ CardsVisible
BY DEF Inv, Lists, Edits

LEMMA ListsAfterEdit ==
    ASSUME Inv, UNCHANGED <<isEditing, backupState>>, adds' \in {adds, adds + 1},
           InList(shown', adds')
    PROVE  Lists'
<1>1. adds \in Nat /\ adds' \in Nat
  BY AddsIsNat DEF Inv
<1>2. shown' # NotLoaded
  BY <1>1, DepartmentIsListed
<1>3. backupState' = NotLoaded \/ InList(backupState', adds')
  BY <1>1, DepartmentIsListed DEF Inv, Lists
<1>4. QED
  BY <1>2, <1>3 DEF Inv, Lists

LEMMA TestsReplaced ==
    ASSUME NEW d, NEW n, NEW m, InList(d, n), NEW tests, Listed(tests, m)
    PROVE  InList([d EXCEPT !.tests = tests], m) /\ [d EXCEPT !.tests = tests].tests = tests
<1> DEFINE new == [d EXCEPT !.tests = tests]
<1>1. d = [info |-> d.info, tests |-> d.tests, dates |-> d.dates]
  BY DEF InList
<1>2. new = [info |-> d.info, tests |-> tests, dates |-> d.dates]
  BY <1>1
<1> HIDE DEF new
<1>3. /\ new = [info |-> new.info, tests |-> new.tests, dates |-> new.dates]
      /\ new.info = d.info /\ new.tests = tests /\ new.dates = d.dates
  BY <1>2
<1>4. QED
  BY <1>3 DEF InList, new

LEMMA InfoReplaced ==
    ASSUME NEW d, NEW n, InList(d, n), NEW field, NEW text
    PROVE  LET new == updateDepartmentInUniversity(d, field, text)
           IN  InList(new, n) /\ new.tests = d.tests
<1> DEFINE info == [d.info EXCEPT ![field] = text]
           new == [d EXCEPT !.info = info]
<1>1. d = [info |-> d.info, tests |-> d.tests, dates |-> d.dates]
  BY DEF InList
<1>2. DOMAIN info = DOMAIN d.info
  OBVIOUS
<1>3. new = [info |-> info, tests |-> d.tests, dates |-> d.dates]
  BY <1>1
<1>4. updateDepartmentInUniversity(d, field, text) \in {d, new}
  BY <1>1 DEF updateDepartmentInUniversity, updateDepartmentField
<1> HIDE DEF new, info
<1>5. /\ new = [info |-> new.info, tests |-> new.tests, dates |-> new.dates]
      /\ new.info = info /\ new.tests = d.tests /\ new.dates = d.dates
  BY <1>3
<1>6. InList(new, n)
  BY <1>2, <1>5 DEF InList
<1>7. QED
  BY <1>4, <1>5, <1>6

LEMMA InfoChangeKeepsInv ==
    ASSUME Inv, NEW field, NEW text, handleInfoChange(field, text)
    PROVE  Inv'
<1>1. /\ Edits /\ shown' = updateDepartmentInUniversity(shown, field, text)
      /\ UNCHANGED <<stored, isEditing, backupState, editValues, phase, failed, adds, tries,
                     discarded, rescored>>
  BY DEF handleInfoChange
<1>2. InList(shown', adds) /\ shown'.tests = shown.tests
  BY <1>1, EditedIsListed, InfoReplaced
<1>3. Counts' /\ Typed'
  BY <1>1 DEF Inv, Counts, Typed
<1>4. Lists'
  BY <1>1, <1>2, ListsAfterEdit
<1>5. SharesKept' /\ CardsShowWhatIsSent'
  BY <1>1, <1>2 DEF Inv, SharesKept, CardsShowWhatIsSent, CardScore, CardsVisible,
                    AdminPageContent, AdminLayout
<1>6. QED
  BY <1>3, <1>4, <1>5 DEF Inv

\* Renaming changes neither scores nor percentages, wherever the subject is found.
LEMMA NameChangeKeepsInv ==
    ASSUME Inv, NEW id, NEW name \in STRING, handleSubjectNameChange(id, name)
    PROVE  Inv'
<1> DEFINE tests == shown.tests
           after == updateTestTypesWithSubjectName(tests, id, name)
<1>1. /\ Edits /\ shown' = [shown EXCEPT !.tests = after]
      /\ UNCHANGED <<stored, isEditing, backupState, editValues, phase, failed, adds, tries,
                     discarded, rescored>>
  BY DEF handleSubjectNameChange
<1>2. InList(shown, adds) /\ Listed(tests, adds) /\ CardsVisible
  BY <1>1, EditedIsListed DEF InList
<1>3. /\ Listed(after, adds)
      /\ \A t \in TestTypes :
            /\ DOMAIN after[t] = DOMAIN tests[t]
            /\ \A k \in DOMAIN after[t] : /\ after[t][k].id = tests[t][k].id
                                          /\ after[t][k].score = tests[t][k].score
                                          /\ after[t][k].percentage = tests[t][k].percentage
  BY <1>2, RenamedTests
<1> HIDE DEF after
<1>4. InList(shown', adds) /\ shown'.tests = after
  BY <1>1, <1>2, <1>3, TestsReplaced
<1>5. Counts' /\ Typed'
  BY <1>1 DEF Inv, Counts, Typed
<1>6. Lists'
  BY <1>1, <1>4, ListsAfterEdit
<1>7. \A t \in TestTypes : Shared(tests[t]) => Shared(after[t])
  BY <1>3 DEF Shared, TotalScore
<1>8. SharesKept'
  BY <1>1, <1>2, <1>4, <1>7 DEF Inv, SharesKept
<1>9. CardsShowWhatIsSent'
  <2> SUFFICES ASSUME ~ discarded, NEW t \in TestTypes, NEW k \in DOMAIN after[t]
               PROVE  ScoreShown(editValues', t, after[t][k]) = after[t][k].score
    BY <1>1, <1>4 DEF CardsShowWhatIsSent, CardScore, ScoreShown, Range
  <2>1. CardScore(t, tests[t][k]) = tests[t][k].score
    BY <1>2, <1>3 DEF Inv, CardsShowWhatIsSent, Range
  <2>2. QED
    BY <1>1, <1>3, <2>1 DEF CardScore, ScoreShown
<1>10. QED
  BY <1>5, <1>6, <1>8, <1>9 DEF Inv

\* The id of a new subject is new to everything that was typed.
LEMMA AddKeepsInv ==
    ASSUME Inv, NEW t \in TestTypes, handleAddSubject(t)
    PROVE  Inv'
<1> DEFINE tests == shown.tests
           new == EmptySubject(tests[t], Now(adds))
           after == updateTestTypesWithNewSubject(tests, t, new)
<1>1. /\ Edits /\ adds < MaxAdds /\ adds' = adds + 1
      /\ shown' = [shown EXCEPT !.tests = after]
      /\ UNCHANGED <<stored, isEditing, backupState, editValues, phase, failed, tries,
                     discarded, rescored>>
  BY DEF handleAddSubject
<1>2. adds \in Nat /\ MaxAdds \in Nat
  BY AddsIsNat DEF Inv
<1>3. InList(shown, adds) /\ Listed(tests, adds) /\ CardsVisible
  BY <1>1, EditedIsListed DEF InList
<1>4. Listed(after, adds + 1)
  BY <1>2, <1>3, AddedTests
<1>5. InList(shown', adds') /\ shown'.tests = after
  <2> HIDE DEF after
  <2>1. QED
    BY <1>1, <1>3, <1>4, TestsReplaced
<1>6. tests \in [TestTypes -> Seq(Subject)]
  BY <1>3 DEF Listed
<1>7. /\ after[t] = Append(tests[t], new)
      /\ \A u \in TestTypes : u # t => after[u] = tests[u]
  BY <1>6 DEF updateTestTypesWithNewSubject
<1>8. /\ new \in Subject /\ new.score = 0 /\ new.percentage = 0 /\ new.id = Now(adds)
      /\ Now(adds) \in Nat /\ Now(adds) < Now(adds + 1)
  BY <1>2, <1>6, EmptySubjectIs
<1> HIDE DEF tests, new, after
<1>9. /\ DOMAIN after[t] = DOMAIN tests[t] \cup {Len(tests[t]) + 1}
      /\ \A k \in DOMAIN tests[t] : after[t][k] = tests[t][k]
      /\ after[t][Len(tests[t]) + 1] = new
      /\ Shared(tests[t]) => Shared(after[t])
  BY <1>6, <1>7, <1>8, AddedSubject
<1>10. Counts'
  BY <1>1, <1>2 DEF Inv, Counts
<1>11. Typed'
  <2> SUFFICES ASSUME NEW u \in TestTypes, NEW id \in DOMAIN editValues[u]
               PROVE  id \in Nat /\ id < Now(adds + 1)
    BY <1>1 DEF Inv, Typed
  <2>1. id \in Nat /\ id < Now(adds)
    BY DEF Inv, Typed
  <2>2. Now(adds) < Now(adds + 1) /\ Now(adds) \in Nat /\ Now(adds + 1) \in Nat
    BY <1>2 DEF Now
  <2>3. QED
    BY <2>1, <2>2
<1>12. Lists'
  BY <1>1, <1>5, ListsAfterEdit
<1>13. SharesKept'
  BY <1>1, <1>3, <1>5, <1>7, <1>9 DEF Inv, SharesKept, tests
<1>14. CardsShowWhatIsSent'
  <2> SUFFICES ASSUME ~ discarded, NEW u \in TestTypes, NEW k \in DOMAIN after[u]
               PROVE  ScoreShown(editValues', u, after[u][k]) = after[u][k].score
    BY <1>1, <1>5 DEF CardsShowWhatIsSent, CardScore, ScoreShown, Range
  <2>1. ASSUME k \in DOMAIN tests[u], after[u][k] = tests[u][k]
        PROVE  ScoreShown(editValues', u, after[u][k]) = after[u][k].score
    <3>1. CardScore(u, tests[u][k]) = tests[u][k].score
      BY <1>3, <2>1 DEF Inv, CardsShowWhatIsSent, Range, tests
    <3>2. QED
      BY <1>1, <2>1, <3>1 DEF CardScore, ScoreShown
  <2>2. CASE u = t /\ after[u][k] = new
    <3>1. new.id \notin DOMAIN editValues[u]
      <4>1. ~ (new.id < Now(adds))
        BY <1>8
      <4>2. QED
        BY <4>1 DEF Inv, Typed
    <3>2. QED
      BY <1>1, <2>2, <3>1 DEF CardScore, ScoreShown
  <2>3. QED
    BY <1>7, <1>9, <2>1, <2>2
<1>15. QED
  BY <1>10, <1>11, <1>12, <1>13, <1>14 DEF Inv

\* The card and the list get the same score, and every subject of the test type its share.
LEMMA ScoreChangeKeepsInv ==
    ASSUME Inv, NEW t \in TestTypes, NEW subject \in Range(shown.tests[t]), NEW value \in Nat,
           handleScoreChange(t, subject.id, value)
    PROVE  Inv'
<1> DEFINE tests == shown.tests
           id == subject.id
           new == Rescored(tests[t], id, value)
           after == [tests EXCEPT ![t] = new]
<1>1. /\ Edits /\ rescored' = rescored \cup {t}
      /\ editValues' = [editValues EXCEPT ![t] = setEditValues(@, id, value)]
      /\ UNCHANGED <<stored, isEditing, backupState, phase, failed, adds, tries, discarded>>
  BY DEF handleScoreChange, ScoreTyped
<1>2. InList(shown, adds) /\ Listed(tests, adds) /\ CardsVisible
  BY <1>1, EditedIsListed DEF InList
<1>3. shown' = [shown EXCEPT !.tests = after]
  BY <1>2 DEF handleScoreChange, ScoreTyped, Rescored, InList
<1>4. tests \in [TestTypes -> Seq(Subject)]
  BY <1>2 DEF Listed
<1>5. /\ new \in Seq(Subject) /\ DOMAIN new = DOMAIN tests[t]
      /\ Shared(new)
      /\ \A k \in DOMAIN new :
            /\ new[k].id = tests[t][k].id
            /\ new[k].score = IF tests[t][k].id = id THEN value ELSE tests[t][k].score
  BY <1>4, RescoredSubjects
<1>6. Listed(after, adds)
  BY <1>2, RescoredTests
<1>7. after[t] = new /\ \A u \in TestTypes : u # t => after[u] = tests[u]
  BY <1>4
<1>8. id \in Nat /\ id < Now(adds)
  <2>1. PICK k \in DOMAIN tests[t] : subject = tests[t][k]
    BY DEF Range
  <2>2. tests[t] \in Seq(Subject)
    BY <1>4
  <2>3. tests[t][k] \in Subject
    BY <2>2, SubjectsAreFinite
  <2>4. QED
    BY <1>2, <2>1, <2>3, SubjectFields DEF Listed
<1> HIDE DEF id, new, after
<1>9. InList(shown', adds) /\ shown'.tests = after
  BY <1>2, <1>3, <1>6, TestsReplaced
<1>10. /\ DOMAIN editValues' = TestTypes
       /\ DOMAIN editValues'[t] = {id} \cup DOMAIN editValues[t]
       /\ editValues'[t][id] = value
       /\ \A i \in DOMAIN editValues[t] : i # id => editValues'[t][i] = editValues[t][i]
       /\ \A u \in TestTypes : u # t => editValues'[u] = editValues[u]
  <2>1. DOMAIN editValues = TestTypes
    BY DEF Inv, Typed
  <2> DEFINE typed == setEditValues(editValues[t], id, value)
  <2>2. /\ DOMAIN typed = {id} \cup DOMAIN editValues[t]
        /\ typed[id] = value
        /\ \A i \in DOMAIN editValues[t] : i # id => typed[i] = editValues[t][i]
    BY DEF setEditValues
  <2>3. editValues' = [editValues EXCEPT ![t] = typed]
    BY <1>1
  <2> HIDE DEF typed
  <2>4. editValues'[t] = typed /\ DOMAIN editValues' = TestTypes
    BY <2>1, <2>3
  <2>5. \A u \in TestTypes : u # t => editValues'[u] = editValues[u]
    BY <2>1, <2>3
  <2>6. QED
    BY <2>2, <2>4, <2>5
<1>11. Counts'
  BY <1>1 DEF Inv, Counts
<1>12. Typed'
  <2> SUFFICES ASSUME NEW u \in TestTypes, NEW i \in DOMAIN editValues'[u]
               PROVE  i \in Nat /\ i < Now(adds)
    BY <1>1, <1>10 DEF Typed
  <2>1. CASE u = t /\ i = id
    BY <1>8, <2>1
  <2>2. CASE i \in DOMAIN editValues[u]
    BY <2>2 DEF Inv, Typed
  <2>3. QED
    BY <1>10, <2>1, <2>2
<1>13. Lists'
  BY <1>1, <1>9, ListsAfterEdit
<1>14. SharesKept'
  BY <1>1, <1>2, <1>5, <1>7, <1>9 DEF Inv, SharesKept
<1>15. CardsShowWhatIsSent'
  <2> SUFFICES ASSUME ~ discarded, NEW u \in TestTypes, NEW k \in DOMAIN after[u]
               PROVE  ScoreShown(editValues', u, after[u][k]) = after[u][k].score
    BY <1>1, <1>9 DEF CardsShowWhatIsSent, CardScore, ScoreShown, Range
  <2>1. k \in DOMAIN tests[u]
    BY <1>5, <1>7
  <2>2. CardScore(u, tests[u][k]) = tests[u][k].score
    BY <1>2, <2>1 DEF Inv, CardsShowWhatIsSent, Range
  <2>3. CASE u # t
    BY <1>7, <1>10, <2>2, <2>3 DEF CardScore, ScoreShown
  <2>4. CASE u = t /\ tests[t][k].id = id
    BY <1>5, <1>7, <1>10, <2>1, <2>4 DEF CardScore, ScoreShown
  <2>5. CASE u = t /\ tests[t][k].id # id
    BY <1>5, <1>7, <1>10, <2>1, <2>2, <2>5 DEF CardScore, ScoreShown
  <2>6. QED
    BY <2>3, <2>4, <2>5
<1>16. QED
  BY <1>11, <1>12, <1>13, <1>14, <1>15 DEF Inv

LEMMA StepKeepsInv ==
    ASSUME Inv, [ContentsNext]_contents
    PROVE  Inv'
<1>1. CASE handleEdit \/ handleCancel \/ handleSave
  BY <1>1, EditKeepsInv, CancelKeepsInv, SaveKeepsInv
<1>2. CASE Load \/ LoadFails \/ OpenPage
  BY <1>2, LoadKeepsInv, FailedLoadKeepsInv, OpeningKeepsInv
<1>3. CASE \E field \in InfoFields, text \in Texts : handleInfoChange(field, text)
  BY <1>3, InfoChangeKeepsInv
<1>4. ASSUME NEW t \in TestTypes, NEW subject \in Range(shown.tests[t]), NEW value \in Scores,
             handleScoreChange(t, subject.id, value)
      PROVE  Inv'
  <2>1. value \in Nat
    BY ContentsAssumption
  <2>2. QED
    BY <1>4, <2>1, ScoreChangeKeepsInv
<1>5. ASSUME NEW id, NEW name \in Names, handleSubjectNameChange(id, name)
      PROVE  Inv'
  <2>1. name \in STRING
    BY ContentsAssumption
  <2>2. QED
    BY <1>5, <2>1, NameChangeKeepsInv
<1>6. CASE \E t \in TestTypes : handleAddSubject(t)
  BY <1>6, AddKeepsInv
<1>7. CASE \E request \in sent, arrives, answered \in BOOLEAN : Answer(request, arrives, answered)
  BY <1>7, AnswerKeepsInv
<1>8. CASE UNCHANGED contents
  BY <1>8 DEF contents, Inv, Counts, Lists, Typed, SharesKept, CardsShowWhatIsSent, CardScore,
              CardsVisible, AdminPageContent, AdminLayout
<1>9. QED
  BY <1>1, <1>2, <1>3, <1>4, <1>5, <1>6, <1>7, <1>8 DEF ContentsNext

LEMMA InvHolds == ContentsSpec => []Inv
<1>1. Begin => Inv
  BY InvInit
<1>2. Inv /\ [ContentsNext]_contents => Inv'
  BY StepKeepsInv
<1>3. QED
  BY <1>1, <1>2, PTL DEF ContentsSpec

-----------------------------------------------------------------------------
(* What follows from it.                                                    *)

\* Ids of both test types are told apart in the list of all.
LEMMA TypesHold ==
    ASSUME Inv
    PROVE  ContentsTypeOK
<1>1. Counts /\ (isEditing <=> backupState # NotLoaded)
  BY DEF Inv, Lists
<1>2. ASSUME shown # NotLoaded
      PROVE  /\ DOMAIN shown.info = InfoFields
             /\ LET subjects == shown.tests["common"] \o shown.tests["second"]
                IN  \A j, k \in DOMAIN subjects :
                       /\ subjects[j].id = subjects[k].id => j = k
                       /\ subjects[k].score \in Nat /\ subjects[k].percentage \in Int
  <2> DEFINE a == shown.tests["common"]
             b == shown.tests["second"]
             subjects == a \o b
  <2>1. InList(shown, adds) /\ Listed(shown.tests, adds)
    BY <1>2 DEF Inv, Lists, InList
  <2>2. a \in Seq(Subject) /\ b \in Seq(Subject)
    BY <2>1 DEF Listed, TestTypes
  <2>3. /\ \A j, k \in DOMAIN a : a[j].id = a[k].id => j = k
        /\ \A j, k \in DOMAIN b : b[j].id = b[k].id => j = k
        /\ \A j \in DOMAIN a, k \in DOMAIN b : a[j].id # b[k].id
    BY <2>1 DEF Listed, Distinct, TestTypes
  <2> HIDE DEF a, b
  <2>4. /\ subjects \in Seq(Subject)
        /\ \A k \in DOMAIN subjects :
              \/ k \in DOMAIN a /\ subjects[k] = a[k] /\ k \in Int
              \/ k \in Int /\ k - Len(a) \in DOMAIN b /\ subjects[k] = b[k - Len(a)]
        /\ Len(a) \in Int
    BY <2>2
  <2> HIDE DEF subjects
  <2>5. \A k \in DOMAIN subjects : subjects[k] \in Subject
    BY <2>4, SubjectsAreFinite
  <2>6. \A j, k \in DOMAIN subjects : subjects[j].id = subjects[k].id => j = k
    <3> SUFFICES ASSUME NEW j \in DOMAIN subjects, NEW k \in DOMAIN subjects,
                        subjects[j].id = subjects[k].id
                 PROVE  j = k
      OBVIOUS
    <3>1. CASE k \in DOMAIN a /\ subjects[k] = a[k]
      BY <2>3, <2>4, <3>1
    <3>2. CASE k \in Int /\ k - Len(a) \in DOMAIN b /\ subjects[k] = b[k - Len(a)]
      <4>1. j \in Int /\ j - Len(a) \in DOMAIN b /\ subjects[j] = b[j - Len(a)]
        BY <2>3, <2>4, <3>2
      <4>2. j - Len(a) = k - Len(a)
        BY <2>3, <3>2, <4>1
      <4>3. QED
        BY <2>4, <3>2, <4>1, <4>2
    <3>3. QED
      BY <2>4, <3>1, <3>2
  <2>7. QED
    BY <2>1, <2>5, <2>6, SubjectFields DEF InList, subjects, a, b
<1>3. QED
  BY <1>1, <1>2 DEF Counts, ContentsTypeOK

\* Ids stay apart and scores stay natural, whatever is typed, added and discarded, and a page in
\* edit mode has a backup to go back to.
THEOREM ContentsTypeOKHolds == ContentsSpec => []ContentsTypeOK
<1>1. Inv => ContentsTypeOK
  BY TypesHold
<1>2. QED
  BY <1>1, InvHolds, PTL

\* As long as nothing was discarded, no card shows another score than the one a save sends,
\* though the two are kept apart.
THEOREM CardsShowWhatIsSentHolds == ContentsSpec => []CardsShowWhatIsSent
<1>1. Inv => CardsShowWhatIsSent
  BY DEF Inv
<1>2. QED
  BY <1>1, InvHolds, PTL

\* However many subjects of whatever scores there are, the percentages of a test type in which a
\* score was typed are at most one hundred each and add up to it, within half a hundredth for each.
THEOREM PercentagesAddUpHolds == ContentsSpec => []PercentagesAddUp
<1>1. ASSUME Inv
      PROVE  PercentagesAddUp
  <2> SUFFICES ASSUME CardsVisible, NEW t \in rescored
               PROVE  /\ \A k \in DOMAIN shown.tests[t] :
                            shown.tests[t][k].percentage \in Percentages
                      /\ TotalScore(shown.tests[t]) > 0
                            => 2 * (SumFunction(PercentagesOf(shown.tests[t])) - 10000)
                                   \in (- Len(shown.tests[t]))..Len(shown.tests[t])
    BY DEF PercentagesAddUp, PercentagesOf
  <2> DEFINE subjects == shown.tests[t]
  <2>1. t \in TestTypes /\ Shared(subjects)
    BY <1>1 DEF Inv, SharesKept
  <2>2. subjects \in Seq(Subject)
    BY <1>1, <2>1 DEF Inv, Lists, InList, Listed
  <2> HIDE DEF subjects
  <2>3. ASSUME NEW k \in DOMAIN subjects
        PROVE  subjects[k].percentage \in Percentages
    <3>1. /\ TotalScore(subjects) \in Nat /\ subjects[k].score \in Nat
          /\ subjects[k].score <= TotalScore(subjects)
      BY <2>2, TotalIs
    <3>2. Share(subjects[k].score, TotalScore(subjects)) \in Percentages
      BY <3>1, ShareIsPercentage
    <3>3. QED
      BY <2>1, <3>2 DEF Shared
  <2>4. TotalScore(subjects) > 0 => 2 * (SumFunction(PercentagesOf(subjects)) - 10000)
                                        \in (- Len(subjects))..Len(subjects)
    BY <2>1, <2>2, SharesAddUp
  <2>5. QED
    BY <2>3, <2>4 DEF subjects
<1>2. QED
  BY <1>1, InvHolds, PTL

-----------------------------------------------------------------------------
(* The order of the cards.                                                  *)

\* The subjects are sorted by display order, and none has one beyond its place: what is put at
\* the end stays there.
InPlace(subjects) ==
    /\ \A k \in DOMAIN subjects : subjects[k].order <= k
    /\ \A j, k \in DOMAIN subjects : j < k => subjects[j].order <= subjects[k].order

AllInPlace(tests) == \A t \in TestTypes : InPlace(tests[t])

\* What was there is still in its place.
Grown(before, after) ==
    /\ Len(before) <= Len(after)
    /\ \A k \in DOMAIN before : after[k].id = before[k].id
    /\ InPlace(before) => InPlace(after)

LEMMA CardsInPlace ==
    ASSUME NEW subjects \in Seq(Subject), InPlace(subjects)
    PROVE  sortedSubjects(subjects) = subjects
<1> DEFINE S == DOMAIN subjects
           before(k) == {j \in S : ComesBefore(subjects, j, k)}
           place(k) == Cardinality(before(k)) + 1
<1>1. S = 1..Len(subjects) /\ Len(subjects) \in Nat
  OBVIOUS
<1>2. ASSUME NEW k \in S
      PROVE  place(k) = k
  <2>1. ASSUME NEW j \in S
        PROVE  ComesBefore(subjects, j, k) <=> j < k
    <3>1. subjects[j].order \in Int /\ subjects[k].order \in Int
      BY SubjectsAreFinite, SubjectFields
    <3>2. j < k => subjects[j].order <= subjects[k].order
      BY DEF InPlace
    <3>3. k < j => subjects[k].order <= subjects[j].order
      BY DEF InPlace
    <3>4. j \in Nat /\ k \in Nat
      BY <1>1
    <3>5. QED
      BY <3>1, <3>2, <3>3, <3>4 DEF ComesBefore
  <2>2. before(k) = 1..(k - 1)
    BY <1>1, <2>1
  <2>3. Cardinality(1..(k - 1)) = k - 1
    BY <1>1, FS_Interval
  <2>4. Cardinality(before(k)) = k - 1
    BY <2>2, <2>3
  <2>5. k \in Nat
    BY <1>1
  <2> HIDE DEF before
  <2>6. QED
    BY <2>4, <2>5
<1>3. sortedSubjects(subjects) = [n \in S |-> subjects[CHOOSE k \in S : place(k) = n]]
  BY DEF sortedSubjects
<1> HIDE DEF place
<1>4. ASSUME NEW n \in S
      PROVE  (CHOOSE k \in S : place(k) = n) = n
  BY <1>2
<1>5. subjects = [n \in S |-> subjects[n]]
  OBVIOUS
<1> HIDE DEF S
<1>6. QED
  BY <1>3, <1>4, <1>5

\* Cards in their places begin with the same ids as before.
LEMMA GrownKeepsPlaces ==
    ASSUME NEW before \in Seq(Subject), NEW after \in Seq(Subject), Grown(before, after)
    PROVE  IsPrefix([k \in DOMAIN before |-> before[k].id], [k \in DOMAIN after |-> after[k].id])
<1> DEFINE p == [k \in DOMAIN before |-> before[k].id]
           q == [k \in DOMAIN after |-> after[k].id]
<1>1. ASSUME NEW s \in Seq(Subject)
      PROVE  [k \in DOMAIN s |-> s[k].id] \in Seq(Nat) /\ Len([k \in DOMAIN s |-> s[k].id]) = Len(s)
  <2> DEFINE f == [k \in DOMAIN s |-> s[k].id]
  <2>1. \A k \in DOMAIN s : s[k].id \in Nat
    BY SubjectsAreFinite, SubjectFields
  <2>2. f \in [1..Len(s) -> Nat] /\ Len(s) \in Nat
    BY <2>1, SubjectsAreFinite
  <2> HIDE DEF f
  <2>3. f \in Seq(Nat) /\ Len(f) = Len(s)
    BY <2>2
  <2>4. QED
    BY <2>3 DEF f
<1>2. /\ p \in Seq(Nat) /\ Len(p) = Len(before) /\ q \in Seq(Nat) /\ Len(q) = Len(after)
  BY <1>1
<1>3. /\ Len(before) <= Len(after) /\ Len(before) \in Nat /\ Len(after) \in Nat
      /\ DOMAIN before = 1..Len(before) /\ DOMAIN after = 1..Len(after)
  BY DEF Grown
<1>4. \A k \in 1..Len(before) : p[k] = q[k]
  BY <1>3 DEF Grown
<1> HIDE DEF p, q
<1>5. SubSeq(p, 1, Len(p)) = SubSeq(q, 1, Len(p))
  BY <1>2, <1>3, <1>4
<1>6. QED
  BY <1>2, <1>3, <1>5 DEF IsPrefix, p, q

LEMMA SameGrown ==
    ASSUME NEW before \in Seq(Subject), NEW after \in Seq(Subject),
           DOMAIN after = DOMAIN before,
           \A k \in DOMAIN before : after[k].id = before[k].id,
           \/ \A k \in DOMAIN before : after[k].order = before[k].order
           \/ \A k \in DOMAIN before : after[k].order = 0
    PROVE  Grown(before, after)
<1>1. /\ DOMAIN before = 1..Len(before) /\ Len(before) \in Nat
      /\ DOMAIN after = 1..Len(after) /\ Len(after) \in Nat
  OBVIOUS
<1>2. Len(after) = Len(before)
  BY <1>1
<1>3. InPlace(before) => InPlace(after)
  <2>1. CASE \A k \in DOMAIN before : after[k].order = before[k].order
    BY <2>1 DEF InPlace
  <2>2. CASE \A k \in DOMAIN before : after[k].order = 0
    BY <1>1, <2>2 DEF InPlace
  <2>3. QED
    BY <2>1, <2>2
<1>4. QED
  BY <1>1, <1>2, <1>3 DEF Grown

LEMMA AppendedGrown ==
    ASSUME NEW before \in Seq(Subject), NEW new \in Subject, new.order = Len(before) + 1
    PROVE  Grown(before, Append(before, new))
<1> DEFINE after == Append(before, new)
           last == Len(before) + 1
<1>1. /\ Len(after) = last /\ Len(before) \in Nat /\ DOMAIN before = 1..Len(before)
      /\ DOMAIN after = DOMAIN before \cup {last}
      /\ \A k \in DOMAIN before : after[k] = before[k] /\ k < last /\ k \in Nat
      /\ after[last] = new
  OBVIOUS
<1> HIDE DEF after
<1>2. ASSUME InPlace(before)
      PROVE  InPlace(after)
  <2>1. \A k \in DOMAIN after : after[k].order <= k
    BY <1>1, <1>2 DEF InPlace
  <2>2. ASSUME NEW j \in DOMAIN after, NEW k \in DOMAIN after, j < k
        PROVE  after[j].order <= after[k].order
    <3>1. j \in DOMAIN before
      BY <1>1, <2>2
    <3>2. CASE k \in DOMAIN before
      BY <1>1, <1>2, <2>2, <3>1, <3>2 DEF InPlace
    <3>3. CASE k = last
      <4>1. after[j].order <= j /\ after[j].order \in Int
        BY <1>1, <1>2, <3>1, SubjectsAreFinite, SubjectFields DEF InPlace
      <4>2. QED
        BY <1>1, <3>1, <3>3, <4>1
    <3>4. QED
      BY <1>1, <3>2, <3>3
  <2>3. QED
    BY <2>1, <2>2 DEF InPlace
<1>3. QED
  BY <1>1, <1>2 DEF Grown, after

\* What the cards of the page are made from, as long as the page is edited: the invariant of the
\* theorem below.
OrdersKept ==
    Counted(loaded) =>
        /\ shown # NotLoaded => AllInPlace(shown.tests)
        /\ backupState # NotLoaded => AllInPlace(backupState.tests)

AllGrown(before, after) == \A t \in TestTypes : Grown(before[t], after[t])

LEMMA InfoChangeGrows ==
    ASSUME Inv, NEW field, NEW text, handleInfoChange(field, text)
    PROVE  AllGrown(shown.tests, shown'.tests)
<1>1. Edits /\ shown' = updateDepartmentInUniversity(shown, field, text)
  BY DEF handleInfoChange
<1>2. shown'.tests = shown.tests /\ Listed(shown.tests, adds)
  BY <1>1, EditedIsListed, InfoReplaced DEF InList
<1>3. QED
  BY <1>2, SameGrown DEF AllGrown, Listed

LEMMA ScoreChangeGrows ==
    ASSUME Inv, NEW t \in TestTypes, NEW id, NEW value \in Nat, handleScoreChange(t, id, value)
    PROVE  AllGrown(shown.tests, shown'.tests)
<1> DEFINE tests == shown.tests
           new == Rescored(tests[t], id, value)
           after == [tests EXCEPT ![t] = new]
<1>1. InList(shown, adds) /\ Listed(tests, adds)
  BY EditedIsListed DEF handleScoreChange, InList
<1>2. shown' = [shown EXCEPT !.tests = after]
  BY <1>1 DEF handleScoreChange, ScoreTyped, Rescored, InList
<1>3. tests \in [TestTypes -> Seq(Subject)]
  BY <1>1 DEF Listed
<1>4. /\ new \in Seq(Subject) /\ DOMAIN new = DOMAIN tests[t]
      /\ \A k \in DOMAIN tests[t] : new[k].id = tests[t][k].id /\ new[k].order = 0
  BY <1>3, RescoredSubjects
<1>5. Listed(after, adds)
  BY <1>1, RescoredTests
<1>6. after[t] = new /\ \A u \in TestTypes : u # t => after[u] = tests[u]
  BY <1>3
<1> HIDE DEF new, after
<1>7. shown'.tests = after
  BY <1>1, <1>2, <1>5, TestsReplaced
<1>8. Grown(tests[t], new)
  BY <1>3, <1>4, SameGrown
<1>9. \A u \in TestTypes : Grown(tests[u], tests[u])
  BY <1>3, SameGrown
<1>10. QED
  BY <1>6, <1>7, <1>8, <1>9 DEF AllGrown

LEMMA NameChangeGrows ==
    ASSUME Inv, NEW id, NEW name \in STRING, handleSubjectNameChange(id, name)
    PROVE  AllGrown(shown.tests, shown'.tests)
<1> DEFINE tests == shown.tests
           after == updateTestTypesWithSubjectName(tests, id, name)
<1>1. Edits /\ shown' = [shown EXCEPT !.tests = after]
  BY DEF handleSubjectNameChange
<1>2. InList(shown, adds) /\ Listed(tests, adds)
  BY <1>1, EditedIsListed DEF InList
<1>3. /\ Listed(after, adds)
      /\ \A t \in TestTypes :
            /\ DOMAIN after[t] = DOMAIN tests[t]
            /\ \A k \in DOMAIN after[t] : /\ after[t][k].id = tests[t][k].id
                                          /\ after[t][k].order = tests[t][k].order
  BY <1>2, RenamedTests
<1> HIDE DEF after
<1>4. shown'.tests = after
  BY <1>1, <1>2, <1>3, TestsReplaced
<1>5. \A t \in TestTypes : tests[t] \in Seq(Subject) /\ after[t] \in Seq(Subject)
  BY <1>2, <1>3 DEF Listed
<1>6. \A t \in TestTypes : Grown(tests[t], after[t])
  BY <1>3, <1>5, SameGrown
<1>7. QED
  BY <1>4, <1>6 DEF AllGrown

LEMMA AddGrows ==
    ASSUME Inv, NEW t \in TestTypes, handleAddSubject(t)
    PROVE  AllGrown(shown.tests, shown'.tests)
<1> DEFINE tests == shown.tests
           new == EmptySubject(tests[t], Now(adds))
           after == updateTestTypesWithNewSubject(tests, t, new)
<1>1. Edits /\ shown' = [shown EXCEPT !.tests = after]
  BY DEF handleAddSubject
<1>2. InList(shown, adds) /\ Listed(tests, adds) /\ adds \in Nat
  BY <1>1, EditedIsListed, AddsIsNat DEF InList, Inv
<1>3. tests \in [TestTypes -> Seq(Subject)]
  BY <1>2 DEF Listed
<1>4. Listed(after, adds + 1)
  BY <1>2, AddedTests
<1>5. shown'.tests = after
  <2> HIDE DEF after
  <2>1. QED
    BY <1>1, <1>2, <1>4, TestsReplaced
<1>6. /\ after[t] = Append(tests[t], new)
      /\ \A u \in TestTypes : u # t => after[u] = tests[u]
  BY <1>3 DEF updateTestTypesWithNewSubject
<1>7. new \in Subject /\ new.order = Len(tests[t]) + 1
  BY <1>2, <1>3, EmptySubjectIs
<1> HIDE DEF new, after
<1>8. Grown(tests[t], after[t])
  BY <1>3, <1>6, <1>7, AppendedGrown
<1>9. \A u \in TestTypes : Grown(tests[u], tests[u])
  BY <1>3, SameGrown
<1>10. QED
  BY <1>5, <1>6, <1>8, <1>9 DEF AllGrown

\* The four edits of the administrator.
AnEdit ==
    \/ \E field \in InfoFields, text \in Texts : handleInfoChange(field, text)
    \/ \E t \in TestTypes : \E subject \in Range(shown.tests[t]) :
          \/ \E value \in Scores : handleScoreChange(t, subject.id, value)
          \/ \E name \in Names : handleSubjectNameChange(subject.id, name)
    \/ \E t \in TestTypes : handleAddSubject(t)

LEMMA EditsGrow ==
    ASSUME Inv, AnEdit
    PROVE  /\ AllGrown(shown.tests, shown'.tests) /\ shown # NotLoaded
           /\ UNCHANGED <<loaded, backupState>>
<1>1. ASSUME NEW field, NEW text, handleInfoChange(field, text)
      PROVE  /\ AllGrown(shown.tests, shown'.tests) /\ shown # NotLoaded
             /\ UNCHANGED <<loaded, backupState>>
  BY <1>1, InfoChangeGrows DEF handleInfoChange, Edits, Inv, Lists
<1>2. ASSUME NEW t \in TestTypes, NEW id, NEW value \in Scores, handleScoreChange(t, id, value)
      PROVE  /\ AllGrown(shown.tests, shown'.tests) /\ shown # NotLoaded
             /\ UNCHANGED <<loaded, backupState>>
  <2>1. value \in Nat
    BY ContentsAssumption
  <2>2. QED
    BY <1>2, <2>1, ScoreChangeGrows DEF handleScoreChange, Edits, Inv, Lists
<1>3. ASSUME NEW id, NEW name \in Names, handleSubjectNameChange(id, name)
      PROVE  /\ AllGrown(shown.tests, shown'.tests) /\ shown # NotLoaded
             /\ UNCHANGED <<loaded, backupState>>
  <2>1. name \in STRING
    BY ContentsAssumption
  <2>2. QED
    BY <1>3, <2>1, NameChangeGrows DEF handleSubjectNameChange, Edits, Inv, Lists
<1>4. ASSUME NEW t \in TestTypes, handleAddSubject(t)
      PROVE  /\ AllGrown(shown.tests, shown'.tests) /\ shown # NotLoaded
             /\ UNCHANGED <<loaded, backupState>>
  BY <1>4, AddGrows DEF handleAddSubject, Edits, Inv, Lists
<1>5. QED
  BY <1>1, <1>2, <1>3, <1>4 DEF AnEdit

LEMMA StoredInPlace ==
    ASSUME stored \in Departments0, Counted(stored)
    PROVE  AllInPlace(transformUniversity(stored).tests)
<1>1. IsDepartment(stored)
  BY ContentsAssumption
<1>2. stored = [info |-> stored.info, tests |-> stored.tests, dates |-> stored.dates]
  BY <1>1 DEF IsDepartment
<1>3. transformUniversity(stored).tests = stored.tests
  BY <1>2 DEF transformUniversity
<1>4. ASSUME NEW t \in TestTypes
      PROVE  InPlace(stored.tests[t])
  <2>1. stored.tests[t] \in Seq(Subject)
    BY <1>1 DEF IsDepartment
  <2>2. \A k \in DOMAIN stored.tests[t] : stored.tests[t][k].order = k /\ k \in Nat
    BY <2>1 DEF Counted
  <2>3. QED
    BY <2>2 DEF InPlace
<1>5. QED
  BY <1>3, <1>4 DEF AllInPlace

LEMMA OrdersInit ==
    ASSUME Begin
    PROVE  OrdersKept
BY DEF Begin, OrdersKept, Counted

LEMMA OrdersStep ==
    ASSUME Inv, OrdersKept, [ContentsNext]_contents
    PROVE  OrdersKept'
<1>1. CASE handleEdit \/ handleCancel
  BY <1>1 DEF handleEdit, handleCancel, OrdersKept, Counted
<1>2. CASE handleSave \/ LoadFails
  BY <1>2 DEF handleSave, LoadFails, OrdersKept, Counted
<1>3. CASE OpenPage
  BY <1>3 DEF OpenPage, OrdersKept, Counted
<1>4. CASE Load
  <2>1. /\ shown' = transformUniversity(stored) /\ loaded' = stored /\ backupState' = NotLoaded
        /\ stored \in Departments0
    BY <1>4 DEF Load, Inv, Counts
  <2>2. QED
    BY <2>1, StoredInPlace DEF OrdersKept, Counted
<1>5. CASE AnEdit
  <2>1. /\ AllGrown(shown.tests, shown'.tests) /\ shown # NotLoaded
        /\ UNCHANGED <<loaded, backupState>>
    BY <1>5, EditsGrow
  <2>2. AllInPlace(shown.tests) => AllInPlace(shown'.tests)
    BY <2>1 DEF AllGrown, Grown, AllInPlace
  <2>3. QED
    BY <2>1, <2>2 DEF OrdersKept, Counted
<1>6. ASSUME NEW request, NEW arrives, NEW answered, Answer(request, arrives, answered)
      PROVE  OrdersKept'
  <2>1. shown' \in {shown, backupState} /\ UNCHANGED <<loaded, backupState>>
    BY <1>6 DEF Answer
  <2>2. QED
    BY <2>1 DEF OrdersKept, Counted
<1>7. CASE UNCHANGED contents
  BY <1>7 DEF contents, OrdersKept, Counted
<1>8. QED
  BY <1>1, <1>2, <1>3, <1>4, <1>5, <1>6, <1>7 DEF ContentsNext, AnEdit

LEMMA OrdersHold == ContentsSpec => []OrdersKept
<1>1. Begin => OrdersKept
  BY OrdersInit
<1>2. Inv /\ OrdersKept /\ [ContentsNext]_contents => OrdersKept'
  BY OrdersStep
<1>3. QED
  BY <1>1, <1>2, InvHolds, PTL DEF ContentsSpec

\* Between two states of the page in edit mode lies an edit, or nothing the cards show.
LEMMA EditingGrows ==
    ASSUME Inv, Edits, Edits', [ContentsNext]_contents
    PROVE  AllGrown(shown.tests, shown'.tests)
<1>1. CASE handleEdit \/ handleCancel \/ handleSave
  BY <1>1 DEF handleEdit, handleCancel, handleSave, EditButtons, Edits, CardsVisible,
              AdminPageContent, AdminLayout
<1>2. CASE Load \/ LoadFails \/ OpenPage
  BY <1>2 DEF Load, LoadFails, OpenPage, Edits
<1>3. CASE AnEdit
  BY <1>3, EditsGrow
<1>4. CASE shown' = shown
  <2>1. Listed(shown.tests, adds)
    BY EditedIsListed DEF InList
  <2>2. QED
    BY <1>4, <2>1, SameGrown DEF AllGrown, Listed
<1>5. ASSUME NEW request, NEW arrives, NEW answered, Answer(request, arrives, answered)
      PROVE  shown' = shown
  <2>1. phase = "idle"
    BY DEF Edits, CardsVisible, AdminPageContent, AdminLayout
  <2>2. QED
    BY <1>5, <2>1 DEF Answer
<1>6. CASE UNCHANGED contents
  BY <1>4, <1>6 DEF contents
<1>7. QED
  BY <1>1, <1>2, <1>3, <1>4, <1>5, <1>6 DEF ContentsNext, AnEdit

\* What a card's place is made from: where subjects are in their places, sorting leaves them.
LEMMA GrownCardsStay ==
    ASSUME NEW d, NEW e, NEW m, NEW n, InList(d, m), InList(e, n),
           AllInPlace(d.tests), AllGrown(d.tests, e.tests), NEW t \in TestTypes
    PROVE  LET before == InfoCombiner(d).exams
               after == InfoCombiner(e).exams
           IN  IsPrefix([k \in DOMAIN before[t] |-> before[t][k].id],
                        [k \in DOMAIN after[t] |-> after[t][k].id])
<1>1. /\ d.tests[t] \in Seq(Subject) /\ e.tests[t] \in Seq(Subject)
      /\ Grown(d.tests[t], e.tests[t]) /\ InPlace(d.tests[t]) /\ InPlace(e.tests[t])
  BY DEF InList, Listed, AllGrown, AllInPlace, Grown
<1>2. InfoCombiner(d).exams[t] = d.tests[t]
  BY <1>1, CardsInPlace DEF InfoCombiner, Cards
<1>3. InfoCombiner(e).exams[t] = e.tests[t]
  BY <1>1, CardsInPlace DEF InfoCombiner, Cards
<1>4. QED
  BY <1>1, <1>2, <1>3, GrownKeepsPlaces

\* Whatever is typed, added, renamed and discarded, in any number of edits of a list whose orders
\* count the subjects, the cards stay where they are and new ones come last.
THEOREM CardsStay == ContentsSpec => CardsKeepTheirPlace
<1> DEFINE Stay ==
               Edits /\ Edits' /\ Counted(loaded) =>
                   LET before == InfoCombiner(shown).exams
                       after == InfoCombiner(shown').exams
                       ids(cards) == [k \in DOMAIN cards |-> cards[k].id]
                   IN  \A t \in TestTypes : IsPrefix(ids(before[t]), ids(after[t]))
<1>1. ASSUME Inv, OrdersKept, Inv', [ContentsNext]_contents
      PROVE  Stay
  <2> SUFFICES ASSUME Edits, Edits', Counted(loaded), NEW t \in TestTypes
               PROVE  LET before == InfoCombiner(shown).exams
                          after == InfoCombiner(shown').exams
                      IN  IsPrefix([k \in DOMAIN before[t] |-> before[t][k].id],
                                   [k \in DOMAIN after[t] |-> after[t][k].id])
    OBVIOUS
  <2>1. InList(shown, adds) /\ shown # NotLoaded
    BY <1>1, EditedIsListed DEF Inv, Lists
  <2>2. InList(shown', adds')
    BY <1>1 DEF Inv, Lists, Edits
  <2>3. AllInPlace(shown.tests)
    BY <1>1, <2>1 DEF OrdersKept
  <2>4. AllGrown(shown.tests, shown'.tests)
    BY <1>1, EditingGrows
  <2>5. QED
    BY <2>1, <2>2, <2>3, <2>4, GrownCardsStay
<1>2. Inv /\ OrdersKept /\ Inv' /\ [ContentsNext]_contents => [Stay]_contents
  BY <1>1
<1>3. QED
  BY <1>2, InvHolds, OrdersHold, PTL DEF ContentsSpec, CardsKeepTheirPlace
=============================================================================
