------------------------ MODULE SubjectScoresProofs ------------------------
(***************************************************************************)
(* Theorems about the writers of subjects, for any number of transactions, *)
(* subjects and test types: the type invariant; two updates wait for each  *)
(* other only over subjects of equal order or renumbered between their     *)
(* reads; a batch is stored whole or not at all, changes nothing but       *)
(* percentages of a subject it does not name, and leaves them exact if     *)
(* nobody disturbs it.                                                     *)
(***************************************************************************)
EXTENDS SubjectScores, Sums

-----------------------------------------------------------------------------
(* The inductive invariant.                                                *)

Shape ==
    /\ DOMAIN row = Subjects
    /\ DOMAIN draft = Txs /\ \A p \in Txs : DOMAIN draft[p] = Subjects
    /\ DOMAIN list = Txs /\ \A p \in Txs : DOMAIN list[p] = Subjects
    /\ DOMAIN phase = Txs
    /\ DOMAIN req = Txs
    /\ DOMAIN left = Txs
    /\ DOMAIN total = Txs
    /\ DOMAIN alone = Txs

RowsAreRows ==
    /\ \A s \in Subjects : row[s] = NoSubject \/ row[s] \in Row
    /\ \A p \in Txs, s \in Subjects : draft[p][s] = Clean \/ draft[p][s] \in Row
    /\ \A p \in Txs, s \in Subjects : list[p][s] = NoSubject \/ list[p][s] \in Row

IsRequest(r) ==
    /\ r.op \in {"update", "batch"} /\ r.type \in TestTypes
    /\ DOMAIN r.scores \subseteq Subjects
    /\ \A s \in DOMAIN r.scores : r.scores[s] \in Scores
    /\ r.op = "batch" => \A s \in DOMAIN r.scores : r.orders[s] \in Orders

IsTotal(sums) == sums \in [common : Nat, secondary : Nat]

Counts ==
    /\ begins \in 0..MaxBegins
    /\ \A p \in Txs : phase[p] \in Phases /\ IsTotal(total[p]) /\ alone[p] \in BOOLEAN

\* How far each transaction is: what it still has to do, and for whom.
Progress == \A p \in Txs :
    /\ phase[p] # "idle" => IsRequest(req[p])
    /\ req[p].op = "update" => phase[p] \in {"sum", "write"}
    /\ phase[p] = "idle" => left[p] = {} /\ \A s \in Subjects : draft[p][s] = Clean
    /\ phase[p] = "sum" => left[p] \subseteq TestTypes
    /\ phase[p] \in {"check", "save"} => left[p] \subseteq DOMAIN req[p].scores
    /\ phase[p] = "save" =>
          \A s \in Subjects : list[p][s] # NoSubject => s \in DOMAIN req[p].scores
    /\ phase[p] = "write" => \A s \in left[p] : s \in Subjects /\ list[p][s] \in Row

\* An update has locked only subjects that do not come after those it has yet to write.
LockOrder == \A p \in Txs : req[p].op = "update" =>
    \A s \in Subjects : draft[p][s] # Clean =>
        /\ phase[p] = "write" /\ list[p][s] \in Row
        /\ \A x \in left[p] : list[p][s].order <= list[p][x].order

\* A row is locked by one transaction.
OneWriter == \A p, q \in Txs, s \in Subjects :
    draft[p][s] # Clean /\ draft[q][s] # Clean => p = q

\* What a batch has written of a subject it does not name agrees with the committed row
\* but for the percentage: the lock keeps the row as it was.
Kept == \A p \in Txs, s \in Subjects :
    req[p].op = "batch" /\ s \notin DOMAIN req[p].scores /\ draft[p][s] # Clean =>
        /\ row[s] # NoSubject
        /\ draft[p][s].score = row[s].score /\ draft[p][s].type = row[s].type
        /\ draft[p][s].order = row[s].order

Inv == Shape /\ RowsAreRows /\ Counts /\ Progress /\ LockOrder /\ OneWriter /\ Kept

-----------------------------------------------------------------------------
(* Sums and percentages.                                                   *)

LEMMA PercentageIsNat ==
    ASSUME NEW score \in Nat, NEW sums, IsTotal(sums)
    PROVE  Percentage(score, sums) \in Nat
  <1> DEFINE d == sums.common + sums.secondary
  <1>1. d \in Nat
    BY DEF IsTotal
  <1>2. Percentage(score, sums) = IF d > 0 THEN (20000 * score + d) \div (2 * d) ELSE 0
    BY DEF Percentage
  <1> HIDE DEF d
  <1>3. ASSUME NEW a \in Nat, NEW b \in Nat, b > 0
        PROVE  a \div b \in Nat
    BY <1>3
  <1>4. d > 0 => 20000 * score + d \in Nat /\ 2 * d \in Nat /\ 2 * d > 0
    BY <1>1
  <1> QED
    BY <1>1, <1>2, <1>3, <1>4

Rows(rows) == \A s \in Subjects : rows[s] = NoSubject \/ rows[s] \in Row

LEMMA ScoreSumIsNat ==
    ASSUME NEW rows, Rows(rows), NEW t
    PROVE  ScoreSum(rows, t) \in Nat
  <1> DEFINE S == OfType(rows, t)
             f == [s \in S |-> rows[s].score]
  <1>1. \A s \in S : f[s] \in Nat
    BY ScoresAssumption DEF OfType, Rows, Row
  <1>2. IsFiniteSet(S)
    BY ScoresAssumption, FS_Subset DEF OfType
  <1>3. ScoreSum(rows, t) = SumFunctionOnSet(f, S)
    BY DEF ScoreSum, SumFunction
  <1> HIDE DEF f, S
  <1> QED
    BY <1>1, <1>2, <1>3, SumNat

LEMMA ViewHasRows ==
    ASSUME RowsAreRows, NEW p \in Txs
    PROVE  Rows(View(p))
  BY DEF RowsAreRows, Rows, View

LEMMA TypeTotalIsNat ==
    ASSUME RowsAreRows, NEW p \in Txs, NEW t \in TestTypes, NEW sums, IsTotal(sums)
    PROVE  IsTotal([sums EXCEPT ![Name[t]] = TypeTotal(p, t)])
  <1>1. TypeTotal(p, t) \in Nat
    BY ViewHasRows, ScoreSumIsNat DEF TypeTotal
  <1>2. Name[t] \in {"common", "secondary"}
    BY ScoresAssumption
  <1> QED
    BY <1>1, <1>2 DEF IsTotal

-----------------------------------------------------------------------------
LEMMA InitInv == Init => Inv
  <1> SUFFICES ASSUME Init PROVE Inv
    OBVIOUS
  <1> USE DEF Init, NoRequest, NoDraft, Empty
  <1>1. Shape
    BY ScoresAssumption DEF Shape
  <1>2. RowsAreRows
    BY ScoresAssumption DEF RowsAreRows, Row
  <1>3. Progress /\ LockOrder
    BY DEF Progress, LockOrder
  <1>4. OneWriter /\ Kept
    BY DEF OneWriter, Kept
  <1>5. Counts
    <2>1. IsTotal(NoTotal)
      BY DEF IsTotal, NoTotal
    <2> QED
      BY <2>1, ScoresAssumption DEF Counts, Phases
  <1> QED
    BY <1>1, <1>2, <1>3, <1>4, <1>5 DEF Inv

LEMMA UpdateSubjectInv ==
    ASSUME Inv, NEW p \in Txs, NEW s \in Subjects, NEW t \in TestTypes, NEW n \in Scores,
           UpdateSubject(p, s, t, n)
    PROVE  Inv'
  <1> DEFINE new == [type |-> t, score |-> n, pct |-> 0, order |-> row[s].order]
             found == OfType(row, t)
             request == [op |-> "update", type |-> t, scores |-> [x \in {s} |-> n]]
  <1> USE DEF Inv
  <1>1. /\ phase[p] = "idle" /\ begins' \in 0..MaxBegins
        /\ req' = [req EXCEPT ![p] = request]
        /\ alone' = [alone EXCEPT ![p] = TRUE]
        /\ list' = [list EXCEPT ![p] =
                      [x \in Subjects |-> IF x \notin found THEN NoSubject
                                          ELSE IF x = s THEN new ELSE row[x]]]
        /\ phase' = [phase EXCEPT ![p] = "sum"]
        /\ left' = [left EXCEPT ![p] = TestTypes]
        /\ total' = [total EXCEPT ![p] = NoTotal]
        /\ UNCHANGED <<row, draft>>
    BY ScoresAssumption DEF UpdateSubject, Begin, Counts
  <1>2. IsRequest(request) /\ request.op = "update" /\ IsTotal(NoTotal)
    BY DEF IsRequest, IsTotal, NoTotal
  <1>10. s \in found => new \in Row
    BY DEF RowsAreRows, OfType, Row
  <1> HIDE DEF new, found, request
  <1>3. Shape'
    BY <1>1 DEF Shape
  <1>4. RowsAreRows'
    <2>1. ASSUME NEW q \in Txs, NEW x \in Subjects
          PROVE  list'[q][x] = NoSubject \/ list'[q][x] \in Row
      BY <1>1, <1>10 DEF Shape, RowsAreRows
    <2> QED
      BY <1>1, <2>1 DEF RowsAreRows
  <1>5. Counts'
    BY <1>1, <1>2 DEF Shape, Counts, Phases
  <1>6. Progress'
    BY <1>1, <1>2 DEF Shape, Progress
  <1>7. LockOrder'
    BY <1>1, <1>2 DEF Shape, Progress, LockOrder
  <1>8. OneWriter'
    BY <1>1 DEF OneWriter
  <1>9. Kept'
    BY <1>1, <1>2 DEF Shape, Kept
  <1> QED
    BY <1>3, <1>4, <1>5, <1>6, <1>7, <1>8, <1>9

LEMMA SumTestTypeInv ==
    ASSUME Inv, NEW p \in Txs, NEW t \in TestTypes, SumTestType(p, t)
    PROVE  Inv'
  <1> DEFINE sums == [total[p] EXCEPT ![Name[t]] = TypeTotal(p, t)]
             listed == {s \in Subjects : list[p][s] # NoSubject}
             rest == left[p] \ {t}
             percent(s) == Percentage(list[p][s].score, sums)
  <1> USE DEF Inv
  <1>1. /\ phase[p] = "sum" /\ UNCHANGED <<row, draft, req, begins, alone>>
        /\ total' = [total EXCEPT ![p] = sums]
    BY DEF SumTestType
  <1>2. IsTotal(sums)
    BY TypeTotalIsNat DEF Counts
  <1> HIDE DEF sums
  <1>3. CASE rest # {}
    <2>1. left' = [left EXCEPT ![p] = rest] /\ UNCHANGED <<phase, list>>
      BY <1>3 DEF SumTestType
    <2>2. Shape' /\ RowsAreRows' /\ OneWriter' /\ Kept'
      BY <1>1, <2>1 DEF Shape, RowsAreRows, OneWriter, Kept
    <2>3. Progress'
      BY <1>1, <2>1 DEF Shape, Progress
    <2>4. LockOrder'
      BY <1>1, <2>1 DEF Shape, LockOrder
    <2>5. Counts'
      BY <1>1, <1>2, <2>1 DEF Shape, Counts
    <2> QED
      BY <2>2, <2>3, <2>4, <2>5
  <1>4. CASE rest = {}
    <2>1. /\ left' = [left EXCEPT ![p] = listed]
          /\ phase' = [phase EXCEPT ![p] = "write"]
          /\ list' = [list EXCEPT ![p] =
                        [s \in Subjects |-> IF s \notin listed THEN NoSubject
                           ELSE [list[p][s] EXCEPT !.pct = percent(s)]]]
      BY <1>4 DEF SumTestType, sums
    <2>2. ASSUME NEW s \in listed PROVE percent(s) \in Nat
      <3>1. list[p][s].score \in Nat
        BY ScoresAssumption DEF RowsAreRows, Row
      <3> QED
        BY <1>2, <3>1, PercentageIsNat
    <2> HIDE DEF percent
    <2>3. Shape' /\ OneWriter' /\ Kept'
      BY <1>1, <2>1 DEF Shape, OneWriter, Kept
    <2>4. ASSUME NEW s \in listed PROVE list'[p][s] \in Row
      <3>1. list[p][s] \in Row
        BY DEF RowsAreRows
      <3>2. list'[p][s] = [list[p][s] EXCEPT !.pct = percent(s)]
        BY <2>1 DEF Shape
      <3> QED
        BY <2>2, <3>1, <3>2 DEF Row
    <2>5. RowsAreRows'
      <3>1. ASSUME NEW q \in Txs, NEW s \in Subjects
            PROVE  list'[q][s] = NoSubject \/ list'[q][s] \in Row
        BY <2>1, <2>4 DEF Shape, RowsAreRows
      <3> QED
        BY <1>1, <3>1 DEF RowsAreRows
    <2>6. Progress'
      <3>1. ASSUME NEW q \in Txs, q # p
            PROVE  left'[q] = left[q] /\ phase'[q] = phase[q] /\ list'[q] = list[q]
        BY <2>1, <3>1 DEF Shape
      <3>2. left'[p] = listed /\ phase'[p] = "write"
        BY <2>1 DEF Shape
      <3> QED
        BY <1>1, <2>4, <3>1, <3>2 DEF Progress
    <2>7. LockOrder'
      BY <1>1, <2>1 DEF Shape, LockOrder
    <2>8. Counts'
      BY <1>1, <1>2, <2>1 DEF Shape, Counts, Phases
    <2> QED
      BY <2>3, <2>5, <2>6, <2>7, <2>8
  <1> QED
    BY <1>3, <1>4

LEMMA WrittenIsRow ==
    ASSUME Inv, NEW p \in Txs, NEW s \in Subjects, phase[p] = "write", s \in left[p],
           View(p)[s] # NoSubject
    PROVE  /\ Written(p, s) \in Row
           /\ req[p].op = "batch" =>
                 /\ Written(p, s).score = View(p)[s].score /\ Written(p, s).type = View(p)[s].type
                 /\ Written(p, s).order = View(p)[s].order
                 /\ Written(p, s).pct = list[p][s].pct
  <1>1. list[p][s] \in Row /\ View(p)[s] \in Row
    BY DEF Inv, Progress, View, RowsAreRows
  <1>2. [View(p)[s] EXCEPT !.pct = list[p][s].pct] \in Row
    BY <1>1 DEF Row
  <1>3. req[p].op = "batch" => req[p].op # "update"
    OBVIOUS
  <1> QED
    BY <1>1, <1>2, <1>3 DEF Written, Row

LEMMA WriteSubjectInv ==
    ASSUME Inv, NEW p \in Txs, NEW s \in Subjects, WriteSubject(p, s)
    PROVE  Inv'
  <1> USE DEF Inv
  <1>1. /\ phase[p] = "write" /\ IsNext(p, s) /\ ~ Locked(p, s) /\ s \in left[p]
        /\ left' = [left EXCEPT ![p] = left[p] \ {s}]
        /\ UNCHANGED <<row, phase, req, list, total, begins, alone>>
    BY DEF WriteSubject, IsNext
  <1>2. Counts'
    BY <1>1 DEF Counts
  <1>3. CASE View(p)[s] = NoSubject
    <2>1. draft' = draft
      BY <1>3 DEF WriteSubject
    <2>2. Shape' /\ RowsAreRows' /\ OneWriter' /\ Kept'
      BY <1>1, <2>1 DEF Shape, RowsAreRows, OneWriter, Kept
    <2>3. Progress' /\ LockOrder'
      BY <1>1, <2>1 DEF Shape, Progress, LockOrder
    <2> QED
      BY <1>2, <2>2, <2>3
  <1>4. CASE View(p)[s] # NoSubject
    <2> DEFINE w == Written(p, s)
    <2>1. draft' = [draft EXCEPT ![p][s] = w]
      BY <1>4 DEF WriteSubject
    <2>2. w \in Row
      BY <1>1, <1>4, WrittenIsRow
    <2>3. req[p].op = "batch" => /\ w.score = View(p)[s].score /\ w.type = View(p)[s].type
                                 /\ w.order = View(p)[s].order
      BY <1>1, <1>4, WrittenIsRow
    <2> HIDE DEF w
    <2>4. /\ draft'[p][s] = w
          /\ \A q \in Txs, x \in Subjects : (q # p \/ x # s) => draft'[q][x] = draft[q][x]
      BY <2>1 DEF Shape
    <2>5. Shape'
      BY <1>1, <2>1 DEF Shape
    <2>6. RowsAreRows'
      BY <1>1, <2>2, <2>4 DEF RowsAreRows
    <2>7. Progress'
      BY <1>1, <2>4 DEF Shape, Progress
    <2>8. LockOrder'
      <3>1. /\ \A x \in left[p] \ {s} : list[p][s].order <= list[p][x].order
            /\ list[p][s] \in Row
        BY <1>1 DEF IsNext, Progress
      <3>2. left'[p] = left[p] \ {s} /\ \A q \in Txs \ {p} : left'[q] = left[q]
        BY <1>1 DEF Shape
      <3> QED
        BY <1>1, <2>4, <3>1, <3>2 DEF LockOrder
    <2>9. OneWriter'
      BY <1>1, <2>4 DEF OneWriter, Locked
    <2>10. Kept'
      BY <1>1, <1>4, <2>3, <2>4 DEF Kept, View
    <2> QED
      BY <1>2, <2>5, <2>6, <2>7, <2>8, <2>9, <2>10
  <1> QED
    BY <1>3, <1>4

LEMMA UpdateSubjectsBatchInv ==
    ASSUME Inv, NEW p \in Txs, NEW t \in TestTypes, NEW batch \in Batches,
           UpdateSubjectsBatch(p, t, batch)
    PROVE  Inv'
  <1> DEFINE scores == batch.scores
             request == [op |-> "batch", type |-> t, scores |-> scores, orders |-> batch.orders]
  <1> USE DEF Inv
  <1>1. /\ phase[p] = "idle" /\ begins' \in 0..MaxBegins
        /\ req' = [req EXCEPT ![p] = request]
        /\ alone' = [alone EXCEPT ![p] = TRUE]
        /\ phase' = [phase EXCEPT ![p] = "check"]
        /\ left' = [left EXCEPT ![p] = DOMAIN scores]
        /\ UNCHANGED <<row, draft, list, total>>
    BY ScoresAssumption DEF UpdateSubjectsBatch, Begin, Counts
  <1>2. IsRequest(request) /\ request.op = "batch" /\ request.scores = scores
    <2>1. PICK S \in SUBSET Subjects : batch \in [scores : [S -> Scores], orders : [S -> Orders]]
      BY ScoresAssumption
    <2> QED
      BY <2>1 DEF IsRequest
  <1> HIDE DEF request, scores
  <1>3. Shape' /\ RowsAreRows' /\ OneWriter'
    BY <1>1 DEF Shape, RowsAreRows, OneWriter
  <1>4. Counts'
    BY <1>1 DEF Shape, Counts, Phases
  <1>5. Progress'
    BY <1>1, <1>2 DEF Shape, Progress
  <1>6. LockOrder'
    BY <1>1, <1>2 DEF Shape, LockOrder
  <1>7. Kept'
    BY <1>1 DEF Shape, Kept, Progress
  <1> QED
    BY <1>3, <1>4, <1>5, <1>6, <1>7

LEMMA CheckSubjectInv ==
    ASSUME Inv, NEW p \in Txs, NEW s \in Subjects, CheckSubject(p, s)
    PROVE  Inv'
  <1> DEFINE r == [type |-> req[p].type, score |-> req[p].scores[s], pct |-> 0,
                   order |-> req[p].orders[s]]
  <1> USE DEF Inv
  <1>1. /\ phase[p] = "check" /\ s \in left[p]
        /\ list' = [list EXCEPT ![p] = [Empty EXCEPT ![s] = r]]
        /\ left' = [left EXCEPT ![p] = left[p] \ {s}]
        /\ phase' = [phase EXCEPT ![p] = "save"]
        /\ UNCHANGED <<row, draft, req, total, begins, alone>>
    BY DEF CheckSubject
  <1>2. r \in Row
    <2>1. IsRequest(req[p]) /\ req[p].op = "batch" /\ s \in DOMAIN req[p].scores
      BY <1>1 DEF Progress, IsRequest
    <2> QED
      BY <2>1 DEF Row, IsRequest
  <1> HIDE DEF r
  <1>3. /\ \A x \in Subjects : list'[p][x] = IF x = s THEN r ELSE NoSubject
        /\ \A q \in Txs \ {p} : list'[q] = list[q]
    BY <1>1 DEF Shape, Empty
  <1>4. Shape'
    BY <1>1 DEF Shape, Empty
  <1>5. RowsAreRows'
    BY <1>1, <1>2, <1>3 DEF RowsAreRows
  <1>6. Counts'
    BY <1>1 DEF Shape, Counts, Phases
  <1>7. Progress'
    BY <1>1, <1>3 DEF Shape, Progress
  <1>8. LockOrder'
    BY <1>1 DEF Shape, Progress, LockOrder
  <1>9. OneWriter' /\ Kept'
    BY <1>1 DEF OneWriter, Kept
  <1> QED
    BY <1>4, <1>5, <1>6, <1>7, <1>8, <1>9

LEMMA SaveSubjectInv ==
    ASSUME Inv, NEW p \in Txs, NEW s \in Subjects, SaveSubject(p, s)
    PROVE  Inv'
  <1> USE DEF Inv
  <1>1. /\ phase[p] = "save" /\ list[p][s] # NoSubject /\ ~ Locked(p, s)
        /\ draft' = [draft EXCEPT ![p][s] = list[p][s]]
        /\ phase' = [phase EXCEPT ![p] = "check"]
        /\ list' = [list EXCEPT ![p] = Empty]
        /\ UNCHANGED <<row, req, left, total, begins, alone>>
    BY DEF SaveSubject
  <1>2. s \in DOMAIN req[p].scores /\ list[p][s] \in Row
    BY <1>1 DEF Progress, RowsAreRows
  <1>3. /\ draft'[p][s] = list[p][s]
        /\ \A q \in Txs, x \in Subjects : (q # p \/ x # s) => draft'[q][x] = draft[q][x]
    BY <1>1 DEF Shape
  <1>4. /\ \A x \in Subjects : list'[p][x] = NoSubject
        /\ \A q \in Txs \ {p} : list'[q] = list[q]
    BY <1>1 DEF Shape, Empty
  <1>5. Shape'
    BY <1>1 DEF Shape, Empty
  <1>6. RowsAreRows'
    BY <1>1, <1>2, <1>3, <1>4 DEF RowsAreRows
  <1>7. Counts'
    BY <1>1 DEF Shape, Counts, Phases
  <1>8. Progress'
    BY <1>1, <1>3, <1>4 DEF Shape, Progress
  <1>9. LockOrder'
    BY <1>1, <1>3 DEF Shape, Progress, LockOrder
  <1>10. OneWriter'
    BY <1>1, <1>3 DEF OneWriter, Locked
  <1>11. Kept'
    BY <1>1, <1>2, <1>3 DEF Kept
  <1> QED
    BY <1>5, <1>6, <1>7, <1>8, <1>9, <1>10, <1>11

LEMMA ListSubjectsInv ==
    ASSUME Inv, NEW p \in Txs, ListSubjects(p)
    PROVE  Inv'
  <1> DEFINE found == OfType(View(p), req[p].type)
  <1> USE DEF Inv
  <1>1. /\ phase[p] = "check"
        /\ list' = [list EXCEPT ![p] =
                      [s \in Subjects |-> IF s \in found THEN View(p)[s] ELSE NoSubject]]
        /\ phase' = [phase EXCEPT ![p] = IF found = {} THEN "write" ELSE "sum"]
        /\ left' = [left EXCEPT ![p] = IF found = {} THEN {} ELSE TestTypes]
        /\ total' = [total EXCEPT ![p] = NoTotal]
        /\ UNCHANGED <<row, draft, req, begins, alone>>
    BY DEF ListSubjects
  <1>2. \A s \in found : s \in Subjects /\ View(p)[s] \in Row
    BY DEF OfType, View, RowsAreRows
  <1>3. IsTotal(NoTotal)
    BY DEF IsTotal, NoTotal
  <1> HIDE DEF found
  <1>4. Shape'
    BY <1>1 DEF Shape
  <1>5. RowsAreRows'
    <2>1. ASSUME NEW q \in Txs, NEW s \in Subjects
          PROVE  list'[q][s] = NoSubject \/ list'[q][s] \in Row
      BY <1>1, <1>2 DEF Shape, RowsAreRows
    <2> QED
      BY <1>1, <2>1 DEF RowsAreRows
  <1>6. Counts'
    BY <1>1, <1>3 DEF Shape, Counts, Phases
  <1>7. Progress'
    BY <1>1 DEF Shape, Progress
  <1>8. LockOrder'
    BY <1>1 DEF Shape, Progress, LockOrder
  <1>9. OneWriter' /\ Kept'
    BY <1>1 DEF OneWriter, Kept
  <1> QED
    BY <1>4, <1>5, <1>6, <1>7, <1>8, <1>9

\* Commit and Rollback end the transaction; Commit makes its rows the committed ones.
LEMMA FinishInv ==
    ASSUME Inv, NEW p \in Txs, Finish(p), row' = row \/ row' = View(p),
           alone' = alone \/ alone' = Others(p)
    PROVE  Inv'
  <1> USE DEF Inv
  <1>1. /\ phase' = [phase EXCEPT ![p] = "idle"]
        /\ draft' = [draft EXCEPT ![p] = NoDraft]
        /\ list' = [list EXCEPT ![p] = Empty]
        /\ left' = [left EXCEPT ![p] = {}]
        /\ req' = [req EXCEPT ![p] = NoRequest]
        /\ total' = [total EXCEPT ![p] = NoTotal]
        /\ UNCHANGED begins
    BY DEF Finish
  <1>2. /\ \A x \in Subjects : draft'[p][x] = Clean /\ list'[p][x] = NoSubject
        /\ phase'[p] = "idle" /\ req'[p].op = "none" /\ left'[p] = {}
    BY <1>1 DEF Shape, NoDraft, Empty, NoRequest
  <1>3. \A q \in Txs \ {p} :
           /\ draft'[q] = draft[q] /\ list'[q] = list[q] /\ phase'[q] = phase[q]
           /\ left'[q] = left[q] /\ req'[q] = req[q]
    BY <1>1 DEF Shape
  <1>4. \A s \in Subjects : row'[s] \in {row[s], draft[p][s]}
                            /\ (draft[p][s] = Clean => row'[s] = row[s])
    BY DEF View
  <1>5. Shape'
    BY <1>1 DEF Shape, View, NoDraft, Empty, Others
  <1>6. RowsAreRows'
    BY <1>2, <1>3, <1>4 DEF RowsAreRows
  <1>7. Counts'
    <2>1. IsTotal(NoTotal)
      BY DEF IsTotal, NoTotal
    <2>2. \A q \in Txs : alone'[q] \in BOOLEAN
      BY DEF Counts, Others
    <2> QED
      BY <1>1, <2>1, <2>2 DEF Shape, Counts, Phases
  <1>8. Progress'
    BY <1>2, <1>3 DEF Progress
  <1>9. LockOrder'
    BY <1>2, <1>3 DEF LockOrder
  <1>10. OneWriter'
    BY <1>2, <1>3 DEF OneWriter
  <1>11. Kept'
    BY <1>2, <1>3, <1>4 DEF Kept, OneWriter
  <1> QED
    BY <1>5, <1>6, <1>7, <1>8, <1>9, <1>10, <1>11

\* CreateSubject and DeleteSubject write a row nobody has locked.
LEMMA SingleInv ==
    ASSUME Inv, NEW p \in Txs, NEW s \in Subjects, NEW r, r = NoSubject \/ r \in Row,
           phase[p] = "idle", ~ Locked(p, s), row' = [row EXCEPT ![s] = r],
           begins < MaxBegins, begins' = begins + 1, alone' = Others(p),
           UNCHANGED <<draft, phase, req, list, left, total>>
    PROVE  Inv'
  <1> USE DEF Inv
  <1>1. \A q \in Txs : draft[q][s] = Clean
    BY DEF Locked, Progress
  <1>2. row'[s] = r /\ \A x \in Subjects \ {s} : row'[x] = row[x]
    BY DEF Shape
  <1>3. Shape'
    BY DEF Shape, Others
  <1>4. RowsAreRows'
    BY <1>2 DEF RowsAreRows
  <1>5. Counts'
    <2>1. \A q \in Txs : alone'[q] \in BOOLEAN
      BY DEF Others
    <2> QED
      BY <2>1, ScoresAssumption DEF Counts
  <1>6. Progress'
    BY DEF Progress
  <1>7. LockOrder' /\ OneWriter'
    BY DEF LockOrder, OneWriter
  <1>8. Kept'
    BY <1>1, <1>2 DEF Kept
  <1> QED
    BY <1>3, <1>4, <1>5, <1>6, <1>7, <1>8

LEMMA NextInv == Inv /\ [Next]_vars => Inv'
  <1> SUFFICES ASSUME Inv, [Next]_vars PROVE Inv'
    OBVIOUS
  <1>1. CASE UNCHANGED vars
    BY <1>1 DEF vars, Inv, Shape, RowsAreRows, Counts, Progress, LockOrder, OneWriter, Kept
  <1>2. ASSUME NEW p \in Txs, NEW s \in Subjects, NEW t \in TestTypes, NEW n \in Scores,
               NEW o \in Orders, CreateSubject(p, s, t, n, o)
        PROVE  Inv'
    <2>1. [type |-> t, score |-> n, pct |-> 0, order |-> o] \in Row
      BY DEF Row
    <2> QED
      BY <1>2, <2>1, SingleInv DEF CreateSubject
  <1>3. ASSUME NEW p \in Txs, NEW s \in Subjects, DeleteSubject(p, s)
        PROVE  Inv'
    BY <1>3, SingleInv DEF DeleteSubject
  <1>4. ASSUME NEW p \in Txs, Step(p)
        PROVE  Inv'
    <2>1. CASE Commit(p)
      BY <2>1, FinishInv DEF Commit
    <2> QED
      BY <1>4, <2>1, SumTestTypeInv, WriteSubjectInv, CheckSubjectInv, SaveSubjectInv,
         ListSubjectsInv DEF Step
  <1>5. ASSUME NEW p \in Txs, Rollback(p)
        PROVE  Inv'
    BY <1>5, FinishInv DEF Rollback
  <1> QED
    BY <1>1, <1>2, <1>3, <1>4, <1>5, UpdateSubjectInv, UpdateSubjectsBatchInv DEF Next

-----------------------------------------------------------------------------
(* The variables are functions.                                            *)

AreFunctions ==
    /\ row = [s \in Subjects |-> row[s]]
    /\ draft = [p \in Txs |-> [s \in Subjects |-> draft[p][s]]]
    /\ list = [p \in Txs |-> [s \in Subjects |-> list[p][s]]]
    /\ phase = [p \in Txs |-> phase[p]]
    /\ total = [p \in Txs |-> total[p]]
    /\ left = [p \in Txs |-> left[p]]
    /\ alone = [p \in Txs |-> alone[p]]

LEMMA InitFunctions == Init => AreFunctions
  BY ScoresAssumption DEF Init, AreFunctions, NoDraft, Empty

LEMMA BeginFunctions ==
    ASSUME AreFunctions, NEW p \in Txs,
           \/ \E s \in Subjects, t \in TestTypes, n \in Scores : UpdateSubject(p, s, t, n)
           \/ \E t \in TestTypes, batch \in Batches : UpdateSubjectsBatch(p, t, batch)
    PROVE  AreFunctions'
  <1>1. ASSUME NEW s \in Subjects, NEW t \in TestTypes, NEW n \in Scores,
               UpdateSubject(p, s, t, n)
        PROVE  AreFunctions'
    <2> DEFINE found == OfType(row, t)
               l == [x \in Subjects |-> IF x \notin found THEN NoSubject
                       ELSE IF x = s THEN [type |-> t, score |-> n, pct |-> 0, order |-> row[s].order]
                       ELSE row[x]]
    <2>1. /\ list' = [list EXCEPT ![p] = l]
          /\ phase' = [phase EXCEPT ![p] = "sum"]
          /\ left' = [left EXCEPT ![p] = TestTypes]
          /\ total' = [total EXCEPT ![p] = NoTotal]
          /\ alone' = [alone EXCEPT ![p] = TRUE]
          /\ UNCHANGED <<row, draft>>
      BY <1>1 DEF UpdateSubject, Begin
    <2>2. l = [x \in Subjects |-> l[x]]
      OBVIOUS
    <2> HIDE DEF l
    <2> QED
      BY <2>1, <2>2 DEF AreFunctions
  <1>2. ASSUME NEW t \in TestTypes, NEW batch \in Batches, UpdateSubjectsBatch(p, t, batch)
        PROVE  AreFunctions'
    <2>1. /\ phase' = [phase EXCEPT ![p] = "check"]
          /\ left' = [left EXCEPT ![p] = DOMAIN batch.scores]
          /\ alone' = [alone EXCEPT ![p] = TRUE]
          /\ UNCHANGED <<row, draft, list, total>>
      BY <1>2 DEF UpdateSubjectsBatch, Begin
    <2> QED
      BY <2>1 DEF AreFunctions
  <1> QED
    BY <1>1, <1>2

LEMMA StepFunctions ==
    ASSUME AreFunctions, NEW p \in Txs, Step(p)
    PROVE  AreFunctions'
  <1>1. ASSUME NEW t \in TestTypes, SumTestType(p, t)
        PROVE  AreFunctions'
    <2> DEFINE sums == [total[p] EXCEPT ![Name[t]] = TypeTotal(p, t)]
               listed == {s \in Subjects : list[p][s] # NoSubject}
               l == [s \in Subjects |-> IF s \notin listed THEN NoSubject
                       ELSE [list[p][s] EXCEPT !.pct = Percentage(list[p][s].score, sums)]]
    <2>1. /\ total' = [total EXCEPT ![p] = sums]
          /\ list' \in {list, [list EXCEPT ![p] = l]}
          /\ phase' \in {phase, [phase EXCEPT ![p] = "write"]}
          /\ left' \in {[left EXCEPT ![p] = left[p] \ {t}], [left EXCEPT ![p] = listed]}
          /\ UNCHANGED <<row, draft, alone>>
      BY <1>1 DEF SumTestType
    <2>2. l = [x \in Subjects |-> l[x]]
      OBVIOUS
    <2> HIDE DEF l, sums, listed
    <2>3. list' = [q \in Txs |-> [s \in Subjects |-> list'[q][s]]]
      <3>1. CASE list' = list
        BY <3>1 DEF AreFunctions
      <3>2. CASE list' = [list EXCEPT ![p] = l]
        BY <2>2, <3>2 DEF AreFunctions
      <3> QED
        BY <2>1, <3>1, <3>2
    <2>4. phase' = [q \in Txs |-> phase'[q]] /\ left' = [q \in Txs |-> left'[q]]
      BY <2>1 DEF AreFunctions
    <2>5. UNCHANGED <<row, draft, alone>> /\ total' = [q \in Txs |-> total'[q]]
      BY <2>1 DEF AreFunctions
    <2> QED
      BY <2>3, <2>4, <2>5 DEF AreFunctions
  <1>2. ASSUME NEW s \in Subjects, WriteSubject(p, s)
        PROVE  AreFunctions'
    <2> DEFINE w == Written(p, s)
    <2>1. /\ draft' \in {draft, [draft EXCEPT ![p][s] = w]}
          /\ left' = [left EXCEPT ![p] = left[p] \ {s}]
          /\ UNCHANGED <<row, phase, list, total, alone>>
      BY <1>2 DEF WriteSubject
    <2> HIDE DEF w
    <2>2. draft' = [q \in Txs |-> [x \in Subjects |-> draft'[q][x]]]
      <3>1. CASE draft' = draft
        BY <3>1 DEF AreFunctions
      <3>2. CASE draft' = [draft EXCEPT ![p][s] = w]
        <4> DEFINE one == [draft[p] EXCEPT ![s] = w]
        <4>1. draft[p] = [x \in Subjects |-> draft[p][x]]
          BY DEF AreFunctions
        <4>2. one = [x \in Subjects |-> one[x]]
          BY <4>1
        <4>3. draft' = [draft EXCEPT ![p] = one]
          BY <3>2
        <4> HIDE DEF one
        <4> QED
          BY <4>2, <4>3 DEF AreFunctions
      <3> QED
        BY <2>1, <3>1, <3>2
    <2> QED
      BY <2>1, <2>2 DEF AreFunctions
  <1>3. ASSUME NEW s \in Subjects, CheckSubject(p, s)
        PROVE  AreFunctions'
    <2> DEFINE l == [Empty EXCEPT ![s] =
                       [type |-> req[p].type, score |-> req[p].scores[s], pct |-> 0,
                        order |-> req[p].orders[s]]]
    <2>1. /\ list' = [list EXCEPT ![p] = l]
          /\ left' = [left EXCEPT ![p] = left[p] \ {s}]
          /\ phase' = [phase EXCEPT ![p] = "save"]
          /\ UNCHANGED <<row, draft, total, alone>>
      BY <1>3 DEF CheckSubject
    <2>2. l = [x \in Subjects |-> l[x]]
      BY DEF Empty
    <2> HIDE DEF l
    <2> QED
      BY <2>1, <2>2 DEF AreFunctions
  <1>4. ASSUME NEW s \in Subjects, SaveSubject(p, s)
        PROVE  AreFunctions'
    BY <1>4, ZenonT(60) DEF SaveSubject, AreFunctions, Empty
  <1>5. ASSUME ListSubjects(p)
        PROVE  AreFunctions'
    <2> DEFINE found == OfType(View(p), req[p].type)
               l == [s \in Subjects |-> IF s \in found THEN View(p)[s] ELSE NoSubject]
    <2>1. /\ list' = [list EXCEPT ![p] = l]
          /\ phase' = [phase EXCEPT ![p] = IF found = {} THEN "write" ELSE "sum"]
          /\ left' = [left EXCEPT ![p] = IF found = {} THEN {} ELSE TestTypes]
          /\ total' = [total EXCEPT ![p] = NoTotal]
          /\ UNCHANGED <<row, draft, alone>>
      BY <1>5 DEF ListSubjects
    <2>2. l = [x \in Subjects |-> l[x]]
      OBVIOUS
    <2> HIDE DEF l, found
    <2> QED
      BY <2>1, <2>2 DEF AreFunctions
  <1>6. ASSUME Commit(p)
        PROVE  AreFunctions'
    BY <1>6 DEF Commit, Finish, View, Others, AreFunctions, NoDraft, Empty
  <1> QED
    BY <1>1, <1>2, <1>3, <1>4, <1>5, <1>6 DEF Step

LEMMA NextFunctions == AreFunctions /\ [Next]_vars => AreFunctions'
  <1> SUFFICES ASSUME AreFunctions, [Next]_vars PROVE AreFunctions'
    OBVIOUS
  <1>1. CASE UNCHANGED vars
    BY <1>1 DEF vars, AreFunctions
  <1>2. ASSUME NEW p \in Txs, NEW s \in Subjects, NEW t \in TestTypes, NEW n \in Scores,
               NEW o \in Orders, CreateSubject(p, s, t, n, o)
        PROVE  AreFunctions'
    BY <1>2 DEF CreateSubject, AreFunctions, Others
  <1>3. ASSUME NEW p \in Txs, NEW s \in Subjects, DeleteSubject(p, s)
        PROVE  AreFunctions'
    BY <1>3 DEF DeleteSubject, AreFunctions, Others
  <1>4. ASSUME NEW p \in Txs, Rollback(p)
        PROVE  AreFunctions'
    BY <1>4, ZenonT(60) DEF Rollback, Finish, AreFunctions, NoDraft, Empty
  <1> QED
    BY <1>1, <1>2, <1>3, <1>4, BeginFunctions, StepFunctions DEF Next

LEMMA Invariant == Spec => []Inv
  BY InitInv, NextInv, PTL DEF Spec

-----------------------------------------------------------------------------
(* A batch that nobody disturbs.                                           *)

\* The totals a name may stand for when the test types in summed have been summed up.
TotalsUpTo(rows, summed, n) ==
    LET named == {t \in summed : Name[t] = n}
    IN  IF named = {} THEN {0} ELSE {ScoreSum(rows, t) : t \in named}

\* The totals so far are those of the rows, and the list holds the rows of the test type.
Summing(rows, type, l, rest, sums) ==
    /\ rest # {}
    /\ \A s \in Subjects : l[s] = IF s \in OfType(rows, type) THEN rows[s] ELSE NoSubject
    /\ \A n \in {"common", "secondary"} : sums[n] \in TotalsUpTo(rows, TestTypes \ rest, n)

\* The list holds the percentages of the rows, and so do the rows already written.
Writing(rows, type, l, rest) ==
    \E c \in TotalsOf(rows, "common"), d \in TotalsOf(rows, "secondary") :
        \A s \in OfType(rows, type) :
            /\ l[s].pct = Percentage(rows[s].score, [common |-> c, secondary |-> d])
            /\ s \notin rest => rows[s].pct = l[s].pct

FreshAt(p) == req[p].op = "batch" /\ alone[p] =>
    /\ phase[p] = "sum" => Summing(View(p), req[p].type, list[p], left[p], total[p])
    /\ phase[p] = "write" => Writing(View(p), req[p].type, list[p], left[p])

Fresh == \A p \in Txs : FreshAt(p)

\* rows differ at most in their percentages.
SameScores(rows, others) == \A s \in Subjects :
    /\ rows[s] = NoSubject <=> others[s] = NoSubject
    /\ rows[s] # NoSubject => others[s].type = rows[s].type /\ others[s].score = rows[s].score

LEMMA SumsStay ==
    ASSUME NEW rows, NEW others, SameScores(rows, others)
    PROVE  /\ \A t : OfType(rows, t) = OfType(others, t) /\ ScoreSum(rows, t) = ScoreSum(others, t)
           /\ \A n : TotalsOf(rows, n) = TotalsOf(others, n)
  <1>1. ASSUME NEW t
        PROVE  OfType(rows, t) = OfType(others, t) /\ ScoreSum(rows, t) = ScoreSum(others, t)
    <2>1. OfType(rows, t) = OfType(others, t)
      BY DEF OfType, SameScores
    <2>2. [s \in OfType(rows, t) |-> rows[s].score] = [s \in OfType(others, t) |-> others[s].score]
      BY <2>1 DEF OfType, SameScores
    <2> QED
      BY <2>1, <2>2 DEF ScoreSum
  <1>2. ASSUME NEW n
        PROVE  TotalsOf(rows, n) = TotalsOf(others, n)
    BY <1>1 DEF TotalsOf
  <1> QED
    BY <1>1, <1>2

\* A step of another transaction: if q is still alone after it, nothing was committed.
LEMMA FreshElsewhere ==
    ASSUME NEW q \in Txs, FreshAt(q),
           draft'[q] = draft[q], list'[q] = list[q], left'[q] = left[q],
           total'[q] = total[q], req'[q] = req[q], phase'[q] = phase[q],
           alone'[q] => alone[q] /\ row' = row
    PROVE  FreshAt(q)'
  <1>1. alone'[q] => View(q)' = View(q)
    BY DEF View
  <1> QED
    BY <1>1 DEF FreshAt

LEMMA FreshStays ==
    ASSUME Fresh, NEW p \in Txs, FreshAt(p)',
           \A q \in Txs \ {p} :
              /\ draft'[q] = draft[q] /\ list'[q] = list[q] /\ left'[q] = left[q]
              /\ total'[q] = total[q] /\ req'[q] = req[q] /\ phase'[q] = phase[q]
              /\ alone'[q] => alone[q] /\ row' = row
    PROVE  Fresh'
  <1>1. \A q \in Txs \ {p} : FreshAt(q)'
    BY FreshElsewhere DEF Fresh
  <1> QED
    BY <1>1 DEF Fresh

LEMMA SomeTotal == \A rows, n : TotalsOf(rows, n) # {}
  BY DEF TotalsOf

LEMMA ListSubjectsFresh ==
    ASSUME Inv, Fresh, NEW p \in Txs, ListSubjects(p)
    PROVE  Fresh'
  <1> DEFINE found == OfType(View(p), req[p].type)
             l == [s \in Subjects |-> IF s \in found THEN View(p)[s] ELSE NoSubject]
  <1>1. /\ list' = [list EXCEPT ![p] = l]
        /\ phase' = [phase EXCEPT ![p] = IF found = {} THEN "write" ELSE "sum"]
        /\ left' = [left EXCEPT ![p] = IF found = {} THEN {} ELSE TestTypes]
        /\ total' = [total EXCEPT ![p] = NoTotal]
        /\ phase[p] = "check"
        /\ UNCHANGED <<row, draft, req, begins, alone>>
    BY DEF ListSubjects
  <1>2. View(p)' = View(p)
    BY <1>1 DEF View
  <1>3. /\ list'[p] = l /\ total'[p] = NoTotal
        /\ phase'[p] = IF found = {} THEN "write" ELSE "sum"
        /\ left'[p] = IF found = {} THEN {} ELSE TestTypes
    BY <1>1 DEF Inv, Shape
  <1>4. CASE found = {}
    <2>1. Writing(View(p), req[p].type, l, {})
      BY <1>4, SomeTotal DEF Writing
    <2> QED
      BY <1>1, <1>2, <1>3, <1>4, <2>1, FreshStays DEF FreshAt, Inv, Shape
  <1>5. CASE found # {}
    <2>1. TestTypes # {}
      BY <1>1 DEF Inv, Progress, IsRequest
    <2>2. \A n \in {"common", "secondary"} : NoTotal[n] \in TotalsUpTo(View(p), TestTypes \ TestTypes, n)
      BY DEF NoTotal, TotalsUpTo
    <2>3. Summing(View(p), req[p].type, l, TestTypes, NoTotal)
      BY <2>1, <2>2 DEF Summing
    <2> HIDE DEF l
    <2> QED
      BY <1>1, <1>2, <1>3, <1>5, <2>3, FreshStays DEF FreshAt, Inv, Shape
  <1> QED
    BY <1>4, <1>5

LEMMA SumTestTypeFresh ==
    ASSUME Inv, Fresh, NEW p \in Txs, NEW t \in TestTypes, SumTestType(p, t)
    PROVE  Fresh'
  <1> DEFINE sums == [total[p] EXCEPT ![Name[t]] = TypeTotal(p, t)]
             listed == {s \in Subjects : list[p][s] # NoSubject}
             rest == left[p] \ {t}
             rows == View(p)
             type == req[p].type
             l == [s \in Subjects |-> IF s \notin listed THEN NoSubject
                     ELSE [list[p][s] EXCEPT !.pct = Percentage(list[p][s].score, sums)]]
  <1>1. /\ phase[p] = "sum" /\ t \in left[p] /\ UNCHANGED <<row, draft, req, begins, alone>>
        /\ total' = [total EXCEPT ![p] = sums]
    BY DEF SumTestType
  <1>2. View(p)' = rows /\ req'[p] = req[p] /\ alone'[p] = alone[p]
    BY <1>1 DEF View
  <1>3. IsTotal(sums) /\ IsTotal(total[p]) /\ TypeTotal(p, t) = ScoreSum(rows, t)
    BY TypeTotalIsNat DEF Inv, Counts, TypeTotal
  <1>4. ASSUME req[p].op = "batch", alone[p]
        PROVE  /\ Summing(rows, type, list[p], left[p], total[p])
               /\ \A n \in {"common", "secondary"} : sums[n] \in TotalsUpTo(rows, TestTypes \ rest, n)
    <2>1. Summing(rows, type, list[p], left[p], total[p])
      BY <1>1, <1>4 DEF Fresh, FreshAt
    <2>2. ASSUME NEW n \in {"common", "secondary"}
          PROVE  sums[n] \in TotalsUpTo(rows, TestTypes \ rest, n)
      <3>1. total[p][n] \in TotalsUpTo(rows, TestTypes \ left[p], n)
        BY <2>1 DEF Summing
      <3>2. t \in TestTypes \ rest /\ TestTypes \ rest \subseteq (TestTypes \ left[p]) \cup {t}
        OBVIOUS
      <3>3. sums[n] = IF Name[t] = n THEN ScoreSum(rows, t) ELSE total[p][n]
        BY <1>3 DEF IsTotal
      <3> HIDE DEF sums
      <3>4. CASE Name[t] = n
        BY <3>2, <3>3, <3>4 DEF TotalsUpTo
      <3>5. CASE Name[t] # n
        <4>1. {x \in TestTypes \ rest : Name[x] = n} = {x \in TestTypes \ left[p] : Name[x] = n}
          BY <1>1, <3>5
        <4> QED
          BY <3>1, <3>3, <3>5, <4>1 DEF TotalsUpTo
      <3> QED
        BY <3>4, <3>5
    <2> QED
      BY <2>1, <2>2
  <1> HIDE DEF sums
  <1>5. CASE rest # {}
    <2>1. left' = [left EXCEPT ![p] = rest] /\ UNCHANGED <<phase, list>>
      BY <1>5 DEF SumTestType
    <2>2. left'[p] = rest /\ total'[p] = sums /\ list'[p] = list[p] /\ phase'[p] = "sum"
      BY <1>1, <2>1 DEF Inv, Shape
    <2>3. req[p].op = "batch" /\ alone[p] => Summing(rows, type, list[p], rest, sums)
      BY <1>4, <1>5 DEF Summing
    <2> HIDE DEF rest
    <2>4. FreshAt(p)'
      BY <1>2, <2>2, <2>3 DEF FreshAt
    <2> QED
      BY <1>1, <2>1, <2>4, FreshStays DEF Inv, Shape
  <1>6. CASE rest = {}
    <2>1. /\ left' = [left EXCEPT ![p] = listed]
          /\ phase' = [phase EXCEPT ![p] = "write"]
          /\ list' = [list EXCEPT ![p] = l]
      BY <1>6 DEF SumTestType, sums
    <2>2. left'[p] = listed /\ phase'[p] = "write" /\ list'[p] = l
      BY <2>1 DEF Inv, Shape
    <2>3. ASSUME req[p].op = "batch", alone[p]
          PROVE  Writing(rows, type, l, listed)
      <3> DEFINE c == sums.common
                 d == sums.secondary
      <3>1. c \in TotalsOf(rows, "common") /\ d \in TotalsOf(rows, "secondary")
        <4>1. TestTypes \ rest = TestTypes
          BY <1>6
        <4>2. \A n : TotalsUpTo(rows, TestTypes, n) = TotalsOf(rows, n)
          BY DEF TotalsUpTo, TotalsOf
        <4> QED
          BY <1>4, <2>3, <4>1, <4>2
      <3>2. sums = [common |-> c, secondary |-> d]
        BY <1>3 DEF IsTotal
      <3>3. ASSUME NEW s \in OfType(rows, type)
            PROVE  s \in listed /\ l[s].pct = Percentage(rows[s].score, [common |-> c, secondary |-> d])
        <4>1. s \in Subjects /\ rows[s] # NoSubject /\ list[p][s] = rows[s]
          BY <1>4, <2>3, <3>3 DEF Summing, OfType
        <4>2. list[p][s] \in Row /\ s \in listed
          BY <4>1 DEF Inv, RowsAreRows
        <4>3. l[s] = [list[p][s] EXCEPT !.pct = Percentage(list[p][s].score, sums)]
          BY <4>2
        <4>4. l[s].pct = Percentage(list[p][s].score, sums)
          BY <4>2, <4>3 DEF Row
        <4> QED
          BY <3>2, <4>1, <4>2, <4>4
      <3> HIDE DEF c, d, l
      <3> QED
        BY <3>1, <3>3 DEF Writing
    <2> HIDE DEF l, listed
    <2>4. FreshAt(p)'
      BY <1>2, <2>2, <2>3 DEF FreshAt
    <2> QED
      BY <1>1, <2>1, <2>4, FreshStays DEF Inv, Shape
  <1> QED
    BY <1>5, <1>6

\* What a batch writes changes no score and no test type, and so none of the totals.
LEMMA WriteSubjectFresh ==
    ASSUME Inv, Fresh, NEW p \in Txs, NEW s \in Subjects, WriteSubject(p, s)
    PROVE  Fresh'
  <1> DEFINE rows == View(p)
             type == req[p].type
             w == Written(p, s)
             after == View(p)'
             rest == left[p] \ {s}
  <1>1. /\ phase[p] = "write" /\ s \in left[p]
        /\ left' = [left EXCEPT ![p] = rest]
        /\ draft' = IF rows[s] = NoSubject THEN draft ELSE [draft EXCEPT ![p][s] = w]
        /\ UNCHANGED <<row, phase, req, list, total, begins, alone>>
    BY DEF WriteSubject, IsNext
  <1>2. \A q \in Txs \ {p} : draft'[q] = draft[q]
    BY <1>1 DEF Inv, Shape
  <1>3. /\ \A x \in Subjects \ {s} : after[x] = rows[x]
        /\ after[s] = IF rows[s] = NoSubject THEN NoSubject ELSE w
    <2>1. CASE rows[s] = NoSubject
      <3>1. after = rows
        BY <1>1, <2>1 DEF View
      <3> QED
        BY <2>1, <3>1
    <2>2. CASE rows[s] # NoSubject
      <3>1. w \in Row /\ w # Clean
        BY <1>1, <2>2, WrittenIsRow, ScoresAssumption
      <3> HIDE DEF w
      <3>2. /\ draft'[p][s] = w /\ \A x \in Subjects \ {s} : draft'[p][x] = draft[p][x]
        BY <1>1, <2>2 DEF Inv, Shape
      <3> QED
        BY <1>1, <2>2, <3>1, <3>2 DEF View
    <2> QED
      BY <2>1, <2>2
  <1>4. ASSUME req[p].op = "batch", alone[p]
        PROVE  Writing(after, type, list[p], rest)
    <2>1. PICK c \in TotalsOf(rows, "common"), d \in TotalsOf(rows, "secondary") :
              \A x \in OfType(rows, type) :
                 /\ list[p][x].pct = Percentage(rows[x].score, [common |-> c, secondary |-> d])
                 /\ x \notin left[p] => rows[x].pct = list[p][x].pct
      BY <1>1, <1>4 DEF Fresh, FreshAt, Writing
    <2>2. rows[s] # NoSubject => /\ w \in Row /\ w.score = rows[s].score /\ w.type = rows[s].type
                                 /\ w.pct = list[p][s].pct
      BY <1>1, <1>4, WrittenIsRow
    <2> HIDE DEF w, after, rows
    <2>3. SameScores(rows, after)
      BY <1>3, <2>2, ScoresAssumption DEF SameScores
    <2>4. /\ OfType(after, type) = OfType(rows, type)
          /\ TotalsOf(after, "common") = TotalsOf(rows, "common")
          /\ TotalsOf(after, "secondary") = TotalsOf(rows, "secondary")
      BY <2>3, SumsStay
    <2>5. ASSUME NEW x \in OfType(rows, type)
          PROVE  /\ list[p][x].pct = Percentage(after[x].score, [common |-> c, secondary |-> d])
                 /\ x \notin rest => after[x].pct = list[p][x].pct
      <3>1. x \in Subjects /\ rows[x] # NoSubject /\ after[x].score = rows[x].score
        BY <2>3 DEF OfType, SameScores
      <3> QED
        BY <1>3, <2>1, <2>2, <3>1
    <2> QED
      BY <2>4, <2>5 DEF Writing
  <1>5. left'[p] = rest
    BY <1>1 DEF Inv, Shape
  <1> HIDE DEF rest, w
  <1>6. FreshAt(p)'
    BY <1>1, <1>4, <1>5 DEF FreshAt
  <1> QED
    BY <1>1, <1>2, <1>6, FreshStays DEF Inv, Shape

LEMMA FinishFresh ==
    ASSUME Inv, Fresh, NEW p \in Txs, Finish(p),
           (row' = row /\ alone' = alone) \/ alone' = Others(p)
    PROVE  Fresh'
  <1>1. req'[p].op = "none"
    BY DEF Finish, NoRequest, Inv, Shape
  <1>2. FreshAt(p)'
    BY <1>1 DEF FreshAt
  <1>3. \A q \in Txs \ {p} : alone'[q] => alone[q] /\ row' = row
    BY DEF Others
  <1> QED
    BY <1>2, <1>3, FreshStays DEF Finish, Inv, Shape

LEMMA NextFresh == Inv /\ Fresh /\ [Next]_vars => Fresh'
  <1> SUFFICES ASSUME Inv, Fresh, [Next]_vars PROVE Fresh'
    OBVIOUS
  <1>1. CASE UNCHANGED vars
    BY <1>1, FreshElsewhere DEF vars, Fresh
  <1>2. ASSUME NEW p \in Txs, phase[p] = "idle", alone' = Others(p),
               UNCHANGED <<draft, phase, req, list, left, total>>
        PROVE  Fresh'
    <2>1. FreshAt(p)'
      BY <1>2 DEF FreshAt
    <2>2. \A q \in Txs \ {p} : ~ alone'[q]
      BY <1>2 DEF Others
    <2> QED
      BY <1>2, <2>1, <2>2, FreshStays
  <1>3. ASSUME NEW p \in Txs, NEW s \in Subjects, NEW t \in TestTypes, NEW n \in Scores,
               UpdateSubject(p, s, t, n)
        PROVE  Fresh'
    <2>1. req'[p].op = "update"
      BY <1>3 DEF UpdateSubject, Begin, Inv, Shape
    <2>2. FreshAt(p)'
      BY <2>1 DEF FreshAt
    <2> QED
      BY <1>3, <2>2, FreshStays DEF UpdateSubject, Begin, Inv, Shape
  <1>4. ASSUME NEW p \in Txs, NEW t \in TestTypes, NEW batch \in Batches,
               UpdateSubjectsBatch(p, t, batch)
        PROVE  Fresh'
    <2>1. phase'[p] = "check"
      BY <1>4 DEF UpdateSubjectsBatch, Inv, Shape
    <2>2. FreshAt(p)'
      BY <2>1 DEF FreshAt
    <2> QED
      BY <1>4, <2>2, FreshStays DEF UpdateSubjectsBatch, Begin, Inv, Shape
  <1>5. ASSUME NEW p \in Txs, NEW s \in Subjects, CheckSubject(p, s) \/ SaveSubject(p, s)
        PROVE  Fresh'
    <2>1. phase'[p] \in {"check", "save"}
      BY <1>5 DEF CheckSubject, SaveSubject, Inv, Shape
    <2>2. FreshAt(p)'
      BY <2>1 DEF FreshAt
    <2>3. CASE CheckSubject(p, s)
      BY <2>2, <2>3, FreshStays DEF CheckSubject, Inv, Shape
    <2>4. CASE SaveSubject(p, s)
      BY <2>2, <2>4, FreshStays DEF SaveSubject, Inv, Shape
    <2> QED
      BY <1>5, <2>3, <2>4
  <1>6. ASSUME NEW p \in Txs, Commit(p) \/ Rollback(p)
        PROVE  Fresh'
    BY <1>6, FinishFresh DEF Commit, Rollback
  <1>7. ASSUME NEW p \in Txs, NEW s \in Subjects, DeleteSubject(p, s)
        PROVE  Fresh'
    BY <1>2, <1>7 DEF DeleteSubject
  <1>8. ASSUME NEW p \in Txs, NEW s \in Subjects, NEW t \in TestTypes, NEW n \in Scores,
               NEW o \in Orders, CreateSubject(p, s, t, n, o)
        PROVE  Fresh'
    BY <1>2, <1>8 DEF CreateSubject
  <1> QED
    BY <1>1, <1>3, <1>4, <1>5, <1>6, <1>7, <1>8, SumTestTypeFresh, WriteSubjectFresh,
       ListSubjectsFresh DEF Next, Step

LEMMA FreshAlways == Spec => []Fresh
  <1>1. Init => Fresh
    BY DEF Init, Fresh, FreshAt, NoRequest
  <1> QED
    BY <1>1, NextFresh, Invariant, PTL DEF Spec

-----------------------------------------------------------------------------
(* A batch has what it was asked for, or has it still to do.               *)

Requested(p, s, r) ==
    /\ r.type = req[p].type
    /\ r.score = req[p].scores[s] /\ r.order = req[p].orders[s]

Named(p) == IF req[p].op = "batch" THEN DOMAIN req[p].scores ELSE {}

WholeAt(p) ==
    /\ \A s \in Named(p) :
          /\ draft[p][s] # Clean => Requested(p, s, draft[p][s])
          /\ phase[p] = "save" /\ list[p][s] # NoSubject => Requested(p, s, list[p][s])
          /\ draft[p][s] = Clean => /\ phase[p] \in {"check", "save"}
                                   /\ \/ s \in left[p]
                                      \/ phase[p] = "save" /\ list[p][s] # NoSubject
    /\ phase[p] = "save" =>
          \A s, x \in Subjects : list[p][s] # NoSubject /\ list[p][x] # NoSubject => s = x

Whole == \A p \in Txs : WholeAt(p)

LEMMA WholeStays ==
    ASSUME Whole, NEW p \in Txs, WholeAt(p)',
           \A q \in Txs \ {p} :
              /\ draft'[q] = draft[q] /\ list'[q] = list[q] /\ left'[q] = left[q]
              /\ req'[q] = req[q] /\ phase'[q] = phase[q]
    PROVE  Whole'
  <1>1. ASSUME NEW q \in Txs, q # p
        PROVE  WholeAt(q)'
    BY <1>1 DEF Whole, WholeAt, Named, Requested
  <1> QED
    BY <1>1 DEF Whole

LEMMA CheckSubjectWhole ==
    ASSUME Inv, Whole, NEW p \in Txs, NEW s \in Subjects, CheckSubject(p, s)
    PROVE  Whole'
  <1> DEFINE r == [type |-> req[p].type, score |-> req[p].scores[s], pct |-> 0,
                   order |-> req[p].orders[s]]
  <1>1. /\ phase[p] = "check" /\ s \in left[p]
        /\ list' = [list EXCEPT ![p] = [Empty EXCEPT ![s] = r]]
        /\ left' = [left EXCEPT ![p] = left[p] \ {s}]
        /\ phase' = [phase EXCEPT ![p] = "save"]
        /\ UNCHANGED <<row, draft, req, total, begins, alone>>
    BY DEF CheckSubject
  <1>2. Requested(p, s, r) /\ IsRequest(req[p])
    BY <1>1 DEF Requested, Inv, Progress
  <1>3. r # NoSubject
    <2>1. req[p].op = "batch" /\ s \in DOMAIN req[p].scores
      BY <1>1, <1>2 DEF Inv, Progress, IsRequest
    <2>2. r \in Row
      BY <1>2, <2>1 DEF Row, IsRequest
    <2> QED
      BY <2>2, ScoresAssumption
  <1> HIDE DEF r
  <1>4. /\ \A x \in Subjects : list'[p][x] = IF x = s THEN r ELSE NoSubject
        /\ left'[p] = left[p] \ {s} /\ phase'[p] = "save"
    BY <1>1 DEF Inv, Shape, Empty
  <1>5. Named(p) \subseteq Subjects
    BY <1>2 DEF Named, IsRequest
  <1>6. WholeAt(p)'
    <2>1. Named(p)' = Named(p) /\ draft'[p] = draft[p] /\ req'[p] = req[p]
      BY <1>1 DEF Named
    <2>2. ASSUME NEW x \in Named(p)
          PROVE  /\ draft[p][x] # Clean => Requested(p, x, draft[p][x])
                 /\ draft[p][x] = Clean => x \in left[p]
      BY <1>1 DEF Whole, WholeAt
    <2>3. \A x \in Named(p) : list'[p][x] # NoSubject => Requested(p, x, list'[p][x])
      BY <1>2, <1>4, <1>5
    <2> QED
      BY <1>3, <1>4, <1>5, <2>1, <2>2, <2>3 DEF WholeAt, Requested
  <1> QED
    BY <1>1, <1>6, WholeStays DEF Inv, Shape

LEMMA SaveSubjectWhole ==
    ASSUME Inv, Whole, NEW p \in Txs, NEW s \in Subjects, SaveSubject(p, s)
    PROVE  Whole'
  <1>1. /\ phase[p] = "save" /\ list[p][s] # NoSubject
        /\ draft' = [draft EXCEPT ![p][s] = list[p][s]]
        /\ phase' = [phase EXCEPT ![p] = "check"]
        /\ list' = [list EXCEPT ![p] = Empty]
        /\ UNCHANGED <<row, req, left, total, begins, alone>>
    BY DEF SaveSubject
  <1>2. /\ draft'[p][s] = list[p][s]
        /\ \A x \in Subjects \ {s} : draft'[p][x] = draft[p][x]
        /\ \A q \in Txs \ {p} : draft'[q] = draft[q]
        /\ phase'[p] = "check"
    BY <1>1 DEF Inv, Shape
  <1>3. list[p][s] # Clean
    BY <1>1, ScoresAssumption DEF Inv, RowsAreRows
  <1>4. Named(p) \subseteq Subjects
    BY <1>1 DEF Inv, Progress, IsRequest, Named
  <1>5. WholeAt(p)'
    BY <1>1, <1>2, <1>3, <1>4 DEF Whole, WholeAt, Named, Requested
  <1> QED
    BY <1>1, <1>2, <1>5, WholeStays DEF Inv, Shape

\* The recomputation finds the batch's own rows in its view, and changes their percentages.
LEMMA WriteSubjectWhole ==
    ASSUME Inv, Whole, NEW p \in Txs, NEW s \in Subjects, WriteSubject(p, s)
    PROVE  Whole'
  <1> DEFINE w == Written(p, s)
  <1>1. /\ phase[p] = "write" /\ s \in left[p]
        /\ draft' = IF View(p)[s] = NoSubject THEN draft ELSE [draft EXCEPT ![p][s] = w]
        /\ left' = [left EXCEPT ![p] = left[p] \ {s}]
        /\ UNCHANGED <<row, phase, req, list, total, begins, alone>>
    BY DEF WriteSubject, IsNext
  <1>2. Named(p) \subseteq Subjects
    BY <1>1 DEF Inv, Progress, IsRequest, Named
  <1>3. CASE View(p)[s] = NoSubject
    <2>1. WholeAt(p)'
      BY <1>1, <1>3 DEF Whole, WholeAt, Named, Requested
    <2> QED
      BY <1>1, <1>3, <2>1, WholeStays DEF Inv, Shape
  <1>4. CASE View(p)[s] # NoSubject
    <2>1. /\ w \in Row
          /\ req[p].op = "batch" => /\ w.score = View(p)[s].score /\ w.type = View(p)[s].type
                                    /\ w.order = View(p)[s].order
      BY <1>1, <1>4, WrittenIsRow
    <2>2. w # Clean
      BY <2>1, ScoresAssumption
    <2> HIDE DEF w
    <2>3. /\ draft'[p][s] = w
          /\ \A x \in Subjects \ {s} : draft'[p][x] = draft[p][x]
          /\ \A q \in Txs \ {p} : draft'[q] = draft[q]
      BY <1>1, <1>4 DEF Inv, Shape
    <2>4. s \in Named(p) => Requested(p, s, w)
      <3>1. s \in Named(p) => draft[p][s] # Clean /\ Requested(p, s, draft[p][s])
        BY <1>1 DEF Whole, WholeAt
      <3>2. draft[p][s] # Clean => View(p)[s] = draft[p][s]
        BY DEF View
      <3> QED
        BY <2>1, <3>1, <3>2 DEF Requested, Named
    <2>5. WholeAt(p)'
      BY <1>1, <1>2, <2>2, <2>3, <2>4 DEF Whole, WholeAt, Named, Requested
    <2> QED
      BY <1>1, <2>3, <2>5, WholeStays DEF Inv, Shape
  <1> QED
    BY <1>3, <1>4

LEMMA BeginWhole ==
    ASSUME Inv, Whole, NEW p \in Txs,
           \/ \E s \in Subjects, t \in TestTypes, n \in Scores : UpdateSubject(p, s, t, n)
           \/ \E t \in TestTypes, batch \in Batches : UpdateSubjectsBatch(p, t, batch)
    PROVE  Whole'
  <1>1. ASSUME NEW s \in Subjects, NEW t \in TestTypes, NEW n \in Scores,
               UpdateSubject(p, s, t, n)
        PROVE  Whole'
    <2>1. req'[p].op = "update" /\ phase'[p] = "sum"
      BY <1>1 DEF UpdateSubject, Begin, Inv, Shape
    <2>2. WholeAt(p)'
      BY <2>1 DEF WholeAt, Named
    <2> QED
      BY <1>1, <2>2, WholeStays DEF UpdateSubject, Begin, Inv, Shape
  <1>2. ASSUME NEW t \in TestTypes, NEW batch \in Batches, UpdateSubjectsBatch(p, t, batch)
        PROVE  Whole'
    <2>1. /\ req'[p].op = "batch" /\ req'[p].scores = batch.scores
          /\ phase'[p] = "check" /\ left'[p] = DOMAIN batch.scores
          /\ phase[p] = "idle" /\ UNCHANGED <<draft, list>>
      BY <1>2 DEF UpdateSubjectsBatch, Begin, Inv, Shape
    <2>2. DOMAIN batch.scores \subseteq Subjects
      BY ScoresAssumption
    <2>3. Named(p)' = DOMAIN batch.scores
      BY <2>1 DEF Named
    <2>4. \A s \in Subjects : draft'[p][s] = Clean
      BY <2>1 DEF Inv, Progress
    <2>5. WholeAt(p)'
      BY <2>1, <2>2, <2>3, <2>4 DEF WholeAt
    <2> QED
      BY <1>2, <2>5, WholeStays DEF UpdateSubjectsBatch, Begin, Inv, Shape
  <1> QED
    BY <1>1, <1>2

\* What takes no part in a batch's own rows: sums, lists and ends of transactions.
LEMMA OthersWhole ==
    ASSUME Inv, Whole, NEW p \in Txs,
           \/ \E t \in TestTypes : SumTestType(p, t)
           \/ ListSubjects(p) \/ Commit(p) \/ Rollback(p)
    PROVE  Whole'
  <1>1. ASSUME NEW t \in TestTypes, SumTestType(p, t)
        PROVE  Whole'
    <2>1. /\ phase[p] = "sum" /\ UNCHANGED <<draft, req>>
          /\ \A q \in Txs \ {p} : /\ list'[q] = list[q] /\ left'[q] = left[q]
                                    /\ phase'[q] = phase[q]
          /\ phase'[p] \in {"sum", "write"}
      BY <1>1 DEF SumTestType, Inv, Shape
    <2>2. WholeAt(p)'
      BY <2>1 DEF Whole, WholeAt, Named, Requested
    <2> QED
      BY <2>1, <2>2, WholeStays
  <1>2. ASSUME ListSubjects(p)
        PROVE  Whole'
    <2>1. /\ phase[p] = "check" /\ left[p] = {} /\ UNCHANGED <<draft, req>>
          /\ \A q \in Txs \ {p} : /\ list'[q] = list[q] /\ left'[q] = left[q]
                                    /\ phase'[q] = phase[q]
          /\ phase'[p] \in {"sum", "write"}
      BY <1>2 DEF ListSubjects, Inv, Shape
    <2>2. WholeAt(p)'
      BY <2>1 DEF Whole, WholeAt, Named, Requested
    <2> QED
      BY <2>1, <2>2, WholeStays
  <1>3. ASSUME Finish(p)
        PROVE  Whole'
    <2>1. req'[p].op = "none" /\ phase'[p] = "idle"
      BY <1>3 DEF Finish, NoRequest, Inv, Shape
    <2>2. WholeAt(p)'
      BY <2>1 DEF WholeAt, Named
    <2> QED
      BY <1>3, <2>2, WholeStays DEF Finish, Inv, Shape
  <1> QED
    BY <1>1, <1>2, <1>3 DEF Commit, Rollback

LEMMA NextWhole == Inv /\ Whole /\ [Next]_vars => Whole'
  <1> SUFFICES ASSUME Inv, Whole, [Next]_vars PROVE Whole'
    OBVIOUS
  <1>1. CASE UNCHANGED <<draft, phase, req, list, left>>
    BY <1>1 DEF Whole, WholeAt, Named, Requested
  <1>2. ASSUME NEW p \in Txs, NEW s \in Subjects,
               \/ DeleteSubject(p, s)
               \/ \E t \in TestTypes, n \in Scores, o \in Orders : CreateSubject(p, s, t, n, o)
        PROVE  Whole'
    BY <1>1, <1>2 DEF CreateSubject, DeleteSubject
  <1> QED
    BY <1>1, <1>2, CheckSubjectWhole, SaveSubjectWhole, WriteSubjectWhole, BeginWhole,
       OthersWhole DEF Next, Step, vars

LEMMA WholeAlways == Spec => []Whole
  <1>1. Init => Whole
    BY DEF Init, Whole, WholeAt, Named, NoRequest
  <1> QED
    BY <1>1, NextWhole, Invariant, PTL DEF Spec

-----------------------------------------------------------------------------
(* The theorems.                                                           *)

\* Rows, drafts, totals and requests have their types in every interleaving: the percentages
\* that are written, quotients of sums, are natural numbers.
THEOREM TypeCorrect == Spec => []TypeOK
  <1>1. Inv /\ AreFunctions => TypeOK
    <2> SUFFICES ASSUME Inv, AreFunctions PROVE TypeOK
      OBVIOUS
    <2>1. row \in [Subjects -> Row \cup {NoSubject}]
      BY DEF Inv, RowsAreRows, AreFunctions
    <2>2. draft \in [Txs -> [Subjects -> Row \cup {Clean}]]
      BY DEF Inv, RowsAreRows, AreFunctions
    <2>3. list \in [Txs -> [Subjects -> Row \cup {NoSubject}]]
      BY DEF Inv, RowsAreRows, AreFunctions
    <2>4. /\ phase \in [Txs -> Phases] /\ total \in [Txs -> [common : Nat, secondary : Nat]]
          /\ begins \in 0..MaxBegins
      BY DEF Inv, Counts, AreFunctions, IsTotal
    <2>5. alone \in [Txs -> BOOLEAN]
      BY DEF Inv, Counts, AreFunctions
    <2>6. left \in [Txs -> SUBSET (Subjects \cup TestTypes)]
      <3>1. ASSUME NEW p \in Txs PROVE left[p] \subseteq Subjects \cup TestTypes
        BY DEF Inv, Counts, Phases, Progress, IsRequest
      <3> QED
        BY <3>1 DEF Inv, AreFunctions
    <2>7. \A p \in Txs : phase[p] # "idle" => req[p].op \in {"update", "batch"}
      BY DEF Inv, Progress, IsRequest
    <2> QED
      BY <2>1, <2>2, <2>3, <2>4, <2>5, <2>6, <2>7 DEF TypeOK
  <1>2. Spec => []AreFunctions
    BY InitFunctions, NextFunctions, PTL DEF Spec
  <1> QED
    BY <1>1, <1>2, Invariant, PTL

\* UpdateSubject locks rows in the display order it has read, so two concurrent calls wait
\* for each other only over subjects of equal order, or that a commit renumbered between the
\* two reads, whatever else runs.
THEOREM UpdatesCorrect == Spec => []UpdatesWaitInOrder
  <1>1. Inv => UpdatesWaitInOrder
    <2> SUFFICES ASSUME Inv, NEW p \in Txs, NEW q \in Txs,
                        NEW s \in Subjects, NEW x \in Subjects,
                        req[p].op = "update", req[q].op = "update",
                        WaitsFor(p, q, s), WaitsFor(q, p, x),
                        \A y \in {s, x} : list[p][y].order = list[q][y].order
                 PROVE  s # x /\ list[p][s].order = list[p][x].order
      BY DEF UpdatesWaitInOrder
    <2>1. p # q /\ draft[q][s] # Clean /\ draft[p][x] # Clean
      BY DEF WaitsFor
    <2>2. s \in left[p] /\ x \in left[q]
      BY DEF WaitsFor, IsNext
    <2>3. list[p][x] \in Row /\ list[q][s] \in Row
      BY <2>1 DEF Inv, LockOrder
    <2>4. list[p][x].order <= list[p][s].order /\ list[q][s].order <= list[q][x].order
      BY <2>1, <2>2 DEF Inv, LockOrder
    <2>5. list[p][x].order \in Int /\ list[p][s].order \in Int
      BY <2>3, ScoresAssumption DEF Row
    <2>6. list[p][s].order = list[p][x].order
      BY <2>4, <2>5
    <2>7. s # x
      BY <2>1 DEF Inv, OneWriter
    <2> QED
      BY <2>6, <2>7
  <1> QED
    BY <1>1, Invariant, PTL

\* Whatever is committed while a batch runs, the batch changes score, test type and order of
\* the subjects it names only.
THEOREM BatchCorrect == Spec => BatchKeepsOthers
  <1> DEFINE Keeps ==
         \A p \in Txs : Committing(p, "batch") =>
            \A s \in Subjects \ DOMAIN req[p].scores :
                \/ row'[s] = row[s]
                \/ /\ row[s] # NoSubject
                   /\ row'[s].score = row[s].score /\ row'[s].type = row[s].type
                   /\ row'[s].order = row[s].order
  <1>1. Inv => Keeps
    <2> SUFFICES ASSUME Inv, NEW p \in Txs, Committing(p, "batch"),
                        NEW s \in Subjects \ DOMAIN req[p].scores
                 PROVE  \/ row'[s] = row[s]
                        \/ /\ row[s] # NoSubject
                           /\ row'[s].score = row[s].score /\ row'[s].type = row[s].type
                           /\ row'[s].order = row[s].order
      OBVIOUS
    <2>1. row'[s] = IF draft[p][s] # Clean THEN draft[p][s] ELSE row[s]
      BY DEF Committing, View
    <2> QED
      BY <2>1 DEF Committing, Inv, Kept
  <1>2. Inv /\ [Next]_vars => [Keeps]_vars
    BY <1>1
  <1> QED
    BY <1>2, Invariant, PTL DEF Spec, BatchKeepsOthers

\* A batch that commits has stored every subject it names as the request has it: one that is
\* not found undoes the saves before it, one that is deleted in between is inserted again, and
\* the locks keep what was saved until the commit.
THEOREM BatchWhole == Spec => BatchIsWhole
  <1> DEFINE Stored ==
         \A p \in Txs : Committing(p, "batch") =>
            \A s \in DOMAIN req[p].scores :
                /\ row'[s] # NoSubject
                /\ row'[s].type = req[p].type
                /\ row'[s].score = req[p].scores[s] /\ row'[s].order = req[p].orders[s]
  <1>1. Inv /\ Whole => Stored
    <2> SUFFICES ASSUME Inv, Whole, NEW p \in Txs, Committing(p, "batch"),
                        NEW s \in DOMAIN req[p].scores
                 PROVE  /\ row'[s] # NoSubject
                        /\ row'[s].type = req[p].type
                        /\ row'[s].score = req[p].scores[s] /\ row'[s].order = req[p].orders[s]
      OBVIOUS
    <2>1. s \in Subjects /\ s \in Named(p)
      BY DEF Committing, Inv, Progress, IsRequest, Named
    <2>2. draft[p][s] # Clean /\ Requested(p, s, draft[p][s])
      BY <2>1 DEF Committing, Whole, WholeAt
    <2>3. draft[p][s] \in Row /\ row'[s] = draft[p][s]
      BY <2>1, <2>2 DEF Committing, View, Inv, RowsAreRows
    <2> QED
      BY <2>2, <2>3, ScoresAssumption DEF Requested
  <1>2. Inv /\ Whole /\ [Next]_vars => [Stored]_vars
    BY <1>1
  <1> QED
    BY <1>2, WholeAlways, Invariant, PTL DEF Spec, BatchIsWhole

\* A batch during which nothing else was committed leaves its test type with the percentages of
\* the new scores, whatever the other transactions have written and not committed: it reads its
\* own writes, and no order of the queries and updates matters.
THEOREM BatchExact == Spec => BatchIsExact
  <1> DEFINE Leaves ==
         \A p \in Txs : Committing(p, "batch") /\ alone[p] => Exact(row', req[p].type)
  <1>1. Fresh => Leaves
    <2> SUFFICES ASSUME Fresh, NEW p \in Txs, Committing(p, "batch"), alone[p]
                 PROVE  Exact(row', req[p].type)
      OBVIOUS
    <2>1. /\ row' = View(p) /\ left[p] = {}
          /\ Writing(View(p), req[p].type, list[p], left[p])
      BY DEF Committing, Fresh, FreshAt
    <2> QED
      BY <2>1 DEF Writing, Exact
  <1>2. Fresh /\ [Next]_vars => [Leaves]_vars
    BY <1>1
  <1> QED
    BY <1>2, FreshAlways, PTL DEF Spec, BatchIsExact
=============================================================================
