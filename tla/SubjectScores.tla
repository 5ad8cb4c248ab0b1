---------------------------- MODULE SubjectScores ----------------------------
(***************************************************************************)
(* The writers of subjects in back/internal/repositories/repository.go:    *)
(* UpdateSubject and UpdateSubjectsBatch, which also recompute the         *)
(* percentage each subject has of the points of its admission schedule,    *)
(* CreateSubject and DeleteSubject, which do not.                          *)
(*                                                                         *)
(* The transactions run at the database's default level, READ COMMITTED:   *)
(* a statement sees what was committed when it began and the transaction's *)
(* own writes, and a row written stays locked until the transaction ends.  *)
(* All the test types belong to one schedule.  Names, versions and the     *)
(* error messages are left out.  The database may list subjects of equal   *)
(* display order in any order.                                             *)
(***************************************************************************)
EXTENDS Integers, FiniteSets, FiniteSetsExt

CONSTANTS
    Txs,         \* concurrent requests, each in a transaction of its own
    Subjects,    \* the subjects that may exist
    TestTypes,   \* the test types of the schedule
    Name,        \* Name[t]: "common" or "secondary"
    Scores,      \* the scores a request may give
    Orders,      \* the display orders a request may give
    Batches,     \* the batches that may be requested: a score and an order for some subjects
    InitialRows, \* what the table may hold at first
    NoSubject,   \* marks a subject that does not exist
    Clean,       \* marks a row a transaction has not written
    MaxBegins    \* bound on the number of requests

Row == [type : TestTypes, score : Scores, pct : Nat, order : Orders]

ASSUME ScoresAssumption ==
    /\ IsFiniteSet(Subjects)
    /\ Orders \subseteq Int
    /\ Name \in [TestTypes -> {"common", "secondary"}]
    /\ Scores \subseteq Nat
    /\ \A batch \in Batches : \E S \in SUBSET Subjects :
          batch \in [scores : [S -> Scores], orders : [S -> Orders]]
    /\ InitialRows \subseteq [Subjects -> Row \cup {NoSubject}]
    /\ NoSubject \notin Row /\ Clean \notin Row
    /\ MaxBegins \in Nat

VARIABLES
    row,      \* row[s]: the committed row of subject s
    draft,    \* draft[p][s]: the row p has written and not committed
    phase,    \* where p is in its function
    req,      \* what p was asked: the operation, its test type, the scores and orders it sets
    list,     \* the subjects p holds in memory
    total,    \* the totals p has summed up so far
    left,     \* the test types p has to sum up, or the subjects it has to write, yet
    begins,   \* number of requests so far
    alone     \* history: nothing else was committed since p's request began

vars == <<row, draft, phase, req, list, total, left, begins, alone>>

NoRequest == [op |-> "none"]
Empty == [s \in Subjects |-> NoSubject]
NoDraft == [s \in Subjects |-> Clean]
NoTotal == [common |-> 0, secondary |-> 0]

Init ==
    /\ row \in InitialRows
    /\ draft = [p \in Txs |-> NoDraft]
    /\ phase = [p \in Txs |-> "idle"]
    /\ req = [p \in Txs |-> NoRequest]
    /\ list = [p \in Txs |-> Empty]
    /\ total = [p \in Txs |-> NoTotal]
    /\ left = [p \in Txs |-> {}]
    /\ begins = 0
    /\ alone = [p \in Txs |-> TRUE]

-----------------------------------------------------------------------------
(* The database, as a transaction sees it.                                 *)

View(p) == [s \in Subjects |-> IF draft[p][s] # Clean THEN draft[p][s] ELSE row[s]]

OfType(rows, t) == {s \in Subjects : rows[s] # NoSubject /\ rows[s].type = t}

ScoreSum(rows, t) == SumFunction([s \in OfType(rows, t) |-> rows[s].score])

\* A statement that writes s waits while another transaction has s locked.
Locked(p, s) == \E q \in Txs \ {p} : draft[q][s] # Clean

\* updatePercentages: in hundredths of a percent, rounded.
Percentage(score, sums) ==
    LET denominator == sums.common + sums.secondary
    IN IF denominator > 0 THEN (20000 * score + denominator) \div (2 * denominator) ELSE 0

Others(p) == [q \in Txs |-> alone[q] /\ q = p]

-----------------------------------------------------------------------------
(* UpdateSubject and the recomputation both functions share.               *)

Begin(p, request) ==
    /\ phase[p] = "idle"
    /\ begins < MaxBegins
    /\ begins' = begins + 1
    /\ req' = [req EXCEPT ![p] = request]
    /\ alone' = [alone EXCEPT ![p] = TRUE]

\* getExistingSubjects and updateSubjectInList: the list holds the subjects of the test
\* type as they were read, and the request's subject as
\* requested but for its order.
UpdateSubject(p, s, t, n) ==
    LET found == OfType(row, t)
        new == [type |-> t, score |-> n, pct |-> 0, order |-> row[s].order]
    IN
    /\ Begin(p, [op |-> "update", type |-> t, scores |-> [x \in {s} |-> n]])
    /\ found # {}
    /\ list' = [list EXCEPT ![p] =
                  [x \in Subjects |-> IF x \notin found THEN NoSubject
                                      ELSE IF x = s THEN new ELSE row[x]]]
    /\ phase' = [phase EXCEPT ![p] = "sum"]
    /\ left' = [left EXCEPT ![p] = TestTypes]
    /\ total' = [total EXCEPT ![p] = NoTotal]
    /\ UNCHANGED <<row, draft>>

\* Faulty variant of TypeTotal: the query runs outside the transaction.
TypeTotalOutside(p, t) == ScoreSum(row, t)

TypeTotal(p, t) == ScoreSum(View(p), t)

\* getRelevantTestTypeScores: one query per test type; of two test types with the same
\* name the last one counts.  The query sees the database, not the list in memory.
\* After the last one updatePercentages works on the list.
SumTestType(p, t) ==
    LET sums == [total[p] EXCEPT ![Name[t]] = TypeTotal(p, t)]
        listed == {s \in Subjects : list[p][s] # NoSubject}
        rest == left[p] \ {t}
    IN
    /\ phase[p] = "sum"
    /\ t \in left[p]
    /\ total' = [total EXCEPT ![p] = sums]
    /\ IF rest # {}
       THEN /\ left' = [left EXCEPT ![p] = rest]
            /\ UNCHANGED <<phase, list>>
       ELSE /\ left' = [left EXCEPT ![p] = listed]
            /\ phase' = [phase EXCEPT ![p] = "write"]
            /\ list' = [list EXCEPT ![p] =
                          [s \in Subjects |-> IF s \notin listed THEN NoSubject
                             ELSE [list[p][s] EXCEPT !.pct = Percentage(list[p][s].score, sums)]]]
    /\ UNCHANGED <<row, draft, req, begins, alone>>

\* Faulty variants of Written: the whole copy in memory, for a batch as well; the
\* percentage is left out of the columns.
WritesCopy(p, s) == list[p][s]
WritesNoPercentage(p, s) ==
    [type |-> list[p][s].type, score |-> list[p][s].score, order |-> list[p][s].order]

\* What the UPDATE of s makes of its row: saveSubjectWithScores writes every column of
\* the list's copy, recalculateScores the percentage only.
Written(p, s) ==
    IF req[p].op = "update" THEN list[p][s] ELSE [View(p)[s] EXCEPT !.pct = list[p][s].pct]

\* The display orders are those of the moment the list was read.
IsNext(p, s) == s \in left[p] /\ \A x \in left[p] : list[p][s].order <= list[p][x].order

\* Faulty variant of WriteSubject: in any order.
WritesInAnyOrder(p, s) ==
    /\ phase[p] = "write"
    /\ s \in left[p]
    /\ ~ Locked(p, s)
    /\ draft' = IF View(p)[s] = NoSubject THEN draft
                ELSE [draft EXCEPT ![p][s] = Written(p, s)]
    /\ left' = [left EXCEPT ![p] = left[p] \ {s}]
    /\ UNCHANGED <<row, phase, req, list, total, begins, alone>>

\* One UPDATE, in display order.  It matches nothing when the subject is gone.
WriteSubject(p, s) ==
    /\ phase[p] = "write"
    /\ IsNext(p, s)
    /\ ~ Locked(p, s)
    /\ draft' = IF View(p)[s] = NoSubject THEN draft
                ELSE [draft EXCEPT ![p][s] = Written(p, s)]
    /\ left' = [left EXCEPT ![p] = left[p] \ {s}]
    /\ UNCHANGED <<row, phase, req, list, total, begins, alone>>

-----------------------------------------------------------------------------
(* UpdateSubjectsBatch.                                                    *)

UpdateSubjectsBatch(p, t, batch) ==
    /\ Begin(p, [op |-> "batch", type |-> t, scores |-> batch.scores, orders |-> batch.orders])
    /\ phase' = [phase EXCEPT ![p] = "check"]
    /\ left' = [left EXCEPT ![p] = DOMAIN batch.scores]
    /\ UNCHANGED <<row, draft, list, total>>

\* Faulty variant of CheckSubject: a subject that is not found is skipped.
SkipsMissing(p, s) ==
    /\ phase[p] = "check"
    /\ s \in left[p]
    /\ left' = [left EXCEPT ![p] = left[p] \ {s}]
    /\ IF View(p)[s] = NoSubject THEN UNCHANGED <<list, phase>>
       ELSE /\ list' = [list EXCEPT ![p] = [Empty EXCEPT ![s] =
                  [type |-> req[p].type, score |-> req[p].scores[s], pct |-> 0,
                   order |-> req[p].orders[s]]]]
            /\ phase' = [phase EXCEPT ![p] = "save"]
    /\ UNCHANGED <<row, draft, req, total, begins, alone>>

\* processBatch looks a subject up, in the order of the request; without it the
\* transaction is rolled back.
CheckSubject(p, s) ==
    /\ phase[p] = "check"
    /\ s \in left[p]
    /\ View(p)[s] # NoSubject
    /\ list' = [list EXCEPT ![p] = [Empty EXCEPT ![s] =
                  [type |-> req[p].type, score |-> req[p].scores[s], pct |-> 0,
                   order |-> req[p].orders[s]]]]
    /\ left' = [left EXCEPT ![p] = left[p] \ {s}]
    /\ phase' = [phase EXCEPT ![p] = "save"]
    /\ UNCHANGED <<row, draft, req, total, begins, alone>>

\* Save of the request's subject with every column, under the batch's test type; a subject
\* that has been deleted since it was looked up is inserted again.
SaveSubject(p, s) ==
    /\ phase[p] = "save"
    /\ list[p][s] # NoSubject
    /\ ~ Locked(p, s)
    /\ draft' = [draft EXCEPT ![p][s] = list[p][s]]
    /\ phase' = [phase EXCEPT ![p] = "check"]
    /\ list' = [list EXCEPT ![p] = Empty]
    /\ UNCHANGED <<row, req, total, left, begins, alone>>

\* recalculateScores reads the subjects of the test type; it is done if there are none.
ListSubjects(p) ==
    LET found == OfType(View(p), req[p].type) IN
    /\ phase[p] = "check"
    /\ left[p] = {}
    /\ list' = [list EXCEPT ![p] =
                  [s \in Subjects |-> IF s \in found THEN View(p)[s] ELSE NoSubject]]
    /\ phase' = [phase EXCEPT ![p] = IF found = {} THEN "write" ELSE "sum"]
    /\ left' = [left EXCEPT ![p] = IF found = {} THEN {} ELSE TestTypes]
    /\ total' = [total EXCEPT ![p] = NoTotal]
    /\ UNCHANGED <<row, draft, req, begins, alone>>

-----------------------------------------------------------------------------
Finish(p) ==
    /\ phase' = [phase EXCEPT ![p] = "idle"]
    /\ draft' = [draft EXCEPT ![p] = NoDraft]
    /\ list' = [list EXCEPT ![p] = Empty]
    /\ total' = [total EXCEPT ![p] = NoTotal]
    /\ left' = [left EXCEPT ![p] = {}]
    /\ req' = [req EXCEPT ![p] = NoRequest]
    /\ UNCHANGED begins

Commit(p) ==
    /\ phase[p] = "write"
    /\ left[p] = {}
    /\ row' = View(p)
    /\ alone' = Others(p)
    /\ Finish(p)

\* A statement fails, the connection is lost, or the database has chosen p to resolve a
\* deadlock.
Rollback(p) ==
    /\ phase[p] # "idle"
    /\ Finish(p)
    /\ UNCHANGED <<row, alone>>

\* A single statement; the percentages stay as they are.
CreateSubject(p, s, t, n, o) ==
    /\ phase[p] = "idle" /\ begins < MaxBegins
    /\ row[s] = NoSubject /\ ~ Locked(p, s)
    /\ row' = [row EXCEPT ![s] = [type |-> t, score |-> n, pct |-> 0, order |-> o]]
    /\ begins' = begins + 1
    /\ alone' = Others(p)
    /\ UNCHANGED <<draft, phase, req, list, total, left>>

DeleteSubject(p, s) ==
    /\ phase[p] = "idle" /\ begins < MaxBegins
    /\ row[s] # NoSubject /\ ~ Locked(p, s)
    /\ row' = [row EXCEPT ![s] = NoSubject]
    /\ begins' = begins + 1
    /\ alone' = Others(p)
    /\ UNCHANGED <<draft, phase, req, list, total, left>>

Step(p) ==
    \/ \E t \in TestTypes : SumTestType(p, t)
    \/ \E s \in Subjects : WriteSubject(p, s) \/ CheckSubject(p, s) \/ SaveSubject(p, s)
    \/ ListSubjects(p)
    \/ Commit(p)

Next == \E p \in Txs :
    \/ \E s \in Subjects, t \in TestTypes, n \in Scores :
         UpdateSubject(p, s, t, n) \/ \E o \in Orders : CreateSubject(p, s, t, n, o)
    \/ \E s \in Subjects : DeleteSubject(p, s)
    \/ \E t \in TestTypes, batch \in Batches : UpdateSubjectsBatch(p, t, batch)
    \/ Step(p)
    \/ Rollback(p)

Spec == Init /\ [][Next]_vars
-----------------------------------------------------------------------------
(* Properties.                                                             *)

Phases == {"idle", "sum", "write", "check", "save"}

TypeOK ==
    /\ row \in [Subjects -> Row \cup {NoSubject}]
    /\ draft \in [Txs -> [Subjects -> Row \cup {Clean}]]
    /\ phase \in [Txs -> Phases]
    /\ list \in [Txs -> [Subjects -> Row \cup {NoSubject}]]
    /\ total \in [Txs -> [common : Nat, secondary : Nat]]
    /\ left \in [Txs -> SUBSET (Subjects \cup TestTypes)]
    /\ begins \in 0..MaxBegins
    /\ alone \in [Txs -> BOOLEAN]
    /\ \A p \in Txs : phase[p] # "idle" => req[p].op \in {"update", "batch"}

Committing(p, op) ==
    /\ req[p].op = op /\ phase[p] = "write" /\ left[p] = {}
    /\ phase'[p] = "idle" /\ row' = View(p)

\* The totals a name may stand for: the sum of one of its test types, or nothing.
TotalsOf(rows, n) ==
    LET named == {t \in TestTypes : Name[t] = n}
    IN  IF named = {} THEN {0} ELSE {ScoreSum(rows, t) : t \in named}

\* The percentages of the test type's subjects are those of the scores in rows.
Exact(rows, t) ==
    \E c \in TotalsOf(rows, "common"), d \in TotalsOf(rows, "secondary") :
        \A s \in OfType(rows, t) :
            rows[s].pct = Percentage(rows[s].score, [common |-> c, secondary |-> d])

\* A batch nobody disturbed leaves its test type with the percentages of the new scores:
\* recalculateScores reads the transaction's own writes.
BatchIsExact ==
    [][\A p \in Txs : Committing(p, "batch") /\ alone[p] => Exact(row', req[p].type)]_vars

\* Whatever else is committed meanwhile, a batch changes the score, the test type and the
\* order of the subjects it names only: the recomputation writes nothing but percentages.
BatchKeepsOthers ==
    [][\A p \in Txs : Committing(p, "batch") =>
          \A s \in Subjects \ DOMAIN req[p].scores :
              \/ row'[s] = row[s]
              \/ /\ row[s] # NoSubject
                 /\ row'[s].score = row[s].score /\ row'[s].type = row[s].type
                 /\ row'[s].order = row[s].order]_vars

\* A batch is stored as a whole or not at all: it commits only with every subject it names
\* as the request has it, those that others deleted or wrote meanwhile included.
BatchIsWhole ==
    [][\A p \in Txs : Committing(p, "batch") =>
          \A s \in DOMAIN req[p].scores :
              /\ row'[s] # NoSubject
              /\ row'[s].type = req[p].type
              /\ row'[s].score = req[p].scores[s] /\ row'[s].order = req[p].orders[s]]_vars

\* p waits for q: its next UPDATE is of s, which q has locked.
WaitsFor(p, q, s) == p # q /\ phase[p] = "write" /\ IsNext(p, s) /\ draft[q][s] # Clean

\* UpdateSubject locks the subjects in the display order it has read.  Two calls wait for
\* each other only over two subjects of equal order, or that were renumbered between their
\* reads.
UpdatesWaitInOrder ==
    \A p, q \in Txs, s, x \in Subjects :
        /\ req[p].op = "update" /\ req[q].op = "update"
        /\ WaitsFor(p, q, s) /\ WaitsFor(q, p, x)
        => \/ s # x /\ list[p][s].order = list[p][x].order
           \/ \E y \in {s, x} : list[p][y].order # list[q][y].order

\* An update nobody disturbed leaves its test type with the percentages of the new
\* scores.  ("The total of the common test and of the second test is the denominator.")
UpdateIsExact ==
    [][\A p \in Txs : Committing(p, "update") /\ alone[p] => Exact(row', req[p].type)]_vars

\* No committed score is overwritten by a request that gives the subject no score.  (The
\* version of a row is there for optimistic locking.)
NoLostUpdate ==
    [][\A p \in Txs : Committing(p, "update") =>
          \A s \in Subjects \ DOMAIN req[p].scores :
              row[s] # NoSubject => row'[s].score = row[s].score]_vars
=============================================================================
