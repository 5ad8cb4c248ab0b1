-------------------------- MODULE VisitorPagesProofs --------------------------
(***************************************************************************)
(* Theorems about VisitorPages, for any documents, windows and number of   *)
(* changes: the type invariant, that the table has a row per schedule at   *)
(* most, which rows open, that a page shows the schedule and the year of   *)
(* the row that was clicked, and that the rings of its charts agree with   *)
(* each other and with its table.                                          *)
(***************************************************************************)
EXTENDS VisitorPages, Sums

Paths == [1..4 -> Nat]

-----------------------------------------------------------------------------
(* Rows and what the lookup makes of them.                                  *)

LEMMA SubjectIsSomething ==
    ASSUME NEW leaf, NEW tests
    PROVE  LET subject == transformSubjectData(leaf, tests)
           IN  /\ subject # Nothing /\ subject.path = leaf.path /\ subject.year = leaf.years[1]
               /\ subject.subjects = calculateSubjectScores(tests)
<1> DEFINE subject == transformSubjectData(leaf, tests)
           scores == calculateSubjectScores(tests)
<1>1. subject = [path |-> leaf.path, year |-> leaf.years[1], subjects |-> scores]
  BY DEF transformSubjectData
<1> HIDE DEF subject, scores
<1>2. DOMAIN subject = {"path", "year", "subjects"} /\ DOMAIN Nothing = {}
  BY <1>1 DEF Nothing
<1>3. QED
  BY <1>1, <1>2 DEF subject, scores

\* What a document says of the tests of a schedule, and what comes of it.
AreTests(tests) ==
    /\ tests \in Seq(Range(tests))
    /\ \A test \in Range(tests) :
          /\ test.subjects \in Seq(Range(test.subjects))
          /\ \A subject \in Range(test.subjects) : subject.score \in Nat

Scores == [SubjectNames -> [commonTest : Nat, secondTest : Nat]]

LEMMA ManyPlaces ==
    ASSUME NEW n \in Nat, NEW part, DOMAIN part = 1..n, \A j \in 1..n : IsFiniteSet(part[j])
    PROVE  IsFiniteSet(UNION {part[j] : j \in 1..n})
<1> DEFINE S == 1..n
           parts == {part[j] : j \in S}
<1>1. IsFiniteSet(S)
  BY FS_Interval
<1>2. [j \in S |-> part[j]] \in Surjection(S, parts)
  BY DEF Surjection
<1> HIDE DEF S, parts
<1>3. IsFiniteSet(parts)
  BY <1>1, <1>2, FS_Surjection
<1>4. \A T \in parts : IsFiniteSet(T)
  BY DEF parts, S
<1>5. IsFiniteSet(UNION parts)
  BY <1>3, <1>4, FS_UNION
<1>6. QED
  BY <1>5 DEF parts, S

LEMMA PlacesOfName ==
    ASSUME NEW tests, AreTests(tests), NEW name, NEW type
    PROVE  /\ IsFiniteSet(updateSubjectScores(tests, name, type))
           /\ \A p \in updateSubjectScores(tests, name, type) :
                 tests[p[1]].subjects[p[2]].score \in Nat
<1> DEFINE pairs(j) == {<<j, k>> : k \in DOMAIN tests[j].subjects}
           all == UNION {pairs(j) : j \in DOMAIN tests}
<1>1. Len(tests) \in Nat /\ DOMAIN tests = 1..Len(tests)
  BY DEF AreTests
<1>2. ASSUME NEW j \in DOMAIN tests
      PROVE  IsFiniteSet(pairs(j))
  <2> DEFINE S == DOMAIN tests[j].subjects
  <2>1. Len(tests[j].subjects) \in Nat /\ S = 1..Len(tests[j].subjects)
    BY DEF AreTests, Range
  <2>2. IsFiniteSet(S)
    BY <2>1, FS_Interval
  <2>3. [k \in S |-> <<j, k>>] \in Surjection(S, pairs(j))
    BY DEF Surjection
  <2> HIDE DEF S, pairs
  <2>4. QED
    BY <2>2, <2>3, FS_Surjection
<1>3. IsFiniteSet(all)
  <2> DEFINE part == [j \in DOMAIN tests |-> pairs(j)]
  <2>1. all = UNION {part[j] : j \in 1..Len(tests)}
    BY <1>1
  <2>2. DOMAIN part = 1..Len(tests) /\ \A j \in 1..Len(tests) : IsFiniteSet(part[j])
    BY <1>1, <1>2
  <2> HIDE DEF part, all
  <2>3. QED
    BY <1>1, <2>1, <2>2, ManyPlaces
<1>4. updateSubjectScores(tests, name, type) \in SUBSET all
  BY DEF updateSubjectScores
<1>5. ASSUME NEW p \in all
      PROVE  tests[p[1]].subjects[p[2]].score \in Nat
  <2>1. PICK j \in DOMAIN tests : p \in pairs(j)
    OBVIOUS
  <2>2. p[1] = j /\ p[2] \in DOMAIN tests[j].subjects
    BY <2>1
  <2> HIDE DEF pairs, all
  <2>3. tests[j] \in Range(tests) /\ tests[j].subjects[p[2]] \in Range(tests[j].subjects)
    BY <2>2 DEF Range
  <2>4. QED
    BY <2>2, <2>3 DEF AreTests
<1> HIDE DEF all
<1>6. QED
  BY <1>3, <1>4, <1>5, FS_Subset

LEMMA ScoresAre ==
    ASSUME NEW tests, AreTests(tests)
    PROVE  calculateSubjectScores(tests) \in Scores
<1> DEFINE f(name, type) == [p \in updateSubjectScores(tests, name, type) |->
                                tests[p[1]].subjects[p[2]].score]
           points(name, type) == SumFunction(f(name, type))
<1>1. ASSUME NEW name, NEW type
      PROVE  points(name, type) \in Nat
  <2> DEFINE S == updateSubjectScores(tests, name, type)
  <2>1. DOMAIN f(name, type) = S
    OBVIOUS
  <2>2. IsFiniteSet(S) /\ \A p \in S : f(name, type)[p] \in Nat
    BY PlacesOfName
  <2> HIDE DEF S, f
  <2>3. SumFunctionOnSet(f(name, type), S) \in Nat
    BY <2>2, SumNat
  <2>4. QED
    BY <2>1, <2>3 DEF SumFunction
<1>2. calculateSubjectScores(tests)
          = [name \in SubjectNames |-> [commonTest |-> points(name, Common),
                                        secondTest |-> points(name, Second)]]
  BY DEF calculateSubjectScores
<1> HIDE DEF points
<1>3. QED
  BY <1>1, <1>2 DEF Scores

\* Ids that agree down to the schedule are those of one path.
LEMMA SamePath ==
    ASSUME NEW p \in Paths, NEW q \in Paths, SubSeq(p, 1, 3) = SubSeq(q, 1, 3), p[4] = q[4]
    PROVE  p = q
<1>1. \A k \in 1..3 : SubSeq(p, 1, 3)[k] = p[k] /\ SubSeq(q, 1, 3)[k] = q[k]
  BY DEF Paths
<1>2. \A k \in 1..3 : p[k] = q[k]
  BY <1>1
<1>3. \A k \in 1..4 : p[k] = q[k]
  BY <1>2
<1>4. QED
  BY <1>3 DEF Paths

\* The lookup finds nothing, or the schedule and the year of the address.
LEMMA SelectedIsAddressed ==
    ASSUME NEW schedules,
           \A leaf \in schedules : leaf.path \in Paths /\ AreTests(leaf.testTypes),
           NEW address, address.path \in Paths,
           Selected(schedules, address) # Nothing
    PROVE  /\ Selected(schedules, address).path = address.path
           /\ Selected(schedules, address).year = address.year
           /\ Selected(schedules, address).subjects \in Scores
<1> DEFINE found == FindSchedule(schedules, address.path)
           leaf == CHOOSE schedule \in found : TRUE
<1>1. /\ found # {} /\ leaf.years[1] = address.year
      /\ Selected(schedules, address) = transformSubjectData(leaf, leaf.testTypes)
  BY DEF Selected
<1>2. leaf \in found
  BY <1>1
<1>3. /\ leaf \in schedules /\ leaf.path[4] = address.path[4]
      /\ SubSeq(leaf.path, 1, 3) = SubSeq(address.path, 1, 3)
  BY <1>2 DEF FindSchedule, findDepartmentAndMajor
<1> HIDE DEF found, leaf
<1>4. leaf.path = address.path
  BY <1>3, SamePath
<1>5. QED
  BY <1>1, <1>3, <1>4, SubjectIsSomething, ScoresAre

LEMMA DocumentIsSequence ==
    ASSUME NEW doc, IsDocument(doc)
    PROVE  /\ DOMAIN doc \subseteq Nat
           /\ \A k \in DOMAIN doc : DOMAIN doc[k].testTypes \subseteq Nat
<1>1. \A A : \A s \in Seq(A) : DOMAIN s \subseteq Nat
  OBVIOUS
<1>2. QED
  BY <1>1 DEF IsDocument

LEMMA PlacesAre ==
    ASSUME NEW doc, NEW p \in Places(doc)
    PROVE  /\ p = <<p[1], p[2]>> /\ p[1] \in DOMAIN doc /\ p[2] \in DOMAIN doc[p[1]].testTypes
           /\ doc[p[1]].years # <<>> /\ doc[p[1]].testTypes[p[2]].subjects # <<>>
BY DEF Places, processSchedule, processTestTypes

LEMMA RowIs ==
    ASSUME NEW doc, NEW row \in Range(transformUniversityData(doc))
    PROVE  \E p \in Places(doc) : row.path = doc[p[1]].path /\ row.year = doc[p[1]].years[1]
<1> DEFINE rows == transformUniversityData(doc)
<1>1. PICK p \in DOMAIN rows : row = rows[p]
  BY DEF Range
<1>2. p \in Places(doc) /\ row = RowAt(doc, p)
  BY <1>1 DEF transformUniversityData
<1>3. QED
  BY <1>2, SubjectIsSomething DEF RowAt

\* The lookup that the page repeats on the data of the table finds the schedule of a row, and
\* shows it if none of its test types is empty.
LEMMA RowIsFound ==
    ASSUME NEW doc, IsDocument(doc), NEW row \in Range(transformUniversityData(doc)),
           NEW leaf \in Range(doc), leaf.path = row.path
    PROVE  Complete(leaf) <=>
               Selected(University(doc, row.path[1]), [path |-> row.path, year |-> row.year])
                   # Nothing
<1> DEFINE address == [path |-> row.path, year |-> row.year]
           schedules == University(doc, row.path[1])
           found == FindSchedule(schedules, address.path)
           chosen == CHOOSE schedule \in found : TRUE
<1>1. PICK p \in Places(doc) : row.path = doc[p[1]].path /\ row.year = doc[p[1]].years[1]
  BY RowIs
<1>2. p[1] \in DOMAIN doc /\ doc[p[1]].years # <<>>
  BY PlacesAre
<1>3. ASSUME NEW other \in Range(doc), other.path[4] = row.path[4]
      PROVE  other = doc[p[1]]
  <2>1. PICK k \in DOMAIN doc : other = doc[k]
    BY DEF Range
  <2>2. k = p[1]
    BY <1>1, <1>2, <1>3, <2>1 DEF IsDocument
  <2>3. QED
    BY <2>1, <2>2
<1>4. leaf \in found
  BY DEF University, FindSchedule, findDepartmentAndMajor
<1>5. chosen = leaf
  <2>1. chosen \in found
    BY <1>4
  <2>2. chosen \in Range(doc) /\ chosen.path[4] = row.path[4]
    BY <2>1 DEF University, FindSchedule, findDepartmentAndMajor
  <2>3. QED
    BY <1>3, <2>2
<1>6. found # {} /\ chosen.years # <<>> /\ chosen.years[1] = address.year
  BY <1>1, <1>2, <1>3, <1>4, <1>5
<1>7. Selected(schedules, address) =
          IF ~ Complete(leaf) THEN Nothing ELSE transformSubjectData(leaf, leaf.testTypes)
  BY <1>5, <1>6 DEF Selected
<1>8. QED
  BY <1>7, SubjectIsSomething

\* Of two places whose rows have the same key, one is earlier.
LEMMA OneRowPerKey ==
    ASSUME NEW doc, IsDocument(doc),
           NEW p \in DOMAIN transformUniversityData(doc),
           NEW q \in DOMAIN transformUniversityData(doc),
           transformUniversityData(doc)[p].path = transformUniversityData(doc)[q].path
    PROVE  p = q
<1>1. /\ p \in Places(doc) /\ q \in Places(doc)
      /\ transformUniversityData(doc)[p] = RowAt(doc, p)
      /\ transformUniversityData(doc)[q] = RowAt(doc, q)
      /\ \A r \in Places(doc) : doc[r[1]].path = doc[p[1]].path => ~ Earlier(r, p)
      /\ \A r \in Places(doc) : doc[r[1]].path = doc[q[1]].path => ~ Earlier(r, q)
  BY DEF transformUniversityData
<1>2. doc[p[1]].path = doc[q[1]].path
  BY <1>1, SubjectIsSomething DEF RowAt
<1>3. ~ Earlier(p, q) /\ ~ Earlier(q, p)
  BY <1>1, <1>2
<1>4. /\ p = <<p[1], p[2]>> /\ q = <<q[1], q[2]>>
      /\ p[1] \in Nat /\ p[2] \in Nat /\ q[1] \in Nat /\ q[2] \in Nat
  BY <1>1, PlacesAre, DocumentIsSequence
<1>5. p[1] = q[1] /\ p[2] = q[2]
  BY <1>3, <1>4 DEF Earlier
<1>6. QED
  BY <1>4, <1>5

-----------------------------------------------------------------------------
(* The invariant.                                                           *)

Data ==
    /\ server \in past /\ past \subseteq Documents /\ edits \in 0..MaxEdits

Table ==
    /\ table = [status |-> table.status, doc |-> table.doc]
    /\ table.status \in {Waiting, Shown, Failed}
    /\ table.status = Shown => table.doc \in past

\* An address keeps the path of a row, an answer the schedules of a document, and what is
\* shown was found under the address and computed from points that are not negative.
IsWindow(x) ==
    /\ x = [status |-> x.status, address |-> x.address, answer |-> x.answer, subject |-> x.subject]
    /\ x.status \in {Closed, Waiting, Reading, Shown, Failed}
    /\ (x.subject # Nothing) <=> (x.status = Shown)
    /\ (x.address = Nothing) <=> (x.status = Closed)
    /\ x.status # Closed => x.address.path \in Paths
    /\ x.status = Reading =>
          \A leaf \in x.answer : leaf.path \in Paths /\ AreTests(leaf.testTypes)
    /\ x.status = Shown => /\ x.subject.path = x.address.path
                           /\ x.subject.year = x.address.year
                           /\ x.subject.subjects \in Scores

Browser == DOMAIN window = Windows /\ \A w \in Windows : IsWindow(window[w])

Inv == Data /\ Table /\ Browser

LEMMA Statuses ==
    /\ Closed # Waiting /\ Closed # Reading /\ Closed # Shown /\ Closed # Failed
    /\ Waiting # Reading /\ Waiting # Shown /\ Waiting # Failed
    /\ Reading # Shown /\ Reading # Failed /\ Shown # Failed
BY DEF Closed, Waiting, Reading, Shown, Failed

LEMMA InvInit ==
    ASSUME Init
    PROVE  Inv
<1>1. Data
  BY PagesAssumption DEF Init, Data
<1>2. Table
  BY Statuses DEF Init, Table
<1>3. IsWindow(NoWindow)
  BY Statuses DEF IsWindow, NoWindow
<1>4. Browser
  BY <1>3 DEF Init, Browser
<1>5. QED
  BY <1>1, <1>2, <1>4 DEF Inv

LEMMA WindowGoes ==
    ASSUME Inv, NEW w \in Windows, NEW record, Goes(w, record), IsWindow(record)
    PROVE  Inv'
BY DEF Inv, Data, Table, Browser, Goes

\* What the handlers of a page make of the record of its window.
LEMMA StatusChanged ==
    ASSUME NEW x, IsWindow(x), NEW status
    PROVE  [x EXCEPT !.status = status]
             = [status |-> status, address |-> x.address, answer |-> x.answer, subject |-> x.subject]
<1> DEFINE a == x.status
           b == x.address
           c == x.answer
           d == x.subject
           y == [x EXCEPT !.status = status]
<1>1. x = [status |-> a, address |-> b, answer |-> c, subject |-> d]
  BY DEF IsWindow
<1> HIDE DEF a, b, c, d
<1>2. y = [status |-> status, address |-> b, answer |-> c, subject |-> d]
  BY <1>1
<1>3. QED
  BY <1>2 DEF b, c, d, y

LEMMA AnswerChanged ==
    ASSUME NEW x, IsWindow(x), NEW status, NEW answer
    PROVE  [x EXCEPT !.status = status, !.answer = answer]
             = [status |-> status, address |-> x.address, answer |-> answer, subject |-> x.subject]
<1> DEFINE a == x.status
           b == x.address
           c == x.answer
           d == x.subject
           y == [x EXCEPT !.status = status]
<1>1. x = [status |-> a, address |-> b, answer |-> c, subject |-> d]
  BY DEF IsWindow
<1> HIDE DEF a, b, c, d
<1>2. y = [status |-> status, address |-> b, answer |-> c, subject |-> d]
  BY <1>1
<1>3. [x EXCEPT !.status = status, !.answer = answer] = [y EXCEPT !.answer = answer]
  OBVIOUS
<1> HIDE DEF y
<1>4. [y EXCEPT !.answer = answer] = [status |-> status, address |-> b, answer |-> answer, subject |-> d]
  BY <1>2
<1>5. QED
  BY <1>3, <1>4 DEF b, c, d

LEMMA SubjectChanged ==
    ASSUME NEW x, IsWindow(x), NEW status, NEW subject
    PROVE  [x EXCEPT !.status = status, !.subject = subject]
             = [status |-> status, address |-> x.address, answer |-> x.answer, subject |-> subject]
<1> DEFINE a == x.status
           b == x.address
           c == x.answer
           d == x.subject
           y == [x EXCEPT !.status = status]
<1>1. x = [status |-> a, address |-> b, answer |-> c, subject |-> d]
  BY DEF IsWindow
<1> HIDE DEF a, b, c, d
<1>2. y = [status |-> status, address |-> b, answer |-> c, subject |-> d]
  BY <1>1
<1>3. [x EXCEPT !.status = status, !.subject = subject] = [y EXCEPT !.subject = subject]
  OBVIOUS
<1> HIDE DEF y
<1>4. [y EXCEPT !.subject = subject] = [status |-> status, address |-> b, answer |-> c, subject |-> subject]
  BY <1>2
<1>5. QED
  BY <1>3, <1>4 DEF b, c, d

LEMMA ClickKeepsInv ==
    ASSUME Inv, NEW w \in Windows, NEW row \in Rows, handleRowClick(w, row)
    PROVE  Inv'
<1> DEFINE address == [path |-> row.path, year |-> row.year]
           record == [NoWindow EXCEPT !.status = Waiting, !.address = address]
<1>1. table.status = Shown /\ row \in Range(transformUniversityData(table.doc))
  BY DEF Rows
<1>2. IsDocument(table.doc)
  BY <1>1, PagesAssumption DEF Inv, Data, Table
<1>3. row.path \in Paths
  <2>1. PICK p \in Places(table.doc) : row.path = table.doc[p[1]].path
    BY <1>1, RowIs
  <2>2. QED
    BY <1>2, <2>1, PlacesAre DEF IsDocument, Paths
<1>4. address # Nothing
  <2>1. DOMAIN address = {"path", "year"} /\ DOMAIN Nothing = {}
    BY DEF Nothing
  <2>2. QED
    BY <2>1
<1>5. record = [status |-> Waiting, address |-> address, answer |-> {}, subject |-> Nothing]
  <2> DEFINE y == [NoWindow EXCEPT !.status = Waiting]
  <2>1. y = [status |-> Waiting, address |-> Nothing, answer |-> {}, subject |-> Nothing]
    BY DEF NoWindow
  <2>2. record = [y EXCEPT !.address = address]
    OBVIOUS
  <2> HIDE DEF y, address
  <2>3. QED
    BY <2>1, <2>2
<1>6. address.path \in Paths
  BY <1>3
<1>7. Goes(w, record)
  BY DEF handleRowClick
<1> HIDE DEF address, record
<1>8. IsWindow(record)
  BY <1>4, <1>5, <1>6, Statuses DEF IsWindow
<1>9. QED
  BY <1>7, <1>8, WindowGoes

LEMMA HeadersKeepInv ==
    ASSUME Inv, NEW w \in Windows, HeadersArrive(w)
    PROVE  Inv'
<1> DEFINE x == window[w]
           answer == University(server, x.address.path[1])
           record == [x EXCEPT !.status = Reading, !.answer = answer]
<1>1. x.status = Waiting /\ IsWindow(x) /\ Goes(w, record)
  BY DEF Inv, Browser, HeadersArrive
<1>2. \A leaf \in answer : leaf.path \in Paths /\ AreTests(leaf.testTypes)
  <2>1. IsDocument(server)
    BY PagesAssumption DEF Inv, Data
  <2>2. ASSUME NEW leaf \in answer
        PROVE  leaf.path \in Paths /\ AreTests(leaf.testTypes)
    <3>1. PICK k \in DOMAIN server : leaf = server[k]
      BY DEF University, Range
    <3> HIDE DEF answer
    <3>2. QED
      BY <2>1, <3>1 DEF IsDocument, Paths, AreTests
  <2>3. QED
    BY <2>2
<1> HIDE DEF x, answer
<1>3. record = [status |-> Reading, address |-> x.address, answer |-> answer, subject |-> x.subject]
  BY <1>1, AnswerChanged
<1> HIDE DEF record
<1>4. IsWindow(record)
  BY <1>1, <1>2, <1>3, Statuses DEF IsWindow
<1>5. QED
  BY <1>1, <1>4, WindowGoes

LEMMA FailureKeepsInv ==
    ASSUME Inv, NEW w \in Windows, TimesOut(w) \/ RequestFails(w)
    PROVE  Inv'
<1> DEFINE x == window[w]
           failed == [x EXCEPT !.status = Failed]
           empty == [x EXCEPT !.status = Failed, !.answer = {}]
<1>1. /\ x.status \in {Waiting, Reading} /\ IsWindow(x)
      /\ Goes(w, failed) \/ Goes(w, empty)
  BY DEF Inv, Browser, TimesOut, RequestFails
<1> HIDE DEF x
<1>2. /\ failed = [status |-> Failed, address |-> x.address, answer |-> x.answer, subject |-> x.subject]
      /\ empty = [status |-> Failed, address |-> x.address, answer |-> {}, subject |-> x.subject]
  <2>1. failed = [status |-> Failed, address |-> x.address, answer |-> x.answer, subject |-> x.subject]
    BY <1>1, StatusChanged
  <2>2. empty = [status |-> Failed, address |-> x.address, answer |-> {}, subject |-> x.subject]
    BY <1>1, AnswerChanged
  <2>3. QED
    BY <2>1, <2>2
<1> HIDE DEF failed, empty
<1>3. IsWindow(failed) /\ IsWindow(empty)
  BY <1>1, <1>2, Statuses DEF IsWindow
<1>4. QED
  BY <1>1, <1>3, WindowGoes

LEMMA FetchKeepsInv ==
    ASSUME Inv, NEW w \in Windows, fetchData(w)
    PROVE  Inv'
<1> DEFINE x == window[w]
           subject == Selected(x.answer, x.address)
           status == IF subject = Nothing THEN Failed ELSE Shown
           record == [x EXCEPT !.status = status, !.subject = subject]
<1>1. x.status = Reading /\ IsWindow(x) /\ Goes(w, record)
  BY DEF Inv, Browser, fetchData
<1>2. /\ x.address.path \in Paths /\ x.address # Nothing
      /\ subject # Nothing => /\ subject.path = x.address.path /\ subject.year = x.address.year
                              /\ subject.subjects \in Scores
  BY <1>1, SelectedIsAddressed, Statuses DEF IsWindow
<1>3. status \in {Failed, Shown} /\ (subject # Nothing <=> status = Shown)
  BY Statuses
<1> HIDE DEF x, subject, status
<1>4. record = [status |-> status, address |-> x.address, answer |-> x.answer, subject |-> subject]
  BY <1>1, SubjectChanged
<1> HIDE DEF record
<1>5. IsWindow(record)
  BY <1>1, <1>2, <1>3, <1>4, Statuses DEF IsWindow
<1>6. QED
  BY <1>1, <1>5, WindowGoes

LEMMA ClosingKeepsInv ==
    ASSUME Inv, NEW w \in Windows, CloseWindow(w)
    PROVE  Inv'
<1>1. IsWindow(NoWindow)
  BY Statuses DEF IsWindow, NoWindow
<1>2. QED
  BY <1>1, WindowGoes DEF CloseWindow

LEMMA TableKeepsInv ==
    ASSUME Inv, TableAnswered \/ TableFails \/ ReloadHome
    PROVE  Inv'
<1>1. UNCHANGED <<server, past, edits, window>>
  BY DEF TableAnswered, TableFails, ReloadHome
<1>2. Table'
  <2>1. CASE TableAnswered
    BY <1>1, <2>1 DEF TableAnswered, Table
  <2>2. CASE TableFails
    BY <1>1, <2>2, Statuses DEF TableFails, Inv, Table
  <2>3. CASE ReloadHome
    BY <1>1, <2>3, Statuses DEF ReloadHome, Table
  <2>4. QED
    BY <2>1, <2>2, <2>3
<1>3. QED
  BY <1>1, <1>2 DEF Inv, Data, Browser

LEMMA EditKeepsInv ==
    ASSUME Inv, Edit
    PROVE  Inv'
<1>1. Data'
  BY PagesAssumption DEF Inv, Data, Edit
<1>2. QED
  BY <1>1 DEF Inv, Table, Browser, Edit

LEMMA StepKeepsInv ==
    ASSUME Inv, [Next]_vars
    PROVE  Inv'
<1>1. CASE UNCHANGED vars
  BY <1>1 DEF vars, Inv, Data, Table, Browser
<1>2. QED
  BY <1>1, EditKeepsInv, TableKeepsInv, ClickKeepsInv, HeadersKeepInv, FailureKeepsInv,
     FetchKeepsInv, ClosingKeepsInv DEF Next

LEMMA InvHolds == Spec => []Inv
<1>1. Init => Inv
  BY InvInit
<1>2. Inv /\ [Next]_vars => Inv'
  BY StepKeepsInv
<1>3. QED
  BY <1>1, <1>2, PTL DEF Spec

-----------------------------------------------------------------------------
(* What follows from it.                                                    *)

\* The list may come from any cached document; a page has a schedule exactly where it shows
\* one, and an address exactly where it is open.
THEOREM PagesTypeCorrect == Spec => []TypeOK
<1>1. Inv => TypeOK
  BY DEF Inv, Data, Table, Browser, IsWindow, TypeOK
<1>2. QED
  BY <1>1, InvHolds, PTL

\* No two rows of the table have the key that React tells them apart by, whatever the server
\* holds and however many test types its schedules have.
THEOREM RowsHaveKeys == Spec => []OneRowPerSchedule
<1>1. Inv => OneRowPerSchedule
  <2> SUFFICES ASSUME Inv, table.status = Shown
               PROVE  \A p, q \in DOMAIN transformUniversityData(table.doc) :
                          transformUniversityData(table.doc)[p].path
                              = transformUniversityData(table.doc)[q].path => p = q
    BY DEF OneRowPerSchedule
  <2>1. IsDocument(table.doc)
    BY PagesAssumption DEF Inv, Data, Table
  <2>2. QED
    BY <2>1, OneRowPerKey
<1>2. QED
  BY <1>1, InvHolds, PTL

\* Whatever the server holds by the time a row's page asks, and however old the list is, the
\* page shows the schedule and the year of the row, or an error.
THEOREM PagesShowTheirRow == Spec => []PageShowsTheRow
<1>1. Inv => PageShowsTheRow
  BY DEF Inv, Browser, IsWindow, PageShowsTheRow
<1>2. QED
  BY <1>1, InvHolds, PTL

\* Every row of any document leads to its schedule, and the lookup of the page demands one thing
\* more than the row does: that none of the schedule's test types is empty.
THEOREM CompleteRowsOpen == Spec => []RowsOpen
<1>1. Inv => RowsOpen
  <2> SUFFICES ASSUME Inv, table.status = Shown, NEW row \in Rows,
                      NEW leaf \in Range(table.doc), leaf.path = row.path
               PROVE  Complete(leaf) <=>
                          Selected(University(table.doc, row.path[1]),
                                   [path |-> row.path, year |-> row.year]) # Nothing
    BY DEF RowsOpen
  <2>1. IsDocument(table.doc)
    BY PagesAssumption DEF Inv, Data, Table
  <2>2. QED
    BY <2>1, RowIsFound DEF Rows
<1>2. QED
  BY <1>1, InvHolds, PTL

-----------------------------------------------------------------------------
(* Rings.                                                                   *)

IsList(slices) ==
    /\ IsFiniteSet(slices)
    /\ \A s \in slices : s.value \in Nat /\ s.place \in Int
    /\ \A r, s \in slices : r.place = s.place => r = s

LEMMA TotalOf ==
    ASSUME NEW S, IsList(S), NEW A \in SUBSET S
    PROVE  /\ calculateChartTotalScore(A) = SumFunctionOnSet(Values(S), A)
           /\ calculateChartTotalScore(A) \in Nat
           /\ IsFiniteSet(A)
           /\ \A s \in S : Values(S)[s] = s.value /\ Values(S)[s] \in Nat
<1>1. IsFiniteSet(A)
  BY FS_Subset DEF IsList
<1>2. /\ \A s \in S : Values(S)[s] = s.value /\ Values(S)[s] \in Nat
      /\ \A s \in A : Values(A)[s] = s.value /\ Values(A)[s] \in Nat
      /\ DOMAIN Values(A) = A
  BY DEF IsList, Values
<1>3. \A s \in A : Values(A)[s] \in Int /\ Values(A)[s] = Values(S)[s]
  BY <1>2
<1>4. SumFunctionOnSet(Values(A), A) = SumFunctionOnSet(Values(S), A)
  BY <1>1, <1>3, SumSame
<1>5. SumFunctionOnSet(Values(A), A) \in Nat
  BY <1>1, <1>2, SumNat
<1>6. QED
  BY <1>1, <1>2, <1>4, <1>5 DEF calculateChartTotalScore, SumFunction

\* A ring whose slices are divided in the order of the slices of another one covers the same
\* part of the whole, and slices that meet belong together.
Divides(inner, outer, of) ==
    /\ IsList(inner) /\ IsList(outer)
    /\ \A i \in inner : of[i] \in outer
    /\ \A o \in outer : o.value = calculateChartTotalScore({i \in inner : of[i] = o})
    /\ \A i, j \in inner : i.place < j.place => of[i].place <= of[j].place

\* What some outer slices cover is covered by their inner ones.
LEMMA CoversTheSame ==
    ASSUME NEW inner, NEW outer, NEW of, Divides(inner, outer, of), NEW A \in SUBSET outer
    PROVE  calculateChartTotalScore(A) = calculateChartTotalScore({i \in inner : of[i] \in A})
<1> DEFINE I == {i \in inner : of[i] \in A}
<1>1. IsList(inner) /\ IsList(outer) /\ I \in SUBSET inner
  BY DEF Divides
<1>2. /\ IsFiniteSet(A) /\ IsFiniteSet(I)
      /\ calculateChartTotalScore(A) = SumFunctionOnSet(Values(outer), A)
      /\ calculateChartTotalScore(I) = SumFunctionOnSet(Values(inner), I)
      /\ \A o \in outer : Values(outer)[o] = o.value
      /\ \A i \in inner : Values(inner)[i] \in Int
  <2> HIDE DEF I
  <2>1. \A i \in inner : Values(inner)[i] \in Nat
    BY <1>1, TotalOf
  <2>2. QED
    BY <1>1, <2>1, TotalOf
<1>3. ASSUME NEW o \in A
      PROVE  Values(outer)[o] = SumFunctionOnSet(Values(inner), {i \in I : of[i] = o})
  <2>1. {i \in I : of[i] = o} = {i \in inner : of[i] = o}
    OBVIOUS
  <2>2. {i \in inner : of[i] = o} \in SUBSET inner
    OBVIOUS
  <2>3. calculateChartTotalScore({i \in inner : of[i] = o})
            = SumFunctionOnSet(Values(inner), {i \in inner : of[i] = o})
    BY <1>1, <2>2, TotalOf
  <2>4. QED
    BY <1>2, <2>1, <2>3 DEF Divides
<1>4. \A i \in I : of[i] \in A /\ Values(inner)[i] \in Int
  BY <1>2
<1> DEFINE f == Values(inner)
           h == Values(outer)
           part == [o \in A |-> {i \in I : of[i] = o}]
<1>5. /\ \A o \in A : part[o] = {i \in I : of[i] = o}
      /\ \A o \in A : h[o] = SumFunctionOnSet(f, part[o])
  BY <1>3
<1>6. \A i \in I : f[i] \in Int
  BY <1>4
<1>7. /\ IsFiniteSet(A) /\ IsFiniteSet(I)
      /\ \A i \in I : of[i] \in A
  BY <1>2, <1>4
<1> HIDE DEF I, f, h, part
<1>8. SumFunctionOnSet(h, A) = SumFunctionOnSet(f, I)
  BY <1>5, <1>6, <1>7, SumGroups
<1>9. QED
  BY <1>2, <1>8 DEF I, f, h

\* What is before a slice and the slice itself.
LEMMA UpTo ==
    ASSUME NEW ring, IsList(ring), NEW slice \in ring
    PROVE  /\ From(ring, slice) \in Nat /\ slice.value \in Nat
           /\ From(ring, slice) + slice.value
                  = calculateChartTotalScore({s \in ring : s.place <= slice.place})
<1> DEFINE B == {s \in ring : s.place < slice.place}
           U == {s \in ring : s.place <= slice.place}
           f == Values(ring)
<1>1. B \in SUBSET ring /\ U \in SUBSET ring /\ slice \in U /\ U \ {slice} = B
  BY DEF IsList
<1>2. From(ring, slice) = calculateChartTotalScore(B)
  BY DEF From
<1> HIDE DEF B, U, f
<1>3. /\ calculateChartTotalScore(B) = SumFunctionOnSet(f, B) /\ calculateChartTotalScore(B) \in Nat
      /\ calculateChartTotalScore(U) = SumFunctionOnSet(f, U) /\ IsFiniteSet(U)
      /\ \A s \in ring : f[s] = s.value /\ f[s] \in Nat
  BY <1>1, TotalOf DEF f
<1>4. \A s \in U : f[s] \in Int
  BY <1>1, <1>3
<1>5. SumFunctionOnSet(f, U) = f[slice] + SumFunctionOnSet(f, U \ {slice})
  BY <1>1, <1>3, <1>4, SumRemove
<1>6. /\ f[slice] = slice.value /\ slice.value \in Nat
      /\ calculateChartTotalScore(U) = f[slice] + calculateChartTotalScore(B)
  BY <1>1, <1>3, <1>5
<1>7. From(ring, slice) + slice.value = calculateChartTotalScore(U)
  <2> DEFINE b == calculateChartTotalScore(B)
             u == calculateChartTotalScore(U)
             v == slice.value
  <2>1. From(ring, slice) = b /\ b \in Nat /\ v \in Nat /\ u = v + b
    BY <1>2, <1>3, <1>6
  <2> HIDE DEF b, u, v
  <2>2. b + v = u
    BY <2>1
  <2>3. QED
    BY <2>1, <2>2 DEF u, v
<1>8. QED
  BY <1>2, <1>3, <1>6, <1>7 DEF U

LEMMA NoMore ==
    ASSUME NEW ring, IsList(ring), NEW B \in SUBSET ring, NEW A \in SUBSET B
    PROVE  calculateChartTotalScore(A) <= calculateChartTotalScore(B)
<1>1. /\ calculateChartTotalScore(A) = SumFunctionOnSet(Values(ring), A)
      /\ calculateChartTotalScore(B) = SumFunctionOnSet(Values(ring), B)
      /\ IsFiniteSet(B) /\ \A s \in B : Values(ring)[s] \in Nat
  BY TotalOf
<1>2. QED
  BY <1>1, SumSubset

LEMMA RingsMatch ==
    ASSUME NEW chart, NEW of, Divides(chart.inner, chart.outer, of),
           NEW i \in chart.inner, NEW o \in chart.outer, Meet(chart, i, o)
    PROVE  of[i] = o
<1> DEFINE inner == chart.inner
           outer == chart.outer
<1>1. IsList(inner) /\ IsList(outer) /\ of[i] \in outer /\ of[i].place \in Int /\ o.place \in Int
  BY DEF Divides, IsList
<1>2. /\ From(inner, i) < From(outer, o) + o.value
      /\ From(outer, o) < From(inner, i) + i.value
  BY DEF Meet
<1>3. /\ From(inner, i) \in Nat /\ i.value \in Nat
      /\ From(outer, o) \in Nat /\ o.value \in Nat
  BY <1>1, UpTo
<1>4. CASE of[i].place < o.place
  <2> DEFINE A == {s \in outer : s.place < o.place}
             before == {j \in inner : of[j] \in A}
             upTo == {j \in inner : j.place <= i.place}
  <2>1. upTo \in SUBSET before
    <3>1. ASSUME NEW j \in inner, j.place <= i.place
          PROVE  of[j].place < o.place /\ of[j] \in outer
      <4>1. j.place \in Int /\ i.place \in Int /\ of[j] \in outer /\ of[j].place \in Int
        BY <1>1 DEF Divides, IsList
      <4>2. CASE j.place < i.place
        BY <1>1, <1>4, <4>1, <4>2 DEF Divides
      <4>3. CASE j.place = i.place
        BY <1>1, <1>4, <4>1, <4>3 DEF IsList
      <4>4. QED
        BY <3>1, <4>1, <4>2, <4>3
    <3>2. QED
      BY <3>1
  <2>2. before \in SUBSET inner /\ A \in SUBSET outer
    OBVIOUS
  <2>3. From(outer, o) = calculateChartTotalScore(A)
    BY DEF From
  <2>4. From(inner, i) + i.value = calculateChartTotalScore(upTo)
    BY <1>1, UpTo
  <2>5. calculateChartTotalScore(A) = calculateChartTotalScore(before)
    <3> HIDE DEF A
    <3>1. QED
      BY <2>2, CoversTheSame
  <2> HIDE DEF A, before, upTo
  <2>6. calculateChartTotalScore(upTo) <= calculateChartTotalScore(before)
    BY <1>1, <2>1, <2>2, NoMore
  <2>7. QED
    BY <1>2, <1>3, <2>3, <2>4, <2>5, <2>6
<1>5. CASE o.place < of[i].place
  <2> DEFINE A == {s \in outer : s.place <= o.place}
             upTo == {j \in inner : of[j] \in A}
             before == {j \in inner : j.place < i.place}
  <2>1. upTo \in SUBSET before
    <3>1. ASSUME NEW j \in inner, of[j].place <= o.place
          PROVE  j.place < i.place
      <4>1. j.place \in Int /\ i.place \in Int /\ of[j] \in outer /\ of[j].place \in Int
        BY <1>1 DEF Divides, IsList
      <4>2. ~ (i.place < j.place)
        BY <1>1, <1>5, <3>1, <4>1 DEF Divides
      <4>3. i.place # j.place
        BY <1>1, <1>5, <3>1, <4>1 DEF IsList
      <4>4. QED
        BY <4>1, <4>2, <4>3
    <3>2. QED
      BY <3>1
  <2>2. before \in SUBSET inner /\ A \in SUBSET outer
    OBVIOUS
  <2>3. From(outer, o) + o.value = calculateChartTotalScore(A)
    BY <1>1, UpTo
  <2>4. From(inner, i) = calculateChartTotalScore(before)
    BY DEF From
  <2>5. calculateChartTotalScore(A) = calculateChartTotalScore(upTo)
    <3> HIDE DEF A
    <3>1. QED
      BY <2>2, CoversTheSame
  <2> HIDE DEF A, before, upTo
  <2>6. calculateChartTotalScore(upTo) <= calculateChartTotalScore(before)
    BY <1>1, <2>1, <2>2, NoMore
  <2>7. QED
    BY <1>2, <1>3, <2>3, <2>4, <2>5, <2>6
<1>6. CASE of[i].place = o.place
  BY <1>1, <1>6 DEF IsList
<1>7. QED
  BY <1>1, <1>4, <1>5, <1>6
-----------------------------------------------------------------------------
(* The slices of a page.                                                    *)

\* Where the category of a subject is in the list of them.
CategoryOf(k) == IF k <= 2 THEN 1 ELSE k - 1

LEMMA Names ==
    /\ DOMAIN Subjects = 1..6 /\ DOMAIN SubjectCategories = 1..5
    /\ \A j, k \in 1..6 : Subjects[j] = Subjects[k] => j = k
    /\ \A k \in 1..6 : Subjects[k] \in SubjectNames
    /\ \A name \in SubjectNames : \E k \in 1..6 : name = Subjects[k]
    /\ \A j, k \in 1..5 : SubjectCategories[j] = SubjectCategories[k] => j = k
    /\ \A k \in 1..6 : CategoryOf(k) \in 1..5
    /\ \A k \in 1..6 : getCategoryFromSubject(Subjects[k]) = SubjectCategories[CategoryOf(k)]
    /\ \A k \in 1..5 : getCategoryFromSubject(SubjectCategories[k]) = SubjectCategories[k]
    /\ \A k \in 1..5 : SubjectCategories[k] \in PatternRenderer
    /\ ExamTypes \subseteq PatternRenderer
<1>1. Subjects = <<"EnglishR", "EnglishL", "Math", "Japanese", "Science", "Social">>
  BY DEF Subjects
<1>2. /\ DOMAIN Subjects = 1..6
      /\ Subjects[1] = "EnglishR" /\ Subjects[2] = "EnglishL" /\ Subjects[3] = "Math"
      /\ Subjects[4] = "Japanese" /\ Subjects[5] = "Science" /\ Subjects[6] = "Social"
  BY <1>1
<1>3. /\ DOMAIN SubjectCategories = 1..5
      /\ SubjectCategories[1] = "English" /\ SubjectCategories[2] = "Math"
      /\ SubjectCategories[3] = "Japanese" /\ SubjectCategories[4] = "Science"
      /\ SubjectCategories[5] = "Social"
  BY DEF SubjectCategories
<1>4. /\ \A k \in 1..6 : k = 1 \/ k = 2 \/ k = 3 \/ k = 4 \/ k = 5 \/ k = 6
      /\ \A k \in 1..5 : k = 1 \/ k = 2 \/ k = 3 \/ k = 4 \/ k = 5
      /\ CategoryOf(1) = 1 /\ CategoryOf(2) = 1 /\ CategoryOf(3) = 2 /\ CategoryOf(4) = 3
      /\ CategoryOf(5) = 4 /\ CategoryOf(6) = 5
  BY DEF CategoryOf
<1>5. \A j, k \in 1..6 : Subjects[j] = Subjects[k] => j = k
  BY <1>2, <1>4
<1>6. /\ \A k \in 1..6 : Subjects[k] \in SubjectNames
      /\ \A name \in SubjectNames : \E k \in 1..6 : name = Subjects[k]
  BY <1>2 DEF SubjectNames, Range
<1>7. \A j, k \in 1..5 : SubjectCategories[j] = SubjectCategories[k] => j = k
  BY <1>3, <1>4
<1>8. \A k \in 1..6 : CategoryOf(k) \in 1..5
  BY DEF CategoryOf
<1>9. \A k \in 1..6 : getCategoryFromSubject(Subjects[k]) = SubjectCategories[CategoryOf(k)]
  BY <1>2, <1>3, <1>4 DEF getCategoryFromSubject
<1>10. \A k \in 1..5 : getCategoryFromSubject(SubjectCategories[k]) = SubjectCategories[k]
  BY <1>3, <1>4 DEF getCategoryFromSubject
<1>11. \A k \in 1..5 : SubjectCategories[k] \in PatternRenderer
  BY <1>3 DEF PatternRenderer, SubjectPatterns, Range
<1>12. ExamTypes \subseteq PatternRenderer
  BY DEF PatternRenderer, TestTypePatterns
<1>13. QED
  BY <1>2, <1>3, <1>5, <1>6, <1>7, <1>8, <1>9, <1>10, <1>11, <1>12

\* Places that are bounded natural numbers and tell slices apart make a list.
LEMMA FewSlices ==
    ASSUME NEW slices, NEW n \in Nat,
           \A s \in slices : s.value \in Nat /\ s.place \in 0..n,
           \A r, s \in slices : r.place = s.place => r = s
    PROVE  IsList(slices)
<1> DEFINE T == 0..n
<1>1. [s \in slices |-> s.place] \in Injection(slices, T)
  BY DEF Injection, IsInjective
<1>2. IsFiniteSet(T)
  BY FS_Interval
<1> HIDE DEF T
<1>3. IsFiniteSet(slices)
  BY <1>1, <1>2, FS_Injection
<1>4. QED
  BY <1>3 DEF IsList

\* The fields of a slice, and what becomes of them when it is moved or put under a category.
IsSlice(s) ==
    s = [place |-> s.place, name |-> s.name, type |-> s.type, category |-> s.category,
         value |-> s.value, percentage |-> s.percentage]

LEMMA SliceMoved ==
    ASSUME NEW s, IsSlice(s), NEW place
    PROVE  [s EXCEPT !.place = place]
             = [place |-> place, name |-> s.name, type |-> s.type, category |-> s.category,
                value |-> s.value, percentage |-> s.percentage]
<1> DEFINE a == s.place
           b == s.name
           c == s.type
           d == s.category
           e == s.value
           f == s.percentage
           r == [s EXCEPT !.place = place]
<1>1. s = [place |-> a, name |-> b, type |-> c, category |-> d, value |-> e, percentage |-> f]
  BY DEF IsSlice
<1> HIDE DEF a, b, c, d, e, f
<1>2. r = [place |-> place, name |-> b, type |-> c, category |-> d, value |-> e, percentage |-> f]
  BY <1>1
<1>3. QED
  BY <1>2 DEF b, c, d, e, f, r

LEMMA SliceFiled ==
    ASSUME NEW s, IsSlice(s), NEW category
    PROVE  [s EXCEPT !.category = category]
             = [place |-> s.place, name |-> s.name, type |-> s.type, category |-> category,
                value |-> s.value, percentage |-> s.percentage]
<1> DEFINE a == s.place
           b == s.name
           c == s.type
           d == s.category
           e == s.value
           f == s.percentage
           r == [s EXCEPT !.category = category]
<1>1. s = [place |-> a, name |-> b, type |-> c, category |-> d, value |-> e, percentage |-> f]
  BY DEF IsSlice
<1> HIDE DEF a, b, c, d, e, f
<1>2. r = [place |-> a, name |-> b, type |-> c, category |-> category, value |-> e, percentage |-> f]
  BY <1>1
<1>3. QED
  BY <1>2 DEF a, b, c, e, f, r

\* The number of points and the place of the slice of a subject in one test.
PlaceOf(k, type) == 2 * k + (IF type = Common THEN 0 ELSE 1)

\* A list with the points of each subject, in the order of the subjects and their tests.
IsDetail(slices, scores) ==
    /\ \A s \in slices :
          /\ IsSlice(s)
          /\ \E k \in 1..6, type \in ExamTypes :
                /\ s.place = PlaceOf(k, type) /\ s.name = Subjects[k] /\ s.type = type
                /\ s.value = Points(scores[Subjects[k]], type)
    /\ \A r, s \in slices : r.place = s.place => r = s
    /\ \A k \in 1..6, type \in ExamTypes :
          Points(scores[Subjects[k]], type) = 0
              \/ \E s \in slices : s.name = Subjects[k] /\ s.type = type

LEMMA PointsAre ==
    ASSUME NEW scores \in Scores, NEW k \in 1..6
    PROVE  /\ scores[Subjects[k]].commonTest \in Nat /\ scores[Subjects[k]].secondTest \in Nat
           /\ \A type \in ExamTypes : Points(scores[Subjects[k]], type) \in Nat
BY Names DEF Scores, Points

LEMMA DetailedData ==
    ASSUME NEW scores \in Scores, NEW totalScore
    PROVE  IsDetail(useDetailedData(scores, totalScore), scores)
<1> DEFINE D == useDetailedData(scores, totalScore)
           slice(k, type) == createDetailedPieData(scores, k, type, totalScore)
<1>1. \A s : s \in D <=> \E k \in 1..6, type \in ExamTypes :
                             s = slice(k, type) /\ Points(scores[Subjects[k]], type) > 0
  BY Names DEF useDetailedData, extractScores
<1>2. ASSUME NEW k \in 1..6, NEW type \in ExamTypes
      PROVE  /\ IsSlice(slice(k, type)) /\ slice(k, type).place = PlaceOf(k, type)
             /\ slice(k, type).name = Subjects[k] /\ slice(k, type).type = type
             /\ slice(k, type).value = Points(scores[Subjects[k]], type)
  BY DEF createDetailedPieData, transformToPieData, IsSlice, PlaceOf
<1> HIDE DEF D, slice
<1>3. ASSUME NEW s \in D
      PROVE  /\ IsSlice(s)
             /\ \E k \in 1..6, type \in ExamTypes :
                   /\ s.place = PlaceOf(k, type) /\ s.name = Subjects[k] /\ s.type = type
                   /\ s.value = Points(scores[Subjects[k]], type)
  BY <1>1, <1>2
<1>4. ASSUME NEW r \in D, NEW s \in D, r.place = s.place
      PROVE  r = s
  <2>1. PICK j \in 1..6, t \in ExamTypes : r = slice(j, t)
    BY <1>1
  <2>2. PICK k \in 1..6, u \in ExamTypes : s = slice(k, u)
    BY <1>1
  <2>3. PlaceOf(j, t) = PlaceOf(k, u)
    BY <1>2, <1>4, <2>1, <2>2
  <2>4. j = k /\ t = u
    BY <2>3 DEF PlaceOf, ExamTypes, Common, Second
  <2>5. QED
    BY <2>1, <2>2, <2>4
<1>5. ASSUME NEW k \in 1..6, NEW type \in ExamTypes
      PROVE  \/ Points(scores[Subjects[k]], type) = 0
             \/ \E s \in D : s.name = Subjects[k] /\ s.type = type
  <2>1. CASE Points(scores[Subjects[k]], type) > 0
    BY <1>1, <1>2, <2>1
  <2>2. QED
    BY <2>1, PointsAre
<1>6. QED
  BY <1>3, <1>4, <1>5 DEF IsDetail, D
\* What a list of details says of a slice.
LEMMA DetailIs ==
    ASSUME NEW scores \in Scores, NEW D, IsDetail(D, scores)
    PROVE  /\ IsList(D)
           /\ \A s \in D : /\ s.place \in 2..13 /\ s.value \in Nat /\ s.type \in ExamTypes
                           /\ s.name \in SubjectNames
                           /\ s.value = Points(scores[s.name], s.type)
           /\ \A r, s \in D : r.name = s.name /\ r.type = s.type => r = s
<1>1. ASSUME NEW s \in D
      PROVE  /\ s.place \in 2..13 /\ s.place \in 0..13
             /\ s.value \in Nat /\ s.type \in ExamTypes /\ s.name \in SubjectNames
             /\ s.value = Points(scores[s.name], s.type)
  <2>1. PICK k \in 1..6, type \in ExamTypes :
            /\ s.place = PlaceOf(k, type) /\ s.name = Subjects[k] /\ s.type = type
            /\ s.value = Points(scores[Subjects[k]], type)
    BY DEF IsDetail
  <2>2. PlaceOf(k, type) \in 2..13 /\ PlaceOf(k, type) \in 0..13
    BY DEF PlaceOf
  <2>3. QED
    BY <2>1, <2>2, PointsAre, Names
<1>2. ASSUME NEW r \in D, NEW s \in D, r.name = s.name, r.type = s.type
      PROVE  r = s
  <2>1. PICK j \in 1..6, t \in ExamTypes :
            r.place = PlaceOf(j, t) /\ r.name = Subjects[j] /\ r.type = t
    BY DEF IsDetail
  <2>2. PICK k \in 1..6, u \in ExamTypes :
            s.place = PlaceOf(k, u) /\ s.name = Subjects[k] /\ s.type = u
    BY DEF IsDetail
  <2>3. Subjects[j] = Subjects[k] /\ t = u
    BY <1>2, <2>1, <2>2
  <2>4. j = k
    BY <2>3, Names
  <2>5. QED
    BY <2>1, <2>2, <2>3, <2>4 DEF IsDetail
<1>3. IsList(D)
  BY <1>1, FewSlices DEF IsDetail
<1>4. QED
  BY <1>1, <1>2, <1>3

\* The slices of a subject show all its points in the tests of one type,
LEMMA TypeSum ==
    ASSUME NEW scores \in Scores, NEW D, IsDetail(D, scores),
           NEW name \in SubjectNames, NEW type \in ExamTypes
    PROVE  SumFunctionOnSet(Values(D), {s \in D : s.name = name /\ s.type = type})
               = Points(scores[name], type)
<1> DEFINE S == {s \in D : s.name = name /\ s.type = type}
           f == Values(D)
<1>1. \A s \in D : f[s] = s.value /\ s.value \in Nat
  BY DetailIs DEF Values
<1>2. CASE \E s \in D : s.name = name /\ s.type = type
  <2>1. PICK s \in D : s.name = name /\ s.type = type
    BY <1>2
  <2>2. S = {s}
    BY <2>1, DetailIs
  <2>3. f[s] \in Int /\ f[s] = Points(scores[name], type)
    BY <1>1, <2>1, DetailIs
  <2> HIDE DEF f, S
  <2>4. SumFunctionOnSet(f, {s}) = f[s]
    BY <2>3, SumOne
  <2>5. QED
    BY <2>2, <2>3, <2>4 DEF f, S
<1>3. CASE ~ \E s \in D : s.name = name /\ s.type = type
  <2>1. S = {}
    BY <1>3
  <2>2. PICK k \in 1..6 : name = Subjects[k]
    BY Names
  <2>3. Points(scores[name], type) = 0
    BY <1>3, <2>2 DEF IsDetail
  <2>4. SumFunctionOnSet(f, {}) = 0
    BY SumEmpty
  <2>5. QED
    BY <2>1, <2>3, <2>4
<1>4. QED
  BY <1>2, <1>3

\* and in all tests.
LEMMA NameSum ==
    ASSUME NEW scores \in Scores, NEW D, IsDetail(D, scores), NEW name \in SubjectNames
    PROVE  SumFunctionOnSet(Values(D), {s \in D : s.name = name})
               = scores[name].commonTest + scores[name].secondTest
<1> DEFINE S == {s \in D : s.name = name}
           A == {s \in D : s.name = name /\ s.type = Common}
           B == {s \in D : s.name = name /\ s.type = Second}
           f == Values(D)
<1>1. A \in SUBSET S /\ S \ A = B /\ S \in SUBSET D
  BY DetailIs DEF ExamTypes, Common, Second
<1>2. IsFiniteSet(S) /\ \A s \in S : f[s] \in Int
  BY <1>1, DetailIs, FS_Subset DEF IsList, Values
<1>3. Common \in ExamTypes /\ Second \in ExamTypes /\ Common # Second
  BY DEF ExamTypes, Common, Second
<1>4. SumFunctionOnSet(f, A) = Points(scores[name], Common)
  BY <1>3, TypeSum
<1>5. SumFunctionOnSet(f, B) = Points(scores[name], Second)
  BY <1>3, TypeSum
<1> HIDE DEF S, A, B, f
<1>6. SumFunctionOnSet(f, S) = SumFunctionOnSet(f, A) + SumFunctionOnSet(f, S \ A)
  BY <1>1, <1>2, SumSplit
<1>7. SumFunctionOnSet(f, S) = scores[name].commonTest + scores[name].secondTest
  BY <1>1, <1>3, <1>4, <1>5, <1>6 DEF Points
<1>8. QED
  BY <1>7 DEF S, f

\* Some subjects' slices show all their points.
LEMMA NamesSum ==
    ASSUME NEW scores \in Scores, NEW D, IsDetail(D, scores), NEW N \in SUBSET SubjectNames
    PROVE  calculateChartTotalScore({s \in D : s.name \in N}) = AllPoints(scores, N)
<1> DEFINE S == {s \in D : s.name \in N}
           f == Values(D)
           h == [name \in N |-> scores[name].commonTest + scores[name].secondTest]
           group == [s \in S |-> s.name]
           part == [name \in N |-> {s \in S : group[s] = name}]
<1>1. S \in SUBSET D /\ IsList(D)
  BY DetailIs
<1>2. IsFiniteSet(S) /\ calculateChartTotalScore(S) = SumFunctionOnSet(f, S)
      /\ \A s \in S : f[s] \in Int
  <2> HIDE DEF S
  <2>1. \A s \in D : f[s] \in Int
    BY DetailIs DEF Values
  <2>2. QED
    BY <1>1, <2>1, TotalOf
<1>3. IsFiniteSet(N)
  <2>1. SubjectNames \in SUBSET {Subjects[k] : k \in 1..6}
    BY Names
  <2>2. [k \in 1..6 |-> Subjects[k]] \in Surjection(1..6, {Subjects[k] : k \in 1..6})
    BY DEF Surjection
  <2>3. IsFiniteSet(1..6)
    BY 1 \in Int, 6 \in Int, FS_Interval
  <2>4. IsFiniteSet({Subjects[k] : k \in 1..6})
    BY <2>2, <2>3, FS_Surjection
  <2>5. QED
    BY <2>1, <2>4, FS_Subset
<1>4. ASSUME NEW name \in N
      PROVE  h[name] = SumFunctionOnSet(f, part[name])
  <2>1. part[name] = {s \in D : s.name = name}
    OBVIOUS
  <2>2. SumFunctionOnSet(f, {s \in D : s.name = name})
            = scores[name].commonTest + scores[name].secondTest
    BY NameSum
  <2>3. QED
    BY <2>1, <2>2
<1>5. /\ \A s \in S : group[s] \in N
      /\ \A name \in N : part[name] = {s \in S : group[s] = name}
  OBVIOUS
<1>6. AllPoints(scores, N) = SumFunctionOnSet(h, N)
  BY DEF AllPoints, SumFunction
<1> HIDE DEF S, f, h, group, part
<1>7. SumFunctionOnSet(h, N) = SumFunctionOnSet(f, S)
  BY <1>2, <1>3, <1>4, <1>5, SumGroups
<1>8. QED
  BY <1>2, <1>6, <1>7 DEF S

\* A list whose slices are those of another one in other places, or under other categories,
\* has the same sums.
LEMMA SumsStay ==
    ASSUME NEW R, IsList(R), NEW L, IsList(L), NEW m \in [R -> L],
           \A t \in L : \E s \in R : m[s] = t,
           \A r, s \in R : m[r] = m[s] => r = s,
           \A s \in R : m[s].value = s.value,
           NEW A \in SUBSET R, NEW B \in SUBSET L, \A s \in R : s \in A <=> m[s] \in B
    PROVE  calculateChartTotalScore(B) = calculateChartTotalScore(A)
<1> DEFINE f == Values(R)
           g == Values(L)
           n == [s \in A |-> m[s]]
<1>1. /\ IsFiniteSet(A) /\ calculateChartTotalScore(A) = SumFunctionOnSet(f, A)
      /\ \A s \in A : f[s] \in Int /\ f[s] = s.value
  BY TotalOf
<1>2. /\ calculateChartTotalScore(B) = SumFunctionOnSet(g, B)
      /\ \A s \in L : g[s] = s.value
  BY TotalOf
<1>3. /\ n \in [A -> B] /\ \A t \in B : \E s \in A : n[s] = t
      /\ \A r, s \in A : n[r] = n[s] => r = s
  OBVIOUS
<1>4. \A s \in A : g[n[s]] = f[s]
  BY <1>1, <1>2
<1> HIDE DEF f, g, n
<1>5. SumFunctionOnSet(g, B) = SumFunctionOnSet(f, A)
  <2>1. IsFiniteSet(A) /\ \A s \in A : f[s] \in Int
    BY <1>1
  <2>2. QED
    BY <2>1, <1>3, <1>4, SumImage
<1>6. QED
  BY <1>1, <1>2, <1>5
-----------------------------------------------------------------------------
(* The left chart: subjects in their categories.                            *)

NamesOf(category) == {name \in SubjectNames : getCategoryFromSubject(name) = category}

\* No category has more points than there are, so that the outer ring is never an error.
LEMMA CategoriesFit ==
    ASSUME NEW scores \in Scores
    PROVE  /\ calculateTotalScore(scores) \in Nat
           /\ \A k \in 1..5 : LET total == calculateCategoryTotal(scores, SubjectCategories[k])
                              IN  total \in Nat /\ total <= calculateTotalScore(scores)
<1> DEFINE h == [name \in SubjectNames |-> scores[name].commonTest + scores[name].secondTest]
           N(k) == NamesOf(SubjectCategories[k])
           D == useDetailedData(scores, 0)
<1>1. IsDetail(D, scores) /\ IsList(D)
  BY DetailedData, DetailIs
<1>2. \A M \in SUBSET SubjectNames :
          AllPoints(scores, M) = calculateChartTotalScore({s \in D : s.name \in M})
  BY <1>1, NamesSum
<1>3. \A M \in SUBSET SubjectNames : {s \in D : s.name \in M} \in SUBSET D
  OBVIOUS
<1>4. ASSUME NEW M \in SUBSET SubjectNames
      PROVE  AllPoints(scores, M) \in Nat /\ AllPoints(scores, M) <= AllPoints(scores, SubjectNames)
  <2> DEFINE A == {s \in D : s.name \in M}
             B == {s \in D : s.name \in SubjectNames}
  <2>1. B \in SUBSET D /\ A \in SUBSET B /\ A \in SUBSET D
    OBVIOUS
  <2>2. AllPoints(scores, M) = calculateChartTotalScore(A)
    BY <1>2
  <2>3. AllPoints(scores, SubjectNames) = calculateChartTotalScore(B)
    BY <1>2
  <2> HIDE DEF A, B, D
  <2>4. calculateChartTotalScore(A) \in Nat
    BY <1>1, <2>1, TotalOf
  <2>5. calculateChartTotalScore(A) <= calculateChartTotalScore(B)
    BY <1>1, <2>1, NoMore
  <2>6. QED
    BY <2>2, <2>3, <2>4, <2>5
<1>5. \A k \in 1..5 : calculateCategoryTotal(scores, SubjectCategories[k]) = AllPoints(scores, N(k))
  BY DEF calculateCategoryTotal, NamesOf
<1>6. \A k \in 1..5 : N(k) \in SUBSET SubjectNames
  BY DEF NamesOf
<1> HIDE DEF N
<1>7. QED
  BY <1>4, <1>5, <1>6 DEF calculateTotalScore

LEMMA CategoryData ==
    ASSUME NEW scores \in Scores
    PROVE  LET O == useCategoryData(scores, calculateTotalScore(scores))
               at(k) == createOuterPieData(k, SubjectCategories[k],
                            calculateCategoryTotal(scores, SubjectCategories[k]),
                            calculateTotalScore(scores))
           IN  /\ O = {at(k) : k \in 1..5}
               /\ \A k \in 1..5 :
                     /\ at(k).place = k /\ at(k).name = SubjectCategories[k]
                     /\ at(k).value = AllPoints(scores, NamesOf(SubjectCategories[k]))
                     /\ at(k).value \in Nat
               /\ IsList(O)
<1> DEFINE T == calculateTotalScore(scores)
           O == useCategoryData(scores, T)
           total(k) == calculateCategoryTotal(scores, SubjectCategories[k])
           at(k) == createOuterPieData(k, SubjectCategories[k], total(k), T)
<1>1. /\ DOMAIN SubjectCategories = 1..5
      /\ T \in Nat /\ \A k \in 1..5 : total(k) \in Nat /\ total(k) <= T
  BY Names, CategoriesFit
<1>2. \A k \in 1..5 : /\ at(k).place = k /\ at(k).name = SubjectCategories[k]
                      /\ at(k).value = total(k)
  BY DEF createOuterPieData, transformToPieData
<1>3. \A k \in 1..5 : total(k) = AllPoints(scores, NamesOf(SubjectCategories[k]))
  BY DEF calculateCategoryTotal, NamesOf
<1>4. O = IF \E k \in DOMAIN SubjectCategories : total(k) < 0 \/ total(k) > T THEN {}
          ELSE {at(k) : k \in DOMAIN SubjectCategories}
  BY DEF useCategoryData
<1> HIDE DEF T, O, total, at
<1>5. O = {at(k) : k \in 1..5}
  BY <1>1, <1>4
<1>6. /\ \A s \in O : s.value \in Nat /\ s.place \in 0..5
      /\ \A r, s \in O : r.place = s.place => r = s
  BY <1>1, <1>2, <1>5
<1>7. IsList(O)
  BY <1>6, FewSlices
<1>8. QED
  BY <1>1, <1>2, <1>3, <1>5, <1>7 DEF T, O, total, at

\* A sort keeps everything of a slice but its place, where slices that stand behind the
\* others of the same rank stay behind them.
LEMMA Sorted ==
    ASSUME NEW D, IsList(D), \A s \in D : IsSlice(s) /\ s.place \in 0..99,
           NEW rank, \A s \in D : rank[s] \in Nat
    PROVE  LET m == [s \in D |-> [s EXCEPT !.place = 100 * rank[s] + @]]
               L == sortSubjectScores(D, rank)
           IN  /\ m \in [D -> L] /\ \A t \in L : \E s \in D : m[s] = t
               /\ \A r, s \in D : m[r] = m[s] => r = s
               /\ \A s \in D : /\ m[s].place = 100 * rank[s] + s.place /\ m[s].name = s.name
                               /\ m[s].type = s.type /\ m[s].category = s.category
                               /\ m[s].value = s.value
               /\ IsList(L)
<1> DEFINE m == [s \in D |-> [s EXCEPT !.place = 100 * rank[s] + @]]
           L == sortSubjectScores(D, rank)
<1>1. m \in [D -> L] /\ \A t \in L : \E s \in D : m[s] = t
  BY DEF sortSubjectScores
<1>2. ASSUME NEW s \in D
      PROVE  /\ m[s].place = 100 * rank[s] + s.place /\ m[s].name = s.name
             /\ m[s].type = s.type /\ m[s].category = s.category /\ m[s].value = s.value
  <2>1. m[s] = [s EXCEPT !.place = 100 * rank[s] + s.place]
    OBVIOUS
  <2>2. IsSlice(s)
    OBVIOUS
  <2> HIDE DEF m
  <2>3. QED
    BY <2>1, <2>2, SliceMoved
<1> HIDE DEF m, L
<1>3. ASSUME NEW r \in D, NEW s \in D, m[r].place = m[s].place
      PROVE  r = s
  <2> DEFINE a == rank[r]
             b == rank[s]
             p == r.place
             q == s.place
  <2>1. 100 * a + p = 100 * b + q
    BY <1>2, <1>3
  <2>2. a \in Nat /\ b \in Nat /\ p \in 0..99 /\ q \in 0..99
    OBVIOUS
  <2> HIDE DEF a, b, p, q
  <2>3. p = q
    <3>1. CASE a = b
      BY <2>1, <2>2, <3>1
    <3>2. CASE a < b
      <4>1. 100 * a + 100 <= 100 * b
        BY <2>2, <3>2
      <4>2. QED
        BY <2>1, <2>2, <4>1
    <3>3. CASE b < a
      <4>1. 100 * b + 100 <= 100 * a
        BY <2>2, <3>3
      <4>2. QED
        BY <2>1, <2>2, <4>1
    <3>4. QED
      BY <2>2, <3>1, <3>2, <3>3
  <2>4. QED
    BY <2>3 DEF p, q, IsList
<1>4. IsList(L)
  <2>1. IsFiniteSet(L)
    <3>1. m \in Surjection(D, L)
      BY <1>1 DEF Surjection
    <3>2. QED
      BY <3>1, FS_Surjection DEF IsList
  <2>2. ASSUME NEW t \in L
        PROVE  t.value \in Nat /\ t.place \in Int
    <3>1. PICK s \in D : m[s] = t
      BY <1>1
    <3> DEFINE a == rank[s]
               p == s.place
    <3>2. s.value \in Nat /\ a \in Nat /\ p \in 0..99
      BY DEF IsList
    <3>3. t.value = s.value /\ t.place = 100 * a + p
      BY <1>2, <3>1
    <3> HIDE DEF a, p
    <3>4. QED
      BY <3>2, <3>3
  <2>3. ASSUME NEW t \in L, NEW u \in L, t.place = u.place
        PROVE  t = u
    BY <1>1, <1>3, <2>3
  <2>4. QED
    BY <2>1, <2>2, <2>3 DEF IsList
<1>5. /\ \A r, s \in D : m[r] = m[s] => r = s
      /\ \A s \in D : /\ m[s].place = 100 * rank[s] + s.place /\ m[s].name = s.name
                      /\ m[s].type = s.type /\ m[s].category = s.category
                      /\ m[s].value = s.value
  BY <1>2, <1>3
<1>6. QED
  BY <1>1, <1>4, <1>5, Zenon DEF m, L
\* Where a slice of a list of details is in the order of the left chart.
LEMMA ChartOrder ==
    ASSUME NEW scores \in Scores, NEW D, IsDetail(D, scores), NEW s \in D
    PROVE  \E k \in 1..6 :
              /\ s.name = Subjects[k] /\ compareSubjectOrder(s) = CategoryOf(k)
              /\ s.place \in {2 * k, 2 * k + 1}
              /\ k <= 2 => getSubjectChartOrder(s) \in 0..3
              /\ k > 2 => getSubjectChartOrder(s) = 999
<1>1. PICK k \in 1..6, type \in ExamTypes :
          s.place = PlaceOf(k, type) /\ s.name = Subjects[k] /\ s.type = type
  BY DEF IsDetail
<1>2. s.place \in {2 * k, 2 * k + 1}
  BY <1>1 DEF PlaceOf
<1>3. compareSubjectOrder(s) = CategoryOf(k)
  <2> DEFINE c == CategoryOf(k)
  <2>1. c \in 1..5 /\ getCategoryFromSubject(s.name) = SubjectCategories[c]
    BY <1>1, Names
  <2>2. /\ \A j \in 1..5 : SubjectCategories[j] = SubjectCategories[c] => j = c
        /\ DOMAIN SubjectCategories = 1..5
    BY <2>1, Names
  <2> HIDE DEF c
  <2>3. compareSubjectOrder(s) = c
    BY <2>1, <2>2 DEF compareSubjectOrder
  <2>4. QED
    BY <2>3 DEF c
<1>4. /\ Subjects[1] = "EnglishR" /\ Subjects[2] = "EnglishL"
      /\ k > 2 => s.name # "EnglishR" /\ s.name # "EnglishL"
  <2>1. Subjects[1] = "EnglishR" /\ Subjects[2] = "EnglishL"
    BY DEF Subjects
  <2>2. QED
    BY <1>1, <2>1, Names
<1>5. s.type = Common \/ s.type = Second
  BY <1>1 DEF ExamTypes
<1>6. k <= 2 => getSubjectChartOrder(s) \in 0..3
  <2>1. k <= 2 => s.name = "EnglishR" \/ s.name = "EnglishL"
    BY <1>1, <1>4
  <2>2. QED
    BY <1>5, <2>1 DEF getSubjectChartOrder, isCommonSubject, isSecondarySubject
<1>7. k > 2 => getSubjectChartOrder(s) = 999
  BY <1>4 DEF getSubjectChartOrder
<1>8. QED
  BY <1>1, <1>2, <1>3, <1>6, <1>7

\* The slices of a category are together, and the categories in their order.
LEMMA CategoriesInOrder ==
    ASSUME NEW scores \in Scores, NEW D, IsDetail(D, scores), NEW r \in D, NEW s \in D,
           100 * getSubjectChartOrder(r) + r.place < 100 * getSubjectChartOrder(s) + s.place
    PROVE  compareSubjectOrder(r) <= compareSubjectOrder(s)
<1> DEFINE a == getSubjectChartOrder(r)
           b == getSubjectChartOrder(s)
<1>1. PICK j \in 1..6 :
          /\ compareSubjectOrder(r) = CategoryOf(j) /\ r.place \in {2 * j, 2 * j + 1}
          /\ j <= 2 => a \in 0..3
          /\ j > 2 => a = 999
  BY ChartOrder
<1>2. PICK k \in 1..6 :
          /\ compareSubjectOrder(s) = CategoryOf(k) /\ s.place \in {2 * k, 2 * k + 1}
          /\ k <= 2 => b \in 0..3
          /\ k > 2 => b = 999
  BY ChartOrder
<1>3. 100 * a + r.place < 100 * b + s.place
  OBVIOUS
<1> HIDE DEF a, b
<1>4. CASE j <= 2
  BY <1>1, <1>2, <1>4 DEF CategoryOf
<1>5. CASE j > 2
  <2>1. k > 2
    BY <1>1, <1>2, <1>3, <1>5
  <2>2. r.place < s.place
    BY <1>1, <1>2, <1>3, <1>5, <2>1
  <2>3. QED
    BY <1>1, <1>2, <1>5, <2>1, <2>2 DEF CategoryOf
<1>6. QED
  BY <1>4, <1>5

\* What the theorem needs to know of a chart.
Fits(chart, isRightChart, total) ==
    /\ calculateChartTotalScore(chart.inner) = total
    /\ \A slice \in chart.inner \cup chart.outer :
          getChartFillColor(slice, isRightChart) \in PatternRenderer
    /\ \E of : /\ Divides(chart.inner, chart.outer, of)
               /\ \A slice \in chart.inner : getChartFillColor(slice, isRightChart)
                                               = getChartFillColor(of[slice], isRightChart)

LEMMA LeftChartFits ==
    ASSUME NEW scores \in Scores
    PROVE  Fits(useSubjectChart(scores).subjectChart, FALSE, calculateTotalScore(scores))
<1> DEFINE T == calculateTotalScore(scores)
           D == useDetailedData(scores, T)
           O == useCategoryData(scores, T)
           rank == [s \in D |-> getSubjectChartOrder(s)]
           L == sortSubjectDetailedData(D)
           m == [s \in D |-> [s EXCEPT !.place = 100 * rank[s] + @]]
           at(k) == createOuterPieData(k, SubjectCategories[k],
                        calculateCategoryTotal(scores, SubjectCategories[k]), T)
           of == [i \in L |-> at(compareSubjectOrder(i))]
<1>1. /\ useSubjectChart(scores).subjectChart.inner = L
      /\ useSubjectChart(scores).subjectChart.outer = O
  BY DEF useSubjectChart, useChartData
<1>2. IsDetail(D, scores) /\ IsList(D) /\ \A s \in D : IsSlice(s) /\ s.place \in 0..99
  <2>1. IsDetail(D, scores)
    BY DetailedData
  <2> HIDE DEF D
  <2>2. IsList(D) /\ \A s \in D : s.place \in 2..13
    BY <2>1, DetailIs
  <2>3. QED
    BY <2>1, <2>2 DEF IsDetail
<1>3. /\ O = {at(k) : k \in 1..5} /\ IsList(O)
      /\ \A k \in 1..5 : /\ at(k).place = k /\ at(k).name = SubjectCategories[k]
                         /\ at(k).value = AllPoints(scores, NamesOf(SubjectCategories[k]))
                         /\ at(k).value \in Nat
  BY CategoryData
<1>4. L = sortSubjectScores(D, rank)
  BY DEF sortSubjectDetailedData
<1>5. ASSUME NEW s \in D
      PROVE  /\ rank[s] = getSubjectChartOrder(s) /\ rank[s] \in Nat
             /\ compareSubjectOrder(s) \in 1..5
             /\ getCategoryFromSubject(s.name) = SubjectCategories[compareSubjectOrder(s)]
  <2> HIDE DEF D
  <2>1. PICK k \in 1..6 :
            /\ s.name = Subjects[k] /\ compareSubjectOrder(s) = CategoryOf(k)
            /\ k <= 2 => getSubjectChartOrder(s) \in 0..3
            /\ k > 2 => getSubjectChartOrder(s) = 999
    BY <1>2, ChartOrder
  <2>2. QED
    BY <2>1, Names
<1> HIDE DEF D, O, L, rank, at, T
<1>6. /\ m \in [D -> L] /\ \A t \in L : \E s \in D : m[s] = t
      /\ \A r, s \in D : m[r] = m[s] => r = s
      /\ \A s \in D : /\ m[s].place = 100 * rank[s] + s.place /\ m[s].name = s.name
                      /\ m[s].value = s.value
      /\ IsList(L)
  BY <1>2, <1>4, <1>5, Sorted
<1> HIDE DEF m
<1>7. \A s \in D : compareSubjectOrder(m[s]) = compareSubjectOrder(s)
  BY <1>6 DEF compareSubjectOrder
<1>8. ASSUME NEW i \in L
      PROVE  /\ compareSubjectOrder(i) \in 1..5 /\ of[i] = at(compareSubjectOrder(i))
             /\ getCategoryFromSubject(i.name) = SubjectCategories[compareSubjectOrder(i)]
  BY <1>5, <1>6, <1>7
<1> HIDE DEF of
<1>9. \A i \in L : of[i] \in O /\ of[i].place = compareSubjectOrder(i)
  BY <1>3, <1>8
<1>10. ASSUME NEW o \in O
       PROVE  o.value = calculateChartTotalScore({i \in L : of[i] = o})
  <2>1. PICK k \in 1..5 : o = at(k)
    BY <1>3
  <2> DEFINE N == NamesOf(SubjectCategories[k])
             A == {s \in D : s.name \in N}
             B == {i \in L : of[i] = o}
  <2>2. \A i \in L : i \in B <=> compareSubjectOrder(i) = k
    BY <1>3, <1>8, <1>9, <2>1
  <2>3. \A s \in D : s.name \in SubjectNames
    BY <1>2, DetailIs
  <2>4. \A s \in D : s \in A <=> compareSubjectOrder(s) = k
    BY <1>5, <2>3, Names DEF NamesOf
  <2>5. \A s \in D : s \in A <=> m[s] \in B
    BY <1>6, <1>7, <2>2, <2>4
  <2>6. A \in SUBSET D /\ B \in SUBSET L /\ N \in SUBSET SubjectNames
    BY DEF NamesOf
  <2>7. calculateChartTotalScore(A) = AllPoints(scores, N)
    BY <1>2, <2>6, NamesSum
  <2> HIDE DEF A, B, N
  <2>8. calculateChartTotalScore(B) = calculateChartTotalScore(A)
    BY <1>2, <1>6, <2>5, <2>6, SumsStay
  <2>9. QED
    BY <1>3, <2>1, <2>7, <2>8 DEF B, N
<1>11. ASSUME NEW i \in L, NEW j \in L, i.place < j.place
       PROVE  of[i].place <= of[j].place
  <2>1. PICK r \in D, s \in D : m[r] = i /\ m[s] = j
    BY <1>6
  <2>2. 100 * getSubjectChartOrder(r) + r.place < 100 * getSubjectChartOrder(s) + s.place
    BY <1>5, <1>6, <1>11, <2>1
  <2>3. compareSubjectOrder(r) <= compareSubjectOrder(s)
    BY <1>2, <2>2, CategoriesInOrder
  <2>4. QED
    BY <1>7, <1>9, <2>1, <2>3
<1>12. Divides(L, O, of)
  BY <1>3, <1>6, <1>9, <1>10, <1>11 DEF Divides
<1>13. calculateChartTotalScore(L) = T
  <2>1. calculateChartTotalScore({s \in D : s.name \in SubjectNames}) = T
    BY <1>2, NamesSum DEF T, calculateTotalScore
  <2>2. {s \in D : s.name \in SubjectNames} = D
    BY <1>2, DetailIs
  <2>3. calculateChartTotalScore(L) = calculateChartTotalScore(D)
    BY <1>2, <1>6, SumsStay
  <2>4. QED
    BY <2>1, <2>2, <2>3
<1>14. \A k \in 1..5 : getChartFillColor(at(k), FALSE) = SubjectCategories[k]
  BY <1>3, Names DEF getChartFillColor, getSubjectBaseCategory
<1>15. \A i \in L : getChartFillColor(i, FALSE) = SubjectCategories[compareSubjectOrder(i)]
  BY <1>8 DEF getChartFillColor, getSubjectBaseCategory
<1>16. \A slice \in L \cup O : getChartFillColor(slice, FALSE) \in PatternRenderer
  <2>1. \A k \in 1..5 : SubjectCategories[k] \in PatternRenderer
    BY Names
  <2>2. ASSUME NEW i \in L
        PROVE  getChartFillColor(i, FALSE) \in PatternRenderer
    BY <1>8, <1>15, <2>1
  <2>3. ASSUME NEW o \in O
        PROVE  getChartFillColor(o, FALSE) \in PatternRenderer
    <3>1. PICK k \in 1..5 : o = at(k)
      BY <1>3
    <3>2. QED
      BY <1>14, <2>1, <3>1
  <2>4. QED
    BY <2>2, <2>3
<1>17. \A i \in L : getChartFillColor(i, FALSE) = getChartFillColor(of[i], FALSE)
  BY <1>8, <1>14, <1>15
<1>18. QED
  BY <1>1, <1>12, <1>13, <1>16, <1>17 DEF Fits, T
-----------------------------------------------------------------------------
(* The right chart: subjects under their tests.                             *)

\* A list of details keeps what it shows when each slice is put under its test.
LEMMA Filed ==
    ASSUME NEW scores \in Scores, NEW D, IsDetail(D, scores)
    PROVE  LET n == [s \in D |-> [s EXCEPT !.category = getCategoryType(s)]]
               F == {[s EXCEPT !.category = getCategoryType(s)] : s \in D}
           IN  /\ n \in [D -> F] /\ \A t \in F : \E s \in D : n[s] = t
               /\ \A r, s \in D : n[r] = n[s] => r = s
               /\ \A s \in D : n[s].value = s.value /\ n[s].type = s.type
               /\ \A t \in F : t.category = t.type /\ t.type \in ExamTypes
               /\ IsDetail(F, scores)
<1> DEFINE n == [s \in D |-> [s EXCEPT !.category = getCategoryType(s)]]
           F == {[s EXCEPT !.category = getCategoryType(s)] : s \in D}
<1>1. n \in [D -> F] /\ \A t \in F : \E s \in D : n[s] = t
  OBVIOUS
<1>2. ASSUME NEW s \in D
      PROVE  /\ IsSlice(n[s]) /\ n[s].place = s.place /\ n[s].name = s.name
             /\ n[s].type = s.type /\ n[s].value = s.value /\ n[s].category = s.type
             /\ s.type \in ExamTypes
  <2>1. IsSlice(s) /\ s.type \in ExamTypes
    BY DetailIs DEF IsDetail
  <2>2. getCategoryType(s) = s.type
    BY <2>1 DEF getCategoryType, isCommonSubject, isSecondarySubject, ExamTypes
  <2>3. n[s] = [s EXCEPT !.category = s.type]
    BY <2>2
  <2> HIDE DEF n
  <2>4. n[s] = [place |-> s.place, name |-> s.name, type |-> s.type, category |-> s.type,
                value |-> s.value, percentage |-> s.percentage]
    BY <2>1, <2>3, SliceFiled
  <2>5. QED
    BY <2>1, <2>4 DEF IsSlice
<1> HIDE DEF n, F
<1>3. ASSUME NEW r \in D, NEW s \in D, n[r].place = n[s].place
      PROVE  r = s
  BY <1>2, <1>3 DEF IsDetail
<1>4. IsDetail(F, scores)
  <2>1. ASSUME NEW t \in F
        PROVE  /\ IsSlice(t)
               /\ \E k \in 1..6, type \in ExamTypes :
                     /\ t.place = PlaceOf(k, type) /\ t.name = Subjects[k] /\ t.type = type
                     /\ t.value = Points(scores[Subjects[k]], type)
    <3>1. PICK s \in D : n[s] = t
      BY <1>1
    <3>2. PICK k \in 1..6, type \in ExamTypes :
              /\ s.place = PlaceOf(k, type) /\ s.name = Subjects[k] /\ s.type = type
              /\ s.value = Points(scores[Subjects[k]], type)
      BY DEF IsDetail
    <3>3. QED
      BY <1>2, <3>1, <3>2
  <2>2. \A t, u \in F : t.place = u.place => t = u
    BY <1>1, <1>3
  <2>3. ASSUME NEW k \in 1..6, NEW type \in ExamTypes
        PROVE  \/ Points(scores[Subjects[k]], type) = 0
               \/ \E t \in F : t.name = Subjects[k] /\ t.type = type
    <3>1. CASE \E s \in D : s.name = Subjects[k] /\ s.type = type
      BY <1>1, <1>2, <3>1
    <3>2. QED
      BY <3>1 DEF IsDetail
  <2>4. QED
    BY <2>1, <2>2, <2>3 DEF IsDetail
<1>5. \A t \in F : t.category = t.type /\ t.type \in ExamTypes
  BY <1>1, <1>2
<1>6. /\ \A r, s \in D : n[r] = n[s] => r = s
      /\ \A s \in D : n[s].value = s.value /\ n[s].type = s.type
  BY <1>2, <1>3
<1>7. QED
  BY <1>1, <1>4, <1>5, <1>6, Zenon DEF n, F

LEMMA ExamTotal ==
    ASSUME NEW D, IsList(D), NEW type
    PROVE  calculateChartTotalScore({s \in D : getCategoryType(s) = type}) \in Nat
<1> DEFINE A == {s \in D : getCategoryType(s) = type}
<1>1. A \in SUBSET D
  OBVIOUS
<1> HIDE DEF A
<1>2. calculateChartTotalScore(A) \in Nat
  BY <1>1, TotalOf
<1>3. QED
  BY <1>2 DEF A

LEMMA RightChartFits ==
    ASSUME NEW scores \in Scores
    PROVE  Fits(useSubjectChart(scores).examChart, TRUE, calculateTotalScore(scores))
<1> DEFINE T == calculateTotalScore(scores)
           D == useDetailedData(scores, T)
           X == createExamChartCategory(D)
           n == [s \in D |-> [s EXCEPT !.category = getCategoryType(s)]]
           F == {[s EXCEPT !.category = getCategoryType(s)] : s \in D}
           rank == [s \in F |-> (IF isCommonSubject(s) THEN 0 ELSE 10) + compareSubjectOrder(s)]
           E == createExamChartDetail(D)
           m == [s \in F |-> [s EXCEPT !.place = 100 * rank[s] + @]]
           value(type) == calculateChartTotalScore({s \in D : getCategoryType(s) = type})
           at(type) == [place |-> IF type = Common THEN 0 ELSE 1, name |-> type, type |-> type,
                        category |-> type, value |-> value(type),
                        percentage |-> calculatePercentage(value(type),
                                                           calculateChartTotalScore(D))]
           of == [i \in E |-> at(i.type)]
<1>1. /\ useSubjectChart(scores).examChart.inner = E
      /\ useSubjectChart(scores).examChart.outer = X
  BY DEF useSubjectChart, useChartData
<1>2. IsDetail(D, scores) /\ IsList(D)
  BY DetailedData, DetailIs
<1>3. X = {at(type) : type \in {getCategoryType(s) : s \in D}}
  BY DEF createExamChartCategory
<1>4. E = sortSubjectScores(F, rank)
  BY DEF createExamChartDetail, sortByCommonSubject
<1>5. /\ n \in [D -> F] /\ \A t \in F : \E s \in D : n[s] = t
      /\ \A r, s \in D : n[r] = n[s] => r = s
      /\ \A s \in D : n[s].value = s.value /\ n[s].type = s.type
      /\ \A t \in F : t.category = t.type /\ t.type \in ExamTypes
      /\ IsDetail(F, scores)
  <2> HIDE DEF D
  <2>1. QED
    BY <1>2, Filed
<1>6. \A type \in ExamTypes : /\ at(type).place = (IF type = Common THEN 0 ELSE 1)
                              /\ at(type).category = type /\ at(type).value = value(type)
                              /\ value(type) \in Nat
  <2> HIDE DEF D
  <2>1. \A type : value(type) \in Nat
    BY <1>2, ExamTotal
  <2> HIDE DEF value
  <2>2. QED
    BY <2>1
<1>7. ASSUME NEW s \in D
      PROVE  s.type \in ExamTypes /\ getCategoryType(s) = s.type
  <2> HIDE DEF D
  <2>1. s.type \in ExamTypes
    BY <1>2, DetailIs
  <2>2. QED
    BY <2>1 DEF getCategoryType, isCommonSubject, isSecondarySubject, ExamTypes
<1>8. \A type \in ExamTypes : value(type) = calculateChartTotalScore({s \in D : s.type = type})
  <2>1. \A type \in ExamTypes : {s \in D : getCategoryType(s) = type} = {s \in D : s.type = type}
    BY <1>7
  <2>2. QED
    BY <2>1
<1>9. ASSUME NEW s \in F
      PROVE  /\ IsSlice(s) /\ s.place \in 0..99 /\ s.place \in 2..13
             /\ rank[s] \in Nat
             /\ s.type = Common => rank[s] \in 1..5
             /\ s.type # Common => rank[s] \in 11..15
  <2> HIDE DEF F, D
  <2>1. IsSlice(s) /\ s.place \in 2..13
    BY <1>5, DetailIs DEF IsDetail
  <2> DEFINE c == compareSubjectOrder(s)
  <2>2. c \in 1..5
    BY <1>5, ChartOrder, Names
  <2> HIDE DEF c
  <2>3. rank[s] = (IF isCommonSubject(s) THEN 0 ELSE 10) + c
    BY DEF c
  <2> HIDE DEF rank
  <2>4. QED
    BY <2>1, <2>2, <2>3 DEF isCommonSubject
<1>10. IsList(F)
  <2> HIDE DEF F, D
  <2>1. QED
    BY <1>5, DetailIs
<1> HIDE DEF T, D, X, n, F, rank, E, value, at
<1>11. /\ m \in [F -> E] /\ \A t \in E : \E s \in F : m[s] = t
       /\ \A r, s \in F : m[r] = m[s] => r = s
       /\ \A s \in F : /\ m[s].place = 100 * rank[s] + s.place /\ m[s].type = s.type
                       /\ m[s].category = s.category /\ m[s].value = s.value
       /\ IsList(E)
  BY <1>4, <1>9, <1>10, Sorted
<1> HIDE DEF m
<1>12. ASSUME NEW i \in E
       PROVE  i.type \in ExamTypes /\ i.category = i.type /\ of[i] = at(i.type)
  BY <1>5, <1>11
<1> HIDE DEF of
<1>13. \A i \in E : of[i] \in X /\ of[i].place = (IF i.type = Common THEN 0 ELSE 1)
  <2>1. ASSUME NEW i \in E
        PROVE  \E s \in D : getCategoryType(s) = i.type
    <3>1. PICK t \in F : m[t] = i
      BY <1>11
    <3>2. PICK s \in D : n[s] = t
      BY <1>5
    <3>3. s.type = i.type
      BY <1>5, <1>11, <3>1, <3>2
    <3>4. QED
      BY <1>7, <3>3
  <2>2. QED
    BY <1>3, <1>6, <1>12, <2>1
<1>14. \A o \in X : \E type \in ExamTypes : o = at(type)
  BY <1>3, <1>7
<1>15. IsList(X)
  <2>1. \A o \in X : o.value \in Nat /\ o.place \in 0..1
    BY <1>6, <1>14
  <2>2. \A o, p \in X : o.place = p.place => o = p
    BY <1>6, <1>14 DEF ExamTypes
  <2>3. QED
    BY <2>1, <2>2, FewSlices
<1> DEFINE mn == [s \in D |-> m[n[s]]]
<1>16. /\ mn \in [D -> E] /\ \A t \in E : \E s \in D : mn[s] = t
       /\ \A r, s \in D : mn[r] = mn[s] => r = s
       /\ \A s \in D : mn[s].value = s.value /\ mn[s].type = s.type
  BY <1>5, <1>11
<1> HIDE DEF mn
<1>17. ASSUME NEW o \in X
       PROVE  o.value = calculateChartTotalScore({i \in E : of[i] = o})
  <2>1. PICK type \in ExamTypes : o = at(type)
    BY <1>14
  <2> DEFINE A == {s \in D : s.type = type}
             B == {i \in E : of[i] = o}
  <2>2. \A i \in E : i \in B <=> i.type = type
    <3>1. \A u, v \in ExamTypes : at(u) = at(v) => u = v
      BY <1>6
    <3>2. QED
      BY <1>12, <2>1, <3>1
  <2>3. \A s \in D : s \in A <=> mn[s] \in B
    BY <1>16, <2>2
  <2>4. A \in SUBSET D /\ B \in SUBSET E
    OBVIOUS
  <2>5. o.value = calculateChartTotalScore(A)
    BY <1>6, <1>8, <2>1
  <2> HIDE DEF A, B
  <2>6. calculateChartTotalScore(B) = calculateChartTotalScore(A)
    BY <1>2, <1>11, <1>16, <2>3, <2>4, SumsStay
  <2>7. QED
    BY <2>5, <2>6 DEF B
<1>18. ASSUME NEW i \in E, NEW j \in E, i.place < j.place
       PROVE  of[i].place <= of[j].place
  <2>1. CASE i.type = Common \/ j.type # Common
    BY <1>13, <2>1
  <2>2. CASE i.type # Common /\ j.type = Common
    <3>1. PICK r \in F, s \in F : m[r] = i /\ m[s] = j
      BY <1>11
    <3> DEFINE a == rank[r]
               b == rank[s]
               p == r.place
               q == s.place
    <3>2. a \in 11..15 /\ b \in 1..5 /\ p \in 2..13 /\ q \in 2..13
      BY <1>9, <1>11, <2>2, <3>1
    <3>3. 100 * a + p < 100 * b + q
      BY <1>11, <1>18, <3>1
    <3> HIDE DEF a, b, p, q
    <3>4. QED
      BY <3>2, <3>3
  <2>3. QED
    BY <2>1, <2>2
<1>19. Divides(E, X, of)
  BY <1>11, <1>13, <1>15, <1>17, <1>18 DEF Divides
<1>20. calculateChartTotalScore(E) = T
  <2>1. calculateChartTotalScore({s \in D : s.name \in SubjectNames}) = T
    BY <1>2, NamesSum DEF T, calculateTotalScore
  <2>2. {s \in D : s.name \in SubjectNames} = D
    BY <1>2, DetailIs
  <2>3. calculateChartTotalScore(E) = calculateChartTotalScore(D)
    BY <1>2, <1>11, <1>16, SumsStay
  <2>4. QED
    BY <2>1, <2>2, <2>3
<1>21. \A i \in E : getChartFillColor(i, TRUE) = i.type /\ getChartFillColor(of[i], TRUE) = i.type
  BY <1>6, <1>12 DEF getChartFillColor
<1>22. \A slice \in E \cup X : getChartFillColor(slice, TRUE) \in PatternRenderer
  <2>1. ExamTypes \subseteq PatternRenderer
    BY Names
  <2>2. \A o \in X : getChartFillColor(o, TRUE) \in ExamTypes
    BY <1>6, <1>14 DEF getChartFillColor
  <2>3. QED
    BY <1>12, <1>21, <2>1, <2>2
<1>23. QED
  BY <1>1, <1>19, <1>20, <1>21, <1>22 DEF Fits, T
-----------------------------------------------------------------------------
(* Both charts.                                                             *)

\* The total of the table is that of the charts.
LEMMA TableTotal ==
    ASSUME NEW scores \in Scores
    PROVE  SubjectScoreTable(scores).total.sum.value = calculateTotalScore(scores)
<1> DEFINE f == [name \in SubjectNames |-> scores[name].commonTest + scores[name].secondTest]
           g == [name \in SubjectNames |-> scores[name].commonTest]
           h == [name \in SubjectNames |-> scores[name].secondTest]
<1>1. SubjectScoreTable(scores).total.sum.value = calculateTotalScores(scores).total
  BY DEF SubjectScoreTable, TableRow
<1>2. calculateTotalScores(scores).total
          = SumFunctionOnSet(g, SubjectNames) + SumFunctionOnSet(h, SubjectNames)
  BY DEF calculateTotalScores, SumFunction
<1>3. calculateTotalScore(scores) = SumFunctionOnSet(f, SubjectNames)
  BY DEF calculateTotalScore, AllPoints, SumFunction
<1>4. \A name \in SubjectNames :
          g[name] \in Int /\ h[name] \in Int /\ f[name] = g[name] + h[name]
  BY DEF Scores
<1>5. IsFiniteSet(SubjectNames)
  <2>1. [k \in 1..6 |-> Subjects[k]] \in Surjection(1..6, SubjectNames)
    BY Names DEF Surjection
  <2>2. IsFiniteSet(1..6)
    BY 1 \in Int, 6 \in Int, FS_Interval
  <2>3. QED
    BY <2>1, <2>2, FS_Surjection
<1> HIDE DEF f, g, h
<1>6. SumFunctionOnSet(f, SubjectNames)
          = SumFunctionOnSet(g, SubjectNames) + SumFunctionOnSet(h, SubjectNames)
  BY <1>4, <1>5, SumAdds
<1>7. QED
  BY <1>1, <1>2, <1>3, <1>6

\* What RingsAgree says of a chart.
Agree(chart, total) ==
    /\ calculateChartTotalScore(chart.inner) = total
    /\ calculateChartTotalScore(chart.outer) = total
    /\ \A inner \in chart.inner, outer \in chart.outer :
           Meet(chart, inner, outer) => chart.fill[inner] = chart.fill[outer]
    /\ Range(chart.fill) \subseteq PatternRenderer

LEMMA DrawnRingsAgree ==
    ASSUME NEW chart, NEW isRightChart, NEW total, Fits(chart, isRightChart, total)
    PROVE  Agree(DonutChart(chart, isRightChart), total)
<1> DEFINE drawn == DonutChart(chart, isRightChart)
           I == chart.inner
           O == chart.outer
<1>1. /\ drawn.inner = I /\ drawn.outer = O
      /\ DOMAIN drawn.fill = I \cup O
      /\ \A slice \in I \cup O : drawn.fill[slice] = getChartFillColor(slice, isRightChart)
  BY DEF DonutChart
<1>2. PICK of : /\ Divides(I, O, of)
                /\ \A slice \in I : getChartFillColor(slice, isRightChart)
                                      = getChartFillColor(of[slice], isRightChart)
  BY DEF Fits
<1>3. calculateChartTotalScore(I) = total
  BY DEF Fits
<1> HIDE DEF drawn
<1>4. calculateChartTotalScore(O) = total
  <2>1. {i \in I : of[i] \in O} = I
    BY <1>2 DEF Divides
  <2>2. calculateChartTotalScore(O) = calculateChartTotalScore({i \in I : of[i] \in O})
    BY <1>2, CoversTheSame
  <2>3. QED
    BY <1>3, <2>1, <2>2
<1>5. ASSUME NEW i \in I, NEW o \in O, Meet(drawn, i, o)
      PROVE  drawn.fill[i] = drawn.fill[o]
  <2>1. Divides(drawn.inner, drawn.outer, of)
    BY <1>1, <1>2
  <2>2. of[i] = o
    BY <1>1, <1>5, <2>1, RingsMatch
  <2>3. QED
    BY <1>1, <1>2, <2>2
<1>6. Range(drawn.fill) \subseteq PatternRenderer
  BY <1>1 DEF Range, Fits
<1>7. QED
  BY <1>1, <1>3, <1>4, <1>5, <1>6 DEF drawn, Agree

\* Whatever tests and points a schedule has, both rings of both charts go round for the total
\* of the table, slices that meet belong together, and every slice has a pattern.
THEOREM RingsFit == Spec => []RingsAgree
<1>1. Inv => RingsAgree
  <2> SUFFICES ASSUME Inv, NEW w \in Windows, window[w].status = Shown
               PROVE  \A chart \in UniversityPage(w).charts :
                          Agree(chart, UniversityPage(w).table.total.sum.value)
    BY DEF RingsAgree, Agree
  <2> DEFINE scores == window[w].subject.subjects
             T == calculateTotalScore(scores)
             page == UniversityPage(w)
             left == useSubjectChart(scores).subjectChart
             right == useSubjectChart(scores).examChart
  <2>1. scores \in Scores
    BY DEF Inv, Browser, IsWindow
  <2>2. page = UniversityLayout(window[w].subject)
    BY Statuses DEF UniversityPage
  <2>3. /\ page.charts = {DonutChart(left, FALSE), DonutChart(right, TRUE)}
        /\ page.table = SubjectScoreTable(scores)
    BY <2>2 DEF UniversityLayout, SubjectExamComparisonChart
  <2> HIDE DEF scores, page
  <2>4. page.table.total.sum.value = T
    BY <2>1, <2>3, TableTotal
  <2>5. Fits(left, FALSE, T) /\ Fits(right, TRUE, T)
    BY <2>1, LeftChartFits, RightChartFits
  <2> HIDE DEF left, right, T
  <2>6. \A chart \in page.charts : Agree(chart, T)
    BY <2>3, <2>5, DrawnRingsAgree
  <2>7. QED
    BY <2>4, <2>6 DEF page
<1>2. QED
  BY <1>1, InvHolds, PTL
=============================================================================
