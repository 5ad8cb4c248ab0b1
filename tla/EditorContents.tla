---------------------------- MODULE EditorContents ----------------------------
(***************************************************************************)
(* What the administrator's page does to the contents of a department, and *)
(* what becomes of the requests of a save: the handlers and the cards of   *)
(* front/src/features/admin together with the routes and handlers of the   *)
(* server (back/internal/server, back/internal/handlers).                  *)
(*                                                                         *)
(* UniversityEditor has the universities and departments, with contents as *)
(* values; here is one department, with its first major, schedule and      *)
(* admission information, the only ones the page shows.  Percentages count *)
(* hundredths of a percent.                                                *)
(***************************************************************************)
EXTENDS Integers, FiniteSets, SequencesExt, FiniteSetsExt

CONSTANTS
    InfoFields,   \* the fields of BasicInfo that are modelled
    Texts,        \* what is typed into them
    Names,        \* what is typed into the names of subjects
    NoText,       \* the empty text
    Scores,       \* the numbers that are typed
    Departments0, \* the departments the server may hold, with info, tests and dates
    Kinds,        \* the requests of a save that are modelled
    NetworkFails, \* whether requests and answers may be lost
    MaxAdds,      \* bound on the subjects added
    MaxTries      \* bound on the saves

TestTypes == {"common", "second"}

AllKinds == {"university", "department", "subjects", "major", "schedule", "info"}

\* Date.now(), later than any id of the server.
Now(n) == 1000 + n

\* In hundredths.
Percentages == 0..10000

\* Only the scores are checked by the database: the checks of percentages and display orders
\* are tags of blank fields, which gorm passes over.
Subject == [id : Nat, name : STRING, score : Nat, percentage : Int, order : Int]

\* ids tells the subjects of both test types apart.
Distinct(tests) ==
    \A t, u \in TestTypes : \A j \in DOMAIN tests[t], k \in DOMAIN tests[u] :
        tests[t][j].id = tests[u][k].id => t = u /\ j = k

\* The department as the database keeps it: the ids of subjects are their keys.
IsDepartment(d) ==
    /\ d = [info |-> d.info, tests |-> d.tests, dates |-> d.dates]
    /\ DOMAIN d.info = InfoFields
    /\ d.tests \in [TestTypes -> Seq(Subject)]
    /\ Distinct(d.tests)
    /\ \A t \in TestTypes : \A k \in DOMAIN d.tests[t] : d.tests[t][k].id < Now(0)

ASSUME ContentsAssumption ==
    /\ Kinds \subseteq AllKinds /\ Scores \subseteq Nat /\ NetworkFails \in BOOLEAN
    /\ Names \subseteq STRING /\ NoText \in STRING
    /\ MaxAdds \in Nat /\ MaxTries \in Nat
    /\ \A d \in Departments0 : IsDepartment(d)

VARIABLES
    stored,      \* the department on the server
    shown,       \* the department in the page's list, NotLoaded before the first answer
    loaded,      \* history: the department as the list was loaded
    isEditing,   \* editMode
    backupState,
    editValues,  \* for each ExamSection the scores typed into its cards
    phase,       \* what the page waits for: mount, idle, saving, reload
    failed,      \* an error message is set: nothing else is shown
    sent,        \* requests the server has not answered yet
    adds,        \* subjects added: the clock that names them
    tries,       \* saves so far
    discarded,   \* history: changes were discarded since the cards were mounted
    rescored     \* history: the test types in which a score was changed since the list is as it
                 \* was loaded

contents == <<stored, shown, loaded, isEditing, backupState, editValues, phase, failed, sent,
              adds, tries, discarded, rescored>>

NotLoaded == [info |-> <<>>, tests |-> <<>>, dates |-> "none"]
NoEditValues == [t \in TestTypes |-> <<>>]

Begin ==
    /\ stored \in Departments0
    /\ shown = NotLoaded /\ loaded = NotLoaded /\ backupState = NotLoaded
    /\ isEditing = FALSE
    /\ editValues = NoEditValues
    /\ phase = "mount" /\ failed = FALSE
    /\ sent = {} /\ adds = 0 /\ tries = 0 /\ discarded = FALSE /\ rescored = {}

-----------------------------------------------------------------------------
(* From the answer of the server to the list, and the subjects in it.      *)

\* The times of the server become texts of the browser's making.
RFC3339 == "RFC 3339"
formatDate(date) == "Date.toString"

transformUniversity(department) == [department EXCEPT !.dates = formatDate(@)]

TotalScore(subjects) == SumFunction([k \in DOMAIN subjects |-> subjects[k].score])

\* (score / total * 100).toFixed(2)
Share(score, total) == IF total > 0 THEN (20000 * score + total) \div (2 * total) ELSE 0

\* Faulty variant of calculateUpdatedSubjects: the total of before the change.
DividesByOldTotal(subjects, id, value) ==
    [k \in DOMAIN subjects |->
        LET score == IF subjects[k].id = id THEN value ELSE subjects[k].score
        IN  [subjects[k] EXCEPT !.score = score, !.percentage = Share(score, TotalScore(subjects))]]

\* The new score, and the share of every subject in its own test type's total.
calculateUpdatedSubjects(subjects, id, value) ==
    LET updated == [k \in DOMAIN subjects |->
                       IF subjects[k].id = id THEN [subjects[k] EXCEPT !.score = value]
                       ELSE subjects[k]]
    IN  [k \in DOMAIN updated |->
            [updated[k] EXCEPT !.percentage = Share(updated[k].score, TotalScore(updated))]]

\* Faulty variant of transformSubjectFromAPI: a subject without a score keeps its order.
ForgetsSomeOrders(subject) == IF subject.score = 0 THEN subject ELSE [subject EXCEPT !.order = 0]

\* Every field survives the way through the form of the API but the order.
transformSubjectFromAPI(subject) == [subject EXCEPT !.order = 0]

\* Faulty variant of EmptySubject: the id is counted in the test type.
CountsIds(subjects, id) ==
    [id |-> Len(subjects) + 1, name |-> NoText, score |-> 0, percentage |-> 0,
     order |-> Len(subjects) + 1]

EmptySubject(subjects, id) ==
    [id |-> id, name |-> NoText, score |-> 0, percentage |-> 0, order |-> Len(subjects) + 1]

\* SubjectList: a stable sort by display order.
ComesBefore(subjects, j, k) ==
    \/ subjects[j].order < subjects[k].order
    \/ subjects[j].order = subjects[k].order /\ j < k

sortedSubjects(subjects) ==
    LET place(k) == Cardinality({j \in DOMAIN subjects : ComesBefore(subjects, j, k)}) + 1
    IN  [n \in DOMAIN subjects |-> subjects[CHOOSE k \in DOMAIN subjects : place(k) = n]]

Cards(department, t) == sortedSubjects(department.tests[t])

\* What the card of a department shows: its fields, and the subjects of both tests.
InfoCombiner(department) ==
    [basicInfo |-> department.info, exams |-> [t \in TestTypes |-> Cards(department, t)]]

\* What the card of a subject shows: the score typed into it, if there is one.
CardScore(t, subject) ==
    IF subject.id \in DOMAIN editValues[t] THEN editValues[t][subject.id] ELSE subject.score

-----------------------------------------------------------------------------
(* The administrator.                                                      *)

\* The page shows one of these: the spinner, the message, or else the cards.
AdminLayout(isLoading, error) ==
    IF isLoading THEN "spinner" ELSE IF error THEN "message" ELSE "cards"

AdminPageContent == AdminLayout(phase # "idle", failed)

CardsVisible == AdminPageContent = "cards"
Edits == CardsVisible /\ isEditing

\* A department has the buttons to save and to cancel, or the one to edit.
EditButtons(editing) == CardsVisible /\ isEditing = editing

handleEdit ==
    /\ EditButtons(FALSE)
    /\ isEditing' = TRUE /\ backupState' = shown
    /\ UNCHANGED <<stored, shown, loaded, editValues, phase, failed, sent, adds, tries,
                   discarded, rescored>>

validateDepartmentUpdate(text) == text # NoText

updateDepartmentField(department, field, text) ==
    IF validateDepartmentUpdate(text) THEN [department EXCEPT !.info[field] = text]
    ELSE department

\* The university's name is not validated.
updateDepartmentInUniversity(department, field, text) ==
    IF field = "universityName" THEN [department EXCEPT !.info[field] = text]
    ELSE updateDepartmentField(department, field, text)

handleInfoChange(field, text) ==
    /\ Edits
    /\ shown' = updateDepartmentInUniversity(shown, field, text)
    /\ UNCHANGED <<stored, loaded, isEditing, backupState, editValues, phase, failed, sent, adds,
                   tries, discarded, rescored>>

\* { ...prev, [subjectId]: value }
setEditValues(values, id, value) ==
    [i \in {id} \cup DOMAIN values |-> IF i = id THEN value ELSE values[i]]

\* Faulty variant of ScoreTyped: a score of zero counts as none.
IgnoresZero(t, id, value) ==
    /\ editValues' = [editValues EXCEPT ![t] = setEditValues(@, id, value)]
    /\ IF value = 0 THEN UNCHANGED shown
       ELSE shown' = [shown EXCEPT !.tests[t] = [k \in DOMAIN @ |->
               transformSubjectFromAPI(calculateUpdatedSubjects(@, id, value)[k])]]

\* Both the section's own copy and the list get the score.
ScoreTyped(t, id, value) ==
    /\ editValues' = [editValues EXCEPT ![t] = setEditValues(@, id, value)]
    /\ shown' = [shown EXCEPT !.tests[t] = [k \in DOMAIN @ |->
           transformSubjectFromAPI(calculateUpdatedSubjects(@, id, value)[k])]]

\* The input takes digits up to the highest score.
EditScore(value) == value \in 0..1000

handleScoreChange(t, id, value) ==
    /\ Edits /\ EditScore(value)
    /\ ScoreTyped(t, id, value)
    /\ rescored' = rescored \cup {t}
    /\ UNCHANGED <<stored, loaded, isEditing, backupState, phase, failed, sent, adds, tries,
                   discarded>>

updateTestTypesWithNewSubject(tests, t, subject) == [tests EXCEPT ![t] = Append(@, subject)]

handleAddSubject(t) ==
    /\ Edits /\ adds < MaxAdds
    /\ adds' = adds + 1
    /\ shown' = [shown EXCEPT !.tests =
           updateTestTypesWithNewSubject(@, t, EmptySubject(@[t], Now(adds)))]
    /\ UNCHANGED <<stored, loaded, isEditing, backupState, editValues, phase, failed, sent, tries,
                   discarded, rescored>>

\* The subject is looked for in both test types.
updateTestTypesWithSubjectName(tests, id, name) ==
    [t \in TestTypes |->
        [k \in DOMAIN tests[t] |->
            IF tests[t][k].id = id THEN [tests[t][k] EXCEPT !.name = name] ELSE tests[t][k]]]

handleSubjectNameChange(id, name) ==
    /\ Edits
    /\ shown' = [shown EXCEPT !.tests = updateTestTypesWithSubjectName(@, id, name)]
    /\ UNCHANGED <<stored, loaded, isEditing, backupState, editValues, phase, failed, sent, adds,
                   tries, discarded, rescored>>

\* The list gets its backup back; what was typed stays with the cards.
handleCancel ==
    /\ EditButtons(TRUE)
    /\ shown' = backupState
    /\ isEditing' = FALSE /\ backupState' = NotLoaded
    /\ discarded' = TRUE
    /\ rescored' = {}
    /\ UNCHANGED <<stored, loaded, editValues, phase, failed, sent, adds, tries>>

-----------------------------------------------------------------------------
(* The requests of a save.                                                 *)

\* Majors, schedules and admission information are not modelled further.
Body(kind) ==
    CASE kind \in {"university", "department"} -> shown.info
      [] kind = "subjects" -> shown.tests
      [] OTHER -> <<>>

\* The spinner takes the place of the cards, which lose what was typed into them.
Unmounted == editValues' = NoEditValues /\ discarded' = FALSE

handleSave ==
    /\ EditButtons(TRUE) /\ tries < MaxTries
    /\ tries' = tries + 1
    /\ phase' = "saving"
    /\ sent' = sent \cup {[kind |-> kind, try |-> tries + 1, body |-> Body(kind),
                           dates |-> shown.dates] : kind \in Kinds}
    /\ Unmounted
    /\ UNCHANGED <<stored, shown, loaded, isEditing, backupState, failed, adds, rescored>>

\* The routes there are, the parameters in their paths, and those their handlers look up.
RouteParams == [university |-> {"id"},
                department |-> {"universityID", "departmentID"},
                subjects   |-> {"universityID", "departmentID"}]

HandlerParams == [university |-> {"id"},
                  department |-> {"universityId", "departmentId"},
                  subjects   |-> {"departmentId"}]

\* Reading the body of a request leaves none to the next reader.
ReadersOfBody == <<"validateRequestBody", "bindRequest">>
BodyIsLeft(k) == k = 1

\* The server's decoder takes its own times only, and the subjects as a list, which come in
\* an object.  The university's times have names it does not know.
Decodes(request) ==
    CASE request.kind = "department" -> request.dates = RFC3339
      [] request.kind = "subjects" -> FALSE
      [] OTHER -> TRUE

\* Faulty variant of Handled: the body can be read as often as one likes.
HandledByRereading(request) ==
    /\ request.kind \in DOMAIN RouteParams
    /\ HandlerParams[request.kind] \subseteq RouteParams[request.kind]
    /\ Decodes(request)

\* A request without a route is answered 404, and 400 one whose ids are not found in its path
\* or whose body does not reach every reader, or is not what the handler decodes.
Handled(request) ==
    /\ request.kind \in DOMAIN RouteParams
    /\ HandlerParams[request.kind] \subseteq RouteParams[request.kind]
    /\ \A k \in DOMAIN ReadersOfBody : BodyIsLeft(k)
    /\ Decodes(request)

\* What a request that is handled stores.
Stored(request) ==
    CASE request.kind = "university" -> [stored EXCEPT !.info = [field \in InfoFields |->
             IF field = "universityName" THEN request.body[field] ELSE @[field]]]
      [] request.kind = "department" -> [stored EXCEPT !.info = [field \in InfoFields |->
             IF field = "departmentName" THEN request.body[field] ELSE @[field]]]
      [] request.kind = "subjects" -> [stored EXCEPT !.tests = request.body]

\* The server handles a request and the page learns how that ended.  The first failure ends
\* the save and brings the backup back; the page stays behind its message.
Answer(request, arrives, answered) ==
    LET handled == Handled(request) /\ arrives
        done == handled /\ answered
        others == {r \in sent : r # request /\ r.try = request.try}
    IN
    /\ (arrives /\ answered) \/ NetworkFails
    /\ sent' = sent \ {request}
    /\ stored' = IF handled THEN Stored(request) ELSE stored
    /\ IF phase = "saving" /\ request.try = tries
       THEN /\ phase' = IF ~ done THEN "idle" ELSE IF others = {} THEN "reload" ELSE "saving"
            /\ failed' = ~ done
            /\ shown' = IF done THEN shown ELSE backupState
            /\ rescored' = IF done THEN rescored ELSE {}
       ELSE UNCHANGED <<phase, failed, shown, rescored>>
    /\ UNCHANGED <<loaded, isEditing, backupState, editValues, adds, tries, discarded>>

Load ==
    /\ phase \in {"mount", "reload"}
    /\ shown' = transformUniversity(stored) /\ loaded' = stored
    /\ isEditing' = FALSE /\ backupState' = NotLoaded
    /\ phase' = "idle" /\ failed' = FALSE
    /\ Unmounted
    /\ rescored' = {}
    /\ UNCHANGED <<stored, sent, adds, tries>>

LoadFails ==
    /\ phase \in {"mount", "reload"} /\ NetworkFails
    /\ isEditing' = FALSE /\ backupState' = NotLoaded
    /\ phase' = "idle" /\ failed' = TRUE
    /\ UNCHANGED <<stored, shown, loaded, editValues, sent, adds, tries, discarded,
                   rescored>>

\* The browser loads the page anew; requests that were sent go on.
OpenPage ==
    /\ shown' = NotLoaded /\ loaded' = NotLoaded /\ backupState' = NotLoaded
    /\ isEditing' = FALSE
    /\ phase' = "mount" /\ failed' = FALSE
    /\ Unmounted
    /\ rescored' = {}
    /\ UNCHANGED <<stored, sent, adds, tries>>

ContentsNext ==
    \/ handleEdit \/ handleCancel \/ handleSave \/ Load \/ LoadFails \/ OpenPage
    \/ \E field \in InfoFields, text \in Texts : handleInfoChange(field, text)
    \/ Edits /\ \E t \in TestTypes : \E subject \in Range(shown.tests[t]) :
          \/ \E value \in Scores : handleScoreChange(t, subject.id, value)
          \/ \E name \in Names : handleSubjectNameChange(subject.id, name)
    \/ \E t \in TestTypes : handleAddSubject(t)
    \/ \E request \in sent, arrives, answered \in BOOLEAN : Answer(request, arrives, answered)

ContentsSpec == Begin /\ [][ContentsNext]_contents

-----------------------------------------------------------------------------
(* Properties.                                                             *)

\* Type invariant: outside edit mode there is no backup, and ids are told apart.
ContentsTypeOK ==
    /\ shown # NotLoaded => DOMAIN shown.info = InfoFields
    /\ phase \in {"mount", "idle", "saving", "reload"}
    /\ isEditing <=> backupState # NotLoaded
    /\ adds \in 0..MaxAdds /\ tries \in 0..MaxTries
    /\ shown # NotLoaded =>
          LET subjects == shown.tests["common"] \o shown.tests["second"]
          IN  \A j, k \in DOMAIN subjects :
                 /\ subjects[j].id = subjects[k].id => j = k
                 /\ subjects[k].score \in Nat /\ subjects[k].percentage \in Int

\* A card shows the score that a save would send, unless changes were discarded while the
\* cards stayed: what was typed into them comes back even in another edit.
CardsShowWhatIsSent ==
    CardsVisible /\ ~ discarded =>
        \A t \in TestTypes : \A subject \in Range(shown.tests[t]) :
            CardScore(t, subject) = subject.score

\* In a test type one of whose scores was changed the percentages are such, and add up to one
\* hundred within their rounding, whatever the server sent and whatever was added since.
\* (The server counts them over both test types.)
PercentagesAddUp ==
    CardsVisible => \A t \in rescored :
        LET subjects == shown.tests[t]
            sum == SumFunction([k \in DOMAIN subjects |-> subjects[k].percentage])
        IN  /\ \A k \in DOMAIN subjects : subjects[k].percentage \in Percentages
            /\ TotalScore(subjects) > 0
                  => 2 * (sum - 10000) \in (- Len(subjects))..Len(subjects)

\* The display orders count the subjects of a test type, as the database is seeded.
Counted(department) ==
    /\ department # NotLoaded
    /\ \A t \in TestTypes : \A k \in DOMAIN department.tests[t] : department.tests[t][k].order = k

\* Editing moves no card: changes lose the display orders and additions count their own,
\* and still a card stays where it is and a new one comes last.  (Where the orders have gaps,
\* the order of a new subject may be that of one in the middle.)
CardsKeepTheirPlace ==
    [][Edits /\ Edits' /\ Counted(loaded) =>
          LET before == InfoCombiner(shown).exams
              after == InfoCombiner(shown').exams
              ids(cards) == [k \in DOMAIN cards |-> cards[k].id]
          IN  \A t \in TestTypes : IsPrefix(ids(before[t]), ids(after[t]))]_contents

\* A save that the page reports as failed has stored nothing, and nor has any request of it
\* that was answered later.
FailedSavesStoreNothing == failed /\ isEditing => stored = loaded

\* Where the network does not fail, a save succeeds.  (The endpoints of the page "have to be
\* kept in step with the endpoints of the back end".)
SaveSucceeds == failed => NetworkFails
=============================================================================
