----------------------------- MODULE SearchForm -----------------------------
(* The search form of the home page: sort order, keyword, one group of the   *)
(* detailed conditions (the other three are the same component with a state  *)
(* of their own), the message, and the submissions React runs in order.      *)
EXTENDS CheckboxGroup

CONSTANTS
    Keywords,     \* what the visitor may type besides nothing
    SortFields,   \* the menus of the sort condition
    SortOptions,  \* what may be picked in each
    NoAnswer,     \* no search has answered since the form was mounted
    MaxPending    \* bound: searches that wait for an answer

ASSUME FormAssumption == MaxPending \in Nat \ {0}
ASSUME BlankAssumption == "" \notin Keywords /\ "" \notin SortOptions

VARIABLES
    keyword,       \* what stands in the uncontrolled input
    sortOrder,     \* the one sort condition
    initialState,  \* message in the module's initialState object, which outlives the form
    answer,        \* message in the object the last search returned
    message,       \* the message last rendered
    pending,       \* searches dispatched and not answered
    resetDue       \* a submission ended and its form reset is to come

pageVars == <<keyword, sortOrder, initialState, answer, message, pending, resetDue>>
formVars == <<groupVars, pageVars>>

NoMessage == "no message"
Invalid == "invalid input"
ApiError == "api error"
SearchSuccess == "search success"

Messages == {NoMessage, Invalid, ApiError, SearchSuccess}

ASSUME NoAnswerAssumption == NoAnswer \notin Messages

\* What useActionState holds: the initial object until a search has answered.
State == IF answer = NoAnswer THEN initialState ELSE answer

NoSort == [f \in SortFields |-> ""]

\* initialState and the state variables of a form just mounted.
FormInit ==
    /\ GroupInit
    /\ keyword = "" /\ sortOrder = NoSort
    /\ initialState = NoMessage /\ answer = NoAnswer /\ message = NoMessage
    /\ pending = 0 /\ resetDue = FALSE

\* The fields of a submission that SearchFormSchema requires.
RequiredFields == {"page", "perPage"}
SafeParse(fields) == RequiredFields \subseteq fields

\* handleSubmit takes page and perPage from the form, which has no such input.
SubmittedFields == {"keyword", "region", "sortOrder"}

\* searchUniversities puts in the defaults for both.
SearchedFields == SubmittedFields \cup RequiredFields

\* fetch refuses a GET request with a body before anything is sent.
Answers(method, hasBody) ==
    IF method = "GET" /\ hasBody THEN {ApiError} ELSE {ApiError, SearchSuccess}

fetchUniversities == Answers("GET", TRUE)

searchUniversities == IF SafeParse(SearchedFields) THEN fetchUniversities ELSE {ApiError}

FormUnchanged == UNCHANGED <<keyword, sortOrder, initialState, answer, pending, resetDue>>

\* The form shows the message its state has when it is rendered.
Render == message' = State

TypeKeyword ==
    /\ \E k \in Keywords \cup {""} : keyword' = k
    /\ UNCHANGED <<groupVars, sortOrder, initialState, answer, message, pending, resetDue>>

\* A change of the form's state renders it and what the group has handed over.
handleSortChange ==
    /\ \E f \in SortFields, v \in SortOptions : sortOrder' = [sortOrder EXCEPT ![f] = v]
    /\ initialSelected' = IF isExpanded THEN selectedItems ELSE initialSelected
    /\ Render
    /\ UNCHANGED <<isExpanded, selectedItems, keyword, initialState, answer, pending, resetDue>>

\* A click in the group renders the form only when the form's array changes with it.
ClickGroup ==
    /\ Clicks
    /\ message' = IF initialSelected' # initialSelected THEN State ELSE message
    /\ FormUnchanged

HandOver == onSelectionChange /\ Render /\ FormUnchanged

ToggleDetails == onToggleExpanded /\ Render /\ FormUnchanged

\* A blank keyword is dispatched without validation, which renders the form.
SubmitBlank ==
    /\ keyword = ""
    /\ pending < MaxPending
    /\ pending' = pending + 1
    /\ Render
    /\ initialSelected' = IF isExpanded THEN selectedItems ELSE initialSelected
    /\ UNCHANGED <<isExpanded, selectedItems, keyword, sortOrder, initialState, answer, resetDue>>

\* The state object is assigned to, which renders nothing.
Refuse ==
    /\ IF answer = NoAnswer
          THEN initialState' = Invalid /\ UNCHANGED answer
          ELSE answer' = Invalid /\ UNCHANGED initialState
    /\ resetDue' = TRUE
    /\ UNCHANGED <<groupVars, keyword, sortOrder, message, pending>>

SubmitKeyword ==
    /\ keyword # ""
    /\ IF SafeParse(SubmittedFields)
          THEN /\ pending < MaxPending
               /\ pending' = pending + 1
               /\ Render
               /\ UNCHANGED <<groupVars, keyword, sortOrder, initialState, answer, resetDue>>
          ELSE Refuse

\* Faulty variant of Settles: the answer is kept in an object that nothing renders.
SettlesUnseen(m) == answer' = m /\ UNCHANGED message

\* Faulty variant of Settles: the answer is dropped.
SettlesWithout(m) == UNCHANGED <<answer, message>>

\* The last answer becomes the state and is rendered.
Settles(m) == answer' = m /\ message' = m

\* Searches run one after the other; React shows the last answer and resets the form
\* once none is left.
Answer ==
    /\ pending > 0
    /\ pending' = pending - 1
    /\ IF pending = 1
          THEN /\ \E m \in searchUniversities : Settles(m)
               /\ keyword' = "" /\ resetDue' = FALSE
               /\ initialSelected' = IF isExpanded THEN selectedItems ELSE initialSelected
          ELSE UNCHANGED <<answer, message, keyword, resetDue, initialSelected>>
    /\ UNCHANGED <<isExpanded, selectedItems, sortOrder, initialState>>

\* The reset after a refused submission, when no search keeps it waiting.
ResetForm ==
    /\ resetDue /\ pending = 0
    /\ keyword' = "" /\ resetDue' = FALSE
    /\ UNCHANGED <<groupVars, sortOrder, initialState, answer, message, pending>>

\* The visitor follows a link of the header and comes back to a new form.
LeaveAndReturn ==
    /\ Unmount
    /\ keyword' = "" /\ sortOrder' = NoSort
    /\ answer' = NoAnswer /\ message' = initialState
    /\ pending' = 0 /\ resetDue' = FALSE
    /\ UNCHANGED initialState

FormNext ==
    \/ TypeKeyword \/ handleSortChange \/ ClickGroup \/ HandOver \/ ToggleDetails
    \/ SubmitBlank \/ SubmitKeyword \/ Answer \/ ResetForm \/ LeaveAndReturn

\* React renders what is queued and searches end; no visitor has to do anything.
FormFairness == WF_formVars(HandOver) /\ WF_formVars(Answer) /\ WF_formVars(ResetForm)

FormSpec == FormInit /\ [][FormNext]_formVars /\ FormFairness

-----------------------------------------------------------------------------
(* Type invariant of the form. *)
FormTypeOK ==
    /\ GroupTypeOK
    /\ keyword \in Keywords \cup {""}
    /\ sortOrder \in [SortFields -> SortOptions \cup {""}]
    /\ initialState \in {NoMessage, Invalid}
    /\ answer \in {NoAnswer} \cup Messages
    /\ message \in Messages
    /\ pending \in 0..MaxPending
    /\ resetDue \in BOOLEAN

\* The visitor sees the state of the last search, except that a refusal may still be
\* unseen: it is the one change of the state that no render follows.
OnlyRefusalsAreUnseen == message # State => State = Invalid
=============================================================================
