--------------------------- MODULE UniversityEditor ---------------------------
(***************************************************************************)
(* useUniversityEditor and useUniversityData                               *)
(* (front/src/features/admin/hooks): the administrator's page, which edits *)
(* one department at a time in a copy of the list of universities, and the *)
(* requests its save sends.                                                *)
(*                                                                         *)
(* What a request saves is a field: the university, or a part of the       *)
(* department (the department itself, its subjects, major, schedule and    *)
(* admission information); contents are abstract values.  The server is    *)
(* external: it handles requests in any order, may refuse one, and its     *)
(* answer may be lost.  The page shows nothing but a spinner while it      *)
(* loads and nothing but the message when there is an error, so that the   *)
(* user acts only between.                                                 *)
(***************************************************************************)
EXTENDS Naturals, FiniteSets

CONSTANTS
    Departments,     \* the departments of the server, and NewDepartment
    UniversityOf,    \* UniversityOf[d]: the university d belongs to
    NewDepartment,   \* the department of a university that is being inserted
    Parts,           \* the parts of a department that are saved by a request each
    Values,          \* contents of a field
    Blank,           \* the contents of the fields of an inserted university
    Absent,          \* marks a field that is not there
    NoDepartment,    \* nothing is being edited
    NoBackup,
    MaxSaves         \* bound on the number of saves

Universities == {UniversityOf[d] : d \in Departments}
New == UniversityOf[NewDepartment]

FieldsOf(u) ==
    {<<u, "university">>} \cup {<<d, x>> : d \in {e \in Departments : UniversityOf[e] = u}, x \in Parts}

Fields == UNION {FieldsOf(u) : u \in Universities}

ASSUME EditorAssumption ==
    /\ IsFiniteSet(Departments) /\ IsFiniteSet(Parts)
    /\ NewDepartment \in Departments /\ NoDepartment \notin Departments
    /\ Departments # {NewDepartment}
    /\ DOMAIN UniversityOf = Departments
    /\ \A d \in Departments \ {NewDepartment} : UniversityOf[d] # New
    /\ Departments \cap Universities = {}
    /\ Blank \in Values /\ Absent \notin Values
    /\ \A u \in Universities : NoBackup \notin [FieldsOf(u) -> Values \cup {Absent}]
    /\ MaxSaves \in Nat

VARIABLES
    server,     \* server[f]: what the server holds
    page,       \* page[f]: what the list of the page holds
    fetched,    \* history: the last answer the list was loaded from
    editing,    \* editMode: the department being edited
    backup,     \* backupState: the fields of its university when editing began
    wait,       \* what the hooks wait for: mount, idle, saving, reload
    error,      \* an error message is set
    awaited,    \* the fields whose request has not been answered yet
    flight,     \* requests the server has not handled yet
    answers,    \* answers that have not reached the page yet
    saves,      \* number of saves so far
    committed   \* history: the fields of the last save that the server has stored

vars == <<server, page, fetched, editing, backup, wait, error, awaited, flight, answers,
          saves, committed>>
requests == <<awaited, flight, answers, saves, committed>>

\* The fields an administrator who edits d changes, and a save of d sends.
FieldsOfEdit(d) == {<<UniversityOf[d], "university">>} \cup {<<d, x>> : x \in Parts}

Empty == [f \in Fields |-> Absent]

Init ==
    /\ server \in [Fields -> Values \cup {Absent}]
    /\ \A f \in Fields : server[f] = Absent <=> f \in FieldsOf(New)
    /\ page = Empty /\ fetched = Empty
    /\ editing = NoDepartment /\ backup = NoBackup
    /\ wait = "mount" /\ error = FALSE
    /\ awaited = {} /\ flight = {} /\ answers = {} /\ saves = 0 /\ committed = {}

-----------------------------------------------------------------------------
(* The user.                                                               *)

Visible == wait = "idle" /\ ~ error

\* The buttons of the other universities are hidden while one is edited; those of its
\* other departments are not.
CanEdit(d) ==
    /\ Visible /\ page[<<UniversityOf[d], "university">>] # Absent
    /\ editing # d
    /\ editing # NoDepartment => UniversityOf[editing] = UniversityOf[d]

HandleEdit(d) ==
    /\ CanEdit(d)
    /\ backup' = [f \in FieldsOf(UniversityOf[d]) |-> page[f]]
    /\ editing' = d
    /\ UNCHANGED <<server, page, fetched, wait, error, requests>>

\* handleInfoChange, handleScoreChange, handleAddSubject and handleSubjectNameChange.
HandleChange(f, v) ==
    /\ Visible /\ editing # NoDepartment
    /\ f \in FieldsOfEdit(editing)
    /\ page' = [page EXCEPT ![f] = v]
    /\ UNCHANGED <<server, fetched, editing, backup, wait, error, requests>>

Restored == [f \in Fields |-> IF f \in DOMAIN backup THEN backup[f] ELSE page[f]]

\* Faulty variants of Cancelled: the list is left as it was edited; an inserted
\* university is left in the list.
KeepsEdits == page
KeepsNew == IF backup # NoBackup THEN Restored ELSE page

\* The backup comes back; without one, an inserted university is taken out of the list.
Cancelled ==
    IF backup # NoBackup THEN Restored
    ELSE IF editing = NewDepartment
         THEN [f \in Fields |-> IF f \in FieldsOf(New) THEN Absent ELSE page[f]]
         ELSE page

HandleCancel ==
    /\ Visible /\ editing # NoDepartment
    /\ page' = Cancelled
    /\ editing' = NoDepartment /\ backup' = NoBackup
    /\ UNCHANGED <<server, fetched, wait, error, requests>>

\* The insert buttons are hidden while something is edited.
HandleInsert ==
    /\ Visible /\ editing = NoDepartment
    /\ page' = [f \in Fields |-> IF f \in FieldsOf(New) THEN Blank ELSE page[f]]
    /\ editing' = NewDepartment
    /\ UNCHANGED <<server, fetched, backup, wait, error, requests>>

\* All requests are sent at once, with what the page holds.
HandleSave ==
    LET sent == FieldsOfEdit(editing) IN
    /\ Visible /\ editing # NoDepartment /\ saves < MaxSaves
    /\ saves' = saves + 1
    /\ wait' = "saving"
    /\ awaited' = sent
    /\ flight' = flight \cup {[field |-> f, val |-> page[f], save |-> saves + 1] : f \in sent}
    /\ answers' = {} /\ committed' = {}
    /\ UNCHANGED <<server, page, fetched, editing, backup, error>>

\* The user loads the page anew; requests that have been sent go on.
ReloadPage ==
    /\ page' = Empty /\ fetched' = Empty
    /\ editing' = NoDepartment /\ backup' = NoBackup
    /\ wait' = "mount" /\ error' = FALSE
    /\ awaited' = {} /\ answers' = {}
    /\ UNCHANGED <<server, flight, saves, committed>>

-----------------------------------------------------------------------------
(* The server.                                                             *)

\* A request for a university or department the server does not have is refused.
Handle(r) == \E stored, ok \in BOOLEAN :
    /\ ok => stored
    /\ stored => server[r.field] # Absent
    /\ flight' = flight \ {r}
    /\ server' = IF stored THEN [server EXCEPT ![r.field] = r.val] ELSE server
    /\ committed' = IF stored /\ r.save = saves THEN committed \cup {r.field} ELSE committed
    /\ answers' = IF wait = "saving" /\ r.save = saves
                  THEN answers \cup {[field |-> r.field, ok |-> ok]} ELSE answers
    /\ UNCHANGED <<page, fetched, editing, backup, wait, error, awaited, saves>>

-----------------------------------------------------------------------------
(* The page, when an answer arrives.                                       *)

\* Faulty variant of Rejects: the save waits for the answers, whatever they are.
NeverRejects(a) == FALSE

\* Promise.all rejects with the first request that fails.
Rejects(a) == ~ a.ok

OnSaved(a) ==
    /\ wait = "saving" /\ a \in answers /\ ~ Rejects(a)
    /\ awaited' = awaited \ {a.field}
    /\ answers' = answers \ {a}
    /\ wait' = IF awaited = {a.field} THEN "reload" ELSE "saving"
    /\ UNCHANGED <<server, page, fetched, editing, backup, error, flight, saves, committed>>

\* The save fails: the backup comes back although other requests may have been, or may
\* still be, handled.  The page stays in edit mode, behind the message.
OnFailed(a) ==
    /\ wait = "saving" /\ a \in answers /\ Rejects(a)
    /\ page' = IF backup # NoBackup THEN Restored ELSE page
    /\ error' = TRUE
    /\ wait' = "idle"
    /\ awaited' = {} /\ answers' = {}
    /\ UNCHANGED <<server, fetched, editing, backup, flight, saves, committed>>

\* Faulty variant of Saved: the backup is kept.
SavedKeepsBackup == editing' = NoDepartment /\ UNCHANGED backup

\* A save ends with the reload, however that ended: fetchUniversities throws nothing.
Saved ==
    IF wait = "reload" THEN editing' = NoDepartment /\ backup' = NoBackup
    ELSE UNCHANGED <<editing, backup>>

FetchSucceeds ==
    /\ wait \in {"mount", "reload"}
    /\ page' = server /\ fetched' = server
    /\ error' = FALSE
    /\ wait' = "idle"
    /\ Saved
    /\ UNCHANGED <<server, requests>>

FetchFails ==
    /\ wait \in {"mount", "reload"}
    /\ error' = TRUE
    /\ wait' = "idle"
    /\ Saved
    /\ UNCHANGED <<server, page, fetched, requests>>

Next ==
    \/ \E d \in Departments : HandleEdit(d)
    \/ \E f \in Fields, v \in Values : HandleChange(f, v)
    \/ HandleCancel
    \/ HandleInsert
    \/ HandleSave
    \/ ReloadPage
    \/ \E r \in flight : Handle(r)
    \/ \E a \in answers : OnSaved(a) \/ OnFailed(a)
    \/ FetchSucceeds
    \/ FetchFails

Spec == Init /\ [][Next]_vars
-----------------------------------------------------------------------------
(* Properties.                                                             *)

\* Types, and what goes together: a backup exists only in edit mode, and requests are
\* awaited only by a save.
TypeOK ==
    /\ server \in [Fields -> Values \cup {Absent}]
    /\ page \in [Fields -> Values \cup {Absent}]
    /\ fetched \in [Fields -> Values \cup {Absent}]
    /\ editing \in Departments \cup {NoDepartment}
    /\ wait \in {"mount", "idle", "saving", "reload"}
    /\ error \in BOOLEAN
    /\ awaited \subseteq Fields
    /\ flight \subseteq [field : Fields, val : Values \cup {Absent}, save : 1..MaxSaves]
    /\ answers \subseteq [field : Fields, ok : BOOLEAN]
    /\ saves \in 0..MaxSaves
    /\ committed \subseteq Fields
    /\ backup # NoBackup => editing # NoDepartment /\ DOMAIN backup = FieldsOf(UniversityOf[editing])
    /\ awaited # {} <=> wait = "saving"

\* Outside edit mode the page shows what the server last answered: no unsaved change
\* survives a cancel, a save, a failed save or an insertion.
ShownIsFetched == Visible /\ editing = NoDepartment => page = fetched

\* A save reports success only when the server has stored every part of it.
SuccessMeansStored ==
    [][wait = "reload" /\ wait' = "idle" => committed = FieldsOfEdit(editing)]_vars

\* A university that the server does not know is in the list only while it is edited.
NewIsBeingEdited == page[<<New, "university">>] # Absent => editing = NewDepartment

\* Cancelling undoes all changes since edit mode began.  ("Editing is undone by means of
\* the backup.")
CancelUndoes ==
    [][editing # NoDepartment /\ editing' = NoDepartment /\ wait = "idle" /\ wait' = "idle"
          => page' = fetched]_vars
=============================================================================
