------------------------ MODULE UniversityEditorProofs ------------------------
(***************************************************************************)
(* Proofs about UniversityEditor: what the list of the page holds when     *)
(* nothing is being edited, for any universities and departments.          *)
(***************************************************************************)
EXTENDS UniversityEditor, TLAPS

\* Every university has one department.
OneDepartment ==
    \A d, e \in Departments : UniversityOf[d] = UniversityOf[e] => d = e

-----------------------------------------------------------------------------
(* The shape of the state: what the induction needs of the types.          *)

Contents == Values \cup {Absent}

Shape ==
    /\ server \in [Fields -> Contents]
    /\ page \in [Fields -> Contents]
    /\ fetched \in [Fields -> Contents]
    /\ editing \in Departments \cup {NoDepartment}
    /\ wait \in {"mount", "idle", "saving", "reload"}
    /\ backup # NoBackup =>
          /\ editing # NoDepartment
          /\ backup \in [FieldsOf(UniversityOf[editing]) -> Contents]
    /\ \A r \in flight : r.field \in Fields /\ r.val \in Contents

\* The server never gets the inserted university: it refuses requests for what it does
\* not have, so that a save of it cannot reach its reload.
NeverStored ==
    /\ \A f \in FieldsOf(New) : server[f] = Absent
    /\ \A f \in FieldsOf(New) : fetched[f] = Absent
    /\ \A a \in answers : a.ok => a.field \notin FieldsOf(New)
    /\ wait = "saving" => editing \in Departments /\ awaited \subseteq FieldsOfEdit(editing)
    /\ wait = "reload" => editing # NewDepartment

\* A university that is not being edited is in the list only if the server has it.
NewInv ==
    /\ Shape
    /\ NeverStored
    /\ editing # NewDepartment => \A f \in FieldsOf(New) : page[f] = Absent
    /\ editing = NewDepartment => backup = NoBackup

\* What a cancel will bring back: the list differs from the last answer of the server
\* only in the university being edited, and the backup holds the answer's copy of that.
CancelInv ==
    /\ editing # NoDepartment =>
          \A f \in Fields \ FieldsOf(UniversityOf[editing]) : page[f] = fetched[f]
    /\ editing # NoDepartment /\ editing # NewDepartment =>
          /\ backup # NoBackup
          /\ \A f \in FieldsOf(UniversityOf[editing]) : backup[f] = fetched[f]
    /\ editing = NoDepartment /\ wait = "idle" /\ ~ error => page = fetched
    /\ wait = "mount" => editing = NoDepartment

-----------------------------------------------------------------------------
(* Fields.                                                                 *)

\* Universities share no field, and an edit stays in its university.
LEMMA FieldsSeparate ==
    /\ \A d \in Departments : FieldsOfEdit(d) \subseteq FieldsOf(UniversityOf[d])
    /\ \A d \in Departments : FieldsOf(UniversityOf[d]) \subseteq Fields
    /\ \A d, e \in Departments : UniversityOf[d] # UniversityOf[e] =>
          FieldsOf(UniversityOf[d]) \cap FieldsOf(UniversityOf[e]) = {}
    /\ <<New, "university">> \in FieldsOf(New)
<1>1. \A d \in Departments : UniversityOf[d] \in Universities /\ UniversityOf[d] \notin Departments
  BY EditorAssumption DEF Universities
<1>2. \A d \in Departments : FieldsOfEdit(d) \subseteq FieldsOf(UniversityOf[d])
  BY DEF FieldsOfEdit, FieldsOf
<1>3. \A d \in Departments : FieldsOf(UniversityOf[d]) \subseteq Fields
  BY <1>1 DEF Fields
<1>4. ASSUME NEW d \in Departments, NEW e \in Departments, UniversityOf[d] # UniversityOf[e]
      PROVE  FieldsOf(UniversityOf[d]) \cap FieldsOf(UniversityOf[e]) = {}
  BY <1>1, <1>4 DEF FieldsOf
<1>5. <<New, "university">> \in FieldsOf(New)
  BY DEF FieldsOf
<1> QED
  BY <1>2, <1>3, <1>4, <1>5

\* No other department's edit touches the inserted university.
LEMMA OthersLeaveNew ==
    ASSUME NEW d \in Departments, d # NewDepartment
    PROVE  /\ UniversityOf[d] # New
           /\ FieldsOf(UniversityOf[d]) \cap FieldsOf(New) = {}
           /\ FieldsOfEdit(d) \cap FieldsOf(New) = {}
BY FieldsSeparate, EditorAssumption DEF New

-----------------------------------------------------------------------------
(* The inserted university.                                                *)

LEMMA NewInit == Init => NewInv
BY EditorAssumption, FieldsSeparate DEF Init, NewInv, Shape, NeverStored, Contents, Empty, New

\* Every step keeps the shape of the state.
LEMMA ShapeStep == Shape /\ [Next]_vars => Shape'
<1> SUFFICES ASSUME Shape, [Next]_vars PROVE Shape'
  OBVIOUS
<1> USE EditorAssumption DEF Shape, Contents
<1>1. ASSUME NEW d \in Departments, HandleEdit(d) PROVE Shape'
  BY <1>1, FieldsSeparate DEF HandleEdit, requests
<1>2. ASSUME NEW f \in Fields, NEW v \in Values, HandleChange(f, v) PROVE Shape'
  BY <1>2 DEF HandleChange, requests
<1>r. backup # NoBackup => Restored \in [Fields -> Contents]
  BY DEF Restored
<1>3. CASE HandleCancel
  BY <1>3, <1>r DEF HandleCancel, Cancelled, requests
<1>4. CASE HandleInsert
  BY <1>4 DEF HandleInsert, requests
<1>5. CASE HandleSave
  <2>1. editing \in Departments /\ FieldsOfEdit(editing) \subseteq Fields
    BY <1>5, FieldsSeparate DEF HandleSave
  <2>2. \A r \in flight' : r.field \in Fields /\ r.val \in Contents
    BY <1>5, <2>1 DEF HandleSave
  <2> QED
    BY <1>5, <2>2 DEF HandleSave
<1>6. CASE ReloadPage
  BY <1>6 DEF ReloadPage, Empty
<1>7. ASSUME NEW r \in flight, Handle(r) PROVE Shape'
  BY <1>7 DEF Handle
<1>8. ASSUME NEW a \in answers, OnSaved(a) PROVE Shape'
  BY <1>8 DEF OnSaved
<1>9. ASSUME NEW a \in answers, OnFailed(a) PROVE Shape'
  BY <1>9, <1>r DEF OnFailed
<1>10. CASE FetchSucceeds
  BY <1>10 DEF FetchSucceeds, Saved, requests
<1>11. CASE FetchFails
  BY <1>11 DEF FetchFails, Saved, requests
<1>12. CASE UNCHANGED vars
  BY <1>12 DEF vars
<1> QED
  BY <1>1, <1>2, <1>3, <1>4, <1>5, <1>6, <1>7, <1>8, <1>9, <1>10, <1>11, <1>12 DEF Next

\* The server stays without the inserted university, and no save of it succeeds.
LEMMA NeverStoredStep == NewInv /\ [Next]_vars => NeverStored'
<1> SUFFICES ASSUME NewInv, [Next]_vars PROVE NeverStored'
  OBVIOUS
<1> USE DEF NewInv, NeverStored
<1>f. FieldsOf(New) \subseteq Fields
  BY FieldsSeparate, EditorAssumption DEF New
<1>1. ASSUME NEW d \in Departments, HandleEdit(d) PROVE NeverStored'
  BY <1>1 DEF HandleEdit, requests, Visible, CanEdit
<1>2. ASSUME NEW f \in Fields, NEW v \in Values, HandleChange(f, v) PROVE NeverStored'
  BY <1>2 DEF HandleChange, requests, Visible
<1>3. CASE HandleCancel
  BY <1>3 DEF HandleCancel, requests, Visible
<1>4. CASE HandleInsert
  BY <1>4 DEF HandleInsert, requests, Visible
<1>5. CASE HandleSave
  BY <1>5 DEF HandleSave, Shape
<1>6. CASE ReloadPage
  BY <1>6, <1>f DEF ReloadPage, Empty
<1>7. ASSUME NEW r \in flight, Handle(r) PROVE NeverStored'
  <2>1. PICK stored \in BOOLEAN, ok \in BOOLEAN :
            /\ ok => stored
            /\ stored => server[r.field] # Absent
            /\ server' = IF stored THEN [server EXCEPT ![r.field] = r.val] ELSE server
            /\ answers' = IF wait = "saving" /\ r.save = saves
                          THEN answers \cup {[field |-> r.field, ok |-> ok]} ELSE answers
            /\ UNCHANGED <<fetched, editing, wait, awaited>>
    BY <1>7 DEF Handle
  <2>2. stored => r.field \notin FieldsOf(New)
    BY <2>1
  <2>3. \A f \in FieldsOf(New) : server'[f] = Absent
    BY <2>1, <2>2, <1>f DEF Shape
  <2>4. \A a \in answers' : a.ok => a.field \notin FieldsOf(New)
    BY <2>1, <2>2
  <2> QED
    BY <2>1, <2>3, <2>4
<1>8. ASSUME NEW a \in answers, OnSaved(a) PROVE NeverStored'
  <2>1. a.field \notin FieldsOf(New)
    BY <1>8 DEF OnSaved, Rejects
  <2>2. wait' = "reload" => editing' # NewDepartment
    <3> SUFFICES ASSUME wait' = "reload", editing = NewDepartment PROVE FALSE
      BY <1>8 DEF OnSaved
    <3>1. a.field \in FieldsOfEdit(NewDepartment)
      BY <1>8 DEF OnSaved
    <3> QED
      BY <3>1, <2>1, FieldsSeparate, EditorAssumption DEF New
  <2> QED
    BY <1>8, <2>2 DEF OnSaved
<1>9. ASSUME NEW a \in answers, OnFailed(a) PROVE NeverStored'
  BY <1>9 DEF OnFailed
<1>10. CASE FetchSucceeds
  BY <1>10 DEF FetchSucceeds, Saved, requests
<1>11. CASE FetchFails
  BY <1>11 DEF FetchFails, Saved, requests
<1>12. CASE UNCHANGED vars
  BY <1>12 DEF vars, requests
<1> QED
  BY <1>1, <1>2, <1>3, <1>4, <1>5, <1>6, <1>7, <1>8, <1>9, <1>10, <1>11, <1>12 DEF Next

\* The inserted university is in the list only while it is edited, and has no backup.
LEMMA NewStep == NewInv /\ [Next]_vars => NewInv'
<1> SUFFICES ASSUME NewInv, [Next]_vars PROVE NewInv'
  OBVIOUS
<1>s. Shape' /\ NeverStored'
  BY ShapeStep, NeverStoredStep DEF NewInv
<1> DEFINE AbsentNew == editing # NewDepartment => \A f \in FieldsOf(New) : page[f] = Absent
           NoNewBackup == editing = NewDepartment => backup = NoBackup
<1> SUFFICES AbsentNew' /\ NoNewBackup'
  BY <1>s DEF NewInv
<1> USE DEF NewInv, Shape
<1>f. FieldsOf(New) \subseteq Fields
  BY FieldsSeparate, EditorAssumption DEF New
<1>r. ASSUME backup # NoBackup, NEW f \in FieldsOf(New) PROVE Restored[f] = Absent
  <2>1. editing \in Departments /\ editing # NewDepartment
    BY <1>r
  <2>2. f \notin DOMAIN backup
    BY <1>r, <2>1, OthersLeaveNew
  <2> QED
    BY <1>f, <2>1, <2>2 DEF Restored
<1>1. ASSUME NEW d \in Departments, HandleEdit(d) PROVE AbsentNew' /\ NoNewBackup'
  <2>1. d # NewDepartment
    BY <1>1, FieldsSeparate DEF HandleEdit, CanEdit, New
  <2>2. editing # NewDepartment
    BY <1>1, <2>1, OthersLeaveNew, EditorAssumption DEF HandleEdit, CanEdit, New
  <2> QED
    BY <1>1, <2>1, <2>2 DEF HandleEdit
<1>2. ASSUME NEW f \in Fields, NEW v \in Values, HandleChange(f, v) PROVE AbsentNew' /\ NoNewBackup'
  <2>1. editing # NewDepartment => f \notin FieldsOf(New)
    BY <1>2, OthersLeaveNew DEF HandleChange
  <2> QED
    BY <1>2, <1>f, <2>1 DEF HandleChange
<1>3. CASE HandleCancel
  <2>1. \A f \in FieldsOf(New) : page'[f] = Absent
    BY <1>3, <1>f, <1>r DEF HandleCancel, Cancelled
  <2> QED
    BY <1>3, <2>1, EditorAssumption DEF HandleCancel
<1>4. CASE HandleInsert
  BY <1>4 DEF HandleInsert
<1>5. CASE HandleSave
  BY <1>5 DEF HandleSave
<1>6. CASE ReloadPage
  BY <1>6, <1>f DEF ReloadPage, Empty
<1>7. ASSUME NEW r \in flight, Handle(r) PROVE AbsentNew' /\ NoNewBackup'
  BY <1>7 DEF Handle
<1>8. ASSUME NEW a \in answers, OnSaved(a) PROVE AbsentNew' /\ NoNewBackup'
  BY <1>8 DEF OnSaved
<1>9. ASSUME NEW a \in answers, OnFailed(a) PROVE AbsentNew' /\ NoNewBackup'
  BY <1>9, <1>r DEF OnFailed
<1>10. CASE FetchSucceeds
  BY <1>10, EditorAssumption DEF FetchSucceeds, Saved, NeverStored
<1>11. CASE FetchFails
  BY <1>11, EditorAssumption DEF FetchFails, Saved, NeverStored
<1>12. CASE UNCHANGED vars
  BY <1>12 DEF vars
<1> QED
  BY <1>1, <1>2, <1>3, <1>4, <1>5, <1>6, <1>7, <1>8, <1>9, <1>10, <1>11, <1>12 DEF Next

LEMMA NewAlways == Spec => []NewInv
BY NewInit, NewStep, PTL DEF Spec

\* A university the server does not know is in the list only while it is being edited,
\* however many departments the others have (handleInsert, handleCancel, handleSave).
THEOREM NewCorrect == Spec => []NewIsBeingEdited
<1>1. NewInv => NewIsBeingEdited
  BY FieldsSeparate DEF NewInv, NewIsBeingEdited
<1> QED
  BY <1>1, NewAlways, PTL

-----------------------------------------------------------------------------
(* Cancelling.                                                             *)

\* What a cancel and a failed save put back is the last answer of the server.
LEMMA RestoredIsFetched ==
    ASSUME NewInv, CancelInv, editing # NoDepartment, backup # NoBackup
    PROVE  Restored = fetched
<1>1. editing \in Departments /\ editing # NewDepartment
  BY DEF NewInv, Shape
<1>2. DOMAIN backup = FieldsOf(UniversityOf[editing])
  BY <1>1 DEF NewInv, Shape
<1>3. \A f \in Fields : Restored[f] = fetched[f]
  BY <1>1, <1>2 DEF CancelInv, Restored
<1> QED
  BY <1>3 DEF NewInv, Shape, Restored

LEMMA CancelledIsFetched ==
    ASSUME NewInv, CancelInv, editing # NoDepartment
    PROVE  Cancelled = fetched
<1>1. CASE backup # NoBackup
  BY <1>1, RestoredIsFetched DEF Cancelled
<1>2. CASE backup = NoBackup
  <2>1. editing = NewDepartment
    BY <1>2 DEF CancelInv
  <2>2. \A f \in Fields \ FieldsOf(New) : page[f] = fetched[f]
    BY <2>1, EditorAssumption DEF CancelInv, New
  <2>3. \A f \in FieldsOf(New) : fetched[f] = Absent
    BY DEF NewInv, NeverStored
  <2> QED
    BY <1>2, <2>1, <2>2, <2>3 DEF Cancelled, NewInv, Shape
<1> QED
  BY <1>1, <1>2

LEMMA CancelInit == Init => CancelInv
BY EditorAssumption DEF Init, CancelInv

LEMMA CancelStep ==
    ASSUME OneDepartment
    PROVE  NewInv /\ CancelInv /\ [Next]_vars => CancelInv'
<1> SUFFICES ASSUME NewInv, CancelInv, [Next]_vars PROVE CancelInv'
  OBVIOUS
<1>1. ASSUME NEW d \in Departments, HandleEdit(d) PROVE CancelInv'
  <2>1. editing = NoDepartment /\ page = fetched
    BY <1>1, OneDepartment DEF HandleEdit, CanEdit, Visible, CancelInv, NewInv, Shape, OneDepartment
  <2>2. d # NewDepartment
    BY <1>1, <2>1, FieldsSeparate, EditorAssumption DEF HandleEdit, CanEdit, NewInv, New
  <2>3. FieldsOf(UniversityOf[d]) \subseteq Fields
    BY FieldsSeparate
  <2>4. backup' # NoBackup
    <3>1. backup' \in [FieldsOf(UniversityOf[d]) -> Values \cup {Absent}]
      BY <1>1, <2>3 DEF HandleEdit, NewInv, Shape, Contents
    <3> QED
      BY <3>1, EditorAssumption DEF Universities
  <2> QED
    BY <1>1, <2>1, <2>2, <2>4, EditorAssumption DEF HandleEdit, CanEdit, Visible, CancelInv
<1>2. ASSUME NEW f \in Fields, NEW v \in Values, HandleChange(f, v) PROVE CancelInv'
  <2>1. editing \in Departments /\ f \in FieldsOf(UniversityOf[editing])
    BY <1>2, FieldsSeparate DEF HandleChange, NewInv, Shape
  <2> QED
    BY <1>2, <2>1 DEF HandleChange, Visible, CancelInv, NewInv, Shape
<1>3. CASE HandleCancel
  BY <1>3, CancelledIsFetched DEF HandleCancel, Visible, CancelInv
<1>4. CASE HandleInsert
  BY <1>4, EditorAssumption DEF HandleInsert, Visible, CancelInv, New
<1>5. CASE HandleSave
  BY <1>5 DEF HandleSave, CancelInv
<1>6. CASE ReloadPage
  BY <1>6 DEF ReloadPage, CancelInv
<1>7. ASSUME NEW r \in flight, Handle(r) PROVE CancelInv'
  BY <1>7 DEF Handle, CancelInv
<1>8. ASSUME NEW a \in answers, OnSaved(a) PROVE CancelInv'
  BY <1>8 DEF OnSaved, CancelInv
<1>9. ASSUME NEW a \in answers, OnFailed(a) PROVE CancelInv'
  <2>1. editing # NoDepartment
    BY <1>9, EditorAssumption DEF OnFailed, NewInv, NeverStored
  <2>2. backup # NoBackup => page' = fetched
    BY <1>9, <2>1, RestoredIsFetched DEF OnFailed
  <2> QED
    BY <1>9, <2>1, <2>2 DEF OnFailed, CancelInv
<1>10. CASE FetchSucceeds
  BY <1>10 DEF FetchSucceeds, Saved, CancelInv
<1>11. CASE FetchFails
  BY <1>11 DEF FetchFails, Saved, CancelInv
<1>12. CASE UNCHANGED vars
  BY <1>12 DEF vars, CancelInv
<1> QED
  BY <1>1, <1>2, <1>3, <1>4, <1>5, <1>6, <1>7, <1>8, <1>9, <1>10, <1>11, <1>12 DEF Next

LEMMA CancelAlways ==
    ASSUME OneDepartment
    PROVE  Spec => [](NewInv /\ CancelInv)
<1>1. NewInv /\ CancelInv /\ [Next]_vars => (NewInv /\ CancelInv)'
  BY NewStep, CancelStep
<1> QED
  BY <1>1, NewInit, CancelInit, PTL DEF Spec

\* Where every university has one department, the list shows what the server last
\* answered whenever nothing is being edited (handleCancel, handleSave).
THEOREM ShownCorrect ==
    ASSUME OneDepartment
    PROVE  Spec => []ShownIsFetched
<1>1. CancelInv => ShownIsFetched
  BY DEF CancelInv, ShownIsFetched, Visible
<1> QED
  BY <1>1, CancelAlways, PTL

-----------------------------------------------------------------------------
(* Types.                                                                  *)

\* The type invariant needs the shape of the backup, which a cancel copies to the page.
TypeInv == TypeOK /\ Shape

LEMMA TypeStep == TypeInv /\ [Next]_vars => TypeOK'
<1> SUFFICES ASSUME TypeInv, [Next]_vars PROVE TypeOK'
  OBVIOUS
<1>s. Shape'
  BY ShapeStep DEF TypeInv
<1> USE EditorAssumption DEF TypeInv, TypeOK, Shape, Contents
<1>1. ASSUME NEW d \in Departments, HandleEdit(d) PROVE TypeOK'
  BY <1>1, <1>s DEF HandleEdit, requests
<1>2. ASSUME NEW f \in Fields, NEW v \in Values, HandleChange(f, v) PROVE TypeOK'
  BY <1>2, <1>s DEF HandleChange, requests
<1>3. CASE HandleCancel
  BY <1>3, <1>s DEF HandleCancel, requests
<1>4. CASE HandleInsert
  BY <1>4, <1>s DEF HandleInsert, requests
<1>5. CASE HandleSave
  <2>1. FieldsOfEdit(editing) \subseteq Fields /\ FieldsOfEdit(editing) # {}
    BY <1>5, FieldsSeparate DEF HandleSave, FieldsOfEdit
  <2>2. saves + 1 \in 1..MaxSaves
    BY <1>5 DEF HandleSave
  <2>3. flight' \subseteq [field : Fields, val : Values \cup {Absent}, save : 1..MaxSaves]
    BY <1>5, <2>1, <2>2 DEF HandleSave
  <2> QED
    BY <1>5, <1>s, <2>1, <2>2, <2>3 DEF HandleSave
<1>6. CASE ReloadPage
  BY <1>6, <1>s DEF ReloadPage
<1>7. ASSUME NEW r \in flight, Handle(r) PROVE TypeOK'
  BY <1>7, <1>s DEF Handle
<1>8. ASSUME NEW a \in answers, OnSaved(a) PROVE TypeOK'
  BY <1>8, <1>s DEF OnSaved
<1>9. ASSUME NEW a \in answers, OnFailed(a) PROVE TypeOK'
  BY <1>9, <1>s DEF OnFailed
<1>10. CASE FetchSucceeds
  BY <1>10, <1>s DEF FetchSucceeds, Saved, requests
<1>11. CASE FetchFails
  BY <1>11, <1>s DEF FetchFails, Saved, requests
<1>12. CASE UNCHANGED vars
  BY <1>12, <1>s DEF vars
<1> QED
  BY <1>1, <1>2, <1>3, <1>4, <1>5, <1>6, <1>7, <1>8, <1>9, <1>10, <1>11, <1>12 DEF Next

\* The state of the page, its requests and the server keeps its types.
THEOREM TypeCorrect == Spec => []TypeOK
<1>1. Init => TypeInv
  <2> SUFFICES ASSUME Init PROVE TypeOK /\ Shape
    BY DEF TypeInv
  <2>1. Shape
    BY NewInit DEF NewInv
  <2>2. awaited = {} /\ flight = {} /\ answers = {} /\ committed = {} /\ wait = "mount"
    BY DEF Init
  <2>3. saves \in 0..MaxSaves
    <3>1. MaxSaves \in Nat /\ saves = 0
      BY EditorAssumption DEF Init
    <3> QED
      BY <3>1
  <2>4. error \in BOOLEAN /\ backup = NoBackup
    BY DEF Init
  <2> QED
    BY <2>1, <2>2, <2>3, <2>4 DEF TypeOK, Shape, Contents
<1>2. TypeInv /\ [Next]_vars => TypeInv'
  BY TypeStep, ShapeStep DEF TypeInv
<1>3. TypeInv => TypeOK
  BY DEF TypeInv
<1> QED
  BY <1>1, <1>2, <1>3, PTL DEF Spec

-----------------------------------------------------------------------------
(* Saving.                                                                 *)

\* While a save is under way, what is no longer awaited has been stored, and only its own
\* requests count for it: those of earlier saves carry a smaller number.
SaveInv ==
    /\ TypeOK
    /\ \A r \in flight : r.save <= saves
    /\ wait \in {"saving", "reload"} =>
          /\ \A r \in flight : r.save = saves => r.field \in FieldsOfEdit(editing)
          /\ committed \subseteq FieldsOfEdit(editing)
          /\ FieldsOfEdit(editing) \subseteq committed \cup awaited
          /\ \A a \in answers : a.ok => a.field \in committed

LEMMA SaveStep == SaveInv /\ TypeOK' /\ [Next]_vars => SaveInv'
<1> SUFFICES ASSUME SaveInv, TypeOK', [Next]_vars PROVE SaveInv'
  OBVIOUS
<1> USE DEF SaveInv
<1>1. ASSUME NEW d \in Departments, HandleEdit(d) PROVE SaveInv'
  BY <1>1 DEF HandleEdit, requests, CanEdit, Visible
<1>2. ASSUME NEW f \in Fields, NEW v \in Values, HandleChange(f, v) PROVE SaveInv'
  BY <1>2 DEF HandleChange, requests, Visible
<1>3. CASE HandleCancel
  BY <1>3 DEF HandleCancel, requests, Visible
<1>4. CASE HandleInsert
  BY <1>4 DEF HandleInsert, requests, Visible
<1>5. CASE HandleSave
  <2>1. saves \in Nat /\ \A r \in flight : r.save \in Nat
    BY EditorAssumption DEF TypeOK
  <2>2. \A r \in flight' : r.save <= saves' /\ (r.save = saves' => r.field \in FieldsOfEdit(editing))
    BY <1>5, <2>1 DEF HandleSave
  <2> QED
    BY <1>5, <2>2 DEF HandleSave
<1>6. CASE ReloadPage
  BY <1>6 DEF ReloadPage
<1>7. ASSUME NEW r \in flight, Handle(r) PROVE SaveInv'
  BY <1>7 DEF Handle
<1>8. ASSUME NEW a \in answers, OnSaved(a) PROVE SaveInv'
  BY <1>8 DEF OnSaved, Rejects
<1>9. ASSUME NEW a \in answers, OnFailed(a) PROVE SaveInv'
  BY <1>9 DEF OnFailed
<1>10. CASE FetchSucceeds
  BY <1>10 DEF FetchSucceeds, requests
<1>11. CASE FetchFails
  BY <1>11 DEF FetchFails, requests
<1>12. CASE UNCHANGED vars
  BY <1>12 DEF vars
<1> QED
  BY <1>1, <1>2, <1>3, <1>4, <1>5, <1>6, <1>7, <1>8, <1>9, <1>10, <1>11, <1>12 DEF Next

\* A save reports success only when the server has stored every part of it, whatever
\* requests of earlier saves are still on their way (handleSave).
THEOREM SaveCorrect == Spec => SuccessMeansStored
<1> DEFINE Success == wait = "reload" /\ wait' = "idle" => committed = FieldsOfEdit(editing)
<1>1. Init /\ TypeOK => SaveInv
  BY DEF Init, SaveInv
<1>2. SaveInv /\ [Next]_vars => [Success]_vars
  BY DEF SaveInv, TypeOK
<1> QED
  BY <1>1, <1>2, SaveStep, TypeCorrect, PTL DEF Spec, SuccessMeansStored
=============================================================================
