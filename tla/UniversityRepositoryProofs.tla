--------------------- MODULE UniversityRepositoryProofs ---------------------
(***************************************************************************)
(* Theorems about the university repository and its cache, for any set of  *)
(* requests, rows and keys.                                                *)
(***************************************************************************)
EXTENDS UniversityRepository, FiniteSetTheorems, TLAPS

-----------------------------------------------------------------------------
(* What the operations have in common.                                     *)

Entry == [val : [rows : RowsRead, overlapped : BOOLEAN], expired : BOOLEAN]
Phases == {"idle", "read", "store", "answered", "clearSubjects", "clear"}

\* p has committed a write of rows and has a clear of the cache ahead of it.
WillClear(p, rows) ==
    /\ \E ph \in {"clearSubjects", "clear"} : phase' = [phase EXCEPT ![p] = ph]
    /\ \E id, t \in Ids :
         writer' = [writer EXCEPT ![p] = [rows |-> rows, id |-> id, testType |-> t]]
    /\ silent' = silent \ rows

\* p has committed a write of rows and is done.
WontClear(rows) ==
    /\ silent' = silent \cup rows
    /\ UNCHANGED <<phase, writer>>

\* The shape of every operation that writes to the database.
Committed(p) ==
    \E rows \in SUBSET Rows, exist \in BOOLEAN :
        /\ Commit(rows, exist)
        /\ phase[p] = "idle"
        /\ UNCHANGED <<cache, finderVars>>
        /\ WillClear(p, rows) \/ WontClear(rows)

Operation(p, r) ==
    \/ Create(p, r) \/ Update(p, r) \/ Delete(p, r)
    \/ CreateDepartment(p, r) \/ UpdateDepartment(p, r) \/ DeleteDepartment(p, r)
    \/ CreateMajor(p, r) \/ UpdateMajor(p, r) \/ DeleteMajor(p, r)
    \/ UpdateAdmissionSchedule(p, r)
    \/ CreateAdmissionInfo(p, r) \/ UpdateAdmissionInfo(p, r) \/ DeleteAdmissionInfo(p, r)
    \/ CreateSubject(p, r) \/ UpdateSubject(p, r) \/ DeleteSubject(p, r)
    \/ UpdateSubjectsBatch(p, r)

\* A finder loads rows of the database only.
LEMMA FinderRows ==
    ASSUME NEW k \in Keys
    PROVE  Finder[k].rows \subseteq Rows
<1>1. PICK f \in AllFinders : f.key = k
    BY RepositoryAssumption DEF RepositoryAssumption
<1>2. Finder[k] \in AllFinders
    BY <1>1 DEF Finder
<1>3. \A g \in AllFinders : g.rows \subseteq Rows
    BY DEF AllFinders, FindAll, Search, FindByID, FindDepartment, FindMajor,
           FindAdmissionInfo, FindSubject, Subtree
<1> QED BY <1>2, <1>3

\* A row that is not a university's has a parent with an id.
LEMMA ParentId ==
    ASSUME NEW r \in Rows, Kind[r] # "university"
    PROVE  Id[Parent[r]] \in Ids
BY RepositoryAssumption DEF RepositoryAssumption, Ids

\* The operations that go on to ClearAllRelatedCache.
LEMMA ThenClearShape ==
    ASSUME NEW p \in Procs, NEW rows \in SUBSET Rows, NEW exist \in BOOLEAN, NEW id \in Ids,
           Commit(rows, exist), ThenClear(p, rows, id)
    PROVE  Committed(p)
<1>1. phase[p] = "idle" /\ UNCHANGED <<cache, finderVars>>
    BY DEF ThenClear
<1>2. WillClear(p, rows)
    <2>1. "none" \in Ids
        BY DEF Ids
    <2>2. writer' = [writer EXCEPT ![p] = [rows |-> rows, id |-> id, testType |-> "none"]]
        BY DEF ThenClear
    <2>3. \E i, t \in Ids :
              writer' = [writer EXCEPT ![p] = [rows |-> rows, id |-> i, testType |-> t]]
        BY <2>1, <2>2, Zenon
    <2> QED BY <2>3 DEF ThenClear, WillClear
<1> QED BY <1>1, <1>2 DEF Committed

\* The operations that end with their commit.
LEMMA NoClearShape ==
    ASSUME NEW p \in Procs, NEW rows \in SUBSET Rows, NEW exist \in BOOLEAN,
           Commit(rows, exist), NoClear(p, rows)
    PROVE  Committed(p)
<1>1. phase[p] = "idle" /\ UNCHANGED <<cache, finderVars>>
    BY DEF NoClear
<1>2. WontClear(rows)
    BY DEF NoClear, WontClear
<1> QED BY <1>1, <1>2 DEF Committed

\* Every operation of every table has the shape Committed.
LEMMA OperationShape ==
    ASSUME NEW p \in Procs, NEW r \in Rows, Operation(p, r)
    PROVE  Committed(p)
<1>s. Saved(r) \subseteq SUBSET Rows
    BY DEF Saved, Subtree
<1>c. Cascade(r) \subseteq Rows
    BY DEF Cascade, Children
<1>i. Id[r] \in Ids
    BY DEF Ids
<1>1. CASE Create(p, r) \/ Update(p, r)
    <2>1. PICK rows \in Saved(r) : Commit(rows, TRUE) /\ ThenClear(p, rows, Id[r])
        BY <1>1 DEF Create, Update
    <2> QED BY <2>1, <1>s, <1>i, ThenClearShape
<1>2. CASE Delete(p, r)
    BY <1>2, <1>i, ThenClearShape DEF Delete
<1>3. CASE CreateDepartment(p, r) \/ CreateMajor(p, r) \/ CreateAdmissionInfo(p, r)
    <2>1. PICK rows \in Saved(r) : Commit(rows, TRUE) /\ NoClear(p, rows)
        BY <1>3 DEF CreateDepartment, CreateMajor, CreateAdmissionInfo
    <2> QED BY <2>1, <1>s, NoClearShape
<1>4. CASE \/ UpdateDepartment(p, r) \/ UpdateMajor(p, r)
           \/ UpdateAdmissionSchedule(p, r) \/ UpdateAdmissionInfo(p, r)
    <2>1. Kind[r] # "university"
        BY <1>4 DEF UpdateDepartment, UpdateMajor, UpdateAdmissionSchedule, UpdateAdmissionInfo
    <2>2. PICK rows \in Saved(r) : Commit(rows, TRUE) /\ ThenClear(p, rows, Id[Parent[r]])
        BY <1>4 DEF UpdateDepartment, UpdateMajor, UpdateAdmissionSchedule, UpdateAdmissionInfo
    <2> QED BY <2>1, <2>2, <1>s, ParentId, ThenClearShape
<1>5. CASE \/ DeleteDepartment(p, r) \/ DeleteMajor(p, r) \/ DeleteAdmissionInfo(p, r)
           \/ DeleteSubject(p, r)
    <2>1. PICK rows \in {{r}, Cascade(r)} : Commit(rows, FALSE) /\ NoClear(p, rows)
        BY <1>5 DEF DeleteDepartment, DeleteMajor, DeleteAdmissionInfo, DeleteSubject
    <2> QED BY <2>1, <1>c, NoClearShape
<1>6. CASE CreateSubject(p, r) \/ UpdateSubjectsBatch(p, r)
    <2>1. PICK rows \in {{r}, Siblings(r)} : Commit(rows, TRUE) /\ NoClear(p, rows)
        BY <1>6 DEF CreateSubject, UpdateSubjectsBatch
    <2>2. Siblings(r) \subseteq Rows
        BY DEF Siblings
    <2> QED BY <2>1, <2>2, NoClearShape
<1>7. CASE UpdateSubject(p, r)
    <2>1. Siblings(r) \in SUBSET Rows
        BY DEF Siblings
    <2>2. Id[Parent[r]] \in Ids
        BY <1>7, ParentId DEF UpdateSubject
    <2>3. WillClear(p, Siblings(r))
        <3>1. "0" \in Ids
            BY DEF Ids
        <3>2. writer' = [writer EXCEPT ![p] = [rows |-> Siblings(r), id |-> "0",
                                               testType |-> Id[Parent[r]]]]
            BY <1>7 DEF UpdateSubject
        <3>3. \E i, t \in Ids :
                  writer' = [writer EXCEPT ![p] = [rows |-> Siblings(r), id |-> i, testType |-> t]]
            BY <2>2, <3>1, <3>2, Zenon
        <3> QED BY <1>7, <3>3 DEF UpdateSubject, WillClear
    <2> QED BY <1>7, <2>1, <2>3 DEF UpdateSubject, Committed
<1> QED BY <1>1, <1>2, <1>3, <1>4, <1>5, <1>6, <1>7 DEF Operation

\* The steps of the specification, with the operations under one name.
LEMMA NextCases ==
    ASSUME [Next]_vars
    PROVE  \/ \E p \in Procs, k \in Keys : Hit(p, k) \/ Miss(p, k)
           \/ \E p \in Procs : Read(p) \/ ReadFails(p) \/ Store(p) \/ Return(p)
           \/ \E p \in Procs : Committed(p)
           \/ \E p \in Procs : ClearSubjects(p) \/ Clear(p)
           \/ Clock
           \/ UNCHANGED vars
<1>1. ASSUME NEW p \in Procs, Write(p)
      PROVE  Committed(p) \/ ClearSubjects(p) \/ Clear(p)
    BY <1>1, OperationShape DEF Write, Operation
<1> QED BY <1>1 DEF Next, Find

-----------------------------------------------------------------------------
(* Types.                                                                  *)

LEMMA CommitTypes ==
    ASSUME TypeOK, NEW rows \in SUBSET Rows, NEW exist \in BOOLEAN, Commit(rows, exist)
    PROVE  /\ db' \in [Rows -> RowState]
           /\ commits' \in 0..MaxCommits
           /\ written' \in [Procs -> SUBSET Rows]
<1>1. commits + 1 \in 0..MaxCommits
    BY RepositoryAssumption DEF RepositoryAssumption, TypeOK, Commit
<1>2. [ver |-> commits + 1, live |-> exist] \in RowState
    BY <1>1 DEF RowState
<1>3. \A q \in Procs : written[q] \cup rows \in SUBSET Rows
    BY DEF TypeOK
<1> QED BY <1>1, <1>2, <1>3 DEF TypeOK, Commit

\* Reset returns the fields of a request to their initial values.
LEMMA ResetTypes ==
    ASSUME TypeOK, NEW p \in Procs, Reset(p)
    PROVE  /\ phase' \in [Procs -> Phases]
           /\ call' \in [Procs -> Keys \cup {NoCall}]
           /\ todo' \in [Procs -> SUBSET Rows]
           /\ snap' \in [Procs -> RowsRead]
           /\ overlapped' \in [Procs -> BOOLEAN]
           /\ written' \in [Procs -> SUBSET Rows]
<1>1. NoRows \in RowsRead
    BY DEF NoRows, RowsRead
<1> QED BY <1>1 DEF TypeOK, Reset, Phases

\* Deleting keys leaves a cache.
LEMMA DeleteTypes ==
    ASSUME TypeOK, NEW ks, DeleteKeys(ks)
    PROVE  cache' \in [Keys -> Entry \cup {NoEntry}]
BY DEF TypeOK, DeleteKeys, Entry

LEMMA TypeStep ==
    ASSUME TypeOK, [Next]_vars
    PROVE  TypeOK'
<1>1. CASE \E p \in Procs, k \in Keys : Hit(p, k) \/ Miss(p, k)
    <2>1. PICK p \in Procs, k \in Keys : Hit(p, k) \/ Miss(p, k)
        BY <1>1
    <2>2. CASE Hit(p, k)
        <3>1. cache[k].val.rows \in RowsRead
            BY <2>2 DEF TypeOK, Hit, Found, Present
        <3> QED BY <2>2, <3>1 DEF TypeOK, Hit
    <2>3. CASE Miss(p, k)
        BY <2>3, FinderRows DEF TypeOK, Miss
    <2> QED BY <2>1, <2>2, <2>3
<1>2. CASE \E p \in Procs : Read(p) \/ ReadFails(p) \/ Store(p) \/ Return(p)
    <2>1. PICK p \in Procs : Read(p) \/ ReadFails(p) \/ Store(p) \/ Return(p)
        BY <1>2
    <2>2. CASE Read(p)
        <3>1. [r \in Rows |-> IF r \in Asked(p) THEN db[r] ELSE snap[p][r]] \in RowsRead
            BY DEF TypeOK, RowsRead
        <3>2. todo[p] \ Level(p) \in SUBSET Rows
            BY DEF TypeOK
        <3> QED BY <2>2, <3>1, <3>2 DEF TypeOK, Read
    <2>3. CASE ReadFails(p) \/ Return(p)
        BY <2>3, ResetTypes DEF TypeOK, ReadFails, Return, Phases
    <2>4. CASE Store(p)
        <3>1. [val |-> [rows |-> snap[p], overlapped |-> overlapped[p]], expired |-> FALSE] \in Entry
            BY DEF TypeOK, Entry
        <3>2. cache' \in [Keys -> Entry \cup {NoEntry}]
            BY <2>4, <3>1 DEF TypeOK, Store, SetCache, Entry
        <3> QED BY <2>4, <3>2 DEF TypeOK, Store, Entry
    <2> QED BY <2>1, <2>2, <2>3, <2>4
<1>3. CASE \E p \in Procs : Committed(p)
    <2>1. PICK p \in Procs, rows \in SUBSET Rows, exist \in BOOLEAN :
              /\ Commit(rows, exist)
              /\ UNCHANGED <<cache, finderVars>>
              /\ WillClear(p, rows) \/ WontClear(rows)
        BY <1>3 DEF Committed
    <2>2. /\ phase' \in [Procs -> Phases]
          /\ writer' \in [Procs -> [rows : SUBSET Rows, id : Ids, testType : Ids]]
          /\ silent' \subseteq Rows
        <3>1. CASE WillClear(p, rows)
            <4>1. PICK ph \in {"clearSubjects", "clear"} : phase' = [phase EXCEPT ![p] = ph]
                BY <3>1 DEF WillClear
            <4>2. PICK id \in Ids, t \in Ids :
                      writer' = [writer EXCEPT ![p] = [rows |-> rows, id |-> id, testType |-> t]]
                BY <3>1 DEF WillClear
            <4>3. [rows |-> rows, id |-> id, testType |-> t]
                      \in [rows : SUBSET Rows, id : Ids, testType : Ids]
                OBVIOUS
            <4> QED BY <3>1, <4>1, <4>2, <4>3 DEF TypeOK, WillClear, Phases
        <3>2. CASE WontClear(rows)
            BY <3>2 DEF TypeOK, WontClear, Phases
        <3> QED BY <2>1, <3>1, <3>2
    <2> QED BY <2>1, <2>2, CommitTypes DEF TypeOK, finderVars, Phases
<1>4. CASE \E p \in Procs : ClearSubjects(p) \/ Clear(p)
    <2>1. PICK p \in Procs : ClearSubjects(p) \/ Clear(p)
        BY <1>4
    <2>2. cache' \in [Keys -> Entry \cup {NoEntry}]
        BY <2>1, DeleteTypes DEF ClearSubjects, Clear, ClearSubjectsCache, ClearAllRelatedCache
    <2>3. NoWriter \in [rows : SUBSET Rows, id : Ids, testType : Ids]
        BY DEF NoWriter, Ids
    <2>4. [q \in Procs |-> overlapped[q] \/ phase[q] \in {"read", "store"}] \in [Procs -> BOOLEAN]
        BY DEF TypeOK
    <2>5. CASE ClearSubjects(p)
        BY <2>2, <2>5 DEF TypeOK, ClearSubjects, finderVars, Entry
    <2>6. CASE Clear(p)
        BY <2>2, <2>3, <2>4, <2>6 DEF TypeOK, Clear, Entry
    <2> QED BY <2>1, <2>5, <2>6
<1>5. CASE Clock
    <2>1. cache' \in [Keys -> Entry \cup {NoEntry}]
        BY <1>5, ZenonT(60) DEF TypeOK, Clock, Expire, DeleteExpired, Present, Entry
    <2> QED BY <1>5, <2>1 DEF TypeOK, Clock, NoRequest, finderVars, Entry
<1>6. CASE UNCHANGED vars
    BY <1>6 DEF TypeOK, vars
<1> QED BY <1>1, <1>2, <1>3, <1>4, <1>5, <1>6, NextCases

LEMMA TypeInit == Init => TypeOK
<1> SUFFICES ASSUME Init PROVE TypeOK
    OBVIOUS
<1>1. NoRows \in RowsRead
    BY DEF NoRows, RowsRead
<1>2. NoWriter \in [rows : SUBSET Rows, id : Ids, testType : Ids]
    BY DEF NoWriter, Ids
<1>3. 0 \in 0..MaxCommits
    BY RepositoryAssumption DEF RepositoryAssumption
<1>4. db \in [Rows -> RowState]
    BY <1>3 DEF Init, RowState
<1> QED BY <1>1, <1>2, <1>3, <1>4 DEF Init, TypeOK

\* The variables of the repository and its cache keep their types.
THEOREM TypeCorrect == Spec => []TypeOK
BY TypeInit, TypeStep, PTL DEF Spec

-----------------------------------------------------------------------------
(* Staleness.                                                              *)
(*                                                                         *)
(* StalenessHasACause speaks of the entry only, and a request stores what  *)
(* it read some steps ago: the same must hold of every FindAll under way,  *)
(* and a finder must begin with nothing read.                              *)

NothingRead ==
    \A p \in Procs : phase[p] \notin {"read", "store", "answered"} => snap[p] = NoRows

Explained(copy) == \A r \in Rows : copy[r] \in {Unread, db[r]} \/ Cause(r)

FillHasACause ==
    \A p \in Procs :
        phase[p] \in {"read", "store"} /\ call[p] = CacheKeyAllUniversities /\ ~ overlapped[p]
            => Explained(snap[p])

StaleInv == TypeOK /\ NothingRead /\ FillHasACause /\ StalenessHasACause

\* A copy of row r with an explanation keeps it over the step.
Kept == \A r \in Rows : Cause(r)' \/ (~ Cause(r) /\ db'[r] = db[r])

\* A commit explains the copies it makes stale and leaves the other explanations.
LEMMA CommitKeeps ==
    ASSUME TypeOK, NEW p \in Procs, Committed(p)
    PROVE  Kept
<1>1. PICK rows \in SUBSET Rows, exist \in BOOLEAN :
          /\ Commit(rows, exist)
          /\ phase[p] = "idle"
          /\ WillClear(p, rows) \/ WontClear(rows)
    BY DEF Committed
<1>2. ASSUME NEW r \in Rows, r \in rows \/ Cause(r)
      PROVE  Cause(r)'
    <2>1. CASE WillClear(p, rows)
        <3>1. /\ phase'[p] \in {"clearSubjects", "clear"} /\ writer'[p].rows = rows
              /\ \A q \in Procs \ {p} : phase'[q] = phase[q] /\ writer'[q] = writer[q]
            BY <2>1 DEF TypeOK, WillClear
        <3>2. r \in silent /\ r \notin rows => r \in silent'
            BY <2>1 DEF WillClear
        <3> QED BY <1>1, <1>2, <3>1, <3>2 DEF Cause
    <2>2. CASE WontClear(rows)
        BY <1>2, <2>2 DEF WontClear, Cause
    <2> QED BY <1>1, <2>1, <2>2
<1>3. \A r \in Rows \ rows : db'[r] = db[r]
    BY <1>1 DEF Commit
<1> QED BY <1>2, <1>3 DEF Kept

\* A step that leaves the database alone and no writer's last call behind.
LEMMA SameKeeps ==
    ASSUME UNCHANGED <<db, writer, silent>>,
           \A q \in Procs : phase'[q] \in {"clearSubjects", "clear"}
                                <=> phase[q] \in {"clearSubjects", "clear"}
    PROVE  Kept
BY DEF Kept, Cause

\* Explanations of a copy that does not change.
LEMMA FillKept ==
    ASSUME FillHasACause, Kept, NEW q \in Procs,
           UNCHANGED <<phase[q], call[q], overlapped[q], snap[q]>>
    PROVE  phase'[q] \in {"read", "store"} /\ call'[q] = CacheKeyAllUniversities
               /\ ~ overlapped'[q] => Explained(snap[q])'
BY DEF FillHasACause, Kept, Explained

LEMMA EntryKept ==
    ASSUME StalenessHasACause, Kept,
           LET k == CacheKeyAllUniversities
           IN  Present(k)' => Present(k) /\ cache'[k].val = cache[k].val
    PROVE  StalenessHasACause'
BY DEF StalenessHasACause, Kept

LEMMA StaleStep ==
    ASSUME StaleInv, [Next]_vars
    PROVE  StaleInv'
<1> USE DEF StaleInv
<1>t. TypeOK'
    BY TypeStep
<1>k. CacheKeyAllUniversities \in Keys
    BY RepositoryAssumption DEF RepositoryAssumption
<1>f. FillHasACause' <=>
          \A q \in Procs :
              phase'[q] \in {"read", "store"} /\ call'[q] = CacheKeyAllUniversities
                  /\ ~ overlapped'[q] => Explained(snap[q])'
    BY DEF FillHasACause, CacheKeyAllUniversities
<1>1. CASE \E p \in Procs, k \in Keys : Hit(p, k) \/ Miss(p, k)
    <2>1. PICK p \in Procs, k \in Keys : Hit(p, k) \/ Miss(p, k)
        BY <1>1
    <2>2. Kept
        BY <2>1, SameKeeps DEF TypeOK, Hit, Miss
    <2>3. NothingRead'
        BY <2>1 DEF TypeOK, NothingRead, Hit, Miss
    <2>4. ASSUME NEW q \in Procs, q # p
          PROVE  UNCHANGED <<phase[q], call[q], overlapped[q], snap[q]>>
        BY <2>1, <2>4 DEF TypeOK, Hit, Miss
    <2>5. phase'[p] \in {"read", "store"} => Explained(snap[p])'
        BY <2>1 DEF TypeOK, NothingRead, NoRows, Explained, Hit, Miss
    <2>6. FillHasACause'
        BY <1>f, <2>2, <2>4, <2>5, FillKept
    <2>7. StalenessHasACause'
        BY <2>1, <2>2, EntryKept DEF Hit, Miss, Present
    <2> QED BY <1>t, <2>3, <2>6, <2>7
<1>2. CASE \E p \in Procs : Read(p)
    <2>1. PICK p \in Procs : Read(p)
        BY <1>2
    <2>2. Kept
        BY <2>1, SameKeeps DEF TypeOK, Read
    <2>3. NothingRead'
        BY <2>1 DEF TypeOK, NothingRead, Read
    <2>4. ASSUME NEW q \in Procs, q # p
          PROVE  UNCHANGED <<phase[q], call[q], overlapped[q], snap[q]>>
        BY <2>1, <2>4 DEF TypeOK, Read
    <2>5. \A r \in Rows : snap'[p][r] \in {snap[p][r], db'[r]}
        BY <2>1 DEF TypeOK, Read
    <2>6. Explained(snap[p]) => Explained(snap[p])'
        BY <2>2, <2>5 DEF Explained, Kept
    <2>7. /\ UNCHANGED <<call, overlapped>>
          /\ phase[p] = "read"
        BY <2>1 DEF Read
    <2>8. FillHasACause'
        BY <1>f, <2>2, <2>4, <2>6, <2>7, FillKept DEF FillHasACause
    <2>9. StalenessHasACause'
        BY <2>1, <2>2, EntryKept DEF Read, Present
    <2> QED BY <1>t, <2>3, <2>8, <2>9
<1>3. CASE \E p \in Procs : ReadFails(p) \/ Return(p)
    <2>1. PICK p \in Procs : ReadFails(p) \/ Return(p)
        BY <1>3
    <2>2. Kept
        BY <2>1, SameKeeps DEF TypeOK, ReadFails, Return, Reset
    <2>3. NothingRead'
        BY <2>1 DEF TypeOK, NothingRead, ReadFails, Return, Reset
    <2>4. ASSUME NEW q \in Procs, q # p
          PROVE  UNCHANGED <<phase[q], call[q], overlapped[q], snap[q]>>
        BY <2>1, <2>4 DEF TypeOK, ReadFails, Return, Reset
    <2>5. phase'[p] = "idle"
        BY <2>1 DEF TypeOK, ReadFails, Return, Reset
    <2>6. FillHasACause'
        BY <1>f, <2>2, <2>4, <2>5, FillKept
    <2>7. StalenessHasACause'
        BY <2>1, <2>2, EntryKept DEF ReadFails, Return, Present
    <2> QED BY <1>t, <2>3, <2>6, <2>7
<1>4. CASE \E p \in Procs : Store(p)
    <2>1. PICK p \in Procs : Store(p)
        BY <1>4
    <2>2. Kept
        BY <2>1, SameKeeps DEF TypeOK, Store
    <2>3. NothingRead'
        BY <2>1 DEF TypeOK, NothingRead, Store
    <2>4. ASSUME NEW q \in Procs, q # p
          PROVE  UNCHANGED <<phase[q], call[q], overlapped[q], snap[q]>>
        BY <2>1, <2>4 DEF TypeOK, Store
    <2>5. phase'[p] = "answered"
        BY <2>1 DEF TypeOK, Store
    <2>6. FillHasACause'
        BY <1>f, <2>2, <2>4, <2>5, FillKept
    <2>7. StalenessHasACause'
        <3> DEFINE K == CacheKeyAllUniversities
        <3>1. CASE cache'[K] = cache[K]
            BY <2>2, <3>1, EntryKept DEF Present
        <3>2. CASE cache'[K] # cache[K]
            <4>1. /\ call[p] = K
                  /\ cache'[K].val = [rows |-> snap[p], overlapped |-> overlapped[p]]
                BY <1>k, <2>1, <3>2 DEF TypeOK, Store, SetCache
            <4>2. ~ overlapped[p] => Explained(snap[p])
                BY <2>1, <4>1 DEF Store, FillHasACause
            <4> QED BY <2>2, <4>1, <4>2 DEF StalenessHasACause, Explained, Kept
        <3> QED BY <3>1, <3>2
    <2> QED BY <1>t, <2>3, <2>6, <2>7
<1>5. CASE \E p \in Procs : Committed(p)
    <2>1. PICK p \in Procs : Committed(p)
        BY <1>5
    <2>2. /\ UNCHANGED <<cache, call, snap, overlapped>>
          /\ \A q \in Procs : phase'[q] = phase[q] \/ phase'[q] \in {"clearSubjects", "clear"}
          /\ \A q \in Procs : phase'[q] # phase[q] => phase[q] = "idle"
        BY <2>1 DEF TypeOK, Committed, WillClear, WontClear, finderVars
    <2>3. Kept
        BY <2>1, CommitKeeps
    <2>4. NothingRead'
        BY <2>2 DEF NothingRead
    <2>5. FillHasACause'
        BY <1>f, <2>2, <2>3, FillKept
    <2>6. StalenessHasACause'
        BY <2>2, <2>3, EntryKept DEF Present
    <2> QED BY <1>t, <2>4, <2>5, <2>6
<1>6. CASE \E p \in Procs : ClearSubjects(p)
    <2>1. PICK p \in Procs : ClearSubjects(p)
        BY <1>6
    <2>2. /\ phase' = [phase EXCEPT ![p] = "clear"] /\ phase[p] = "clearSubjects"
          /\ UNCHANGED <<db, writer, silent, call, snap, overlapped>>
        BY <2>1 DEF ClearSubjects, finderVars
    <2>3. Kept
        BY <2>2, SameKeeps DEF TypeOK
    <2>4. NothingRead'
        BY <2>2 DEF TypeOK, NothingRead
    <2>5. \A q \in Procs : phase'[q] \in {"read", "store"} => phase'[q] = phase[q]
        BY <2>2 DEF TypeOK
    <2>6. FillHasACause'
        BY <1>f, <2>2, <2>3, <2>5, FillKept
    <2>7. cache'[CacheKeyAllUniversities] \in {NoEntry, cache[CacheKeyAllUniversities]}
        BY <1>k, <2>1 DEF ClearSubjects, ClearSubjectsCache, DeleteKeys
    <2>8. StalenessHasACause'
        BY <2>3, <2>7, EntryKept DEF Present
    <2> QED BY <1>t, <2>4, <2>6, <2>8
<1>7. CASE \E p \in Procs : Clear(p)
    <2>1. PICK p \in Procs : Clear(p)
        BY <1>7
    <2>2. NothingRead'
        BY <2>1 DEF TypeOK, NothingRead, Clear
    <2>3. \A q \in Procs : phase'[q] \in {"read", "store"} => overlapped'[q]
        BY <2>1 DEF TypeOK, Clear
    <2>4. FillHasACause'
        BY <1>f, <2>3
    <2>5. cache'[CacheKeyAllUniversities] = NoEntry
        BY <1>k, <2>1 DEF Clear, ClearAllRelatedCache, DeleteKeys, RelatedKeys
    <2>6. StalenessHasACause'
        BY <2>5 DEF StalenessHasACause, Present
    <2> QED BY <1>t, <2>2, <2>4, <2>6
<1>8. CASE Clock
    <2>1. UNCHANGED <<db, phase, writer, silent, call, snap, overlapped>>
        BY <1>8 DEF Clock, NoRequest, finderVars
    <2>2. Kept
        BY <2>1, SameKeeps
    <2>3. NothingRead'
        BY <2>1 DEF NothingRead
    <2>4. FillHasACause'
        BY <1>f, <2>1, <2>2, FillKept
    <2>5. LET k == CacheKeyAllUniversities
          IN  Present(k)' => Present(k) /\ cache'[k].val = cache[k].val
        BY <1>8, <1>k, ZenonT(60) DEF TypeOK, Clock, Expire, DeleteExpired, Present
    <2>6. StalenessHasACause'
        BY <2>2, <2>5, EntryKept
    <2> QED BY <1>t, <2>3, <2>4, <2>6
<1>9. CASE UNCHANGED vars
    <2>1. UNCHANGED <<cache, db, phase, writer, silent, call, snap, overlapped>>
        BY <1>9 DEF vars
    <2>2. Kept
        BY <2>1, SameKeeps
    <2>3. FillHasACause'
        BY <1>f, <2>1, <2>2, FillKept
    <2>4. StalenessHasACause'
        BY <2>1, <2>2, EntryKept DEF Present
    <2> QED BY <1>t, <2>1, <2>3, <2>4 DEF NothingRead
<1> QED BY <1>1, <1>2, <1>3, <1>4, <1>5, <1>6, <1>7, <1>8, <1>9, NextCases

LEMMA StaleInit == Init => StaleInv
<1> SUFFICES ASSUME Init PROVE StaleInv
    OBVIOUS
<1>k. CacheKeyAllUniversities \in Keys
    BY RepositoryAssumption DEF RepositoryAssumption
<1> QED BY <1>k, TypeInit DEF Init, StaleInv, NothingRead, FillHasACause, StalenessHasACause, Present

\* However many requests and writers run, the cached list of all universities is
\* behind the database only for the causes StalenessHasACause names.
THEOREM StalenessCorrect == Spec => []StalenessHasACause
<1>1. StaleInv => StalenessHasACause
    BY DEF StaleInv
<1> QED BY <1>1, StaleInit, StaleStep, PTL DEF Spec

-----------------------------------------------------------------------------
(* FindByID.                                                               *)

\* A finder by id has read the database itself at each point of its way: no request
\* arrives at an answer for such a key from the cache.
ByIdInv ==
    \A p \in Procs :
        \/ phase[p] \in {"read", "store"}
        \/ phase[p] = "answered" /\ call[p] \in ByIdKeys
        => \A r \in Rows : snap[p][r] \in {Unread, db[r]} \/ r \in written[p]

LEMMA ByIdStep ==
    ASSUME TypeOK, NothingRead, ByIdInv, [Next]_vars
    PROVE  ByIdInv'
<1>1. CASE \E p \in Procs, k \in Keys : Hit(p, k) \/ Miss(p, k)
    <2>1. PICK p \in Procs, k \in Keys : Hit(p, k) \/ Miss(p, k)
        BY <1>1
    <2>2. CASE Hit(p, k)
        BY <2>2 DEF TypeOK, ByIdInv, Hit, Usable
    <2>3. CASE Miss(p, k)
        BY <2>3 DEF TypeOK, NothingRead, NoRows, ByIdInv, Miss
    <2> QED BY <2>1, <2>2, <2>3
<1>2. CASE \E p \in Procs : Read(p) \/ ReadFails(p) \/ Store(p) \/ Return(p)
    <2>1. PICK p \in Procs : Read(p) \/ ReadFails(p) \/ Store(p) \/ Return(p)
        BY <1>2
    <2>2. CASE Read(p)
        BY <2>2 DEF TypeOK, ByIdInv, Read
    <2>3. CASE ReadFails(p) \/ Return(p)
        BY <2>3 DEF TypeOK, ByIdInv, ReadFails, Return, Reset
    <2>4. CASE Store(p)
        BY <2>4 DEF TypeOK, ByIdInv, Store
    <2> QED BY <2>1, <2>2, <2>3, <2>4
<1>3. CASE \E p \in Procs : Committed(p)
    <2>1. PICK p \in Procs, rows \in SUBSET Rows, exist \in BOOLEAN :
              /\ Commit(rows, exist)
              /\ phase[p] = "idle"
              /\ UNCHANGED <<cache, finderVars>>
              /\ WillClear(p, rows) \/ WontClear(rows)
        BY <1>3 DEF Committed
    <2>2. /\ UNCHANGED <<call, snap>>
          /\ \A q \in Procs : phase'[q] \in {"read", "store", "answered"} => phase'[q] = phase[q]
        BY <2>1 DEF TypeOK, WillClear, WontClear, finderVars
    <2>3. /\ \A r \in Rows \ rows : db'[r] = db[r]
          /\ \A q \in Procs : phase[q] \in {"read", "store", "answered"}
                                  => written'[q] = written[q] \cup rows
        BY <2>1 DEF Commit
    <2> QED BY <2>2, <2>3 DEF ByIdInv
<1>4. CASE \E p \in Procs : ClearSubjects(p) \/ Clear(p)
    BY <1>4 DEF TypeOK, ByIdInv, ClearSubjects, Clear, finderVars
<1>5. CASE Clock
    BY <1>5 DEF ByIdInv, Clock, NoRequest, finderVars
<1>6. CASE UNCHANGED vars
    BY <1>6 DEF ByIdInv, vars
<1> QED BY <1>1, <1>2, <1>3, <1>4, <1>5, <1>6, NextCases

\* FindByID never answers from the cache: what it returns, the existence check of
\* the update and delete handlers, is behind the database only in rows written since.
THEOREM ByIdCorrect == Spec => []ByIdIsFresh
<1>1. Init => ByIdInv
    BY DEF Init, ByIdInv
<1>2. StaleInv => TypeOK /\ NothingRead
    BY DEF StaleInv
<1>3. ByIdInv => ByIdIsFresh
    BY DEF ByIdInv, ByIdIsFresh
<1> QED BY <1>1, <1>2, <1>3, StaleInit, StaleStep, ByIdStep, PTL DEF Spec

-----------------------------------------------------------------------------
(* The size of the cache.                                                  *)

Stored == {k \in Keys : Present(k)}

LEMMA StoredFinite == IsFiniteSet(Stored)
BY CacheAssumption, FS_Subset DEF CacheAssumption, Stored

LEMMA SizeStep ==
    ASSUME SizeBounded, TypeOK, [Next]_vars
    PROVE  SizeBounded'
<1>0. ItemCount \in Nat /\ MaxCacheSize \in Nat /\ ItemCount = Cardinality(Stored)
    BY StoredFinite, FS_CardinalityType, CacheAssumption DEF CacheAssumption, ItemCount, Stored
<1>1. CASE Stored' \subseteq Stored
    <2>1. ItemCount' = Cardinality(Stored')
        BY DEF ItemCount, Stored
    <2>2. Cardinality(Stored') \in Nat /\ Cardinality(Stored') <= Cardinality(Stored)
        BY <1>1, StoredFinite, FS_Subset, FS_CardinalityType
    <2> QED BY <1>0, <2>1, <2>2 DEF SizeBounded
<1>2. CASE \E k \in Keys : Stored' \subseteq Stored \cup {k} /\ ~ IsFull
    <2>1. PICK k \in Keys : Stored' \subseteq Stored \cup {k} /\ ~ IsFull
        BY <1>2
    <2>2. IsFiniteSet(Stored \cup {k}) /\ Cardinality(Stored \cup {k}) <= Cardinality(Stored) + 1
        BY <1>0, StoredFinite, FS_AddElement
    <2>3. Cardinality(Stored') \in Nat /\ Cardinality(Stored') <= Cardinality(Stored \cup {k})
        BY <2>1, <2>2, FS_Subset, FS_CardinalityType
    <2>4. ItemCount' = Cardinality(Stored') /\ Cardinality(Stored \cup {k}) \in Nat
        BY <2>2, FS_CardinalityType DEF ItemCount, Stored
    <2> QED BY <1>0, <2>1, <2>2, <2>3, <2>4 DEF SizeBounded, IsFull
<1>3. ASSUME NEW ks, DeleteKeys(ks)
      PROVE  Stored' \subseteq Stored
    BY <1>3 DEF DeleteKeys, Stored, Present
<1>4. CASE UNCHANGED cache
    BY <1>1, <1>4 DEF Stored, Present
<1>5. ASSUME NEW p \in Procs, Store(p)
      PROVE  SizeBounded'
    <2>1. CASE IsFull
        BY <1>4, <1>5, <2>1 DEF Store, SetCache
    <2>2. CASE ~ IsFull /\ call[p] \in Keys
        <3>1. Stored' \subseteq Stored \cup {call[p]}
            BY <1>5, <2>2 DEF TypeOK, Store, SetCache, Stored, Present
        <3> QED BY <1>2, <2>2, <3>1
    <2>3. CASE ~ IsFull /\ call[p] \notin Keys
        <3>1. Stored' \subseteq Stored
            BY <1>5, <2>3 DEF TypeOK, Store, SetCache, Stored, Present
        <3> QED BY <1>1, <3>1
    <2> QED BY <2>1, <2>2, <2>3
<1>6. ASSUME NEW p \in Procs, ClearSubjects(p) \/ Clear(p)
      PROVE  SizeBounded'
    BY <1>1, <1>3, <1>6 DEF ClearSubjects, Clear, ClearSubjectsCache, ClearAllRelatedCache
<1>7. CASE Clock
    <2>1. Stored' \subseteq Stored
        BY <1>7 DEF TypeOK, Clock, Expire, DeleteExpired, Stored, Present
    <2> QED BY <1>1, <2>1
<1>8. CASE \E p \in Procs, k \in Keys : Hit(p, k) \/ Miss(p, k)
    BY <1>4, <1>8 DEF Hit, Miss
<1>9. CASE \E p \in Procs : Read(p) \/ ReadFails(p) \/ Return(p)
    BY <1>4, <1>9 DEF Read, ReadFails, Return
<1>10. CASE \E p \in Procs : Committed(p)
    BY <1>4, <1>10 DEF Committed
<1>11. CASE UNCHANGED vars
    BY <1>4, <1>11 DEF vars
<1> QED BY <1>5, <1>6, <1>7, <1>8, <1>9, <1>10, <1>11, NextCases

\* However many requests store at once, the cache holds at most maxCacheSize entries.
THEOREM SizeCorrect == Spec => []SizeBounded
<1>1. Init => SizeBounded
    <2> SUFFICES ASSUME Init PROVE SizeBounded
        OBVIOUS
    <2>1. Stored = {}
        BY DEF Init, Stored, Present
    <2>2. ItemCount = 0
        BY <2>1, FS_EmptySet DEF ItemCount, Stored
    <2> QED BY <2>2, CacheAssumption DEF SizeBounded, CacheAssumption
<1> QED BY <1>1, TypeInit, TypeStep, SizeStep, PTL DEF Spec
=============================================================================
