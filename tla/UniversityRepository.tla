------------------------ MODULE UniversityRepository ------------------------
(***************************************************************************)
(* universityRepository (back/internal/repositories/repository.go) as      *)
(* concurrent requests see it: finders that look in the shared cache, read *)
(* the database statement by statement and store what they read, and       *)
(* writers that commit a transaction and then clear keys of the cache.     *)
(* The two stores are never updated together.                              *)
(*                                                                         *)
(* A row of the database is abstracted to its version and to whether it    *)
(* exists.  Ids are strings, the text they have in a cache key; rows of    *)
(* different tables may have the same id, as each table numbers its own.   *)
(***************************************************************************)
EXTENDS CacheManager

CONSTANTS
    Procs,       \* concurrent requests
    Rows,        \* the rows that may exist in the database
    Kind,        \* Kind[r]: the table of row r
    Id,          \* Id[r]: its id, a string
    Parent,      \* Parent[r]: the row its foreign key refers to, or NoRow
    NoRow,
    Queries,     \* search queries
    MaxCommits,  \* bound on the number of committed writes
    Unread       \* marks a row a finder has not read

Kinds == {"university", "department", "major", "schedule", "info", "testType", "subject"}

VARIABLES
    db,          \* db[r]: version of row r and whether it exists
    commits,     \* number of committed writes: the source of versions
    phase,       \* idle, read, store, answered (finders); clearSubjects, clear (writers)
    call,        \* the key of the finder call of a request
    todo,        \* the rows a finder has still to ask for
    snap,        \* the rows a finder has read, or answers with
    writer,      \* what a writer committed and the id whose keys it clears
    silent,      \* history: rows whose last commit was by an operation that never clears
    overlapped,  \* history: a clear of the cache happened during the finder's fill
    written      \* history: rows written since the finder was called

vars == <<cache, db, commits, phase, call, todo, snap, writer, silent, overlapped, written>>
finderVars == <<call, todo, snap, overlapped>>

-----------------------------------------------------------------------------
(* The tree of rows.                                                       *)

Children(r) == {q \in Rows : Parent[q] = r}

\* Above[r]: r and the rows it hangs from (a subject has five).
Above[r \in Rows] == {r} \cup (IF Parent[r] = NoRow THEN {} ELSE Above[Parent[r]])

Subtree(r) == {q \in Rows : r \in Above[q]}

-----------------------------------------------------------------------------
(* The finders: the key each one uses, the rows that must exist for it to  *)
(* answer, the rows it loads, and in which direction: with one statement   *)
(* per table, downwards from the university (each statement asking for the *)
(* rows below those found so far) or upwards from the subject.             *)

\* The order of the statements (applyPreloads), from the outermost table.
Depth == [university |-> 1, department |-> 2, major |-> 3, schedule |-> 4, info |-> 5,
          testType |-> 6, subject |-> 7]

FindAll == [key |-> CacheKeyAllUniversities, must |-> {}, rows |-> Rows, down |-> TRUE]

FindByID(u) ==
    [key |-> CacheKeyUniversity(Id[u]), must |-> {u}, rows |-> Subtree(u), down |-> TRUE]

Search(q) ==
    [key |-> <<"universities", "search", q>>, must |-> {}, rows |-> Rows, down |-> TRUE]

FindDepartment(d) ==
    [key |-> CacheKeyDepartment(Id[Parent[d]], Id[d]), must |-> {d}, rows |-> {d},
     down |-> FALSE]

FindMajor(m) ==
    [key |-> <<"majors", Id[Parent[m]], Id[m]>>, must |-> {m}, rows |-> {m},
     down |-> FALSE]

FindAdmissionInfo(i) ==
    [key |-> <<"admission_infos", Id[Parent[i]], Id[i]>>, must |-> {i}, rows |-> {i},
     down |-> FALSE]

\* The join finds the subject; the rows it hangs from are preloaded one by one.
FindSubject(s) ==
    [key |-> <<"subjects", Id[CHOOSE d \in Above[s] : Kind[d] = "department"], Id[s]>>,
     must |-> {s},
     rows |-> {r \in Rows : s \in Subtree(r)}, down |-> FALSE]

AllFinders ==
    LET of(k) == {r \in Rows : Kind[r] = k}
    IN {FindAll} \cup {Search(q) : q \in Queries}
       \cup {FindByID(u) : u \in of("university")}
       \cup {FindDepartment(d) : d \in of("department")}
       \cup {FindMajor(m) : m \in of("major")}
       \cup {FindAdmissionInfo(i) : i \in of("info")}
       \cup {FindSubject(s) : s \in of("subject")}

\* A finder call is known by its key.
Finder == [k \in Keys |-> CHOOSE f \in AllFinders : f.key = k]

ByIdKeys == {CacheKeyUniversity(Id[u]) : u \in {r \in Rows : Kind[r] = "university"}}

ASSUME RepositoryAssumption ==
    /\ IsFiniteSet(Rows)
    /\ Kind \in [Rows -> Kinds]
    /\ Id \in [Rows -> STRING]
    /\ Parent \in [Rows -> Rows \cup {NoRow}] /\ NoRow \notin Rows
    /\ \A r \in Rows : Parent[r] = NoRow <=> Kind[r] = "university"
    /\ Keys \subseteq {f.key : f \in AllFinders}
    /\ CacheKeyAllUniversities \in Keys
    /\ MaxCommits \in Nat

-----------------------------------------------------------------------------
NoCall == <<"none">>
NoRows == [r \in Rows |-> Unread]
NoWriter == [rows |-> {}, id |-> "", testType |-> ""]

Init ==
    /\ cache = [k \in Keys |-> NoEntry]
    /\ \E existing \in {S \in SUBSET Rows : \A r \in S : Above[r] \subseteq S} :
         db = [r \in Rows |-> [ver |-> 0, live |-> r \in existing]]
    /\ commits = 0
    /\ phase = [p \in Procs |-> "idle"]
    /\ call = [p \in Procs |-> NoCall]
    /\ todo = [p \in Procs |-> {}]
    /\ snap = [p \in Procs |-> NoRows]
    /\ writer = [p \in Procs |-> NoWriter]
    /\ silent = {}
    /\ overlapped = [p \in Procs |-> FALSE]
    /\ written = [p \in Procs |-> {}]

-----------------------------------------------------------------------------
(* Finders.                                                                *)

\* Faulty variant of Usable: the cached value has the type that is asserted.
UsableAlways(k) == TRUE

\* getUniversityFromCache asserts that the cached value is a models.University,
\* but FindByID stores a pointer to one: its entries are never used.
Usable(k) == k \notin ByIdKeys

\* The cache has an answer: the request returns the cached value.
Hit(p, k) ==
    /\ phase[p] = "idle"
    /\ Found(k) /\ Usable(k)
    /\ phase' = [phase EXCEPT ![p] = "answered"]
    /\ call' = [call EXCEPT ![p] = k]
    /\ snap' = [snap EXCEPT ![p] = cache[k].val.rows]
    /\ UNCHANGED <<cache, db, commits, todo, writer, silent, overlapped, written>>

\* The cache has none: the request turns to the database.
Miss(p, k) ==
    /\ phase[p] = "idle"
    /\ ~ (Found(k) /\ Usable(k))
    /\ phase' = [phase EXCEPT ![p] = "read"]
    /\ call' = [call EXCEPT ![p] = k]
    /\ todo' = [todo EXCEPT ![p] = Finder[k].rows]
    /\ UNCHANGED <<cache, db, commits, snap, writer, silent, overlapped, written>>

\* The rows of the table that the finder reads next.
Level(p) ==
    {r \in todo[p] : \A q \in todo[p] :
        IF Finder[call[p]].down THEN Depth[Kind[r]] <= Depth[Kind[q]]
                                ELSE Depth[Kind[r]] >= Depth[Kind[q]]}

\* Those that its statement asks for.
Asked(p) ==
    {r \in Level(p) :
        Finder[call[p]].down /\ Parent[r] # NoRow =>
            snap[p][Parent[r]] # Unread /\ snap[p][Parent[r]].live}

\* One SQL statement.  The statements of a finder share no transaction.
Read(p) ==
    /\ phase[p] = "read"
    /\ \A r \in Asked(p) \cap Finder[call[p]].must : db[r].live
    /\ snap' = [snap EXCEPT ![p] = [r \in Rows |-> IF r \in Asked(p) THEN db[r] ELSE snap[p][r]]]
    /\ todo' = [todo EXCEPT ![p] = todo[p] \ Level(p)]
    /\ phase' = [phase EXCEPT ![p] = IF Level(p) = todo[p] THEN "store" ELSE "read"]
    /\ UNCHANGED <<cache, db, commits, call, writer, silent, overlapped, written>>

Reset(p) ==
    /\ phase' = [phase EXCEPT ![p] = "idle"]
    /\ call' = [call EXCEPT ![p] = NoCall]
    /\ todo' = [todo EXCEPT ![p] = {}]
    /\ snap' = [snap EXCEPT ![p] = NoRows]
    /\ overlapped' = [overlapped EXCEPT ![p] = FALSE]
    /\ written' = [written EXCEPT ![p] = {}]

\* A statement fails (the row does not exist, a timeout, a lost connection):
\* the request returns an error and stores nothing.
ReadFails(p) ==
    /\ phase[p] = "read"
    /\ Reset(p)
    /\ UNCHANGED <<cache, db, commits, writer, silent>>

\* SetCache with what was read, however old it is by now; then the answer.
Store(p) ==
    /\ phase[p] = "store"
    /\ SetCache(call[p], [rows |-> snap[p], overlapped |-> overlapped[p]])
    /\ phase' = [phase EXCEPT ![p] = "answered"]
    /\ UNCHANGED <<db, commits, call, todo, snap, writer, silent, overlapped, written>>

Return(p) ==
    /\ phase[p] = "answered"
    /\ Reset(p)
    /\ UNCHANGED <<cache, db, commits, writer, silent>>

-----------------------------------------------------------------------------
(* Writers: a transaction, and afterwards the clears of the cache.  A      *)
(* transaction that fails changes nothing and clears nothing.              *)

\* The transaction makes every row of rows exist, or not, at a new version.
Commit(rows, exist) ==
    /\ commits < MaxCommits
    /\ commits' = commits + 1
    /\ db' = [r \in Rows |-> IF r \in rows THEN [ver |-> commits + 1, live |-> exist] ELSE db[r]]
    /\ written' = [q \in Procs |-> IF phase[q] \in {"read", "store", "answered"}
                                   THEN written[q] \cup rows ELSE {}]

\* Faulty variant of ThenClear: the call of ClearAllRelatedCache is forgotten.
ForgetsClear(p, rows, id) ==
    /\ phase[p] = "idle"
    /\ silent' = silent \ rows
    /\ UNCHANGED <<cache, phase, writer, finderVars>>

\* After the commit the writer still has to call ClearAllRelatedCache(id).
ThenClear(p, rows, id) ==
    /\ phase[p] = "idle"
    /\ phase' = [phase EXCEPT ![p] = "clear"]
    /\ writer' = [writer EXCEPT ![p] = [rows |-> rows, id |-> id, testType |-> "none"]]
    /\ silent' = silent \ rows
    /\ UNCHANGED <<cache, finderVars>>

\* The operation ends with its commit: the cache is left as it is.
NoClear(p, rows) ==
    /\ phase[p] = "idle"
    /\ silent' = silent \cup rows
    /\ UNCHANGED <<cache, phase, writer, finderVars>>

ParentExists(r) == db[Parent[r]].live

\* What gorm's Create or Save of row r may write: r and, of the rows nested in it
\* that do not exist yet, any that have a parent.
Saved(r) ==
    {{r} \cup nested : nested \in
        {S \in SUBSET {q \in Subtree(r) \ {r} : ~ db[q].live} :
            \A q \in S : db[Parent[q]].live \/ Parent[q] \in S \cup {r}}}

\* Foreign keys: a row with children is not deleted, except that majors cascade to
\* their schedules.
Cascade(r) == {r} \cup {q \in Children(r) : Kind[q] = "schedule" /\ db[q].live}
Deletable(r) ==
    /\ db[r].live
    /\ \A q \in Cascade(r) : \A c \in Children(q) \ Cascade(r) : ~ db[c].live

Create(p, u) ==
    /\ Kind[u] = "university" /\ ~ db[u].live
    /\ \E rows \in Saved(u) : Commit(rows, TRUE) /\ ThenClear(p, rows, Id[u])

\* Save inserts the row again when it is gone.
Update(p, u) ==
    /\ Kind[u] = "university"
    /\ \E rows \in Saved(u) : Commit(rows, TRUE) /\ ThenClear(p, rows, Id[u])

Delete(p, u) ==
    /\ Kind[u] = "university" /\ Deletable(u)
    /\ Commit({u}, FALSE)
    /\ ThenClear(p, {u}, Id[u])

CreateDepartment(p, d) ==
    /\ Kind[d] = "department" /\ ~ db[d].live /\ ParentExists(d)
    /\ \E rows \in Saved(d) : Commit(rows, TRUE) /\ NoClear(p, rows)

UpdateDepartment(p, d) ==
    /\ Kind[d] = "department" /\ ParentExists(d)
    /\ \E rows \in Saved(d) : Commit(rows, TRUE) /\ ThenClear(p, rows, Id[Parent[d]])

DeleteDepartment(p, d) ==
    /\ Kind[d] = "department" /\ Deletable(d)
    /\ Commit({d}, FALSE)
    /\ NoClear(p, {d})

CreateMajor(p, m) ==
    /\ Kind[m] = "major" /\ ~ db[m].live /\ ParentExists(m)
    /\ \E rows \in Saved(m) : Commit(rows, TRUE) /\ NoClear(p, rows)

\* Clears by the department's id, taken as a university's.
UpdateMajor(p, m) ==
    /\ Kind[m] = "major" /\ ParentExists(m)
    /\ \E rows \in Saved(m) : Commit(rows, TRUE) /\ ThenClear(p, rows, Id[Parent[m]])

DeleteMajor(p, m) ==
    /\ Kind[m] = "major" /\ Deletable(m)
    /\ Commit(Cascade(m), FALSE)
    /\ NoClear(p, Cascade(m))

\* Clears by the major's id, taken as a university's.
UpdateAdmissionSchedule(p, s) ==
    /\ Kind[s] = "schedule" /\ ParentExists(s)
    /\ \E rows \in Saved(s) : Commit(rows, TRUE) /\ ThenClear(p, rows, Id[Parent[s]])

CreateAdmissionInfo(p, i) ==
    /\ Kind[i] = "info" /\ ~ db[i].live /\ ParentExists(i)
    /\ \E rows \in Saved(i) : Commit(rows, TRUE) /\ NoClear(p, rows)

\* Clears by the schedule's id, taken as a university's.
UpdateAdmissionInfo(p, i) ==
    /\ Kind[i] = "info" /\ ParentExists(i)
    /\ \E rows \in Saved(i) : Commit(rows, TRUE) /\ ThenClear(p, rows, Id[Parent[i]])

DeleteAdmissionInfo(p, i) ==
    /\ Kind[i] = "info" /\ Deletable(i)
    /\ Commit({i}, FALSE)
    /\ NoClear(p, {i})

CreateSubject(p, s) ==
    /\ Kind[s] = "subject" /\ ~ db[s].live /\ ParentExists(s)
    /\ Commit({s}, TRUE)
    /\ NoClear(p, {s})

DeleteSubject(p, s) ==
    /\ Kind[s] = "subject" /\ Deletable(s)
    /\ Commit({s}, FALSE)
    /\ NoClear(p, {s})

\* The subjects of the test type: a write of one recomputes the percentages of all.
Siblings(s) == {q \in Rows : Kind[q] = "subject" /\ Parent[q] = Parent[s] /\ db[q].live}

\* A subject that is not in its test type's list is not inserted.
UpdateSubject(p, s) ==
    /\ Kind[s] = "subject"
    /\ Commit(Siblings(s), TRUE)
    /\ phase[p] = "idle"
    /\ phase' = [phase EXCEPT ![p] = "clearSubjects"]
    /\ writer' = [writer EXCEPT ![p] =
                    [rows |-> Siblings(s), id |-> "0", testType |-> Id[Parent[s]]]]
    /\ silent' = silent \ Siblings(s)
    /\ UNCHANGED <<cache, finderVars>>

UpdateSubjectsBatch(p, s) ==
    /\ Kind[s] = "subject" /\ db[s].live
    /\ Commit(Siblings(s), TRUE)
    /\ NoClear(p, Siblings(s))

\* UpdateSubject's first call after the commit: ClearSubjectsCache.
ClearSubjects(p) ==
    /\ phase[p] = "clearSubjects"
    /\ ClearSubjectsCache(writer[p].testType)
    /\ phase' = [phase EXCEPT ![p] = "clear"]
    /\ UNCHANGED <<db, commits, writer, silent, written, finderVars>>

\* The writer's last call: ClearAllRelatedCache.
Clear(p) ==
    /\ phase[p] = "clear"
    /\ ClearAllRelatedCache(writer[p].id)
    /\ phase' = [phase EXCEPT ![p] = "idle"]
    /\ writer' = [writer EXCEPT ![p] = NoWriter]
    /\ overlapped' = [q \in Procs |-> overlapped[q] \/ phase[q] \in {"read", "store"}]
    /\ UNCHANGED <<db, commits, silent, call, todo, snap, written>>

-----------------------------------------------------------------------------
Find(p) ==
    \/ \E k \in Keys : Hit(p, k) \/ Miss(p, k)
    \/ Read(p)
    \/ ReadFails(p)
    \/ Store(p)
    \/ Return(p)

Write(p) ==
    \/ \E r \in Rows :
         \/ Create(p, r) \/ Update(p, r) \/ Delete(p, r)
         \/ CreateDepartment(p, r) \/ UpdateDepartment(p, r) \/ DeleteDepartment(p, r)
         \/ CreateMajor(p, r) \/ UpdateMajor(p, r) \/ DeleteMajor(p, r)
         \/ UpdateAdmissionSchedule(p, r)
         \/ CreateAdmissionInfo(p, r) \/ UpdateAdmissionInfo(p, r) \/ DeleteAdmissionInfo(p, r)
         \/ CreateSubject(p, r) \/ UpdateSubject(p, r) \/ DeleteSubject(p, r)
         \/ UpdateSubjectsBatch(p, r)
    \/ ClearSubjects(p)
    \/ Clear(p)

NoRequest == UNCHANGED <<db, commits, phase, writer, silent, written, finderVars>>

Clock ==
    \/ \E k \in Keys : Expire(k) /\ NoRequest
    \/ DeleteExpired /\ NoRequest

Next == (\E p \in Procs : Find(p) \/ Write(p)) \/ Clock

Spec == Init /\ [][Next]_vars

\* A request that has begun goes on to its end, time passes and the janitor runs;
\* nobody has to make a request.
Fairness ==
    /\ \A p \in Procs : WF_vars(Read(p) \/ ReadFails(p) \/ Store(p) \/ Return(p))
    /\ \A p \in Procs : WF_vars(ClearSubjects(p) \/ Clear(p))
    /\ \A k \in Keys : WF_vars(Expire(k) /\ NoRequest)
    /\ WF_vars(DeleteExpired /\ NoRequest)

FairSpec == Spec /\ Fairness
-----------------------------------------------------------------------------
(* Properties.                                                             *)

RowState == [ver : 0..MaxCommits, live : BOOLEAN]
Ids == {Id[r] : r \in Rows} \cup {"", "0", "none"}
RowsRead == [Rows -> RowState \cup {Unread}]

\* Types of all variables of the repository and its cache.
TypeOK ==
    /\ cache \in [Keys -> [val : [rows : RowsRead, overlapped : BOOLEAN], expired : BOOLEAN]
                          \cup {NoEntry}]
    /\ db \in [Rows -> RowState]
    /\ commits \in 0..MaxCommits
    /\ phase \in [Procs -> {"idle", "read", "store", "answered", "clearSubjects", "clear"}]
    /\ call \in [Procs -> Keys \cup {NoCall}]
    /\ todo \in [Procs -> SUBSET Rows]
    /\ snap \in [Procs -> RowsRead]
    /\ writer \in [Procs -> [rows : SUBSET Rows, id : Ids, testType : Ids]]
    /\ silent \subseteq Rows
    /\ overlapped \in [Procs -> BOOLEAN]
    /\ written \in [Procs -> SUBSET Rows]

\* SetCache's check and its insertion are one critical section: however many
\* requests store at once, the cache never grows beyond maxCacheSize.
SizeBounded == ItemCount <= MaxCacheSize

\* Why the database may be ahead of a copy of row r: its last writer does not
\* clear the cache at all, or is still between its commit and its clear.
Cause(r) ==
    \/ r \in silent
    \/ \E p \in Procs : phase[p] \in {"clearSubjects", "clear"} /\ r \in writer[p].rows

\* FindAll's cached list differs from the database only in rows whose write never
\* clears or has not cleared yet, unless a clear ran while the list was being
\* read: the commit-then-clear order of every writer, and nothing else, keeps
\* "universities:all" from staying stale.
StalenessHasACause ==
    LET e == cache[CacheKeyAllUniversities] IN
    Present(CacheKeyAllUniversities) /\ ~ e.val.overlapped =>
        \A r \in Rows : e.val.rows[r] \in {Unread, db[r]} \/ Cause(r)

\* FindByID answers with what the database holds, but for rows written since it was
\* called, whatever the cache holds: UpdateUniversity and DeleteUniversity take its
\* answer as their existence check.
ByIdIsFresh ==
    \A p \in Procs :
        phase[p] = "answered" /\ call[p] \in ByIdKeys =>
            \A r \in Rows : snap[p][r] \in {Unread, db[r]} \/ r \in written[p]

\* The unexpired entry of k, if there is one, holds what the database holds.
Fresh(k) ==
    Present(k) /\ ~ cache[k].expired =>
        \A r \in Rows : cache[k].val.rows[r] \in {Unread, db[r]}

\* Once the writes stop, the TTL makes every answer of the cache current for good,
\* also for the keys no writer clears and for entries stored by a racing finder.
EventuallyFresh == <>[](\A k \in Keys : Fresh(k))

\* A full cache neither serves nor accepts entries; expiry and the janitor bring it
\* back, as it takes no new entries meanwhile.
FullCacheHeals == IsFull ~> ~ IsFull

\* A writer's clear leaves no entry of the university's departments in the cache.
\* (The comment of ClearAllRelatedCache says it clears every related entry.)
RelatedEntriesCleared ==
    [][\A p \in Procs : phase[p] = "clear" /\ phase'[p] = "idle" =>
          \A d \in Rows : Kind[d] = "department" /\ Id[Parent[d]] = writer[p].id
                            /\ FindDepartment(d).key \in Keys =>
              cache'[FindDepartment(d).key] = NoEntry]_vars
=============================================================================
