# TLA+ models of University Entrance Exam Subject Navi

The repository is a web application in two parts: a Go service (`back/`) that keeps
universities, their departments, majors, admission schedules, test types and subjects in
PostgreSQL and answers from a cache, and a Next.js front end (`front/`) that searches,
draws the share each subject has of the points, and lets an administrator edit the data.
The modules here model the parts in which requests, transactions, caches, renders and
answers meet.

All source paths below are relative to the repository's root.

## Inventory

| Component | State | Operations | Correct when |
|---|---|---|---|
| `cache.Manager`, `back/internal/infrastructure/cache/cache.go` 434-541 | a go-cache map with TTLs, a mutex, counters | `GetFromCache`, `SetCache`, `ClearAllRelatedCache`, `ClearSubjectsCache`, expiry, janitor | never larger than its limit; a full cache recovers; clears remove what they are meant to |
| university repository, `back/internal/repositories/repository.go` | the database and the shared `Manager` | seven finders, seventeen writers | cached answers follow the database; existence checks are not stale |
| subject writers, same file 618-961 | rows of `subjects`, row locks | `UpdateSubject`, `UpdateSubjectsBatch`, `CreateSubject`, `DeleteSubject` | percentages match the scores; no score is lost; no deadlock |
| `cache.Cache`, `cache.go` 1-431, 543-684 | items, size, counters, one transaction, two locks | `Set`, `Get`, `Delete`, `ClearAll`, transactions, cleanup | size equals what is stored; no deadlock; a commit is all or nothing |
| transactions, `back/internal/repositories/transaction.go` | attempt counter, back-off, savepoints | `TransactionWithOption`, `Savepoint`, `RollbackTo`, `WithTx` | a retried function takes effect once; the cache never shows uncommitted rows |
| domain repository, `back/internal/domain/repository/university_repository.go` | the database | the same operations, uncached | not used by the routes |
| validation, `back/internal/repositories/validation.go` | a lazily built table of rules | `validateUniversity` | rules are built once |
| handlers, `back/internal/handlers/*` | none of their own | bind, check existence, call the repository | check and write agree |
| middleware, `back/internal/middleware/*` | token store, body buffers, limits | per request filters | a body belongs to its request |
| server, `back/internal/server`, `back/cmd/api/main.go` | listener, goroutines, signals | `Start`, `Shutdown`, `runServer`, health check | a signal always ends the process; nothing is served after it |
| database, `back/internal/infrastructure/database/*` | pool, migration progress, savepoints | connect and migrate with retries | progress and metrics match what was committed |
| admin editor, `front/src/features/admin/*` | list, edit mode, backup, error and success messages; the scores typed into cards | edit, change, cancel, insert, save | after a save or a cancel the page shows what the server has; what is shown is what is sent |
| search form, `front/src/features/search/components/{form,filters,checkbox}` | keyword, sort order, selections (in the form and in each group), action state, message | click, type, open details, submit, answer, reset | a box means what it shows; every search ends in a message |
| result table and schedule pages, `front/src/features/{search,universities}` | list, loading, error; the schedule shown | load, open a row, load the page | one row per schedule; the page of a row shows that row |
| charts and score table, `front/src/features/charts`, `front/src/utils` | none | rings, slices, shares, rows from points | both rings and the table agree |
| API client, `front/src/features/universities/utils/api-client.ts` | timers, interceptors | requests with a timeout | no request waits for headers for ever |
| UI primitives, pages, types, constants, seeds, configuration, logging | none shared | presentation, declarations, one run at a time | not modelled |

How they interact: a handler calls the repository; a finder looks in the `Manager`, reads
the database in several statements and stores the answer; a writer commits a transaction
and then deletes keys of the `Manager`. Cache and database are never changed together.
The editor sends up to six PUT requests at once and then reloads the whole list, which the
cache may answer. The home page has the search form, whose submissions are queued by
React's `useActionState` and go to the server by way of a server action, and the table,
which loads the list by itself; a row opens a window of its own, whose page asks for the
university again through `ApiClient` and computes its charts and table from the answer.

What is hard here: a fill of the cache that races a write; writers that clear other keys
than those that hold their rows, or none; a cache that stops serving when it is full;
transactions at READ COMMITTED that read, compute in memory and write back; the order in
which rows are locked; upserts that bring deleted rows back; retries of work with side
effects; partial failure of concurrent requests; locks that are given up and taken again;
copies of one state in two components of which one is a render behind; a state object that
is assigned to instead of set; several readers of one request body; lookups repeated on
newer data. `PROJECT.json` lists these hazards at
their lines.

## Modules

**`CacheManager`** is `cache.Manager`. Its methods hold one mutex from start to end, so
each is an operator on `cache` that a caller's action uses as its step. A key is the tuple
of its fields. An entry is a value and whether its TTL has run out; `Expire` and
`DeleteExpired` are the passage of time and the janitor of the library (go-cache, modelled
from how it is used). The wildcard key of `ClearAllRelatedCache` is a key like any other.

**`UniversityRepository`** extends it with the database and the requests. A row is a
version and whether it exists. Each finder is described by its key, the rows that must
exist and the rows it loads; a call is `Hit`, or `Miss`, one `Read` per SQL statement (the
preloads go down table by table, each asking for the children of the rows found so far),
`Store` and `Return`, with `ReadFails` for every error return. Each writer is one action
for its committed transaction, with its guard (existence, foreign keys, cascade) and with
what gorm's `Create` or `Save` does to nested rows, followed by the steps `ClearSubjects`
and `Clear` if the function clears. `silent`, `overlapped` and `written` are history
variables for the properties; no guard reads them.

**`SubjectScores`** opens the transactions of the writers of subjects. `row` is the
committed table, `draft[p]` what transaction `p` has written; a statement sees both
(`View`), and a written row is locked until the end. `UpdateSubject` reads the subjects of a
test type, replaces the requested one in memory, sums the totals one query at a time
(`SumTestType`), computes the percentages, and writes every subject, all of its columns as
they are in the list, in the display order it has read (`WriteSubject`).
`UpdateSubjectsBatch` looks up each subject (`CheckSubject`) and saves it with the score and
the display order of the request (`SaveSubject`), so that it may renumber the test type;
then it lists the test type (`ListSubjects`) and goes through the same sums and writes, of
the percentages only. `Rollback` stands for every error return and for the database breaking
a deadlock.

**`UniversityEditor`** is the administrator's page. What one request saves is a field (the
university, or a part of a department) with an abstract content. `page` is the list
(`universities`), `editing` and `backup` are `editMode` and `backupState`, `wait` stands
for `isLoading` and the place where `handleSave` waits, and `fetched` is the server's last
answer, for the properties. Each handler is an action of the user, possible only while the
page is visible: `AdminLayout` shows a spinner or the error message instead of the list.
`HandleSave` sends all requests at once; the external server handles them in any order,
refuses those for what it does not have, and may fail or lose an answer (`Handle`).
`OnSaved` and `OnFailed` are `Promise.all`; `FetchSucceeds` and `FetchFails` end the first
load and the reload after a save. `ReloadPage` forgets the page but not the requests that
are on their way.

**`EditorContents`** is the other side of that page: the contents of one department, which
`UniversityEditor` only tells apart. `shown` is the department in the list, with the ids,
names, scores, percentages and display orders of its subjects; `editValues` is the second
copy of the typed scores that `ExamSection` keeps and its cards prefer. The edits run
through the functions of `features/admin/utils` (`calculateUpdatedSubjects`,
`transformSubjectFromAPI`, the updaters), the cards through `InfoCombiner` and
`sortedSubjects`. A save sends one request per kind; `Answer` is the server and
`Promise.all` in one, and of each request it itself or only its answer may be lost:
`RouteParams` and `HandlerParams` are what the routes and the handlers call the ids,
`ReadersOfBody` who binds the body, `Decodes` whether the handler's type takes what the page
made of times and lists. What the page calls `CardsVisible` is `AdminLayout`'s choice
between spinner, message and cards: the cards, and with them `editValues`, are unmounted
with every load.

**`Selection`** is the abstract specification of a group of checkboxes: a click puts all
the items of a box into the selection or takes them all out, decided by what the selection
is or was one click ago; nothing but leaving the page changes it otherwise; and what is
displayed catches up. **`CheckboxGroup`** is the code: `useCheckboxGroup` keeps an array of
its own, to which a click appends without looking (`selectedItems` counts the copies), and
an effect hands it to the form, whose array (`initialSelected`) is what the boxes of items
and categories show. Closing the details unmounts the group. `SelectionSpec` is the
refinement: what is chosen is the open group's array or the closed group's form's.

**`SearchForm`** extends it to the whole form: `keyword`, `sortOrder`, the submissions
(`SubmitBlank`, which is dispatched without validation, and `SubmitKeyword`, which is
validated against a schema that requires fields the form does not have), the queue of
`useActionState` (`pending`, `Answer`), the reset React makes after an action, and
`Refuse`, which assigns to the state object. `initialState` is that object in the module,
which outlives the form; `message` is what was rendered last.

**`VisitorPages`** has the table and the windows its rows open. A document of the server is
a sequence of schedules with their path of ids. `transformUniversityData` makes the rows,
`fetchData` and `Selected` repeat the lookup on the page's own answer. The server leaves an
empty list of subjects out, and the page then fails: `Complete` says which schedules have
subjects in each of their test types. `HeadersArrive`, `TimesOut` and `RequestFails` are
`ApiClient.request`. `UniversityPage` is what is rendered. A row is known by its place, the
schedule and the test type it comes from, and of several rows of a key the one of the
earliest place stays. **`SubjectCharts`** has no state: it is what `UniversityLayout`
computes from the points, the two charts with two rings each and the table. A list of slices
is the set of them, each with its place: a stable sort changes the places.

**`MemoryCache`** is `cache.Cache`. `at[p]` is where goroutine `p` is, with its locals. An
operation that waits for a second lock or gives the first up in between is one step for each
section (`Get`, `Upgrade`, `Return`; `SetInTransaction`, `Buffer`). As a commit evicts without
the lock, every use of the size or the map that can overtake it, or be overtaken by it, is a
step of its own: `Set` and `CommitItem` check (`Room`), `Store` puts the item into the map and
reads the size, `Add` writes it. `evictItems` is `EvictItems`, for each key `Meet` and, if the
item is to go, `EvictDelete`, `SizeRead` and `SizeWritten`, until `Evicted`; `Set` goes on with
`CheckAgain` and a commit with `Relock`. `loop[p]` is the iteration: the keys it may yet meet,
the item it has met, and the map it ranges over, which is not the cache's any more after a
`ClearAll`. `leaked` and `raced` are history: sizes that were not given back, and whether two
uses of the size have overwritten each other or an eviction has counted another item than the
one it deleted.

**Composition.** `SearchForm` is built on `CheckboxGroup` (every step of the form is also
one of the group's, or renders it), `VisitorPages` on `SubjectCharts`,
`UniversityRepository` on `CacheManager`. The form and the table on the home page share
nothing, and the two sides of the editor describe one page without sharing a variable;
`MCVisitor` and `MCUniversityEditor` explore each with the other at rest, as a product
would only multiply the states.

The modules named `MC...` give the constants small values; those named `...Proofs` hold
the theorems, those of `CheckboxGroup` being in `SearchFormProofs`. `Sums` has what the
proofs need to know of sums over finite sets.

An operator whose comment begins with "Faulty variant of" is a plausible mistake in the
operator it names; no action uses it. Putting it in that operator's place makes the
property listed with it in `PROJECT.json` fail, which shows that the property depends on
the code.

### Abstractions

- Rows of `UniversityRepository` carry no contents: a property that compares versions
  would see every lost or stale write.
- `FindInBatches` is one read of the list. With more universities than its batch size the
  library refills the same slice; that is a hazard of its own in `PROJECT.json`.
- The seven tables hang in one tree; a subject does not move to another test type in
  `UniversityRepository` (it does in `SubjectScores`). Test types have no operation.
- In `SubjectScores` the percentage a request carries is 0; it is overwritten before the
  commit. Percentages are whole hundredths, rounded half up, as `math.Round` does. Subjects
  of equal display order are written in any order, as the database may list them.
  The subjects of a batch come in any order. An `UpdateSubject` whose
  test type has no subjects writes nothing and is left out.
- In `UniversityEditor` the list has no order, and a change replaces the content of one
  field by any other. A new university has one department (`handleInsert`). The server's
  cache is left out: the reload answers with what the server holds. An edited field that a
  validation refuses is a change that is not made. Its server is more general than this
  repository's: it may store a request. `EditorContents` shows what this one does.
- `EditorContents` has one university with one department and its first major, schedule
  and admission information, the only ones the page shows; majors, schedules and infos
  have no contents (no route takes them). Typed names are kept as typed. The interceptors
  and the CSRF token of the page's client change nothing the server's handlers look at.
- One of the four filters stands for all: they are the same component, each with a
  selection of its own. Of the keyword only whether it is blank matters.
- A search is a server action. React runs queued ones in order, shows the last answer and
  then resets the form; that and the transport are modelled from how the form uses them.
  A change that React would batch with others is rendered by itself.
- `fetchUniversities` of the search sends a GET request with a body, which `fetch` refuses,
  so `Answers` has API errors only; the model keeps the other outcome for other methods.
- A name in the charts is the subject and the test it contains. Percentages are whole
  hundredths where the code keeps fractions. Labels and tooltips are left out.
- In `MemoryCache` a step reads the size once and uses or writes it once; `Store` may
  combine the insertion with the read after it, since only the read can differ. That the
  race may also make the Go runtime stop the program is not modelled: nothing follows.
- A deadlock is possible between a batch and an update, or over equal display orders; the
  model waits and `Rollback` resolves it, as PostgreSQL does.
- `IsDepartment` and `IsDocument` say of the database what its tables enforce: the ids of
  subjects and of schedules are keys, and a score is not negative (`models.go` 578). The
  bounds of percentages and display orders are tags of blank fields (`models.go` 580-583),
  which gorm passes over, so both may be any integer.

## Runs

| Run | Instance | Shows |
|---|---|---|
| `repo_safety` | 2 requests; university and department; keys of `FindAll`, `FindByID`, `FindDepartment`; size 2; 2 commits | `TypeOK`, `SizeBounded`, `StalenessHasACause`, `ByIdIsFresh` |
| `repo_rows` | 2 requests; one row of each of the 7 tables; the list's key; size 1; 1 commit | `StalenessHasACause` for all seventeen writers and every depth of preloads |
| `repo_live` | 2 requests; university and department; keys of `FindAll` and of a search; size 2; 1 commit; fairness | `EventuallyFresh`, `FullCacheHeals` |
| `repo_related` | as `repo_safety`, keys of `FindAll` and `FindDepartment` | `RelatedEntriesCleared` is violated |
| `scores_safety` | 2 requests; 2 subjects; a common and a second test; scores 0 and 1; display orders 0 and 1, equal or not at first; 4 batches, of one subject or both, which set, keep or swap them; 3 requests in all, 2 at a time | `TypeOK`, `UpdatesWaitInOrder`, `BatchIsExact`, `BatchKeepsOthers`, `BatchIsWhole` |
| `scores_stale` | as `scores_safety` | `UpdateIsExact` is violated |
| `scores_lost` | as `scores_safety` | `NoLostUpdate` is violated |
| `editor_safety` | universities: 2 of one department and an inserted one, 1 part besides the university, 2 contents, 2 saves; contents: 3 subjects in 2 test types, scores 0, 1 and one beyond the highest, 1 addition, 1 save of 3 requests, answers may be lost | of `UniversityEditor`: `TypeOK`, `ShownIsFetched`, `NewIsBeingEdited`, `SuccessMeansStored`; of `EditorContents`: `ContentsTypeOK`, `CardsShowWhatIsSent`, `PercentagesAddUp`, `CardsKeepTheirPlace`, `FailedSavesStoreNothing` |
| `editor_cancel` | universities only, both departments in one university | `CancelUndoes` is violated |
| `editor_save` | contents only, 4 requests, a network that does not fail | `SaveSucceeds` is violated |
| `visitor` | form: 3 items in 2 categories, up to 2 copies each, 1 keyword, 1 sort menu, 2 pending searches; table: 11 documents, 2 windows, 1 change of the data; fairness | `FormTypeOK`, `OnlyRefusalsAreUnseen`, `SelectionSpec` (the refinement), `SearchesAreAnswered`; `TypeOK`, `OneRowPerSchedule`, `PageShowsTheRow`, `RowsOpen`, `RingsAgree`, `HeadersOrTimeout` |
| `memory_cache` | 2 goroutines, 2 keys, room for a size of 2, values of size 1 and, under one key, 2; 2 calls of `Set`, the first with a duration that may end, 1 transaction; fairness | `MemoryTypeOK`, `SizeLimited`, `BooksBalance`, `CallsReturn` |

**Bounds.** Two requests are enough for every race the properties speak of: one fills or
computes, the other commits and clears. Two commits let a row be written, cached and
written again; `MaxCommits` bounds the versions. The cache has room for two entries while
three keys compete, so it is full in many states. `repo_rows` trades commits for the full
tree. Two subjects in two test types give totals that differ from either subject's score;
`MaxBegins` bounds the requests, which is why these runs do not check for deadlock: the
system stops when the bound is reached. Requests are symmetric; the run with liveness uses
no symmetry. Two requests of a save are enough for one to be stored and the other refused,
and two saves for a request of the first to arrive during the second; `MaxSaves` bounds
them. In the contents two subjects of one test type can change places and share a total,
one addition meets every order of the edits, and a score beyond 1000 is one the input
refuses. Three items with a category of two give full, partial and empty boxes; two copies
are enough for an item to be removed while a copy is left, were it not for the filter.
Two pending searches make one wait behind another. The documents hold a schedule in every
combination of points that are zero or not, and schedules that share ids, have years in
two orders, lack a test type's subjects or all admission information, or a subject the
pages do not know; one change between the list and the page makes any of them the other.
Two goroutines are enough for every pair of calls to meet. Values of two sizes under one key
let an eviction delete another item than the one it met, and a value as large as the whole
room makes the other store an eviction, in `Set` with the lock and in a commit without it;
`MaxSets` bounds the calls of `Set`, not those of the other operations, and no deadlock is
looked for because `CallsReturn` says what one would be, and excepts the one there is. In
`scores_safety` a batch of both subjects gives equal orders or swaps them while an update
holds what it read; a batch of one makes two orders equal.

**Fairness** (`FairSpec`). A request that has begun goes on: handlers run to their end and
every statement answers or fails. Time passes and the janitor runs. Nothing makes a
request start, and no choice between success and failure of a statement is fair. In
`FormFairness` React renders what is queued, runs the effect that hands a selection over
and resets the form, and a search ends; the visitor has to do nothing. `PagesFairness` is
the browser's timer alone: neither server nor network owes an answer. In `MemorySpec` a
goroutine that waits for a lock gets it in the end, however often others take it between,
as Go's mutexes see to (strong fairness of each goroutine's steps); none has to call.

**What the violated properties say.** After `UpdateDepartment` has cleared, the
department's own entry is still there, because the deleted key contains a literal `*`.
`FindByID` stores a pointer and asserts a struct, so its entries only take up room; that
is why `ByIdIsFresh` holds whatever is cached.
`UpdateSubject` divides by totals that contain the old score. It also writes back every
subject it read, so a score committed in between is lost, although rows have a version
for optimistic locking. The editor hides the edit buttons of the other universities but not
those of the other departments of the one being edited; opening one of these takes the
backup anew, changes included, and a cancel then leaves them in the list. No save of the
page succeeds: the body validation in front of the routes reads the request's body, so that
the handler finds none; the routes' parameters are not called what the department and
subject handlers look up; there are no routes for majors, schedules and infos; and the page
sends times as the browser prints them, and a batch of subjects as an object where a list
is decoded. Each alone would be enough. The same makes `FailedSavesStoreNothing` true:
what the page reports as failed has indeed changed nothing.

**What holds and is narrower than it looks.** `CardsShowWhatIsSent` excludes the time
between a cancel and the next load: the cards keep what was typed, and show it again in the
next edit although the list has the old scores. `OnlyRefusalsAreUnseen` and
`SearchesAreAnswered` leave out the refusal of a submission with a keyword, which assigns to
the state object and renders nothing, and a visitor who never stops submitting sees no
answer. `PercentagesAddUp` speaks of test types in which a score was changed: there every
percentage is between zero and a hundred and they add up to a hundred but for rounding; the
server counts percentages over both tests, the page over one. `CardsKeepTheirPlace` speaks
of a department whose display orders count its subjects, as the seeds make them: where
orders have gaps, a new subject gets an order in the middle, and its card comes there.
`UpdatesWaitInOrder` lets two updates wait for each other where a batch has renumbered the
two subjects between their reads, and where their orders are equal. `RowsOpen` says which
rows open: a schedule with one empty test type has a row, but its page is always an error.
`SizeLimited` and `BooksBalance` hold only until an eviction without the lock has raced
another use of the size (`raced`); after that the size may be anything, beyond its limit
too. `BooksBalance` does not say that the size is right but by how much it is wrong
(`Delete`, `ClearAll`, the cleanup and a replacement give nothing back), and `CallsReturn`
excepts the one deadlock the cache has, between a `Get` in its lock upgrade and a `Set` in a
transaction.

## Proofs

`UniversityRepositoryProofs` proves, for any requests, rows, keys and limits that satisfy
`CacheAssumption` and `RepositoryAssumption`:

- `TypeCorrect`: `Spec => []TypeOK`, by induction, one lemma for the writers' common shape.
- `SizeCorrect`: `Spec => []SizeBounded`. The only step that adds an entry is `Store`, and
  its check and insertion are one step.
- `StalenessCorrect`: `Spec => []StalenessHasACause`. The cached list alone is not enough
  for an induction: the list may be stored by a finder that has read half of it.
  `StaleInv` adds that a finder that has not begun to read has read nothing
  (`NothingRead`), and that what a finder of the list holds differs from the database
  only for a cause, unless a clear has overlapped its fill (`FillHasACause`). A commit
  creates a cause for what it writes; the clear that removes the cause also removes the
  entry and marks every fill that is under way.
- `ByIdCorrect`: `Spec => []ByIdIsFresh`, from the fact that no such call is ever a hit
  and that `written` collects every row written since the call.

`SubjectScoresProofs` proves, for any transactions, subjects and test types that satisfy
`ScoresAssumption`:

- `UpdatesCorrect`: `Spec => []UpdatesWaitInOrder`. An update has locked only subjects
  that come, by the orders it has read, before all those it still has to write (`LockOrder`),
  so two updates cannot each need what the other holds unless they have read equal display
  orders of the two subjects, or different ones of one of them.
- `BatchCorrect`: `Spec => BatchKeepsOthers`, an action property. A row is locked by one
  transaction (`OneWriter`), hence what a batch has written of a subject it does not name
  still agrees with the committed row but for the percentage when it commits (`Kept`).
- `BatchWhole`: `Spec => BatchIsWhole`, an action property. A batch has written every subject
  it no longer has to look up, as requested (`Whole`), and the recomputation that follows
  changes percentages of its own rows only.

`UniversityEditorProofs` proves, for any departments, parts, contents and number of saves
that satisfy `EditorAssumption`:

- `TypeCorrect`: `Spec => []TypeOK`, strengthened by the type of the backup (`Shape`),
  which a cancel copies into the list.
- `NewCorrect`: `Spec => []NewIsBeingEdited`. The reload of a failed fetch ends edit mode
  without changing the list, so it must be excluded that a save of an inserted university
  gets there: the server refuses its requests, and no positive answer for its fields
  exists (`NeverStored`).
- `ShownCorrect`: `[]ShownIsFetched` where every university has one department. `CancelInv`
  says that the list differs from the server's
  last answer only in the university being edited, and that the backup holds that
  answer's copy of it. Opening a second department breaks it, as `editor_cancel` shows.
- `SaveCorrect`: `Spec => SuccessMeansStored`. What a save no longer awaits is stored, and
  requests of earlier saves carry smaller numbers (`SaveInv`).

`SearchFormProofs` proves of a group, for any items, categories and number of copies that
satisfy `GroupAssumption`:

- `GroupTypeCorrect`: `GroupSpec => []GroupTypeOK`.
- `GroupKeepsThePromise`: initial states of the group are initial states of `Selection`,
  and every step is one of its steps or changes nothing it has. The argument is about the
  set of items in an array: a click adds all of a box's items or removes all their copies
  (`ElementsAfterItemChange`), decided by an array that is the selection or the one of a
  click before.

It carries both over to the form (`FormTypeCorrect`, `FormKeepsThePromise`): each of the
form's steps is a step of the group, or a render that only lets what is displayed catch up.
`UnseenIsARefusal` is `FormSpec => []OnlyRefusalsAreUnseen`, by an invariant that adds to the
property that the module's object holds nothing but a refusal.

`EditorContentsProofs` proves, for any departments, contents, kinds of requests and losses
that satisfy `ContentsAssumption`:

- `SavesStoreNothing`: `ContentsSpec => [][stored' = stored]_contents`, as no request gets
  past the second reader of its body.
- `FailureIsWhole`: `ContentsSpec => []FailedSavesStoreNothing`. A failed page is only
  known to have loaded what is stored while it is in edit mode, for a page opened anew
  forgets its load; `LoadedIsStored` says so, and that an idle page without an error has it.
- `ContentsTypeOKHolds`: `ContentsSpec => []ContentsTypeOK`. Ids stay apart because list and
  backup hold only ids from before the next new one (`Lists`); a cancel may bring either back.
- `CardsShowWhatIsSentHolds`: `ContentsSpec => []CardsShowWhatIsSent`. It is inductive with
  `Lists`: a score is typed into the section's copy and into every subject of that id, and a
  new subject has an id nothing was typed for.
- `PercentagesAddUpHolds`: `ContentsSpec => []PercentagesAddUp`. Each subject of a rescored
  test type has its share of the total (`SharesKept`; one that is added has no points, so the
  total stays and so do the shares). A share is off by half a hundredth at most, and so a
  sum of them by half a hundredth for each (`SumTimes`, `SumMonotone`).
- `CardsStay`: `ContentsSpec => CardsKeepTheirPlace`. What is sorted, with no order beyond its
  place, is shown as it is (`CardsInPlace`), and every change keeps it so, zeroed orders and
  additions at the end included (`Grown`).

`SubjectScoresProofs` further has `TypeCorrect`, `Spec => []TypeOK`, and `BatchExact`, `Spec =>
BatchIsExact`. `Fresh` follows a batch that nobody disturbs: the totals it has summed up are
those of its own view, its list has the percentages that go with them, and every row it has
written has the percentage of the list. Its own updates change no score, those of others are
not in its view, and what is committed meanwhile ends the promise (`alone`).

`MemoryCacheProofs` proves, for any goroutines, keys, sizes and transactions that satisfy
`MemoryAssumption`, from one invariant, `MemoryInv`:

- `MemoryTypeOKHolds`: `MemorySpec => []MemoryTypeOK`. The lock is held by exactly the one who
  is in its sections (`Locked`), which is where its program counter says (`Typed`).
- `SizeLimitedHolds`: `MemorySpec => []SizeLimited`. Until something has raced, there is room
  for the item of whoever has checked and not yet added (`HasRoom`): only one has, for it
  holds the lock, and an eviction meanwhile writes nothing but smaller sizes.
- `BooksBalanceHolds`: `MemorySpec => []BooksBalance`, with the sums over items and over
  goroutines changed one summand at a time (`SumUpdate`), or by those a removal takes.

`VisitorPagesProofs` proves, for any documents that satisfy `PagesAssumption`, windows and
number of changes:

- `PagesTypeCorrect`: `Spec => []TypeOK`.
- `RowsHaveKeys`: `Spec => []OneRowPerSchedule`. Of two rows of one path one is earlier.
- `CompleteRowsOpen`: `Spec => []RowsOpen`. The schedule a row was made of is one that the
  lookup finds, and the only one, for the last id of a path is a key; it has an admission
  information of the row's year. So the page is shown exactly if the schedule is complete.
- `PagesShowTheirRow`: `Spec => []PageShowsTheRow`, from an invariant of each window
  (`IsWindow`): the lookup follows the ids of the address one by one, so what it finds has the
  address's whole path, in whatever answer.
- `RingsFit`: `Spec => []RingsAgree`. Every inner ring divides the outer one (`Divides`): each
  inner slice belongs to an outer one, which is as long as its inner slices together, and the
  inner slices lie in the order of the outer ones they belong to. Then any outer slices cover
  as much as their inner ones (`CoversTheSame`), so slices that meet belong together
  (`RingsMatch`) and have one pattern. The rings are shown to be so for subject and category in
  one chart and for subject and test in the other; sorting keeps the sums.

`Sums` proves that the library's sum over a set, a fold in the order of a `CHOOSE`, obeys the
laws of sums: no order matters, a summand changes the sum by as much as it changes, groups
add up to the whole, a bound of every summand bounds the sum. The library's induction
theorems take an operator as a parameter, which the provers cannot instantiate; the inductions
here are by a minimal counterexample, a subset of a given finite set, in the well-founded
order of its subsets (`MinimalSubset`), or the least number of a set (`LeastNumber`).

What the proofs assume of the constants is in the modules' `ASSUME`s: sets of rows, keys,
goroutines and subjects are finite, markers such as `None` are no values, and the database
keeps its keys apart and its scores from being negative.

Model-checked only: liveness (`EventuallyFresh`, `FullCacheHeals`, `SearchesAreAnswered`,
`HeadersOrTimeout`, `CallsReturn` and the fairness of `SelectionSpec`), which the prover
does not do. Every invariant and action property of the passing runs is proved;
`ShownIsFetched` under the condition that every university has one department, which the run
`editor_cancel`, of two, shows to be needed.

## Plan

Modelled first is what every request goes through: repository, cache, percentages, and the
pages that call them. What is left, in this order:

1. `BatchedFind`: the loop of `FindInBatches` as `FindAll` uses it. The library refills one
   slice batch after batch, so with a hundred universities or more the answer, and what is
   cached, may be the last batch alone.
2. `TransactionRetry` (`transaction.go`): attempts, error classes, timeouts, the cache
   shared with the transaction's repository. Theorem: at most one attempt commits.
3. The handlers on top of `UniversityRepository`: an existence check, then a write that
   upserts. Property: an update never brings a deleted university back.
4. `Migrations` (`migrations.go`): tables, savepoints, retries and progress. Theorem:
   savepoints released are savepoints created.
5. `ServerLifecycle` (`server.go`, `main.go`): `Start`, `Shutdown`, signal and health
   goroutines; liveness of the shutdown.
6. The pooled body buffer of the sanitizer, with `sync.Pool` as an external set of buffers.
7. A theorem about `MemoryCache`: its one deadlock is the only pair of calls that wait for
   each other.
8. An abstract specification of the repository, a map that answers from the past but never
   from before the last clear, which `UniversityRepository` is to implement for the list's
   key.

## Not modelled

- The domain repository, the validation of fields, seeds, configuration, logging and error
  formatting: sequential code without shared state, most of it covered by unit tests.
- Handlers that no route reaches, and the interceptors and write methods of `ApiClient`,
  which no page uses.
- The request middleware (tokens, limits, headers, sanitizing): filters of one request,
  except for the pooled buffers of the plan.
- Presentation: labels, tooltips, colours, layout, keyboard focus, the UI primitives.
- The transport of server actions, React's batching of updates from one event, and what
  PostgreSQL, gorm, go-cache and the browser do inside; they are modelled from how the code
  uses them, and marked external in `PROJECT.json`.
