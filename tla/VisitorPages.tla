----------------------------- MODULE VisitorPages -----------------------------
(* The table of the home page, the pages its rows open, and the requests they *)
(* send: the table with a bare fetch, a page through ApiClient with its timer. *)
EXTENDS SubjectCharts

CONSTANTS
    Documents,  \* what the server may hold: sequences of admission schedules
    Windows,    \* browser windows a row may open
    MaxEdits    \* bound: changes an administrator makes

\* A path is the ids of a university, a department, a major and a schedule; the last are the
\* keys of their table, and its checks keep scores from being negative.
IsDocument(doc) ==
    /\ doc \in Seq(Range(doc))
    /\ \A k \in DOMAIN doc : /\ doc[k].path \in [1..4 -> Nat]
                             /\ doc[k].testTypes \in Seq(Range(doc[k].testTypes))
                             /\ \A test \in Range(doc[k].testTypes) :
                                   /\ test.subjects \in Seq(Range(test.subjects))
                                   /\ \A subject \in Range(test.subjects) : subject.score \in Nat
    /\ \A j, k \in DOMAIN doc : doc[j].path[4] = doc[k].path[4] => j = k

ASSUME PagesAssumption ==
    /\ MaxEdits \in Nat
    /\ \A doc \in Documents : IsDocument(doc)

VARIABLES
    server,   \* the schedules the server holds, each with its path of ids
    past,     \* what it has held: the list may come from its cache
    edits,    \* changes so far
    table,    \* the table: its status, and the document it was made from
    window    \* for each window its status, its address and what it shows

vars == <<server, past, edits, table, window>>

\* Statuses of a request and of what it ends in.
Closed == "closed"
Waiting == "waiting for headers"
Reading == "reading the body"
Shown == "shown"
Failed == "failed"

Nothing == <<>>

\* What is made of a schedule: the first info's year, and the points in the given tests.
transformSubjectData(leaf, tests) ==
    [path |-> leaf.path, year |-> leaf.years[1], subjects |-> calculateSubjectScores(tests)]

\* A test type makes a row, unless it has no subjects or its schedule no admission info.
processTestTypes(leaf, test) == test.subjects # <<>> /\ leaf.years # <<>>

processSchedule(leaf) == {j \in DOMAIN leaf.testTypes : processTestTypes(leaf, leaf.testTypes[j])}

\* Where rows come from: a schedule of the list and one of its test types.
Places(doc) == UNION {{<<k, j>> : j \in processSchedule(doc[k])} : k \in DOMAIN doc}

Earlier(p, q) == p[1] < q[1] \/ (p[1] = q[1] /\ p[2] < q[2])

RowAt(doc, p) == transformSubjectData(doc[p[1]], <<doc[p[1]].testTypes[p[2]]>>)

\* Faulty variant of transformUniversityData: a row for each test type.
TransformsAll(doc) == [p \in Places(doc) |-> RowAt(doc, p)]

\* The first row of each key of university, department, major and schedule.
transformUniversityData(doc) ==
    LET isFirst(p) == \A q \in Places(doc) :
                          doc[q[1]].path = doc[p[1]].path => ~ Earlier(q, p)
    IN  [p \in {q \in Places(doc) : isFirst(q)} |-> RowAt(doc, p)]

\* The schedules of one university, which its own request asks for.
University(doc, id) == {leaf \in Range(doc) : leaf.path[1] = id}

\* Following the ids of the address down to the schedule.
findDepartmentAndMajor(schedules, path) ==
    {leaf \in schedules : SubSeq(leaf.path, 1, 3) = SubSeq(path, 1, 3)}

FindSchedule(schedules, path) ==
    {leaf \in findDepartmentAndMajor(schedules, path) : leaf.path[4] = path[4]}

\* An empty list of subjects is left out of the answer, and one element of those that flatMap
\* joins is undefined: as the first it is no subject, as a later one its test type's id throws.
Complete(leaf) ==
    leaf.testTypes # <<>> /\ \A test \in Range(leaf.testTypes) : test.subjects # <<>>

\* Faulty variant of Selected: any year will do.
SelectedAnyYear(schedules, address) ==
    LET found == FindSchedule(schedules, address.path)
        leaf == CHOOSE schedule \in found : TRUE
    IN  IF found = {} \/ leaf.years = <<>> \/ ~ Complete(leaf) THEN Nothing
        ELSE transformSubjectData(leaf, leaf.testTypes)

\* Faulty variant of Selected: the newest info counts, while the row has the oldest.
SelectedLastYear(schedules, address) ==
    LET found == FindSchedule(schedules, address.path)
        leaf == CHOOSE schedule \in found : TRUE
    IN  IF \/ found = {} \/ leaf.years = <<>> \/ ~ Complete(leaf)
           \/ leaf.years[Len(leaf.years)] # address.year
        THEN Nothing
        ELSE [transformSubjectData(leaf, leaf.testTypes) EXCEPT !.year = address.year]

\* The schedule of an address, or nothing where useUniversityData throws.
Selected(schedules, address) ==
    LET found == FindSchedule(schedules, address.path)
        leaf == CHOOSE schedule \in found : TRUE
    IN  IF \/ found = {} \/ leaf.years = <<>> \/ ~ Complete(leaf)
           \/ leaf.years[1] # address.year
        THEN Nothing
        ELSE transformSubjectData(leaf, leaf.testTypes)

NoWindow == [status |-> Closed, address |-> Nothing, answer |-> {}, subject |-> Nothing]

Init ==
    /\ server \in Documents /\ past = {server} /\ edits = 0
    /\ table = [status |-> Waiting, doc |-> Nothing]
    /\ window = [w \in Windows |-> NoWindow]

\* External: an administrator's save.
Edit ==
    /\ edits < MaxEdits
    /\ edits' = edits + 1
    /\ server' \in Documents \ {server}
    /\ past' = past \cup {server'}
    /\ UNCHANGED <<table, window>>

\* The one fetch of the table.  No timer limits it.
TableAnswered ==
    /\ table.status = Waiting
    /\ \E doc \in past : table' = [status |-> Shown, doc |-> doc]
    /\ UNCHANGED <<server, past, edits, window>>

\* The network fails, or the answer is no list.
TableFails ==
    /\ table.status = Waiting
    /\ table' = [table EXCEPT !.status = Failed]
    /\ UNCHANGED <<server, past, edits, window>>

ReloadHome ==
    /\ table' = [status |-> Waiting, doc |-> Nothing]
    /\ UNCHANGED <<server, past, edits, window>>

Rows == IF table.status = Shown THEN Range(transformUniversityData(table.doc)) ELSE {}

Goes(w, record) ==
    /\ window' = [window EXCEPT ![w] = record]
    /\ UNCHANGED <<server, past, edits, table>>

\* A click or a key opens a window, whose page starts its request and its timer.
handleRowClick(w, row) ==
    /\ window[w].status = Closed
    /\ Goes(w, [NoWindow EXCEPT !.status = Waiting,
                                !.address = [path |-> row.path, year |-> row.year]])

\* The headers of an answer stop the timer; the body follows.
HeadersArrive(w) ==
    /\ window[w].status = Waiting
    /\ Goes(w, [window[w] EXCEPT !.status = Reading,
                                 !.answer = University(server, window[w].address.path[1])])

\* Faulty variant of TimesOut: fetch does not get the controller's signal.
TimesOutUnheard(w) == FALSE

\* AbortController: the timer ends a request that has no headers yet.
TimesOut(w) ==
    /\ window[w].status = Waiting
    /\ Goes(w, [window[w] EXCEPT !.status = Failed])

\* The connection breaks, the status is an error or the body is no JSON.
RequestFails(w) ==
    /\ window[w].status \in {Waiting, Reading}
    /\ Goes(w, [window[w] EXCEPT !.status = Failed, !.answer = {}])

\* Faulty variant of fetchData: what is not found is not noticed.
ShowsWhatever(w) ==
    /\ window[w].status = Reading
    /\ Goes(w, [window[w] EXCEPT !.status = Shown,
                                 !.subject = Selected(window[w].answer, window[w].address)])

\* A university that is gone is answered 404, anything else is looked through.
fetchData(w) ==
    /\ window[w].status = Reading
    /\ LET subject == Selected(window[w].answer, window[w].address)
       IN  Goes(w, [window[w] EXCEPT !.status = IF subject = Nothing THEN Failed ELSE Shown,
                                     !.subject = subject])

\* What a page consists of once it has its schedule, and until then.
UniversityLayout(subject) ==
    [charts |-> SubjectExamComparisonChart(subject.subjects),
     table |-> SubjectScoreTable(subject.subjects)]

UniversityPage(w) ==
    CASE window[w].status \in {Waiting, Reading} -> "spinner"
      [] window[w].status = Failed -> "error message"
      [] window[w].status = Shown -> UniversityLayout(window[w].subject)

CloseWindow(w) == window[w].status # Closed /\ Goes(w, NoWindow)

Next ==
    \/ Edit \/ TableAnswered \/ TableFails \/ ReloadHome
    \/ \E w \in Windows :
          \/ \E row \in Rows : handleRowClick(w, row)
          \/ HeadersArrive(w) \/ TimesOut(w) \/ RequestFails(w) \/ fetchData(w) \/ CloseWindow(w)

\* The browser's timer runs; nothing is known of the server or the network.
PagesFairness == \A w \in Windows : WF_vars(TimesOut(w))

Spec == Init /\ [][Next]_vars /\ PagesFairness

-----------------------------------------------------------------------------
(* Type invariant: what a page shows it has computed from an answer. *)
TypeOK ==
    /\ server \in past /\ past \subseteq Documents /\ edits \in 0..MaxEdits
    /\ table.status \in {Waiting, Shown, Failed}
    /\ table.status = Shown => table.doc \in past
    /\ \A w \in Windows :
          /\ window[w].status \in {Closed, Waiting, Reading, Shown, Failed}
          /\ (window[w].subject # Nothing) <=> (window[w].status = Shown)
          /\ (window[w].address = Nothing) <=> (window[w].status = Closed)

\* Every schedule has at most one row, however many of its test types have subjects: React
\* tells rows apart by that key.
OneRowPerSchedule ==
    table.status = Shown =>
        LET rows == transformUniversityData(table.doc)
        IN  \A j, k \in DOMAIN rows : rows[j].path = rows[k].path => j = k

\* A page shows the schedule and the year of the row that was clicked, or nothing, also
\* when the data changed between the list and the page or the list was a cached one.
PageShowsTheRow ==
    \A w \in Windows : window[w].status = Shown =>
        /\ window[w].subject.path = window[w].address.path
        /\ window[w].subject.year = window[w].address.year

\* A row leads to a page where none of its schedule's test types is empty: where the answer
\* holds what the table was made of, the lookup that the page repeats on it finds the schedule.
\* One test type with subjects makes a row, but one without them makes its page an error.
RowsOpen ==
    table.status = Shown =>
        \A row \in Rows, leaf \in Range(table.doc) :
            leaf.path = row.path =>
                LET address == [path |-> row.path, year |-> row.year]
                IN  Complete(leaf) <=>
                        Selected(University(table.doc, row.path[1]), address) # Nothing

\* A ring is drawn slice by slice, each where those before it end.
From(ring, slice) == calculateChartTotalScore({before \in ring : before.place < slice.place})

\* Some part of the whole shows both an inner and an outer slice.
Meet(chart, inner, outer) ==
    LET starts == {From(chart.inner, inner), From(chart.outer, outer)}
        ends == {From(chart.inner, inner) + inner.value, From(chart.outer, outer) + outer.value}
    IN  \A start \in starts, end \in ends : start < end

\* In both charts of a page both rings go all the way round for the total of the table, inner
\* and outer slices that meet have the same pattern, and every pattern is one of those defined.
RingsAgree ==
    \A w \in Windows : window[w].status = Shown =>
        LET page == UniversityPage(w)
            total == page.table.total.sum.value
        IN  \A chart \in page.charts :
                /\ calculateChartTotalScore(chart.inner) = total
                /\ calculateChartTotalScore(chart.outer) = total
                /\ \A inner \in chart.inner, outer \in chart.outer :
                       Meet(chart, inner, outer) => chart.fill[inner] = chart.fill[outer]
                /\ Range(chart.fill) \subseteq PatternRenderer

\* No page waits for the headers of an answer for ever, whatever the server does.
HeadersOrTimeout == \A w \in Windows : (window[w].status = Waiting) ~> (window[w].status # Waiting)
=============================================================================
