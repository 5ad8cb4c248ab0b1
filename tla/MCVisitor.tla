------------------------------ MODULE MCVisitor ------------------------------
(* The home page for TLC: the search form and the table with its pages.  They *)
(* share no state, so each is explored with the other at rest; letting both   *)
(* move would only multiply the states.                                       *)
EXTENDS SearchForm, VisitorPages

CONSTANTS a, b, c

\* Three options, two of them in a category.
MCItems == {a, b, c}
MCCategories == {{a, b}, {c}}

Subject(name, score) == [name |-> name, score |-> score]
Tests(common, second) ==
    <<[name |-> Common, subjects |-> common], [name |-> Second, subjects |-> second]>>
Leaf(path, years, tests) == [path |-> path, years |-> years, testTypes |-> tests]

\* One schedule with points in both tests, some of them zero.
Varied ==
    {<<Leaf(<<1, 1, 1, 1>>, <<2024>>,
            Tests(<<Subject("EnglishL", l), Subject("EnglishR", 2), Subject("Math", m)>>,
                  <<Subject("Social", 1), Subject("EnglishR", r), Subject("EnglishL", l)>>))>> :
        l \in {0, 1}, m \in {0, 3}, r \in {0, 2}}

\* Schedules that share some of their ids, lack a part, have several years, a subject the pages
\* do not know, or an empty test type before or after one with subjects.
Special ==
    {<<Leaf(<<1, 1, 1, 1>>, <<2025>>,
            Tests(<<>>, <<Subject("Informatics", 4), Subject("Japanese", 1)>>)),
       Leaf(<<1, 1, 2, 2>>, <<2024, 2025>>, Tests(<<Subject("Science", 1)>>, <<>>))>>,
     <<Leaf(<<1, 1, 1, 2>>, <<2024>>,
            Tests(<<Subject("Science", 1)>>, <<Subject("Math", 2)>>)),
       Leaf(<<1, 1, 1, 1>>, <<2025, 2024>>,
            Tests(<<Subject("Math", 2)>>, <<Subject("Social", 3)>>))>>,
     <<Leaf(<<1, 1, 1, 1>>, <<>>, Tests(<<Subject("Math", 2)>>, <<>>)),
       Leaf(<<2, 2, 3, 3>>, <<2024>>, Tests(<<>>, <<>>))>>}

MCDocuments == Varied \cup Special
MCWindows == {"w1", "w2"}

VARIABLES
    part,     \* which of the two moves
    searched  \* history: whether a search was dispatched since the form was mounted

visitorVars == <<part, searched, formVars, vars>>

MCInit ==
    /\ FormInit /\ Init /\ part \in {"form", "table"} /\ searched = FALSE
    /\ part = "form" => server = CHOOSE doc \in Special : TRUE

MCNext ==
    /\ UNCHANGED part
    /\ \/ /\ part = "form" /\ FormNext /\ UNCHANGED vars
          /\ searched' = IF LeaveAndReturn THEN FALSE ELSE searched \/ pending' > pending
       \/ part = "table" /\ Next /\ UNCHANGED <<searched, formVars>>

MCSpec == MCInit /\ [][MCNext]_visitorVars /\ FormFairness /\ PagesFairness

\* A visitor who stays and stops submitting gets the answer of the last search he sent,
\* whatever he opens, ticks, types or has refused meanwhile.  (One who does not stop gets
\* none: React shows an answer only when no later search is queued.)
SearchesAreAnswered ==
    <>[][~SubmitBlank /\ ~LeaveAndReturn]_formVars =>
        <>[](searched => pending = 0 /\ answer # NoAnswer /\ (message = answer \/ answer = Invalid))
=============================================================================
