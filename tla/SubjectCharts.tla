---------------------------- MODULE SubjectCharts ----------------------------
(***************************************************************************)
(* What the page of an admission schedule computes from the points of its  *)
(* subjects: the two rings of each of its charts and the rows of its table.*)
(*                                                                         *)
(* A list of slices is the set of them, each with its place in the list:   *)
(* places tell slices apart and put them in order.                         *)
(***************************************************************************)
EXTENDS Integers, SequencesExt

\* SUBJECTS in the order of the constant, and the category each belongs to.
Subjects == <<"EnglishR", "EnglishL", "Math", "Japanese", "Science", "Social">>
SubjectNames == Range(Subjects)
SubjectCategories == <<"English", "Math", "Japanese", "Science", "Social">>

getCategoryFromSubject(name) == IF name \in {"EnglishR", "EnglishL"} THEN "English" ELSE name

Common == "common"
Second == "second"
ExamTypes == {Common, Second}

\* The names that have a pattern to be filled with.
SubjectPatterns == Range(SubjectCategories)
TestTypePatterns == ExamTypes
PatternRenderer == SubjectPatterns \cup TestTypePatterns

\* The subjects of a name in the tests of one type, as places: a test that is not the common
\* one is a second one.  Subjects of other names are passed over.
updateSubjectScores(testTypes, name, type) ==
    {p \in UNION {{<<j, k>> : k \in DOMAIN testTypes[j].subjects} : j \in DOMAIN testTypes} :
        /\ (testTypes[p[1]].name = Common) <=> (type = Common)
        /\ testTypes[p[1]].subjects[p[2]].name = name}

calculateSubjectScores(testTypes) ==
    LET points(name, type) ==
            SumFunction([p \in updateSubjectScores(testTypes, name, type) |->
                            testTypes[p[1]].subjects[p[2]].score])
    IN  [name \in SubjectNames |-> [commonTest |-> points(name, Common),
                                    secondTest |-> points(name, Second)]]

\* The points of a subject in the tests of one type.
Points(score, type) == IF type = Common THEN score.commonTest ELSE score.secondTest

\* All the points of some subjects.
AllPoints(scores, names) ==
    SumFunction([name \in names |-> scores[name].commonTest + scores[name].secondTest])

calculateTotalScores(scores) ==
    LET common == SumFunction([name \in SubjectNames |-> scores[name].commonTest])
        second == SumFunction([name \in SubjectNames |-> scores[name].secondTest])
    IN  [commonTest |-> common, secondTest |-> second, total |-> common + second]

calculateTotalScore(scores) == AllPoints(scores, SubjectNames)

calculateCategoryTotal(scores, category) ==
    AllPoints(scores, {name \in SubjectNames : getCategoryFromSubject(name) = category})

\* Hundredths of a percent, rounded.
calculatePercentage(value, total) ==
    IF total = 0 THEN 0 ELSE (20000 * value + total) \div (2 * total)

\* The values of the slices of a list, and their sum.
Values(slices) == [slice \in slices |-> slice.value]
calculateChartTotalScore(slices) == SumFunction(Values(slices))

\* A subject without points in a test has no slice for it.
extractScores(scores, subject) == {type \in ExamTypes : Points(scores[subject], type) > 0}

\* The share of a slice, none where it cannot be computed or is beyond the whole.
PieShare(value, totalScore) ==
    LET percentage == calculatePercentage(value, totalScore)
    IN  IF value < 0 \/ totalScore <= 0 \/ percentage \notin 0..10000 THEN 0 ELSE percentage

transformToPieData(place, name, type, category, value, totalScore) ==
    [place |-> place, name |-> name, type |-> type, category |-> category, value |-> value,
     percentage |-> PieShare(value, totalScore)]

\* A slice stands for the points of the subject at k in one test: its name tells both.
createDetailedPieData(scores, k, type, totalScore) ==
    transformToPieData(2 * k + (IF type = Common THEN 0 ELSE 1), Subjects[k], type,
                       getCategoryFromSubject(Subjects[k]), Points(scores[Subjects[k]], type),
                       totalScore)

useDetailedData(scores, totalScore) ==
    UNION {{createDetailedPieData(scores, k, type, totalScore) :
               type \in extractScores(scores, Subjects[k])} : k \in DOMAIN Subjects}

createOuterPieData(k, category, total, totalScore) ==
    transformToPieData(k, category, "none", category, total, totalScore)

\* Any category beyond the whole turns the ring into an error, which shows nothing.
useCategoryData(scores, totalScore) ==
    LET total(k) == calculateCategoryTotal(scores, SubjectCategories[k])
    IN  IF \E k \in DOMAIN SubjectCategories : total(k) < 0 \/ total(k) > totalScore THEN {}
        ELSE {createOuterPieData(k, SubjectCategories[k], total(k), totalScore) :
                 k \in DOMAIN SubjectCategories}

\* What the name of a slice contains: its test.
isCommonSubject(slice) == slice.type = Common
isSecondarySubject(slice) == slice.type = Second

getCategoryType(slice) ==
    CASE isCommonSubject(slice) -> Common
      [] isSecondarySubject(slice) -> Second
      [] OTHER -> getCategoryFromSubject(slice.name)

\* A stable sort of a list of less than a hundred places.
sortSubjectScores(slices, rank) == {[slice EXCEPT !.place = 100 * rank[slice] + @] : slice \in slices}

\* In the left chart the slices of English come first, those of the common test before
\* those of the second; the others keep their places.
getSubjectChartOrder(slice) ==
    CASE isCommonSubject(slice) /\ slice.name = "EnglishL" -> 0
      [] isCommonSubject(slice) /\ slice.name = "EnglishR" -> 1
      [] isSecondarySubject(slice) /\ slice.name = "EnglishL" -> 2
      [] isSecondarySubject(slice) /\ slice.name = "EnglishR" -> 3
      [] OTHER -> 999

sortSubjectDetailedData(slices) ==
    sortSubjectScores(slices, [slice \in slices |-> getSubjectChartOrder(slice)])

\* In the right chart the common test comes first, and in each test the categories in order.
compareSubjectOrder(slice) ==
    CHOOSE k \in DOMAIN SubjectCategories :
        SubjectCategories[k] = getCategoryFromSubject(slice.name)

\* Faulty variant of sortByCommonSubject: the slices are sorted by category alone.
SortByCategory(slices) ==
    sortSubjectScores(slices, [slice \in slices |-> compareSubjectOrder(slice)])

sortByCommonSubject(slices) ==
    sortSubjectScores(slices, [slice \in slices |->
        (IF isCommonSubject(slice) THEN 0 ELSE 10) + compareSubjectOrder(slice)])

\* The outer ring of the right chart has a slice for each test that has any points.
createExamChartCategory(slices) ==
    LET total == calculateChartTotalScore(slices)
        value(type) == calculateChartTotalScore({slice \in slices : getCategoryType(slice) = type})
    IN  {[place |-> IF type = Common THEN 0 ELSE 1, name |-> type, type |-> type,
          category |-> type, value |-> value(type),
          percentage |-> calculatePercentage(value(type), total)] :
            type \in {getCategoryType(slice) : slice \in slices}}

\* Its inner ring has the slices of the left one, each under its test.
createExamChartDetail(slices) ==
    sortByCommonSubject({[slice EXCEPT !.category = getCategoryType(slice)] : slice \in slices})

useChartData(scores) ==
    LET totalScore == calculateTotalScore(scores)
    IN  [detailedData |-> useDetailedData(scores, totalScore),
         outerData |-> useCategoryData(scores, totalScore)]

useSubjectChart(scores) ==
    LET chart == useChartData(scores)
    IN  [subjectChart |-> [inner |-> sortSubjectDetailedData(chart.detailedData),
                           outer |-> chart.outerData],
         examChart |-> [inner |-> createExamChartDetail(chart.detailedData),
                        outer |-> createExamChartCategory(chart.detailedData)]]

\* The first of the categories that the name contains.
getSubjectBaseCategory(name) == getCategoryFromSubject(name)

\* The pattern that fills a slice: the right chart's go by test, the left one's by subject.
getChartFillColor(entry, isRightChart) ==
    IF isRightChart THEN entry.category ELSE getSubjectBaseCategory(entry.name)

\* The rings as drawn: their slices, and the pattern of each.
DonutChart(chart, isRightChart) ==
    [inner |-> chart.inner, outer |-> chart.outer,
     fill |-> [entry \in chart.inner \cup chart.outer |-> getChartFillColor(entry, isRightChart)]]

\* The two charts of the page.
SubjectExamComparisonChart(scores) ==
    LET charts == useSubjectChart(scores)
    IN  {DonutChart(charts.subjectChart, FALSE), DonutChart(charts.examChart, TRUE)}

\* A row of the table: points and the share of all points, for each subject and in all.
TableRow(scores, points, total) ==
    LET totals == calculateTotalScores(scores)
        cell(v) == [value |-> v, percentage |-> calculatePercentage(v, totals.total)]
    IN  [subjects |-> [name \in SubjectNames |-> cell(points[name])], sum |-> cell(total)]

SubjectScoreTable(scores) ==
    LET totals == calculateTotalScores(scores)
        common == [name \in SubjectNames |-> scores[name].commonTest]
        second == [name \in SubjectNames |-> scores[name].secondTest]
        both == [name \in SubjectNames |-> common[name] + second[name]]
    IN  [commonTest |-> TableRow(scores, common, totals.commonTest),
         secondTest |-> TableRow(scores, second, totals.secondTest),
         total |-> TableRow(scores, both, totals.total)]
=============================================================================
