----------------------- MODULE MCUniversityRepository -----------------------
(* Small instances of the university repository for TLC.                   *)
EXTENDS UniversityRepository, TLC

CONSTANTS p1, p2, u1, d1, m1, s1, i1, t1, x1

\* One row of each table, from a university down to a subject.
TreeRows == {u1, d1, m1, s1, i1, t1, x1}
TreeKind ==
    u1 :> "university" @@ d1 :> "department" @@ m1 :> "major" @@ s1 :> "schedule"
    @@ i1 :> "info" @@ t1 :> "testType" @@ x1 :> "subject"
TreeParent ==
    u1 :> NoRow @@ d1 :> u1 @@ m1 :> d1 @@ s1 :> m1 @@ i1 :> s1 @@ t1 :> s1 @@ x1 :> t1
TreeId == [r \in TreeRows |-> "1"]

\* The upper part of the tree, small enough for several commits.
TopRows == {u1, d1}
TopKind == [r \in TopRows |-> TreeKind[r]]
TopParent == [r \in TopRows |-> TreeParent[r]]
TopId == [r \in TopRows |-> "1"]

ListKeys == {FindAll.key, FindByID(u1).key, FindDepartment(d1).key}
RowKeys == {FindAll.key}
SearchKeys == {FindAll.key, Search("q").key}
DepartmentKeys == {FindAll.key, FindDepartment(d1).key}

MCProcs == {p1, p2}
Symmetry == Permutations(MCProcs)

\* What the configurations give to the constants.  (TLC evaluates the body of such a
\* definition at every use, and a set named in it only once.)
MCTreeRows == TreeRows
MCTreeKind == TreeKind
MCTreeParent == TreeParent
MCTreeId == TreeId
MCTopRows == TopRows
MCTopKind == TopKind
MCTopParent == TopParent
MCTopId == TopId
MCListKeys == ListKeys
MCRowKeys == RowKeys
MCSearchKeys == SearchKeys
MCDepartmentKeys == DepartmentKeys
=============================================================================
