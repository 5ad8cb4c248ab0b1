-------------------------- MODULE MCUniversityEditor --------------------------
(* Small instances of the editor for TLC: its universities and departments, and *)
(* the contents of one department.  The two describe the same page from two     *)
(* sides and share no variable; each is explored with the other at rest.        *)
EXTENDS UniversityEditor, EditorContents

CONSTANTS
    u1, u2, un, d1, d2, dn,
    Sides      \* which of the two a run explores

\* One department per university, and two of the same university.
MCSingle == {d1, d2, dn}
MCSingleOf == d1 :> u1 @@ d2 :> u2 @@ dn :> un
MCDouble == {d1, d2, dn}
MCDoubleOf == d1 :> u1 @@ d2 :> u1 @@ dn :> un

MCSubject(id, score, percentage, order) ==
    [id |-> id, name |-> "x", score |-> score, percentage |-> percentage, order |-> order]

\* Two common subjects and one of the second test; the server counts the percentages of both
\* tests together.
MCDepartments0 ==
    {[info |-> [field \in InfoFields |-> "x"],
      tests |-> [common |-> <<MCSubject(1, 1, 2500, 1), MCSubject(2, 1, 2500, 2)>>,
                 second |-> <<MCSubject(3, 2, 5000, 1)>>],
      dates |-> RFC3339]}

VARIABLE side

MCInit ==
    /\ side \in Sides /\ Init /\ Begin
    /\ side = "contents" => \A f \in Fields : server[f] # 1

MCNext ==
    \/ side = "universities" /\ Next /\ UNCHANGED contents
    \/ side = "contents" /\ ContentsNext /\ UNCHANGED vars

MCSpec == MCInit /\ [][MCNext /\ UNCHANGED side]_<<vars, contents, side>>
=============================================================================
