--------------------------- MODULE MCSubjectScores ---------------------------
(* Small instances of the writers of subjects for TLC.                     *)
EXTENDS SubjectScores, TLC

CONSTANTS p1, p2, math, english, common, secondary

MCTxs == {p1, p2}
MCSubjects == {math, english}
MCTestTypes == {common, secondary}
MCName == common :> "common" @@ secondary :> "secondary"

Stored(t, n, o) == [type |-> t, score |-> n, pct |-> 0, order |-> o]
MCInitialRows ==
    {math :> Stored(common, 1, 0) @@ english :> r :
        r \in {Stored(common, 0, 0), Stored(common, 0, 1), Stored(secondary, 1, 1), NoSubject}}

\* Batches of one subject and of both; they set, swap and keep the orders of the table.
One(s, n, o) == [scores |-> s :> n, orders |-> s :> o]
Both(n, o, m, q) ==
    [scores |-> math :> n @@ english :> m, orders |-> math :> o @@ english :> q]
MCBatches == {One(math, 1, 1), One(english, 0, 0), Both(0, 1, 1, 0), Both(1, 0, 1, 0)}

Symmetry == Permutations(MCTxs)
=============================================================================
