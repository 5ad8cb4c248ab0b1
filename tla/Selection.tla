------------------------------ MODULE Selection ------------------------------
(* What a group of checkboxes promises its user: a click puts everything a  *)
(* box stands for into the selection or takes all of it out, nothing else   *)
(* changes the selection, and what is displayed follows it.                 *)
CONSTANTS
    Boxes    \* for every box, the set of items it stands for

VARIABLES
    chosen,    \* the items selected
    displayed  \* the items the form knows and shows as selected

vars == <<chosen, displayed>>

Init == chosen = {} /\ displayed = {}

\* A click decides by what the box shows; that may be one click behind.
Click(box) ==
    /\ \E basis \in {chosen, displayed} :
          chosen' = IF box \subseteq basis THEN chosen \ box ELSE chosen \cup box
    /\ displayed' = chosen

CatchUp == displayed' = chosen /\ UNCHANGED chosen

\* The visitor goes to another page and comes back.
Forget == chosen' = {} /\ displayed' = {}

Next == CatchUp \/ Forget \/ \E box \in Boxes : Click(box)

Spec == Init /\ [][Next]_vars /\ WF_vars(CatchUp)
=============================================================================
