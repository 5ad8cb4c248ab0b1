--------------------------- MODULE CheckboxGroup ---------------------------
(* One group of checkboxes of the search form: useCheckboxGroup keeps its    *)
(* own selection and hands it to the form after each render; the boxes of    *)
(* items and categories show what the form handed down, the box of the whole *)
(* group what the hook keeps.                                                *)
EXTENDS Integers

CONSTANTS
    Items,       \* the options of the group
    Categories,  \* the sets of options that have a box of their own
    MaxCopies    \* bound: how often one item may stand in the array

ASSUME GroupAssumption ==
    /\ Items # {}
    /\ Categories \subseteq (SUBSET Items) \ {{}}
    /\ MaxCopies \in Nat \ {0}

VARIABLES
    isExpanded,       \* whether the group is mounted
    selectedItems,    \* the hook's array: how often each item stands in it
    initialSelected   \* the same of the array the form hands down

groupVars == <<isExpanded, selectedItems, initialSelected>>

Arrays == [Items -> 0..MaxCopies]
Empty == [i \in Items |-> 0]

\* The items that stand in an array, however often.
Elements(array) == {i \in Items : array[i] > 0}

GroupInit ==
    /\ isExpanded = FALSE
    /\ selectedItems = Empty
    /\ initialSelected = Empty

\* What a box that stands for the items S shows.
calculateCheckboxState(S, array) ==
    [allChecked |-> S \subseteq Elements(array),
     isIndeterminate |-> S \cap Elements(array) # {} /\ ~(S \subseteq Elements(array))]

\* Faulty variant of Asked: the opposite of the mark, which a partial box carries too.
AskedAsMarked(state) == ~(state.allChecked \/ state.isIndeterminate)

\* What a click, a space or an enter asks for: a partial box becomes full.
Asked(state) == ~state.allChecked

\* Each item of S is appended, also one that is there; or all its copies are filtered out.
handleItemChange(array, S, checked) ==
    [i \in Items |-> IF i \notin S THEN array[i]
                     ELSE IF checked THEN array[i] + 1 ELSE 0]

handleSelectAll(checked) == [i \in Items |-> IF checked THEN 1 ELSE 0]

\* A click renders the group, and with it the form if the last selection has not
\* reached it; the new selection is handed over by the effect that follows.
Changes(array) ==
    /\ isExpanded
    /\ array \in Arrays
    /\ selectedItems' = array
    /\ initialSelected' = selectedItems
    /\ UNCHANGED isExpanded

\* What a click on a box that stands for S asks for, where the box goes by an array.
CheckboxGroupLayout(S, array) == Asked(calculateCheckboxState(S, array))

\* A box among those of the items decides by what the form has handed down.
ClickItems(S) ==
    Changes(handleItemChange(selectedItems, S, CheckboxGroupLayout(S, initialSelected)))

ClickItem(i) == ClickItems({i})

\* The box of a category changes item after item.
ClickCategory(S) == ClickItems(S)

ClickAll ==
    Changes(handleSelectAll(CheckboxGroupLayout(Items, selectedItems)))

\* The effect's update of the form is rendered.
onSelectionChange ==
    /\ isExpanded
    /\ initialSelected # selectedItems
    /\ initialSelected' = selectedItems
    /\ UNCHANGED <<isExpanded, selectedItems>>

\* Faulty variant of onToggleExpanded: closing hides the group, opening mounts a new one.
HidesGroup ==
    /\ isExpanded' = ~isExpanded
    /\ initialSelected' = IF isExpanded THEN selectedItems ELSE initialSelected
    /\ selectedItems' = IF isExpanded THEN selectedItems ELSE initialSelected

\* Closing unmounts the group; opening mounts one that starts from the form's array.
onToggleExpanded ==
    /\ isExpanded' = ~isExpanded
    /\ initialSelected' = IF isExpanded THEN selectedItems ELSE initialSelected
    /\ selectedItems' = IF isExpanded THEN Empty ELSE initialSelected

\* Leaving the page unmounts the form as well.
Unmount ==
    /\ isExpanded' = FALSE
    /\ selectedItems' = Empty
    /\ initialSelected' = Empty

\* A group without categories has the boxes of its items only.
SimpleCheckboxGroup == \E i \in Items : ClickItem(i)

CategoryCheckboxGroup == \E S \in Categories : ClickCategory(S)

\* Every group has the box of the whole.
Clicks == ClickAll \/ SimpleCheckboxGroup \/ CategoryCheckboxGroup

GroupNext == Clicks \/ onSelectionChange \/ onToggleExpanded \/ Unmount

GroupSpec == GroupInit /\ [][GroupNext]_groupVars /\ WF_groupVars(onSelectionChange)

-----------------------------------------------------------------------------
(* Type invariant of the group.  An array of a closed group is gone. *)
GroupTypeOK ==
    /\ isExpanded \in BOOLEAN
    /\ selectedItems \in Arrays
    /\ initialSelected \in Arrays
    /\ ~isExpanded => selectedItems = Empty

Boxed == INSTANCE Selection WITH
    Boxes <- Categories \cup {{i} : i \in Items} \cup {Items},
    chosen <- IF isExpanded THEN Elements(selectedItems) ELSE Elements(initialSelected),
    displayed <- Elements(initialSelected)

\* The group keeps the promise of Selection, although items stand in its array more than
\* once, two arrays hold the selection, and closing the details throws one of them away.
SelectionSpec == Boxed!Spec
=============================================================================
