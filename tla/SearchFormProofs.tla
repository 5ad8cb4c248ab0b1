--------------------------- MODULE SearchFormProofs ---------------------------
(***************************************************************************)
(* Theorems about CheckboxGroup and SearchForm, for every set of options:  *)
(* their type invariants, that every step of a group and of the form it    *)
(* reports to is a step of Selection or changes nothing a user of          *)
(* Selection sees, whatever else the visitor does in the form, and that    *)
(* only a refusal can be left unseen.                                      *)
(***************************************************************************)
EXTENDS SearchForm, TLAPS

-----------------------------------------------------------------------------
(* The group.                                                               *)

\* Whatever is clicked, an array stays an array as long as it keeps to the bound.
LEMMA ChangesTyped ==
    ASSUME GroupTypeOK, NEW array, Changes(array)
    PROVE  GroupTypeOK'
BY DEF GroupTypeOK, Changes, Arrays, Empty

\* A click hands over the selection of the click before.
LEMMA ClicksChange ==
    ASSUME Clicks
    PROVE  \E array : Changes(array)
<1>1. ASSUME NEW S, ClickItems(S)
      PROVE  \E array : Changes(array)
  BY <1>1, Zenon DEF ClickItems
<1>2. ASSUME ClickAll
      PROVE  \E array : Changes(array)
  BY <1>2, Zenon DEF ClickAll
<1>3. QED
  BY <1>1, <1>2, Zenon
  DEF Clicks, SimpleCheckboxGroup, CategoryCheckboxGroup, ClickItem, ClickCategory

LEMMA EmptyIsAnArray == Empty \in Arrays
BY GroupAssumption DEF Empty, Arrays

LEMMA TypedInit ==
    ASSUME GroupInit
    PROVE  GroupTypeOK
BY EmptyIsAnArray DEF GroupInit, GroupTypeOK

LEMMA TypedStep ==
    ASSUME GroupTypeOK, [GroupNext]_groupVars
    PROVE  GroupTypeOK'
<1>1. CASE Clicks
  BY <1>1, ClicksChange, ChangesTyped
<1>2. CASE onSelectionChange
  BY <1>2 DEF GroupTypeOK, onSelectionChange, Empty
<1>3. CASE onToggleExpanded
  BY <1>3, EmptyIsAnArray DEF GroupTypeOK, onToggleExpanded, Empty
<1>4. CASE Unmount
  BY <1>4, EmptyIsAnArray DEF GroupTypeOK, Unmount, Empty
<1>5. CASE UNCHANGED groupVars
  BY <1>5 DEF GroupTypeOK, groupVars, Empty
<1>6. QED
  BY <1>1, <1>2, <1>3, <1>4, <1>5 DEF GroupNext

\* A closed group keeps nothing, an open one two arrays of options.
THEOREM GroupTypeCorrect == GroupSpec => []GroupTypeOK
<1>1. GroupInit => GroupTypeOK
  BY TypedInit
<1>2. GroupTypeOK /\ [GroupNext]_groupVars => GroupTypeOK'
  BY TypedStep
<1>3. QED
  BY <1>1, <1>2, PTL DEF GroupSpec

-----------------------------------------------------------------------------
(* What the handlers do to the set of the items in an array.                *)

LEMMA ElementsOfEmpty == Elements(Empty) = {}
BY DEF Elements, Empty

\* Clicking the items of S adds all of them, or removes all of them with their copies.
LEMMA ElementsAfterItemChange ==
    ASSUME NEW array \in Arrays, NEW S \in SUBSET Items, NEW checked \in BOOLEAN
    PROVE  Elements(handleItemChange(array, S, checked))
             = IF checked THEN Elements(array) \cup S ELSE Elements(array) \ S
<1>1. \A i \in Items : array[i] \in Nat
  BY GroupAssumption DEF Arrays
<1>2. \A i \in Items : handleItemChange(array, S, checked)[i]
                         = IF i \notin S THEN array[i]
                           ELSE IF checked THEN array[i] + 1 ELSE 0
  BY DEF handleItemChange
<1> DEFINE changed == handleItemChange(array, S, checked)
<1>3. ASSUME NEW i \in Items
      PROVE  changed[i] > 0 <=> IF checked THEN array[i] > 0 \/ i \in S
                                ELSE array[i] > 0 /\ i \notin S
  <2>1. array[i] \in Nat
    BY <1>1
  <2>2. changed[i] = IF i \notin S THEN array[i] ELSE IF checked THEN array[i] + 1 ELSE 0
    BY <1>2
  <2> HIDE DEF changed
  <2>3. QED
    BY <2>1, <2>2
<1> HIDE DEF changed
<1>4. Elements(changed) = IF checked THEN Elements(array) \cup S ELSE Elements(array) \ S
  <2>1. \A i : i \in Elements(changed)
               <=> i \in IF checked THEN Elements(array) \cup S ELSE Elements(array) \ S
    BY <1>3 DEF Elements
  <2>2. QED
    BY <2>1
<1>5. QED
  BY <1>4 DEF changed

LEMMA ElementsOfFull == Elements([i \in Items |-> 1]) = Items
BY DEF Elements

LEMMA ElementsAfterSelectAll ==
    ASSUME NEW checked \in BOOLEAN
    PROVE  Elements(handleSelectAll(checked)) = IF checked THEN Items ELSE {}
<1>1. CASE checked
  <2>1. handleSelectAll(checked) = [i \in Items |-> 1]
    BY <1>1, Zenon DEF handleSelectAll
  <2>2. QED
    BY <1>1, <2>1, ElementsOfFull, Zenon
<1>2. CASE ~checked
  <2>1. handleSelectAll(checked) = Empty
    BY <1>2, Zenon DEF handleSelectAll, Empty
  <2>2. QED
    BY <1>2, <2>1, ElementsOfEmpty, Zenon
<1>3. QED
  BY <1>1, <1>2

-----------------------------------------------------------------------------
(* The refinement.                                                          *)

Boxes == Categories \cup {{i} : i \in Items} \cup {Items}
Chosen == IF isExpanded THEN Elements(selectedItems) ELSE Elements(initialSelected)
Displayed == Elements(initialSelected)

\* A click of the box of one item or of a category is a click of that box.
LEMMA ClickItemsIsAClick ==
    ASSUME GroupTypeOK, NEW S \in Categories \cup {{i} : i \in Items}, ClickItems(S)
    PROVE  Boxed!Next
<1>1. S \in SUBSET Items
  BY GroupAssumption
<1>2. S \in Boxes
  BY DEF Boxes
<1> DEFINE checked == ~(S \subseteq Displayed)
<1>3. CheckboxGroupLayout(S, initialSelected) = checked
  BY DEF CheckboxGroupLayout, Asked, calculateCheckboxState, Displayed
<1>4. Changes(handleItemChange(selectedItems, S, checked))
  BY <1>3, Zenon DEF ClickItems
<1>5. /\ isExpanded /\ isExpanded'
      /\ selectedItems' = handleItemChange(selectedItems, S, checked)
      /\ initialSelected' = selectedItems
  BY <1>4 DEF Changes
<1>6. Elements(selectedItems') = IF checked THEN Elements(selectedItems) \cup S
                                 ELSE Elements(selectedItems) \ S
  BY <1>1, <1>5, ElementsAfterItemChange DEF GroupTypeOK
<1>7. /\ Chosen = Elements(selectedItems) /\ Chosen' = Elements(selectedItems')
      /\ Displayed' = Chosen
  BY <1>5 DEF Chosen, Displayed, Elements
<1>8. Chosen' = IF S \subseteq Displayed THEN Chosen \ S ELSE Chosen \cup S
  BY <1>6, <1>7
<1>9. Boxed!Click(S)
  BY <1>7, <1>8 DEF Boxed!Click, Chosen, Displayed
<1>10. QED
  BY <1>2, <1>9 DEF Boxed!Next, Boxes

\* The box of the whole group goes by the hook's array.
LEMMA ClickAllIsAClick ==
    ASSUME GroupTypeOK, ClickAll
    PROVE  Boxed!Next
<1> DEFINE checked == ~(Items \subseteq Elements(selectedItems))
<1>1. CheckboxGroupLayout(Items, selectedItems) = checked
  BY DEF CheckboxGroupLayout, Asked, calculateCheckboxState
<1>2. Changes(handleSelectAll(checked))
  BY <1>1, Zenon DEF ClickAll
<1>3. /\ isExpanded /\ isExpanded'
      /\ selectedItems' = handleSelectAll(checked)
      /\ initialSelected' = selectedItems
  BY <1>2 DEF Changes
<1>4. Elements(selectedItems') = IF checked THEN Items ELSE {}
  BY <1>3, ElementsAfterSelectAll
<1>5. /\ Chosen = Elements(selectedItems) /\ Chosen' = Elements(selectedItems')
      /\ Displayed' = Chosen
  BY <1>3 DEF Chosen, Displayed, Elements
<1>6. Chosen \subseteq Items
  BY <1>5 DEF Elements
<1>7. Chosen' = IF Items \subseteq Chosen THEN Chosen \ Items ELSE Chosen \cup Items
  BY <1>4, <1>5, <1>6
<1>8. Boxed!Click(Items)
  BY <1>5, <1>7 DEF Boxed!Click, Chosen, Displayed
<1>9. QED
  BY <1>8 DEF Boxed!Next

\* The effect, and closing the details, let what is displayed catch up; opening them
\* changes neither; leaving the page forgets both.
LEMMA OthersKeepThePromise ==
    ASSUME GroupTypeOK, onSelectionChange \/ onToggleExpanded \/ Unmount
    PROVE  [Boxed!Next]_(Boxed!vars)
<1>1. CASE onSelectionChange
  <2>1. Boxed!CatchUp
    BY <1>1 DEF onSelectionChange, Boxed!CatchUp, Elements
  <2>2. QED
    BY <2>1 DEF Boxed!Next
<1>2. CASE onToggleExpanded /\ isExpanded
  <2>1. isExpanded' = FALSE /\ initialSelected' = selectedItems
    BY <1>2 DEF onToggleExpanded
  <2>2. Boxed!CatchUp
    BY <1>2, <2>1 DEF Boxed!CatchUp, Elements
  <2>3. QED
    BY <2>2 DEF Boxed!Next
<1>3. CASE onToggleExpanded /\ ~isExpanded
  <2>1. isExpanded' = TRUE /\ initialSelected' = initialSelected /\ selectedItems' = initialSelected
    BY <1>3 DEF onToggleExpanded, GroupTypeOK
  <2>2. UNCHANGED Boxed!vars
    BY <1>3, <2>1 DEF Boxed!vars, Elements
  <2>3. QED
    BY <2>2
<1>4. CASE Unmount
  <2>1. isExpanded' = FALSE /\ initialSelected' = Empty
    BY <1>4 DEF Unmount
  <2>2. Elements(initialSelected)' = {}
    BY <2>1, ElementsOfEmpty DEF Elements, Empty
  <2>3. Boxed!Forget
    BY <2>1, <2>2 DEF Boxed!Forget
  <2>4. QED
    BY <2>3 DEF Boxed!Next
<1>5. QED
  BY <1>1, <1>2, <1>3, <1>4

LEMMA StartsEmpty ==
    ASSUME GroupInit
    PROVE  Boxed!Init
BY ElementsOfEmpty DEF GroupInit, Boxed!Init

LEMMA StepKeepsThePromise ==
    ASSUME GroupTypeOK, [GroupNext]_groupVars
    PROVE  [Boxed!Next]_(Boxed!vars)
<1>1. CASE ClickAll
  BY <1>1, ClickAllIsAClick
<1>2. ASSUME NEW S \in Categories \cup {{i} : i \in Items}, ClickItems(S)
      PROVE  Boxed!Next
  BY <1>2, ClickItemsIsAClick
<1>3. CASE onSelectionChange \/ onToggleExpanded \/ Unmount
  BY <1>3, OthersKeepThePromise
<1>4. CASE UNCHANGED groupVars
  BY <1>4 DEF groupVars, Boxed!vars, Elements
<1>5. CASE Clicks
  BY <1>1, <1>2, <1>5, Zenon
  DEF Clicks, SimpleCheckboxGroup, CategoryCheckboxGroup, ClickItem, ClickCategory
<1>6. QED
  BY <1>3, <1>4, <1>5, Zenon DEF GroupNext

\* The group does nothing that Selection does not allow: a click puts everything its box
\* stands for into the selection or takes all of it out, whichever render it comes from,
\* and opening and closing the details loses nothing.
THEOREM GroupKeepsThePromise ==
    GroupSpec => Boxed!Init /\ [][Boxed!Next]_(Boxed!vars)
<1>1. GroupInit => Boxed!Init
  BY StartsEmpty
<1>2. GroupTypeOK /\ [GroupNext]_groupVars => [Boxed!Next]_(Boxed!vars)
  BY StepKeepsThePromise
<1>3. GroupSpec => []GroupTypeOK
  BY GroupTypeCorrect
<1>4. QED
  BY <1>1, <1>2, <1>3, PTL DEF GroupSpec

-----------------------------------------------------------------------------
(* The form.                                                                *)

FormInv == FormTypeOK /\ OnlyRefusalsAreUnseen

-----------------------------------------------------------------------------
(* What the form does to the group.                                         *)

\* A render of the form runs the effect of the group, or finds nothing to hand over.
LEMMA RenderHandsOver ==
    ASSUME initialSelected' = (IF isExpanded THEN selectedItems ELSE initialSelected),
           UNCHANGED <<isExpanded, selectedItems>>
    PROVE  [GroupNext]_groupVars
<1>1. CASE isExpanded /\ initialSelected # selectedItems
  <2>1. onSelectionChange
    BY <1>1 DEF onSelectionChange
  <2>2. QED
    BY <2>1 DEF GroupNext
<1>2. CASE ~(isExpanded /\ initialSelected # selectedItems)
  BY <1>2 DEF groupVars
<1>3. QED
  BY <1>1, <1>2

LEMMA FormStepsTheGroup ==
    ASSUME [FormNext]_formVars
    PROVE  [GroupNext]_groupVars
<1>1. CASE TypeKeyword
  BY <1>1 DEF TypeKeyword
<1>2. CASE handleSortChange
  BY <1>2, RenderHandsOver DEF handleSortChange
<1>3. CASE ClickGroup
  BY <1>3 DEF ClickGroup, GroupNext
<1>4. CASE HandOver
  BY <1>4 DEF HandOver, GroupNext
<1>5. CASE ToggleDetails
  BY <1>5 DEF ToggleDetails, GroupNext
<1>6. CASE SubmitBlank
  BY <1>6, RenderHandsOver DEF SubmitBlank
<1>7. CASE SubmitKeyword
  BY <1>7 DEF SubmitKeyword, Refuse
<1>8. CASE Answer
  <2>1. CASE pending = 1
    BY <1>8, <2>1, RenderHandsOver DEF Answer
  <2>2. CASE pending # 1
    BY <1>8, <2>2 DEF Answer, groupVars
  <2>3. QED
    BY <2>1, <2>2
<1>9. CASE ResetForm
  BY <1>9 DEF ResetForm
<1>10. CASE LeaveAndReturn
  BY <1>10 DEF LeaveAndReturn, GroupNext
<1>11. CASE UNCHANGED formVars
  BY <1>11 DEF formVars
<1>12. QED
  BY <1>1, <1>2, <1>3, <1>4, <1>5, <1>6, <1>7, <1>8, <1>9, <1>10, <1>11 DEF FormNext

-----------------------------------------------------------------------------
(* The invariant.                                                           *)

\* The required fields are not among the submitted ones: no keyword passes.
LEMMA KeywordsAreRefused == ~SafeParse(SubmittedFields)
BY DEF SafeParse, RequiredFields, SubmittedFields

LEMMA SearchesAnswerMessages == searchUniversities \subseteq Messages
BY DEF searchUniversities, fetchUniversities, Answers, Messages

LEMMA ZeroIsPossible == 0 \in 0..MaxPending
BY FormAssumption

LEMMA FormInvInit ==
    ASSUME FormInit
    PROVE  FormInv
<1>1. GroupTypeOK
  BY TypedInit DEF FormInit
<1>2. FormTypeOK
  <2>1. keyword = "" /\ sortOrder \in [SortFields -> SortOptions \cup {""}]
    BY DEF FormInit, NoSort
  <2>2. answer = NoAnswer /\ initialState = NoMessage /\ message \in Messages
    BY DEF FormInit, Messages
  <2>3. pending = 0 /\ resetDue = FALSE
    BY DEF FormInit
  <2>4. QED
    BY <1>1, <2>1, <2>2, <2>3, ZeroIsPossible DEF FormTypeOK
<1>3. OnlyRefusalsAreUnseen
  BY DEF FormInit, OnlyRefusalsAreUnseen, State
<1>4. QED
  BY <1>2, <1>3 DEF FormInv

\* A step that renders, or changes neither the state nor what was rendered.
LEMMA RenderedStep ==
    ASSUME FormInv, UNCHANGED <<initialState, answer>>, message' \in {message, State}
    PROVE  OnlyRefusalsAreUnseen'
BY DEF FormInv, OnlyRefusalsAreUnseen, State

LEMMA StateIsAMessage ==
    ASSUME FormTypeOK
    PROVE  State \in Messages
BY DEF FormTypeOK, State, Messages

LEMMA FormInvStep ==
    ASSUME FormInv, [FormNext]_formVars
    PROVE  FormInv'
<1>1. GroupTypeOK'
  BY FormStepsTheGroup, TypedStep DEF FormInv, FormTypeOK
<1>2. FormTypeOK
  BY DEF FormInv
<1>3. CASE TypeKeyword
  <2>1. FormTypeOK'
    BY <1>1, <1>2, <1>3 DEF TypeKeyword, FormTypeOK
  <2>2. OnlyRefusalsAreUnseen'
    BY <1>3, RenderedStep DEF TypeKeyword
  <2>3. QED
    BY <2>1, <2>2 DEF FormInv
<1>4. CASE handleSortChange
  <2>1. FormTypeOK'
    BY <1>1, <1>2, <1>4, StateIsAMessage DEF handleSortChange, FormTypeOK, Render
  <2>2. OnlyRefusalsAreUnseen'
    BY <1>4, RenderedStep DEF handleSortChange, Render
  <2>3. QED
    BY <2>1, <2>2 DEF FormInv
<1>5. CASE ClickGroup \/ HandOver \/ ToggleDetails
  <2>1. message' \in {message, State}
    BY <1>5 DEF ClickGroup, HandOver, ToggleDetails, Render
  <2>2. FormUnchanged
    BY <1>5 DEF ClickGroup, HandOver, ToggleDetails
  <2>3. FormTypeOK'
    BY <1>1, <1>2, <2>1, <2>2, StateIsAMessage DEF FormTypeOK, FormUnchanged
  <2>4. OnlyRefusalsAreUnseen'
    BY <2>1, <2>2, RenderedStep DEF FormUnchanged
  <2>5. QED
    BY <2>3, <2>4 DEF FormInv
<1>6. CASE SubmitBlank
  <2>1. pending' \in 0..MaxPending
    <3>1. pending \in 0..MaxPending /\ pending < MaxPending /\ pending' = pending + 1
      BY <1>2, <1>6, Zenon DEF SubmitBlank, FormTypeOK
    <3>2. QED
      BY <3>1, FormAssumption
  <2>2. message' \in Messages
    BY <1>2, <1>6, StateIsAMessage, Zenon DEF SubmitBlank, Render
  <2>3. FormTypeOK'
    BY <1>1, <1>2, <1>6, <2>1, <2>2, Zenon DEF SubmitBlank, FormTypeOK
  <2>4. OnlyRefusalsAreUnseen'
    BY <1>6, RenderedStep DEF SubmitBlank, Render
  <2>5. QED
    BY <2>3, <2>4 DEF FormInv
<1>7. CASE SubmitKeyword
  <2>1. Refuse
    BY <1>7, KeywordsAreRefused DEF SubmitKeyword
  <2>2. FormTypeOK'
    BY <1>1, <1>2, <2>1 DEF Refuse, FormTypeOK, Messages
  <2>3. State' = Invalid
    BY <2>1, NoAnswerAssumption DEF Refuse, State, Messages
  <2>4. QED
    BY <2>2, <2>3 DEF FormInv, OnlyRefusalsAreUnseen
<1>8. CASE Answer /\ pending = 1
  <2>1. PICK m \in searchUniversities : Settles(m)
    BY <1>8 DEF Answer
  <2>2. answer' = m /\ message' = m /\ m \in Messages
    BY <2>1, SearchesAnswerMessages DEF Settles
  <2>3. keyword' = "" /\ resetDue' = FALSE /\ UNCHANGED <<sortOrder, initialState>>
    BY <1>8, Zenon DEF Answer
  <2>4. FormTypeOK'
    <3>1. pending' = 0
      <4>1. pending = 1 /\ pending' = pending - 1
        BY <1>8, Zenon DEF Answer
      <4>2. QED
        BY <4>1
    <3>2. QED
      BY <1>1, <1>2, <2>2, <2>3, <3>1, ZeroIsPossible, Zenon DEF FormTypeOK
  <2>5. message' = State'
    BY <2>2, NoAnswerAssumption DEF State
  <2>6. QED
    BY <2>4, <2>5 DEF FormInv, OnlyRefusalsAreUnseen
<1>9. CASE Answer /\ pending # 1
  <2>1. pending' \in 0..MaxPending
    <3>1. pending \in 0..MaxPending /\ pending > 0 /\ pending' = pending - 1
      BY <1>2, <1>9, Zenon DEF Answer, FormTypeOK
    <3>2. QED
      BY <3>1, FormAssumption
  <2>2. FormTypeOK'
    BY <1>1, <1>2, <1>9, <2>1, Zenon DEF Answer, FormTypeOK
  <2>3. OnlyRefusalsAreUnseen'
    BY <1>9, RenderedStep DEF Answer
  <2>4. QED
    BY <2>2, <2>3 DEF FormInv
<1>10. CASE ResetForm
  <2>1. FormTypeOK'
    BY <1>1, <1>2, <1>10 DEF ResetForm, FormTypeOK
  <2>2. OnlyRefusalsAreUnseen'
    BY <1>10, RenderedStep DEF ResetForm
  <2>3. QED
    BY <2>1, <2>2 DEF FormInv
<1>11. CASE LeaveAndReturn
  <2>1. FormTypeOK'
    <3>1. sortOrder' \in [SortFields -> SortOptions \cup {""}]
      BY <1>11 DEF LeaveAndReturn, NoSort
    <3>2. message' \in Messages /\ answer' = NoAnswer
      BY <1>2, <1>11 DEF LeaveAndReturn, FormTypeOK, Messages
    <3>3. QED
      BY <1>1, <1>2, <1>11, <3>1, <3>2, ZeroIsPossible, Zenon DEF LeaveAndReturn, FormTypeOK
  <2>2. message' = State'
    BY <1>11 DEF LeaveAndReturn, State
  <2>3. QED
    BY <2>1, <2>2 DEF FormInv, OnlyRefusalsAreUnseen
<1>12. CASE UNCHANGED formVars
  <2>1. FormTypeOK'
    BY <1>1, <1>2, <1>12 DEF formVars, pageVars, FormTypeOK
  <2>2. OnlyRefusalsAreUnseen'
    BY <1>12, RenderedStep DEF formVars, pageVars
  <2>3. QED
    BY <2>1, <2>2 DEF FormInv
<1>13. QED
  BY <1>3, <1>4, <1>5, <1>6, <1>7, <1>8, <1>9, <1>10, <1>11, <1>12 DEF FormNext

LEMMA FormInvHolds == FormSpec => []FormInv
<1>1. FormInit => FormInv
  BY FormInvInit
<1>2. FormInv /\ [FormNext]_formVars => FormInv'
  BY FormInvStep
<1>3. QED
  BY <1>1, <1>2, PTL DEF FormSpec

\* The form's state variables keep their types, whatever is typed, picked and submitted.
THEOREM FormTypeCorrect == FormSpec => []FormTypeOK
<1>1. FormInv => FormTypeOK
  BY DEF FormInv
<1>2. QED
  BY <1>1, FormInvHolds, PTL

\* The message shown is that of the form's state, except after a refusal: handleSubmit
\* assigns to the state object, also to the shared initial one, and renders nothing.
THEOREM UnseenIsARefusal == FormSpec => []OnlyRefusalsAreUnseen
<1>1. FormInv => OnlyRefusalsAreUnseen
  BY DEF FormInv
<1>2. QED
  BY <1>1, FormInvHolds, PTL

\* The whole form keeps the promise of Selection for its group: no sort condition, no
\* search and no answer changes the selection, or hides what was clicked.
THEOREM FormKeepsThePromise ==
    FormSpec => Boxed!Init /\ [][Boxed!Next]_(Boxed!vars)
<1>1. FormInit => Boxed!Init
  BY StartsEmpty DEF FormInit
<1>2. FormInv /\ [FormNext]_formVars => [Boxed!Next]_(Boxed!vars)
  BY FormStepsTheGroup, StepKeepsThePromise DEF FormInv, FormTypeOK
<1>3. QED
  BY <1>1, <1>2, FormInvHolds, PTL DEF FormSpec
=============================================================================
