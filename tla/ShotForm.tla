------------------------------ MODULE ShotForm ------------------------------
(***************************************************************************)
(* CreateNewShotViewController: the form on which a shot is created or     *)
(* edited.  What the user ticks is kept twice, in mistakeDict and in the   *)
(* check boxes of the table's cells, and the technique switch hides both.  *)
(***************************************************************************)
EXTENDS Integers

CONSTANTS
  NumBalls,   \* clsvNumberOfItems
  NumRows,    \* the mistakes listed: MistakeType.allCases.count - 1
  Nil         \* no shot, no row

ASSUME SizeAssumption == NumBalls \in Nat /\ NumRows \in Nat
ASSUME NilAssumption  == Nil \notin 0 .. NumRows - 1

Rows    == 0 .. NumRows - 1
Results == 0 .. 4
hold    == 2

VARIABLES
  stored,         \* the shot in the database, or Nil
  form,           \* "closed", "new" or "edit" (shotResult is nil, or stored)
  selectedIndex,  \* the ball chosen, or -1
  segment,        \* sgmcResult.selectedSegmentIndex
  isOn,           \* swIsTechnically.isOn
  disabled,       \* isMistakeDisabled
  dict,           \* the keys of mistakeDict, whose values are all true
  box,            \* the check state of each row's cell
  pressed,        \* the row a finger has highlighted, or Nil
  touched         \* history: the user has changed something on the form

fields == <<selectedIndex, segment, isOn, disabled, dict>>
vars   == <<stored, form, fields, box, pressed, touched>>

\* cellForRowAt for every row: configDisabledView, or configView.
ConfigView(d, marks) ==
  [r \in Rows |-> IF d THEN "mixed" ELSE IF r \in marks THEN "checked" ELSE "unchecked"]

Init ==
  /\ stored = Nil /\ form = "closed"
  /\ selectedIndex = -1 /\ segment = hold /\ isOn = FALSE /\ disabled = FALSE
  /\ dict = {} /\ box = ConfigView(FALSE, {}) /\ pressed = Nil /\ touched = FALSE

-----------------------------------------------------------------------------
(* viewDidLoad.                                                            *)

OpenNew ==
  /\ form = "closed" /\ form' = "new"
  /\ selectedIndex' = -1 /\ segment' = hold /\ isOn' = FALSE /\ disabled' = FALSE
  /\ dict' = {}
  /\ box' = ConfigView(FALSE, {})
  /\ pressed' = Nil /\ touched' = FALSE
  /\ UNCHANGED stored

\* Mutant: the result stays on the preset of setupViews.
SetupDatasWithoutResult ==
  /\ selectedIndex' = stored.ball - 1
  /\ dict' = stored.mistakes
  /\ segment' = hold
  /\ isOn' = (stored.technically = 1) /\ disabled' = isOn'

\* setupDatas, when there is a shot to edit.
SetupDatas ==
  /\ selectedIndex' = stored.ball - 1
  /\ dict' = stored.mistakes
  /\ segment' = stored.result
  /\ isOn' = (stored.technically = 1) /\ disabled' = isOn'

OpenEdit ==
  /\ form = "closed" /\ stored # Nil
  /\ form' = "edit"
  /\ SetupDatas
  /\ box' = ConfigView(disabled', dict')
  /\ pressed' = Nil /\ touched' = FALSE
  /\ UNCHANGED stored

-----------------------------------------------------------------------------
(* What the user does on the form.                                         *)

Touch == form # "closed" /\ touched' = TRUE /\ UNCHANGED <<stored, form>>

SelectBall(i) ==
  /\ Touch
  /\ selectedIndex' = i
  /\ UNCHANGED <<segment, isOn, disabled, dict, box, pressed>>

SelectResult(r) ==
  /\ Touch
  /\ segment' = r
  /\ UNCHANGED <<selectedIndex, isOn, disabled, dict, box, pressed>>

\* Mutant: the table is not reloaded.
SwTechnicallyShotWithoutReload ==
  /\ Touch
  /\ isOn' = ~isOn /\ disabled' = isOn'
  /\ UNCHANGED <<selectedIndex, segment, dict, box, pressed>>

\* Reloading the table may or may not take the touch from a pressed row.
SwTechnicallyShotChangedValue ==
  /\ Touch
  /\ isOn' = ~isOn /\ disabled' = isOn'
  /\ box' = ConfigView(disabled', dict)
  /\ pressed' \in {pressed, Nil}
  /\ UNCHANGED <<selectedIndex, segment, dict>>

\* shouldHighlightRowAt is asked when the finger comes down ...
Press(r) ==
  /\ Touch
  /\ pressed = Nil /\ ~disabled
  /\ pressed' = r
  /\ UNCHANGED <<fields, box>>

CellWasTapped(state) ==
  CASE state = "unchecked" -> "checked" [] state = "checked" -> "unchecked"
    [] OTHER -> state

\* ... and didSelectRowAt when it goes up.  The dictionary and the box change
\* each on its own, and the switch may have been moved in between.
DidSelectRow ==
  /\ Touch
  /\ pressed # Nil /\ pressed' = Nil
  /\ dict' = IF pressed \in dict THEN dict \ {pressed} ELSE dict \cup {pressed}
  /\ box' = [box EXCEPT ![pressed] = CellWasTapped(@)]
  /\ UNCHANGED <<selectedIndex, segment, isOn, disabled>>

\* The finger slides off the row, or the row is scrolled: no selection.
Cancel ==
  /\ form # "closed"
  /\ pressed # Nil /\ pressed' = Nil
  /\ UNCHANGED <<stored, form, fields, box, touched>>

-----------------------------------------------------------------------------
(* Leaving the form.                                                       *)

\* Mutant: only the upper bound of the index is checked.
BallChosenBelowMax == selectedIndex <= NumBalls - 1
BallChosen == ~(selectedIndex < 0 \/ selectedIndex > NumBalls - 1)

\* Mutant: what is in the dictionary is stored, also under the switch.
MistakesOfDict == dict
Mistakes == IF isOn THEN {} ELSE dict

Submit ==
  /\ form # "closed"
  /\ BallChosen
  /\ stored' = [ball |-> selectedIndex + 1, result |-> segment,
                technically |-> IF isOn THEN 1 ELSE 0, mistakes |-> Mistakes]
  /\ form' = "closed"
  /\ UNCHANGED <<fields, box, pressed, touched>>

Back ==
  /\ form # "closed" /\ form' = "closed"
  /\ UNCHANGED <<stored, fields, box, pressed, touched>>

Next ==
  \/ OpenNew \/ OpenEdit
  \/ \E i \in 0 .. NumBalls - 1 : SelectBall(i)
  \/ \E r \in Results : SelectResult(r)
  \/ SwTechnicallyShotChangedValue
  \/ \E r \in Rows : Press(r)
  \/ DidSelectRow \/ Cancel
  \/ Submit \/ Back

Spec == Init /\ [][Next]_vars

-----------------------------------------------------------------------------
(* Properties.                                                             *)

ShotSet == [ball : 1 .. NumBalls, result : Results, technically : {0, 1},
            mistakes : SUBSET Rows]

\* A stored shot has a ball of the rack, a result and a technique, and a shot
\* of good technique has no mistakes: what the loop of the statistics counts
\* on, whatever was tapped in which order.
StoredIsLegal ==
  stored # Nil => stored \in ShotSet /\ (stored.technically = 1 => stored.mistakes = {})

\* The boxes and the dictionary are toggled independently (204-212) but never
\* part: ticks made before the switch was turned on come back with it off, also
\* when the switch moves while a finger rests on a row.
RowsShowTheDict ==
  form # "closed" => box = ConfigView(isOn, dict)

\* The mistakes that are stored are the boxes the user saw ticked.
StoredIsShown ==
  [][stored' # stored => stored'.mistakes = {r \in Rows : box[r] = "checked"}]_vars

\* A shot that is opened and submitted as it is stays as it was: setupDatas
\* (62-75) undoes what btnSubmitWasTapped (77-99) does.
UntouchedIsKept ==
  [][form = "edit" /\ ~touched => stored' = stored]_vars
=============================================================================
