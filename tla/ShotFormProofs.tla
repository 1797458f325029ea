--------------------------- MODULE ShotFormProofs ---------------------------
(***************************************************************************)
(* The form, for any number of balls and of mistakes.                      *)
(***************************************************************************)
EXTENDS ShotForm, TLAPS

\* The fields have their types, and isMistakeDisabled follows the switch.
FieldsInv ==
  /\ form \in {"closed", "new", "edit"} /\ touched \in BOOLEAN
  /\ selectedIndex \in -1 .. NumBalls - 1 /\ segment \in Results
  /\ isOn \in BOOLEAN /\ disabled = isOn
  /\ dict \in SUBSET Rows
  /\ pressed \in Rows \cup {Nil}

\* Until the user changes something, the form holds the shot it was opened for.
OpenedInv ==
  form = "edit" /\ ~touched =>
    /\ stored # Nil /\ stored \in ShotSet
    /\ selectedIndex = stored.ball - 1 /\ segment = stored.result
    /\ isOn = (stored.technically = 1) /\ dict = stored.mistakes

IInv == FieldsInv /\ OpenedInv /\ StoredIsLegal /\ RowsShowTheDict

LEMMA InitInv == Init => IInv
<1> SUFFICES ASSUME Init PROVE IInv
  OBVIOUS
<1>1. FieldsInv
  <2>1. selectedIndex \in -1 .. NumBalls - 1 /\ segment \in Results
    BY SizeAssumption DEF Init, Results, hold
  <2> QED  BY <2>1, Zenon DEF Init, FieldsInv
<1>2. OpenedInv /\ StoredIsLegal
  BY DEF Init, OpenedInv, StoredIsLegal
<1>3. RowsShowTheDict
  BY Zenon DEF Init, RowsShowTheDict
<1> QED  BY <1>1, <1>2, <1>3 DEF IInv

\* The boxes after a tap on row r, and the marks after it.
Tapped(boxes, r) == [boxes EXCEPT ![r] = CellWasTapped(@)]

Toggled(marks, r) == IF r \in marks THEN marks \ {r} ELSE marks \cup {r}

\* A tap toggles a key of the dictionary and the box of the same row.
LEMMA TapTogglesBoth ==
  ASSUME NEW r \in Rows, NEW d \in BOOLEAN, NEW marks \in SUBSET Rows
  PROVE  Tapped(ConfigView(d, marks), r) = ConfigView(d, Toggled(marks, r))
BY DEF ConfigView, CellWasTapped, Tapped, Toggled

LEMMA NextInv == IInv /\ [Next]_vars => IInv'
<1> SUFFICES ASSUME IInv, [Next]_vars PROVE IInv'
  OBVIOUS
<1> USE DEF IInv, FieldsInv, OpenedInv, StoredIsLegal, RowsShowTheDict
<1>1. CASE OpenNew
  <2>1. FieldsInv'
    <3>1. (selectedIndex \in -1 .. NumBalls - 1)' /\ (segment \in Results)'
      BY <1>1, SizeAssumption DEF OpenNew, Results, hold
    <3> QED  BY <1>1, <3>1, Zenon DEF OpenNew
  <2>2. OpenedInv' /\ StoredIsLegal'
    BY <1>1 DEF OpenNew
  <2>3. RowsShowTheDict'
    BY <1>1, Zenon DEF OpenNew
  <2> QED  BY <2>1, <2>2, <2>3, Zenon
<1>2. CASE OpenEdit
  <2>1. stored \in ShotSet /\ stored # Nil
    BY <1>2 DEF OpenEdit
  <2>2. /\ stored.ball - 1 \in -1 .. NumBalls - 1 /\ stored.result \in Results
        /\ stored.mistakes \in SUBSET Rows
    BY <2>1, SizeAssumption DEF ShotSet
  <2> QED  BY <1>2, <2>1, <2>2 DEF OpenEdit, SetupDatas
<1>3. CASE \E i \in 0 .. NumBalls - 1 : SelectBall(i)
  BY <1>3 DEF SelectBall, Touch
<1>4. CASE \E r \in Results : SelectResult(r)
  BY <1>4 DEF SelectResult, Touch
<1>5. CASE SwTechnicallyShotChangedValue
  BY <1>5 DEF SwTechnicallyShotChangedValue, Touch
<1>6. CASE \E r \in Rows : Press(r)
  BY <1>6 DEF Press, Touch, fields
<1>7. CASE DidSelectRow
  <2>1. pressed \in Rows /\ form # "closed"
    BY <1>7 DEF DidSelectRow, Touch
  <2>2. box' = ConfigView(isOn, dict')
    <3>1. box = ConfigView(isOn, dict) /\ isOn \in BOOLEAN /\ dict \in SUBSET Rows
      BY <2>1
    <3>2. box' = Tapped(box, pressed)
      BY <1>7 DEF DidSelectRow, Tapped
    <3>3. dict' = Toggled(dict, pressed)
      BY <1>7 DEF DidSelectRow, Toggled
    <3>4. Tapped(ConfigView(isOn, dict), pressed) = ConfigView(isOn, Toggled(dict, pressed))
      BY <2>1, <3>1, TapTogglesBoth
    <3> QED  BY <3>1, <3>2, <3>3, <3>4
  <2> QED  BY <1>7, <2>1, <2>2 DEF DidSelectRow, Touch
<1>8. CASE Submit
  <2>1. stored' \in ShotSet
    <3>1. selectedIndex + 1 \in 1 .. NumBalls
      BY <1>8, SizeAssumption DEF Submit, BallChosen
    <3>2. Mistakes \in SUBSET Rows
      BY DEF Mistakes
    <3>3. (IF isOn THEN 1 ELSE 0) \in {0, 1} /\ segment \in Results
      OBVIOUS
    <3> QED  BY <1>8, <3>1, <3>2, <3>3, Zenon DEF Submit, ShotSet
  <2>2. stored'.technically = 1 => stored'.mistakes = {}
    BY <1>8 DEF Submit, Mistakes
  <2> QED  BY <1>8, <2>1, <2>2 DEF Submit, fields
<1>9. CASE Cancel \/ Back \/ UNCHANGED vars
  BY <1>9 DEF Cancel, Back, vars, fields
<1> QED  BY <1>1, <1>2, <1>3, <1>4, <1>5, <1>6, <1>7, <1>8, <1>9 DEF Next

LEMMA Invariant == Spec => []IInv
  BY InitInv, NextInv, PTL DEF Spec

\* Whatever the order of the taps, only legal shots are stored.
THEOREM LegalShots == Spec => []StoredIsLegal
<1>1. IInv => StoredIsLegal
  BY DEF IInv
<1> QED  BY <1>1, Invariant, PTL

\* The boxes on the screen and the dictionary behind them never part.
THEOREM BoxesAreTheDict == Spec => []RowsShowTheDict
<1>1. IInv => RowsShowTheDict
  BY DEF IInv
<1> QED  BY <1>1, Invariant, PTL

\* The mistakes stored are those that were shown.
THEOREM ShownIsStored == Spec => StoredIsShown
<1>1. IInv /\ [Next]_vars =>
        [stored' # stored => stored'.mistakes = {r \in Rows : box[r] = "checked"}]_vars
  <2> SUFFICES ASSUME IInv, [Next]_vars, stored' # stored
               PROVE  stored'.mistakes = {r \in Rows : box[r] = "checked"}
    OBVIOUS
  <2>1. Submit
    BY DEF Next, OpenNew, OpenEdit, SelectBall, SelectResult, Touch, Press, DidSelectRow,
       SwTechnicallyShotChangedValue, Cancel, Back, vars, fields
  <2>2. box = ConfigView(isOn, dict) /\ dict \in SUBSET Rows /\ isOn \in BOOLEAN
    BY <2>1 DEF Submit, IInv, RowsShowTheDict, FieldsInv
  <2>3. stored'.mistakes = IF isOn THEN {} ELSE dict
    BY <2>1 DEF Submit, Mistakes
  <2> QED  BY <2>2, <2>3 DEF ConfigView
<1> QED  BY <1>1, Invariant, PTL DEF Spec, StoredIsShown

\* Opening a shot and submitting it does not change it.
THEOREM EditIsIdentity == Spec => UntouchedIsKept
<1>1. IInv /\ [Next]_vars => [form = "edit" /\ ~touched => stored' = stored]_vars
  <2> SUFFICES ASSUME IInv, [Next]_vars, form = "edit", ~touched, stored' # stored
               PROVE  FALSE
    OBVIOUS
  <2>1. Submit
    BY DEF Next, OpenNew, OpenEdit, SelectBall, SelectResult, Touch, Press, DidSelectRow,
       SwTechnicallyShotChangedValue, Cancel, Back, vars, fields
  <2>2. /\ stored \in ShotSet /\ (stored.technically = 1 => stored.mistakes = {})
        /\ selectedIndex = stored.ball - 1 /\ segment = stored.result
        /\ isOn = (stored.technically = 1) /\ dict = stored.mistakes
    BY DEF IInv, OpenedInv, StoredIsLegal
  <2>3. stored = [ball |-> stored.ball, result |-> stored.result,
                  technically |-> stored.technically, mistakes |-> stored.mistakes]
    BY <2>2 DEF ShotSet
  <2>4. /\ stored.ball = selectedIndex + 1
        /\ stored.technically = IF isOn THEN 1 ELSE 0
        /\ stored.mistakes = Mistakes
    <3>1. stored.ball \in 1 .. NumBalls /\ stored.technically \in {0, 1}
      BY <2>2 DEF ShotSet
    <3>2. stored.ball = selectedIndex + 1
      BY <2>2, <3>1, SizeAssumption
    <3> QED  BY <2>2, <3>1, <3>2 DEF Mistakes
  <2> QED  BY <2>1, <2>2, <2>3, <2>4 DEF Submit
<1> QED  BY <1>1, Invariant, PTL DEF Spec, UntouchedIsKept
=============================================================================
