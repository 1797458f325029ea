--------------------------- MODULE ShotListProofs ---------------------------
(***************************************************************************)
(* The list of shots, for any numbers of shots, instants and days.         *)
(***************************************************************************)
EXTENDS ShotList, FiniteSetTheorems, TLAPS

\* The list has every shot of the database once, by rising time, and the table
\* has the rows of the list.
Listed ==
  /\ shotResult \in Seq(DOMAIN shots)
  /\ \A i, j \in 1 .. Len(shotResult) : shotResult[i] = shotResult[j] => i = j
  /\ \A s \in DOMAIN shots : \E i \in 1 .. Len(shotResult) : shotResult[i] = s
  /\ \A i, j \in 1 .. Len(shotResult) :
       i < j => shots[shotResult[i]] <= shots[shotResult[j]]
  /\ rows = Loaded(shotResult)

\* Shots are numbered from 1.
ShotsInv == many \in BOOLEAN /\ made \in Nat /\ DOMAIN shots \subseteq 1 .. made

\* What is on the screen, and what may be over it.
ScreenInv ==
  /\ screen = "list" => Listed
  /\ screen # "list" => alert = Nil
  /\ screen # "away" => form = Nil
  /\ alert # Nil => ~many /\ alert \in DOMAIN rows

\* A shot is being added, or can be, only while no later report has been begun:
\* begun from below, it finds no screen whose button is enabled.
DaysInv ==
  /\ later # Nil => later \in Nat /\ made <= later
  /\ now \in ReportsDay => later = Nil
  /\ screen # "below" /\ canAdd => later = Nil
  /\ form = 0 => later = Nil

IInv == ShotsInv /\ ScreenInv /\ DaysInv /\ TargetIsShown

LEMMA NilIsNotZero == Nil # 0
  BY BoundAssumption

-----------------------------------------------------------------------------
(* Setting up the list.                                                    *)

LEMMA SetupLists ==
  ASSUME ShotsInv', many' = many, NEW data, data = shots', SetupDatas(data)
  PROVE  Listed'
<1> DEFINE D == DOMAIN data
           n == Cardinality(D)
<1>1. IsFiniteSet(D)
  <2>1. made' \in Nat /\ D \subseteq 1 .. made'
    BY DEF ShotsInv
  <2>2. IsFiniteSet(1 .. made')
    BY <2>1, FS_Interval
  <2> QED
    BY <2>1, <2>2, FS_Subset
<1>2. n \in Nat
  BY <1>1, FS_CardinalityType
<1>3. PICK list \in SetToSeqs(D) :
        /\ \A i, j \in DOMAIN list : i < j => data[list[i]] <= data[list[j]]
        /\ shotResult' = list
        /\ rows' = Loaded(list)
  BY DEF SetupDatas
<1>4. list \in [1 .. n -> D] /\ \A i, j \in 1 .. n : i # j => list[i] # list[j]
  BY DEF SetToSeqs
<1> HIDE DEF D, n
<1>5. list \in Seq(D) /\ Len(list) = n /\ DOMAIN list = 1 .. n
  BY <1>2, <1>4
<1>6. \A s \in D : \E i \in 1 .. n : list[i] = s
  <2>1. IsFiniteSet(1 .. n) /\ Cardinality(1 .. n) = n
    BY <1>2, FS_Interval
  <2>2. list \in Injection(1 .. n, D)
    BY <1>4 DEF Injection, IsInjective
  <2>3. list \in Surjection(1 .. n, D)
    BY <1>1, <2>1, <2>2, FS_Injection DEF n
  <2> QED
    BY <2>3 DEF Surjection
<1>7. rows' = Loaded(shotResult)'
  BY <1>3 DEF Loaded, Offset
<1> QED
  BY <1>3, <1>4, <1>5, <1>6, <1>7 DEF Listed, D

\* A row of a listed table, and the shot that is taken for it.
LEMMA RowOfShot ==
  ASSUME ShotsInv, Listed
  PROVE  /\ DOMAIN rows = 0 .. Len(shotResult) + Offset - 1
         /\ Len(shotResult) \in Nat /\ Offset \in {0, 1}
         /\ \A item \in DOMAIN rows :
              IF ~many /\ item = 0 THEN rows[item] = Nil
              ELSE /\ rows[item] = ShotOf(item)
                   /\ item - Offset + 1 \in 1 .. Len(shotResult)
                   /\ ShotOf(item) \in DOMAIN shots
                   /\ ShotOf(item) # Nil /\ ShotOf(item) # 0
<1>1. /\ DOMAIN rows = 0 .. Len(shotResult) + Offset - 1
      /\ Len(shotResult) \in Nat /\ Offset \in {0, 1}
  BY DEF Listed, Loaded, Offset
<1>2. ASSUME NEW item \in DOMAIN rows, ~(~many /\ item = 0)
      PROVE  /\ rows[item] = ShotOf(item)
             /\ item - Offset + 1 \in 1 .. Len(shotResult)
             /\ ShotOf(item) \in DOMAIN shots
             /\ ShotOf(item) # Nil /\ ShotOf(item) # 0
  <2>1. rows[item] = ShotOf(item)
    BY <1>1, <1>2 DEF Listed, Loaded, ShotOf
  <2>2. item - Offset + 1 \in 1 .. Len(shotResult)
    BY <1>1, <1>2 DEF Offset
  <2>3. ShotOf(item) \in DOMAIN shots
    BY <2>2 DEF Listed, ShotOf
  <2>4. ShotOf(item) \in Nat \ {0}
    BY <2>3 DEF ShotsInv
  <2> QED
    BY <2>1, <2>2, <2>3, <2>4, BoundAssumption
<1>3. \A item \in DOMAIN rows : ~many /\ item = 0 => rows[item] = Nil
  BY <1>1 DEF Listed, Loaded
<1> QED
  BY <1>1, <1>2, <1>3

-----------------------------------------------------------------------------
(* The invariant.                                                          *)

LEMMA InitInv == Init => IInv
<1> SUFFICES ASSUME Init
             PROVE  IInv
  OBVIOUS
<1>1. PICK n \in 0 .. MaxShots : made = n /\ shots = [s \in 1 .. n |-> TicksPerDay]
  BY DEF Init
<1>2. ShotsInv
  BY <1>1, BoundAssumption DEF Init, ShotsInv
<1> QED
  BY <1>2, NilIsNotZero DEF Init, IInv, ScreenInv, DaysInv, TargetIsShown

\* The screen opens or comes back, or an alert is confirmed: the list is set up.
LEMMA SetupInv ==
  ASSUME IInv, ShotsInv', DaysInv', many' = many,
         SetupDatas(shots'), screen' = "list", form' = Nil, alert' = Nil
  PROVE  IInv'
<1>1. Listed'
  BY SetupLists
<1> QED
  BY <1>1 DEF IInv, ScreenInv, TargetIsShown

LEMMA OpenInv == IInv /\ Open => IInv'
<1> SUFFICES ASSUME IInv, Open
             PROVE  IInv'
  OBVIOUS
<1>1. ShotsInv' /\ many' = many /\ screen' = "list" /\ form' = Nil /\ alert' = Nil
  BY DEF Open, IInv, ShotsInv, ScreenInv
<1>2. DaysInv'
  BY <1>1, NilIsNotZero DEF Open, IInv, DaysInv
<1>3. SetupDatas(shots')
  BY DEF Open
<1> QED
  BY <1>1, <1>2, <1>3, SetupInv

\* The clock may forget a later report, never know of one.
LEMMA ClockSet ==
  ASSUME NEW t, SetClock(t)
  PROVE  /\ later' \in {later, Nil}
         /\ now' \in ReportsDay => later' = Nil
  BY DEF SetClock, ReportsDay

LEMMA SubmitInv == IInv /\ (Submit \/ Return) => IInv'
<1> SUFFICES ASSUME IInv, Submit \/ Return
             PROVE  IInv'
  OBVIOUS
<1>1. many' = many /\ screen' = "list" /\ form' = Nil /\ alert' = Nil /\ canAdd' = canAdd
  BY DEF Submit, Return, IInv, ScreenInv
<1>2. ShotsInv' /\ DaysInv'
  <2>1. CASE UNCHANGED <<shots, made, now, later>>
    <3>1. ShotsInv'
      BY <1>1, <2>1 DEF IInv, ShotsInv
    <3>2. screen # "below"
      BY DEF Submit, Return
    <3>3. DaysInv'
      BY <1>1, <2>1, <3>2, NilIsNotZero DEF IInv, DaysInv, ReportsDay
    <3> QED
      BY <3>1, <3>3
  <2>2. CASE /\ form = 0 /\ made' = made + 1 /\ SetClock(now + 1)
             /\ shots' = [s \in DOMAIN shots \cup {made'} |->
                            IF s = made' THEN now ELSE shots[s]]
    <3>1. DOMAIN shots' = DOMAIN shots \cup {made + 1}
      BY <2>2
    <3>2. ShotsInv'
      BY <1>1, <2>2, <3>1 DEF IInv, ShotsInv
    <3>3. later' = Nil
      BY <2>2, ClockSet DEF IInv, DaysInv
    <3> QED
      BY <3>2, <3>3 DEF DaysInv
  <2> QED
    BY <2>1, <2>2 DEF Submit, Return
<1>3. SetupDatas(shots')
  BY DEF Submit, Return
<1> QED
  BY <1>1, <1>2, <1>3, SetupInv

LEMMA ConfirmInv == IInv /\ (ConfirmEdit \/ ConfirmDelete) => IInv'
<1> SUFFICES ASSUME IInv, ConfirmEdit \/ ConfirmDelete
             PROVE  IInv'
  OBVIOUS
<1>1. alert # Nil
  BY NilIsNotZero DEF ConfirmEdit, ConfirmDelete
<1>2. screen = "list" /\ form = Nil
  BY <1>1 DEF IInv, ScreenInv
<1>3. /\ many' = many /\ screen' = "list" /\ form' = Nil /\ alert' = Nil
      /\ canAdd' = canAdd /\ later' = later
  BY <1>2 DEF ConfirmEdit, ConfirmDelete
<1>4. ShotsInv'
  BY <1>3 DEF ConfirmEdit, ConfirmDelete, IInv, ShotsInv
<1>5. DaysInv'
  <2>1. UNCHANGED <<made, now>>
    BY DEF ConfirmEdit, ConfirmDelete
  <2> QED
    BY <1>2, <1>3, <2>1, NilIsNotZero DEF IInv, DaysInv, ReportsDay
<1>6. SetupDatas(shots')
  BY DEF ConfirmEdit, ConfirmDelete
<1> QED
  BY <1>3, <1>4, <1>5, <1>6, SetupInv

\* What keeps the list and the table.
LEMMA SameList ==
  ASSUME UNCHANGED <<shots, many, shotResult, rows, made>>
  PROVE  /\ ShotsInv' <=> ShotsInv
         /\ Listed' <=> Listed
         /\ \A item : ShotOf(item)' = ShotOf(item)
BY DEF ShotsInv, Listed, Loaded, Offset, ShotOf

LEMMA OpenFormInv ==
  ASSUME IInv, NEW item \in DOMAIN rows, OpenForm(item)
  PROVE  IInv'
<1>1. /\ UNCHANGED <<shots, many, canAdd, shotResult, rows, alert, now, made, later>>
      /\ screen = "list" /\ alert = Nil /\ ~many /\ item > 0
      /\ form' = ShotOf(item) /\ screen' = "away" /\ shown' = rows[item]
  BY DEF OpenForm, Free
<1>2. rows[item] = ShotOf(item) /\ ShotOf(item) # 0
  BY <1>1, RowOfShot DEF IInv, ScreenInv
<1> QED
  BY <1>1, <1>2, SameList DEF IInv, ScreenInv, DaysInv, TargetIsShown, ReportsDay

LEMMA OpenAlertInv ==
  ASSUME IInv, NEW item \in DOMAIN rows, OpenAlert(item)
  PROVE  IInv'
<1>1. /\ UNCHANGED <<shots, many, canAdd, shotResult, rows, screen, form, now, made, later>>
      /\ screen = "list" /\ ~many
      /\ alert' = item /\ shown' = rows[item]
  BY DEF OpenAlert, Free
<1>2. item # 0 => rows[item] = ShotOf(item)
  BY <1>1, RowOfShot DEF IInv, ScreenInv
<1> QED
  BY <1>1, <1>2, SameList DEF IInv, ScreenInv, DaysInv, TargetIsShown, ReportsDay

LEMMA OtherInv ==
  ASSUME IInv, BtnAddNewWasTapped \/ CancelAlert \/ Close \/ UNCHANGED vars
  PROVE  IInv'
<1>1. UNCHANGED <<shots, many, canAdd, shotResult, rows, now, made, shown, later>>
  BY DEF BtnAddNewWasTapped, CancelAlert, Close, vars
<1>2. ReportsDay' = ReportsDay
  BY DEF ReportsDay
<1>3. CASE BtnAddNewWasTapped
  BY <1>1, <1>2, <1>3, SameList
     DEF BtnAddNewWasTapped, Free, IInv, ScreenInv, DaysInv, TargetIsShown
<1>4. CASE CancelAlert
  BY <1>1, <1>2, <1>4, SameList DEF CancelAlert, IInv, ScreenInv, DaysInv, TargetIsShown
<1>5. CASE Close
  BY <1>1, <1>2, <1>5, SameList DEF Close, Free, IInv, ScreenInv, DaysInv, TargetIsShown
<1>6. CASE UNCHANGED vars
  BY <1>1, <1>2, <1>6, SameList DEF vars, IInv, ScreenInv, DaysInv, TargetIsShown
<1> QED
  BY <1>3, <1>4, <1>5, <1>6

\* A report of another day, and the clock.
LEMMA DaysPass ==
  ASSUME IInv, AddReport \/ ClockChanges
  PROVE  IInv'
<1>1. UNCHANGED <<shots, many, canAdd, shotResult, rows, screen, alert, form, made, shown>>
  BY DEF AddReport, ClockChanges
<1>2. ShotsInv' /\ ScreenInv' /\ TargetIsShown'
  BY <1>1, SameList DEF IInv, ScreenInv, TargetIsShown
<1>3. CASE AddReport
  <2>1. screen = "below" /\ form # 0
    BY <1>3, NilIsNotZero DEF AddReport, IInv, ScreenInv
  <2>2. now' = now /\ now \notin ReportsDay /\ later' = IF later = Nil THEN made ELSE later
    BY <1>3 DEF AddReport
  <2>3. DaysInv'
    BY <1>1, <2>1, <2>2 DEF IInv, DaysInv, ShotsInv, ReportsDay
  <2> QED
    BY <1>2, <2>3 DEF IInv
<1>4. CASE ClockChanges
  <2>1. PICK t \in 0 .. now + 1 : SetClock(t)
    BY <1>4 DEF ClockChanges
  <2>2. /\ later' \in {later, Nil}
        /\ (now \in ReportsDay)' => later' = Nil
    BY <2>1, ClockSet DEF ReportsDay
  <2>3. DaysInv'
    BY <1>1, <2>2 DEF IInv, DaysInv
  <2> QED
    BY <1>2, <2>3 DEF IInv
<1> QED
  BY <1>3, <1>4

LEMMA NextInv == IInv /\ [Next]_vars => IInv'
  BY OpenInv, SubmitInv, ConfirmInv, OpenFormInv, OpenAlertInv, OtherInv, DaysPass DEF Next

LEMMA Invariant == Spec => []IInv
  BY InitInv, NextInv, PTL DEF Spec

-----------------------------------------------------------------------------
(* The properties.                                                         *)

\* What is deleted or edited is the shot that was shown in the row.
THEOREM TargetShown == Spec => []TargetIsShown
<1>1. IInv => TargetIsShown
  BY DEF IInv
<1> QED
  BY <1>1, Invariant, PTL

LEMMA ListedIsCurrent ==
  ASSUME ShotsInv, Listed
  PROVE  LET items == {item \in DOMAIN rows : rows[item] # Nil}
         IN  /\ {rows[item] : item \in items} = DOMAIN shots
             /\ Cardinality(items) = Cardinality(DOMAIN shots)
             /\ \A i, j \in items : i < j => shots[rows[i]] <= shots[rows[j]]
<1> DEFINE items == {item \in DOMAIN rows : rows[item] # Nil}
           len == Len(shotResult)
<1>1. /\ DOMAIN rows = 0 .. len + Offset - 1 /\ len \in Nat /\ Offset \in {0, 1}
      /\ Offset = 1 <=> ~many
  BY RowOfShot DEF Offset, ShotsInv
<1>2. items = Offset .. len + Offset - 1
  <2>1. \A item \in DOMAIN rows : rows[item] # Nil <=> item >= Offset
    BY <1>1, RowOfShot
  <2> QED
    BY <1>1, <2>1
<1>3. \A item \in items :
        /\ item - Offset + 1 \in 1 .. len
        /\ rows[item] = shotResult[item - Offset + 1]
        /\ rows[item] \in DOMAIN shots
  BY <1>1, <1>2, RowOfShot DEF ShotOf
<1>4. \A k \in 1 .. len : k + Offset - 1 \in items /\ (k + Offset - 1) - Offset + 1 = k
  BY <1>1, <1>2
<1> HIDE DEF items
<1>5. \A s \in DOMAIN shots : \E item \in items : rows[item] = s
  <2> TAKE s \in DOMAIN shots
  <2>1. PICK k \in 1 .. len : shotResult[k] = s
    BY DEF Listed
  <2>2. k + Offset - 1 \in items /\ rows[k + Offset - 1] = shotResult[k]
    BY <1>3, <1>4
  <2> QED
    BY <2>1, <2>2
<1>6. {rows[item] : item \in items} = DOMAIN shots
  BY <1>3, <1>5
<1>7. Cardinality(items) = Cardinality(DOMAIN shots)
  <2> DEFINE f == [item \in items |-> rows[item]]
  <2>1. f \in [items -> DOMAIN shots]
    BY <1>3
  <2>2. \A a, b \in items : f[a] = f[b] => a = b
    <3> SUFFICES ASSUME NEW a \in items, NEW b \in items, rows[a] = rows[b]
                 PROVE  a = b
      OBVIOUS
    <3>1. \A k, m \in 1 .. len : shotResult[k] = shotResult[m] => k = m
      BY DEF Listed
    <3>2. a - Offset + 1 = b - Offset + 1
      BY <1>3, <3>1, Zenon
    <3> QED
      BY <1>1, <1>2, <3>2
  <2>3. \A s \in DOMAIN shots : \E item \in items : f[item] = s
    BY <1>5
  <2>4. f \in Bijection(items, DOMAIN shots)
    BY <2>1, <2>2, <2>3 DEF Bijection, Injection, Surjection, IsInjective
  <2>5. IsFiniteSet(items)
    BY <1>1, <1>2, FS_Interval
  <2> QED
    BY <2>4, <2>5, FS_Bijection DEF ExistsBijection
<1>8. \A i, j \in items : i < j => shots[rows[i]] <= shots[rows[j]]
  <2> SUFFICES ASSUME NEW i \in items, NEW j \in items, i < j
               PROVE  shots[rows[i]] <= shots[rows[j]]
    OBVIOUS
  <2>1. i - Offset + 1 < j - Offset + 1
    BY <1>1, <1>2
  <2>2. \A k, m \in 1 .. len : k < m => shots[shotResult[k]] <= shots[shotResult[m]]
    BY DEF Listed
  <2> QED
    BY <1>3, <2>1, <2>2, Zenon
<1> QED
  BY <1>6, <1>7, <1>8 DEF items

\* The table has one row for each shot there is, and they are in order.
THEOREM ListCurrent == Spec => []ListIsCurrent
<1>1. IInv => ListIsCurrent
  BY ListedIsCurrent DEF IInv, ScreenInv, ListIsCurrent
<1> QED
  BY <1>1, Invariant, PTL

\* No shot is added to a report once one of another day has been begun, unless the
\* clock is on the report's day again, however long its screens stay open.
THEOREM DaysAreApart == Spec => []DaysStayApart
<1>1. IInv => DaysStayApart
  BY DEF IInv, DaysInv, ShotsInv, DaysStayApart
<1> QED
  BY <1>1, Invariant, PTL

=============================================================================
