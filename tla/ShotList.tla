------------------------------ MODULE ShotList ------------------------------
(***************************************************************************)
(* ShotDetailsViewController: the shots of one report, under a first row   *)
(* with its description, or of all the reports of a day, read only.  The   *)
(* rows are set up when the screen appears; swiped rows are kept as index  *)
(* paths; and the button for a new shot is enabled, or not, only once,     *)
(* while midnight may pass and the clock be set back.                      *)
(***************************************************************************)
EXTENDS Integers, FiniteSets, SequencesExt

CONSTANTS
  TicksPerDay,  \* ticks of a day; the reports of the screen are of day 1
  MaxTime,      \* bound: the last tick
  MaxShots,     \* bound: shots ever made
  Nil           \* no alert, no report

ASSUME TimeAssumption  == TicksPerDay \in Nat \ {0}
ASSUME BoundAssumption == MaxTime \in Nat /\ MaxShots \in Nat /\ Nil \notin Nat

VARIABLES
  shots,       \* the reports' objects in the database: the time of each
  many,        \* reportDatas.count > 1
  canAdd,      \* btnAddNew.isEnabled
  shotResult,  \* the objects as they were listed
  rows,        \* the rows the table has loaded
  screen,      \* "below" (not open), "list" or "away" (the form is on top)
  alert,       \* the row of the deletion to confirm, or Nil
  form,        \* the shot the form was opened for, 0 for a new one, or Nil
  now,         \* the device's clock
  made,        \* shots made so far
  shown,       \* history: the shot shown in the row of the alert or the form
  later        \* history: the shots made before the first report of another
               \* day, or Nil; begun anew when the clock is on the reports' day

vars == <<shots, many, canAdd, shotResult, rows, screen, alert, form, now, made,
          shown, later>>

\* The time of the reports and the clock give the same dd/MM/yyyy.
ReportsDay == TicksPerDay .. 2 * TicksPerDay - 1

\* The clock shows t.
SetClock(t) ==
  /\ now' = t
  /\ later' = IF t \in ReportsDay THEN Nil ELSE later

Offset == IF many THEN 0 ELSE 1

\* numberOfRowsInSection and cellForRowAt: the first row of a single report is
\* its description (Nil).
Loaded(list) == [item \in 0 .. Len(list) + Offset - 1 |->
                   IF ~many /\ item = 0 THEN Nil ELSE list[item - Offset + 1]]

\* setupDatas: the shots by rising time.
SetupDatas(data) ==
  \E list \in SetToSeqs(DOMAIN data) :
    /\ \A i, j \in DOMAIN list : i < j => data[list[i]] <= data[list[j]]
    /\ shotResult' = list
    /\ rows' = Loaded(list)

Init ==
  /\ many \in BOOLEAN
  /\ \E n \in 0 .. MaxShots : made = n /\ shots = [s \in 1 .. n |-> TicksPerDay]
  /\ canAdd = FALSE /\ shotResult = <<>> /\ rows = <<>>
  /\ screen = "below" /\ alert = Nil /\ form = Nil
  /\ now = TicksPerDay /\ shown = Nil /\ later = Nil

\* Mutant: the screen is kept, and opens again with the button as it was.
OpenKept ==
  /\ screen = "below" /\ screen' = "list"
  /\ canAdd' = (canAdd \/ (~many /\ now \in ReportsDay))
  /\ SetupDatas(shots)
  /\ UNCHANGED <<shots, many, alert, form, now, made, shown, later>>

\* viewDidLoad and viewWillAppear: every push makes a new screen.
Open ==
  /\ screen = "below" /\ screen' = "list"
  /\ canAdd' = (~many /\ now \in ReportsDay)
  /\ SetupDatas(shots)
  /\ UNCHANGED <<shots, many, alert, form, now, made, shown, later>>

-----------------------------------------------------------------------------
(* The rows.                                                               *)

Free == screen = "list" /\ alert = Nil

\* Mutant: the rows are taken from the last shot upwards.
ShotOfReversed(item) == shotResult[Len(shotResult) - (item - Offset)]

\* The object the closures and handlers take for a row.
ShotOf(item) == shotResult[item - Offset + 1]

\* A tap on a shot, or "edit" on the swiped row.
OpenForm(item) ==
  /\ Free /\ ~many /\ item > 0
  /\ form' = ShotOf(item) /\ screen' = "away" /\ shown' = rows[item]
  /\ UNCHANGED <<shots, many, canAdd, shotResult, rows, alert, now, made, later>>

BtnAddNewWasTapped ==
  /\ Free /\ canAdd
  /\ form' = 0 /\ screen' = "away"
  /\ UNCHANGED <<shots, many, canAdd, shotResult, rows, alert, now, made, shown, later>>

\* The form adds a shot, or updates the one it has, and the list appears again.
Submit ==
  /\ screen = "away" /\ screen' = "list" /\ form' = Nil
  /\ IF form = 0
     THEN /\ made < MaxShots /\ now < MaxTime
          /\ made' = made + 1 /\ SetClock(now + 1)
          /\ shots' = [s \in DOMAIN shots \cup {made'} |-> IF s = made' THEN now ELSE shots[s]]
     ELSE UNCHANGED <<shots, made, now, later>>
  /\ SetupDatas(shots')
  /\ UNCHANGED <<many, canAdd, alert, shown>>

\* The form is left with the back button.
Return ==
  /\ screen = "away" /\ screen' = "list" /\ form' = Nil
  /\ SetupDatas(shots)
  /\ UNCHANGED <<shots, many, canAdd, alert, now, made, shown, later>>

\* The first row opens the EditReportAlert; a swipe, the question of line 209.
OpenAlert(item) ==
  /\ Free /\ ~many
  /\ alert' = item /\ shown' = rows[item]
  /\ UNCHANGED <<shots, many, canAdd, shotResult, rows, screen, form, now, made, later>>

\* The rows are set up again after either alert is confirmed.
ConfirmEdit ==
  /\ alert = 0 /\ alert' = Nil
  /\ SetupDatas(shots)
  /\ UNCHANGED <<shots, many, canAdd, screen, form, now, made, shown, later>>

\* Mutant: the rows are not set up again.
ConfirmDeleteWithoutSetup ==
  /\ alert \notin {Nil, 0} /\ alert' = Nil
  /\ shots' = [s \in DOMAIN shots \ {ShotOf(alert)} |-> shots[s]]
  /\ UNCHANGED <<many, canAdd, shotResult, rows, screen, form, now, made, shown, later>>

ConfirmDelete ==
  /\ alert \notin {Nil, 0} /\ alert' = Nil
  /\ shots' = [s \in DOMAIN shots \ {ShotOf(alert)} |-> shots[s]]
  /\ SetupDatas(shots')
  /\ UNCHANGED <<many, canAdd, screen, form, now, made, shown, later>>

CancelAlert ==
  /\ alert # Nil /\ alert' = Nil
  /\ UNCHANGED <<shots, many, canAdd, shotResult, rows, screen, form, now, made, shown, later>>

Close ==
  /\ Free /\ screen' = "below"
  /\ UNCHANGED <<shots, many, canAdd, shotResult, rows, alert, form, now, made, shown, later>>

\* The list of reports, below, begins a report of another day.
AddReport ==
  /\ screen = "below" /\ now \notin ReportsDay
  /\ later' = IF later = Nil THEN made ELSE later
  /\ UNCHANGED <<shots, many, canAdd, shotResult, rows, screen, alert, form, now, made, shown>>

\* The clock goes on, or the user or a journey sets it back.
ClockChanges ==
  /\ \E t \in 0 .. now + 1 : t # now /\ t <= MaxTime /\ SetClock(t)
  /\ UNCHANGED <<shots, many, canAdd, shotResult, rows, screen, alert, form, made, shown>>

Next ==
  \/ Open \/ Close \/ BtnAddNewWasTapped \/ Submit \/ Return
  \/ \E item \in DOMAIN rows : OpenForm(item) \/ OpenAlert(item)
  \/ ConfirmEdit \/ ConfirmDelete \/ CancelAlert
  \/ AddReport \/ ClockChanges

Spec == Init /\ [][Next]_vars

-----------------------------------------------------------------------------
(* Properties.                                                             *)

\* What an alert deletes and what the form edits is the shot that was shown in
\* the row, though under a single report the rows are one off the shots.
TargetIsShown ==
  /\ alert \notin {Nil, 0} => ShotOf(alert) = shown
  /\ form \notin {Nil, 0} => form = shown

\* The table never has a row of a deleted shot, nor misses one, and lists them
\* by time: reading a deleted object would raise Realm's exception.
ListIsCurrent ==
  screen = "list" =>
    LET items == {item \in DOMAIN rows : rows[item] # Nil}
    IN  /\ {rows[item] : item \in items} = DOMAIN shots
        /\ Cardinality(items) = Cardinality(DOMAIN shots)
        /\ \A i, j \in items : i < j => shots[rows[i]] <= shots[rows[j]]

\* Once a report of another day has been begun, no shot is added to the report of
\* this screen until its day is the clock's again, so the shots of two days come
\* one after the other.  The button is enabled for good when the screen opens (44),
\* and midnight may pass over the list and the form; what holds the days apart is
\* that a report can only be begun from below, and every return looks at the day.
DaysStayApart ==
  later # Nil => \A s \in DOMAIN shots : s <= later
=============================================================================
