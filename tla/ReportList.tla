----------------------------- MODULE ReportList -----------------------------
(***************************************************************************)
(* ReportManagerViewController: the reports in sections by day, the number *)
(* in the title of a new report, the alerts over the list, and the restore *)
(* that may replace every object under them.                               *)
(*                                                                         *)
(* A report is a Realm object: the view controllers keep references, which *)
(* are invalid once the object is deleted.  A day is TicksPerDay ticks and *)
(* begins at midnight, an instant that no Date() meets; but the time of a  *)
(* restored report has lost its fraction and may be midnight.              *)
(***************************************************************************)
EXTENDS Integers, FiniteSets, SequencesExt

CONSTANTS
  TicksPerDay,  \* ticks of a day
  Start,        \* the time at launch
  MaxTime,      \* bound: the last tick
  MaxReports,   \* bound: objects ever made
  Nil           \* no alert, no report

ASSUME TimeAssumption  == TicksPerDay \in Nat \ {0, 1} /\ Start \in Nat
ASSUME BoundAssumption == MaxTime \in Nat /\ MaxReports \in Nat /\ Nil \notin Nat

VARIABLES
  reports,     \* the objects in the database: [time, no], no = 0 once renamed
  reportData,  \* the list: a sequence of sections, each a sequence of objects
  screen,      \* "list", "away" (another screen is on top) or "crashed"
  alert,       \* the UIAlertController that is shown, or Nil
  edit,        \* the report of the EditReportAlert that is shown, or Nil
  cloud,       \* the reports a restore would bring, or Nil when none is coming
  now,         \* the device's clock
  made,        \* objects made so far
  irregular,   \* history: days with a deletion, or to which the clock was set back
  replaced     \* history: objects a restore has deleted

history == <<irregular, replaced>>
vars == <<reports, reportData, screen, alert, edit, cloud, now, made, history>>

Live       == DOMAIN reports
Day(t)     == t \div TicksPerDay
DayOf(r)   == Day(reports[r].time)
OnDay(d)   == {r \in Live : DayOf(r) = d}
Midnight(t) == t % TicksPerDay = 0

\* The place of r among the reports of its day.
Rank(r) == Cardinality({q \in OnDay(DayOf(r)) : reports[q].time <= reports[r].time})

-----------------------------------------------------------------------------
(* setupDatas.                                                             *)

\* Mutant: the last section is not closed.
ReportDataWithoutLast(days) == days.closed

ReportData(days) == Append(days.closed, days.open)

Put(data, days, r) ==
  LET d == Day(data[r].time)
  IN  IF d = days.date
      THEN [days EXCEPT !.open = Append(@, r)]
      ELSE [closed |-> Append(days.closed, days.open), open |-> <<r>>, date |-> d]

\* The sections after the loop over list, the last of them open.
Placed(data, list) ==
  LET days[n \in 0 .. Len(list)] ==
        IF n = 0
        THEN [closed |-> <<>>, open |-> <<>>, date |-> Day(data[list[1]].time)]
        ELSE Put(data, days[n - 1], list[n])
  IN  days[Len(list)]

\* The reports in data by falling time, and a new section wherever the day
\* changes.  Reports of the same time may come in any order.
SetupDatas(data) ==
  IF DOMAIN data = {} THEN reportData' = <<>>
  ELSE \E list \in SetToSeqs(DOMAIN data) :
         /\ \A i, j \in DOMAIN list : i < j => data[list[i]].time >= data[list[j]].time
         /\ reportData' = ReportData(Placed(data, list))

\* Reports at these times, numbered as the app numbers them.
Numbered(times, first) ==
  [r \in first .. first + Cardinality(times) - 1 |->
     LET t == CHOOSE t \in times :
                Cardinality({u \in times : u < t}) = r - first
     IN  [time |-> t, no |-> Cardinality({u \in times : Day(u) = Day(t) /\ u <= t})]]

\* The list is loaded: over reports of the phone, or empty with a restore due.
Init ==
  \E times \in SUBSET (0 .. Start - 1) :
    /\ \/ reports = Numbered(times, 1) /\ cloud = Nil
       \/ reports = <<>> /\ cloud = times /\ times # {}
    /\ reportData = <<>> /\ screen = "away" /\ alert = Nil /\ edit = Nil
    /\ now = Start /\ made = Cardinality(Live) /\ irregular = {} /\ replaced = {}

ViewWillAppear ==
  /\ screen = "away" /\ screen' = "list"
  /\ SetupDatas(reports)
  /\ UNCHANGED <<reports, alert, edit, cloud, now, made, history>>

-----------------------------------------------------------------------------
(* Adding and opening.                                                     *)

\* Mutant: the blur under the EditReportAlert lets touches through.
FreeButForAlerts == screen = "list" /\ alert = Nil
Free == screen = "list" /\ alert = Nil /\ edit = Nil

\* Mutant: the first section is taken for today's.
NumberInFirstSection ==
  (IF reportData = <<>> THEN 0 ELSE Len(reportData[1])) + 1

\* The reports later than today's midnight in the first section.
Number ==
  (IF reportData = <<>> THEN 0
   ELSE Cardinality({i \in DOMAIN reportData[1] :
          reports[reportData[1][i]].time > now - (now % TicksPerDay)})) + 1

Later(t) == IF Midnight(t + 1) THEN t + 2 ELSE t + 1

BtnAddNewWasTapped ==
  /\ Free
  /\ made < MaxReports /\ now < MaxTime
  /\ made' = made + 1
  /\ reports' = [r \in Live \cup {made'} |->
                   IF r = made' THEN [time |-> now, no |-> Number] ELSE reports[r]]
  /\ screen' = "away"
  /\ now' = Later(now)
  /\ UNCHANGED <<reportData, alert, edit, cloud, history>>

\* A row or the header of a section.
OpenReports ==
  /\ Free /\ reportData # <<>>
  /\ screen' = "away"
  /\ UNCHANGED <<reports, reportData, alert, edit, cloud, now, made, history>>

-----------------------------------------------------------------------------
(* The alerts.  The confirmation of a deletion keeps the index path of the *)
(* row; shown is a history, the report the row had when it was swiped.     *)

SwipeDelete(s, i) ==
  /\ Free
  /\ alert' = [kind |-> "delete", section |-> s, item |-> i, shown |-> reportData[s][i]]
  /\ UNCHANGED <<reports, reportData, screen, edit, cloud, now, made, history>>

ConfirmDelete ==
  /\ alert # Nil /\ alert.kind = "delete" /\ alert' = Nil
  /\ LET r == reportData[alert.section][alert.item]
     IN  /\ reports' = [q \in Live \ {r} |-> reports[q]]
         /\ irregular' = irregular \cup {DayOf(r)}
  /\ SetupDatas(reports')
  /\ UNCHANGED <<screen, edit, cloud, now, made, replaced>>

CancelAlert ==
  /\ alert # Nil /\ alert' = Nil
  /\ cloud' = IF alert.kind = "restore" THEN Nil ELSE cloud
  /\ UNCHANGED <<reports, reportData, screen, edit, now, made, history>>

SwipeEdit(s, i) ==
  /\ Free
  /\ edit' = reportData[s][i]
  /\ UNCHANGED <<reports, reportData, screen, alert, cloud, now, made, history>>

\* Copying a report that was deleted raises Realm's exception.
ConfirmEdit ==
  /\ screen = "list" /\ alert = Nil /\ edit # Nil
  /\ IF edit \in Live
     THEN /\ reports' = [reports EXCEPT ![edit].no = 0]
          /\ edit' = Nil /\ UNCHANGED screen
     ELSE screen' = "crashed" /\ UNCHANGED <<reports, edit>>
  /\ UNCHANGED <<reportData, alert, cloud, now, made, history>>

CancelEdit ==
  /\ screen = "list" /\ alert = Nil /\ edit # Nil /\ edit' = Nil
  /\ UNCHANGED <<reports, reportData, screen, alert, cloud, now, made, history>>

-----------------------------------------------------------------------------
(* The restore and the clock.                                              *)

\* localDataService.restoreData, and setupDatas in the completion.
RestoreData ==
  /\ reports' = Numbered(cloud, made + 1)
  /\ made' = made + Cardinality(cloud)
  /\ replaced' = replaced \cup Live
  /\ SetupDatas(reports')

\* Mutant: the reports are restored without a question.
FetchesDoneUnasked ==
  /\ cloud # Nil
  /\ RestoreData /\ cloud' = Nil
  /\ UNCHANGED <<screen, alert, edit, now, irregular>>

\* The question can be presented over the list and the EditReportAlert, but not
\* over an alert or from under another screen: then it is lost.
FetchesDone ==
  /\ cloud # Nil /\ (alert # Nil => alert.kind = "delete")
  /\ IF screen = "list" /\ alert = Nil
     THEN alert' = [kind |-> "restore"] /\ UNCHANGED cloud
     ELSE cloud' = Nil /\ UNCHANGED alert
  /\ UNCHANGED <<reports, reportData, screen, edit, now, made, history>>

ConfirmRestore ==
  /\ alert # Nil /\ alert.kind = "restore" /\ alert' = Nil
  /\ RestoreData /\ cloud' = Nil
  /\ UNCHANGED <<screen, edit, now, irregular>>

Tick ==
  /\ now < MaxTime
  /\ now' = Later(now)
  /\ UNCHANGED <<reports, reportData, screen, alert, edit, cloud, made, history>>

\* The user, or a journey, sets the device's clock back.
SetBack ==
  /\ \E t \in Start .. now - 1 :
       /\ ~Midnight(t)
       /\ now' = t
       /\ irregular' = irregular \cup (Day(t) .. Day(now))
  /\ UNCHANGED <<reports, reportData, screen, alert, edit, cloud, made, replaced>>

Next ==
  \/ ViewWillAppear \/ BtnAddNewWasTapped \/ OpenReports
  \/ \E s \in DOMAIN reportData : \E i \in DOMAIN reportData[s] :
       SwipeDelete(s, i) \/ SwipeEdit(s, i)
  \/ ConfirmDelete \/ CancelAlert \/ ConfirmEdit \/ CancelEdit
  \/ FetchesDone \/ ConfirmRestore
  \/ Tick \/ SetBack

Spec == Init /\ [][Next]_vars

-----------------------------------------------------------------------------
(* Properties.                                                             *)

\* The numbers of a day's reports count from 1 by their time, in a list loaded
\* yesterday too, and whatever a restore replaced: each new report is numbered
\* after those listed (125).  Exceptions: a day with a deletion, whose numbers
\* may repeat; one to which the clock was set back; and one with a restored
\* report at midnight exactly, which "> date" does not count.
NumbersInOrder ==
  \A r \in Live :
    \/ DayOf(r) \in irregular
    \/ \E q \in OnDay(DayOf(r)) : Midnight(reports[q].time)
    \/ reports[r].no \in {0, Rank(r)}

\* While the list is on the screen, its sections are the days that have reports,
\* the latest first, each with all of the day's reports that exist and no other
\* (101-113): also after a deletion or a restore under an alert.
SectionsAreDays ==
  screen = "list" =>
    /\ \A s \in DOMAIN reportData :
         /\ reportData[s] # <<>>
         /\ LET d == DayOf(reportData[s][1])
            IN  ToSet(reportData[s]) = OnDay(d) /\ Len(reportData[s]) = Cardinality(OnDay(d))
    /\ \A s, t \in DOMAIN reportData :
         s < t => DayOf(reportData[s][1]) > DayOf(reportData[t][1])
    /\ \A r \in Live : \E s \in DOMAIN reportData : r \in ToSet(reportData[s])

\* The report that a confirmed deletion removes is the one that was swiped,
\* though the closure reads the row only then (301).
DeletedIsSwiped ==
  alert # Nil /\ alert.kind = "delete" =>
    reportData[alert.section][alert.item] = alert.shown

\* The alert confirms the edit of a report that still exists, unless a restore
\* has replaced it in the meantime.
EditedExists == screen = "crashed" => edit \in replaced
=============================================================================
