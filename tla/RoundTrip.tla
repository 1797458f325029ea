----------------------------- MODULE RoundTrip ------------------------------
(***************************************************************************)
(* The journey of the models through the cloud: getJSONData when an object *)
(* is uploaded, and the Mappable initialisers when a new installation      *)
(* restores the documents.  Content stands for every field but the time,   *)
(* and is what both directions carry; a second is TicksPerSecond ticks of  *)
(* the time that a Date has.                                               *)
(***************************************************************************)
EXTENDS Integers, FiniteSets

CONSTANTS
  NumReports, NumShots,  \* identifiers, by the order in which Firestore lists them
  TicksPerSecond,
  MaxEdits,              \* bound: edits of the user
  MaxInstalls,           \* bound: installations after the first
  Nil                    \* the field that is not in a document

ASSUME SizeAssumption ==
  /\ NumReports \in Nat /\ NumShots \in Nat /\ TicksPerSecond \in Nat \ {0}
  /\ MaxEdits \in Nat /\ MaxInstalls \in Nat /\ Nil \notin Nat

Reports == 1 .. NumReports
Shots   == NumReports + 1 .. NumReports + NumShots
Ids     == Reports \cup Shots

VARIABLES
  phone,     \* the objects in the local database
  cloud,     \* the documents
  now,       \* the device's clock
  edits, installs,
  born,      \* history: when each object was created
  together   \* history: the shots of the phone that the last restore brought

vars == <<phone, cloud, now, edits, installs, born, together>>

None == [i \in {} |-> Nil]
With(f, i, x) == [j \in DOMAIN f \cup {i} |-> IF j = i THEN x ELSE f[j]]

Init ==
  /\ phone = None /\ cloud = None /\ born = None /\ together = {}
  /\ now \in 0 .. TicksPerSecond - 1
  /\ edits = 0 /\ installs = 0

-----------------------------------------------------------------------------
(* The models.                                                             *)

\* getJSONData: a report's document has its time, a shot's has not.
JSONData(i, o) ==
  [content |-> o.content, time |-> IF i \in Reports THEN o.time ELSE Nil]

\* Mutant: the time is rounded, not cut.
DateRounded(t) == ((t + TicksPerSecond - 1) \div TicksPerSecond) * TicksPerSecond

\* getDateFormatted: written as text and read again, a date loses its fraction.
DateFormatted(t) == (t \div TicksPerSecond) * TicksPerSecond

\* mapping: a time that is not in the document becomes the present.
Mapped(doc, date) ==
  [content |-> doc.content,
   time    |-> IF doc.time = Nil THEN date ELSE DateFormatted(doc.time)]

\* Mutant: a copy is a new object with a new time.
CopyNow(o) == [o EXCEPT !.time = now]

\* copy keeps the time (and the identifier).
Copy(o) == o

-----------------------------------------------------------------------------
AddObject(i) ==
  /\ i \notin DOMAIN born
  /\ phone' = With(phone, i, [content |-> 0, time |-> now])
  /\ born' = With(born, i, now)
  /\ now' = now + 1
  /\ UNCHANGED <<cloud, edits, installs, together>>

\* The screens edit a copy and update the object with it.
EditObject(i) ==
  /\ i \in DOMAIN phone
  /\ edits < MaxEdits /\ edits' = edits + 1
  /\ phone' = [phone EXCEPT ![i] = [Copy(@) EXCEPT !.content = edits + 1]]
  /\ now' = now + 1
  /\ UNCHANGED <<cloud, installs, born, together>>

\* A merged write or an addition of a backup.
Upload(i) ==
  /\ i \in DOMAIN phone
  /\ cloud' = With(cloud, i, JSONData(i, phone[i]))
  /\ UNCHANGED <<phone, now, edits, installs, born, together>>

Reinstall ==
  /\ phone # None /\ phone' = None
  /\ installs < MaxInstalls /\ installs' = installs + 1
  /\ together' = {}
  /\ UNCHANGED <<cloud, now, edits, born>>

\* The documents are mapped one after the other, in the order of their
\* identifiers, each with a Date() of its own.
Restore ==
  /\ phone = None /\ cloud # None
  /\ phone' = [i \in DOMAIN cloud |->
       Mapped(cloud[i], now + Cardinality({j \in DOMAIN cloud : j < i}))]
  /\ now' = now + Cardinality(DOMAIN cloud)
  /\ together' = DOMAIN cloud \cap Shots
  /\ UNCHANGED <<cloud, edits, installs, born>>

Next ==
  \/ \E i \in Ids : AddObject(i) \/ EditObject(i) \/ Upload(i)
  \/ Reinstall \/ Restore

Spec == Init /\ [][Next]_vars

-----------------------------------------------------------------------------
(* Properties.                                                             *)

\* The time of a report stays the second in which it was created, after any
\* number of uploads, edits and restores: so reports keep their day and, but
\* for those of one second, their order in the list.
ReportTimesStay ==
  \A r \in Reports \cap DOMAIN phone :
    phone[r].time \in {born[r], born[r] - (born[r] % TicksPerSecond)}

\* The screens list a report's shots in the order in which they were made (the
\* shot list and the statistics sort by time), edited or not, unless the same
\* restore brought both.
ShotsInOrder ==
  \A s, t \in Shots \cap DOMAIN phone :
    born[s] < born[t] => phone[s].time < phone[t].time \/ {s, t} \subseteq together

\* The mapping reads a time from the document of a shot (ShotModel 102-104), so
\* that a restore keeps the order of the shots.
RestoredInOrder ==
  \A s, t \in together : born[s] < born[t] => phone[s].time < phone[t].time
=============================================================================
