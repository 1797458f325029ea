--------------------------- MODULE RoundTripProofs ---------------------------
(***************************************************************************)
(* The times of the objects on their way through the cloud, for any        *)
(* numbers of reports, shots, edits and installations.                     *)
(***************************************************************************)
EXTENDS RoundTrip, FiniteSetTheorems, TLAPS

Second(t) == t - (t % TicksPerSecond)

\* Everything on the phone or in the cloud was created, and before now.
BornInv ==
  /\ now \in Nat
  /\ \A i \in DOMAIN born : i \in Ids /\ born[i] \in Nat /\ born[i] < now
  /\ DOMAIN phone \subseteq DOMAIN born /\ DOMAIN cloud \subseteq DOMAIN born
  /\ together \subseteq Shots \cap DOMAIN phone
  /\ \A i \in DOMAIN phone :
       phone[i] = [content |-> phone[i].content, time |-> phone[i].time]

\* The documents keep what the phone's objects have.
ReportInv ==
  /\ ReportTimesStay
  /\ \A r \in Reports \cap DOMAIN cloud : cloud[r].time \in {born[r], Second(born[r])}

\* A shot that was made in this installation has the time of its making; it is
\* later than those of the restore.
ShotInv ==
  /\ \A s \in Shots \cap DOMAIN phone : phone[s].time \in Nat /\ phone[s].time < now
  /\ \A s \in Shots \cap DOMAIN cloud : cloud[s].time = Nil
  /\ \A s \in (Shots \cap DOMAIN phone) \ together : phone[s].time = born[s]
  /\ \A s \in (Shots \cap DOMAIN phone) \ together : \A t \in together :
       born[t] < born[s] /\ phone[t].time < phone[s].time

IInv == BornInv /\ ReportInv /\ ShotInv

-----------------------------------------------------------------------------
(* Identifiers and times.                                                  *)

LEMMA IdFacts ==
  /\ Reports \subseteq Nat /\ Shots \subseteq Nat /\ Reports \cap Shots = {}
  /\ Ids = Reports \cup Shots /\ IsFiniteSet(Ids)
<1>1. NumReports \in Nat /\ NumShots \in Nat
  BY SizeAssumption
<1>2. IsFiniteSet(Reports) /\ IsFiniteSet(Shots)
  BY <1>1, FS_Interval DEF Reports, Shots
<1>3. IsFiniteSet(Reports \cup Shots)
  BY <1>2, FS_Union, Zenon
<1>4. Reports \subseteq Nat /\ Shots \subseteq Nat /\ Reports \cap Shots = {}
  BY <1>1 DEF Reports, Shots
<1> QED
  BY <1>3, <1>4 DEF Ids

\* Writing a time as text and reading it again leaves the second it is in.
LEMMA DateFormattedFacts ==
  ASSUME NEW t \in Nat
  PROVE  /\ DateFormatted(t) = Second(t)
         /\ DateFormatted(Second(t)) = Second(t)
         /\ Second(t) \in Nat
<1> DEFINE K == TicksPerSecond
           q == t \div K
           r == t % K
<1>1. K \in Nat /\ K > 0
  BY SizeAssumption
<1>2. q \in Nat /\ r \in 0 .. K - 1 /\ t = K * q + r
  BY <1>1
<1>3. (K * q) \div K = q
  BY <1>1, <1>2
<1>4. Second(t) = K * q /\ DateFormatted(t) = q * K
  BY <1>1, <1>2 DEF DateFormatted, Second
<1>5. K * q = q * K /\ K * q \in Nat
  BY <1>1, <1>2
<1>6. DateFormatted(Second(t)) = q * K
  BY <1>3, <1>4 DEF DateFormatted
<1> QED
  BY <1>4, <1>5, <1>6

LEMMA NoneFacts == DOMAIN None = {}
  BY DEF None

-----------------------------------------------------------------------------
(* The steps.                                                              *)

LEMMA InitInv == Init => IInv
<1> SUFFICES ASSUME Init
             PROVE  IInv
  OBVIOUS
<1>1. DOMAIN phone = {} /\ DOMAIN cloud = {} /\ DOMAIN born = {}
  BY NoneFacts DEF Init
<1>2. now \in Nat
  BY SizeAssumption DEF Init
<1>3. BornInv
  BY <1>1, <1>2 DEF Init, BornInv
<1>4. ReportInv
  BY <1>1 DEF ReportInv, ReportTimesStay
<1>5. ShotInv
  BY <1>1 DEF ShotInv
<1> QED
  BY <1>3, <1>4, <1>5 DEF IInv

\* A new object is later than everything.
LEMMA AddInv ==
  ASSUME IInv, NEW i \in Ids, AddObject(i)
  PROVE  IInv'
<1>1. /\ DOMAIN phone' = DOMAIN phone \cup {i} /\ DOMAIN born' = DOMAIN born \cup {i}
      /\ phone'[i] = [content |-> 0, time |-> now] /\ born'[i] = now
      /\ \A j \in DOMAIN phone \ {i} : phone'[j] = phone[j]
      /\ \A j \in DOMAIN born \ {i} : born'[j] = born[j]
  <2>1. /\ phone' = With(phone, i, [content |-> 0, time |-> now])
        /\ born' = With(born, i, now)
    BY DEF AddObject
  <2>2. /\ DOMAIN phone' = DOMAIN phone \cup {i}
        /\ phone'[i] = [content |-> 0, time |-> now]
        /\ \A j \in DOMAIN phone \ {i} : phone'[j] = phone[j]
    BY <2>1 DEF With
  <2>3. /\ DOMAIN born' = DOMAIN born \cup {i} /\ born'[i] = now
        /\ \A j \in DOMAIN born \ {i} : born'[j] = born[j]
    BY <2>1 DEF With
  <2> QED
    BY <2>2, <2>3
<1>2. /\ i \notin DOMAIN born /\ now' = now + 1 /\ now \in Nat
      /\ UNCHANGED <<cloud, together>>
  BY DEF AddObject, IInv, BornInv
<1>3. BornInv'
  BY <1>1, <1>2 DEF IInv, BornInv
<1>4. ReportInv'
  <2>1. \A j \in DOMAIN phone \cup DOMAIN cloud : j # i /\ born'[j] = born[j]
    BY <1>1, <1>2 DEF IInv, BornInv
  <2>2. phone'[i].time = now
    BY <1>1
  <2>3. \A j \in Reports \cap DOMAIN phone' :
          phone'[j].time \in {born'[j], born'[j] - (born'[j] % TicksPerSecond)}
    BY <1>1, <2>1, <2>2 DEF IInv, ReportInv, ReportTimesStay
  <2> QED
    BY <1>2, <2>1, <2>3 DEF IInv, ReportInv, ReportTimesStay, Second
<1>5. ShotInv'
  <2>1. \A j \in DOMAIN phone : j # i /\ j \in DOMAIN born
    BY <1>2 DEF IInv, BornInv
  <2>2. phone'[i].time = now
    BY <1>1
  <2>3. \A s \in Shots \cap DOMAIN phone' : phone'[s].time \in Nat /\ phone'[s].time < now'
    BY <1>1, <1>2, <2>1, <2>2 DEF IInv, ShotInv
  <2>4. \A s \in (Shots \cap DOMAIN phone') \ together' : phone'[s].time = born'[s]
    BY <1>1, <1>2, <2>1, <2>2 DEF IInv, ShotInv
  <2>5. ASSUME NEW s \in (Shots \cap DOMAIN phone') \ together',
               NEW t \in together'
        PROVE  born'[t] < born'[s] /\ phone'[t].time < phone'[s].time
    <3>1. t # i /\ t \in DOMAIN phone /\ born'[t] = born[t] /\ phone'[t] = phone[t]
      BY <1>1, <1>2, <2>1 DEF IInv, BornInv
    <3>2. s # i => s \in DOMAIN phone /\ born'[s] = born[s] /\ phone'[s] = phone[s]
      BY <1>1, <2>1
    <3> QED
      BY <1>1, <1>2, <2>1, <2>2, <2>3, <3>1, <3>2 DEF IInv, ShotInv, BornInv
  <2> QED
    BY <1>2, <2>3, <2>4, <2>5 DEF IInv, ShotInv
<1> QED
  BY <1>3, <1>4, <1>5 DEF IInv

\* An edit, an upload and a restore leave what was created as it is.
LEMMA EditInv ==
  ASSUME IInv, NEW i \in Ids, EditObject(i)
  PROVE  IInv'
<1>1. /\ i \in DOMAIN phone /\ now' = now + 1 /\ UNCHANGED <<cloud, born, together>>
      /\ phone' = [phone EXCEPT ![i] = [Copy(phone[i]) EXCEPT !.content = edits + 1]]
  BY DEF EditObject
<1>2. /\ DOMAIN phone' = DOMAIN phone
      /\ \A j \in DOMAIN phone : phone'[j] = [content |-> phone'[j].content, time |-> phone[j].time]
  BY <1>1 DEF IInv, BornInv, Copy
<1>3. \A j \in DOMAIN phone : phone'[j].time = phone[j].time
  BY <1>2
<1>4. BornInv'
  <2>1. \A j \in DOMAIN phone' :
          phone'[j] = [content |-> phone'[j].content, time |-> phone'[j].time]
    BY <1>2, <1>3
  <2> QED
    BY <1>1, <1>2, <2>1 DEF IInv, BornInv
<1>5. ReportInv'
  BY <1>1, <1>2, <1>3 DEF IInv, ReportInv, ReportTimesStay, Second
<1>6. ShotInv'
  <2>1. now \in Nat
    BY DEF IInv, BornInv
  <2>2. \A j \in Shots \cap DOMAIN phone' : phone'[j].time \in Nat /\ phone'[j].time < now'
    BY <1>1, <1>2, <1>3, <2>1 DEF IInv, ShotInv
  <2>3. \A j \in together : j \in DOMAIN phone
    BY DEF IInv, BornInv
  <2> QED
    BY <1>1, <1>2, <1>3, <2>2, <2>3 DEF IInv, ShotInv
<1> QED
  BY <1>4, <1>5, <1>6 DEF IInv

LEMMA UploadInv ==
  ASSUME IInv, NEW i \in Ids, Upload(i)
  PROVE  IInv'
<1>1. /\ i \in DOMAIN phone /\ UNCHANGED <<phone, now, born, together>>
      /\ cloud' = With(cloud, i, JSONData(i, phone[i]))
  BY DEF Upload
<1>2. /\ DOMAIN cloud' = DOMAIN cloud \cup {i}
      /\ cloud'[i] = JSONData(i, phone[i])
      /\ \A j \in DOMAIN cloud \ {i} : cloud'[j] = cloud[j]
  BY <1>1 DEF With
<1>3. cloud'[i].time = IF i \in Reports THEN phone[i].time ELSE Nil
  BY <1>2 DEF JSONData
<1>4. BornInv'
  BY <1>1, <1>2 DEF IInv, BornInv
<1>5. ReportInv'
  <2>1. \A r \in Reports \cap DOMAIN cloud' : cloud'[r].time \in {born[r], Second(born[r])}
    BY <1>1, <1>2, <1>3 DEF IInv, ReportInv, ReportTimesStay, Second
  <2> QED
    BY <1>1, <2>1 DEF IInv, ReportInv, ReportTimesStay, Second
<1>6. ShotInv'
  <2>1. \A s \in Shots \cap DOMAIN cloud' : cloud'[s].time = Nil
    BY <1>2, <1>3, IdFacts DEF IInv, ShotInv
  <2> QED
    BY <1>1, <2>1 DEF IInv, ShotInv
<1> QED
  BY <1>4, <1>5, <1>6 DEF IInv

LEMMA ReinstallInv ==
  ASSUME IInv, Reinstall
  PROVE  IInv'
<1>1. /\ DOMAIN phone' = {} /\ together' = {}
      /\ UNCHANGED <<cloud, now, born>>
  BY NoneFacts DEF Reinstall
<1>2. BornInv'
  BY <1>1 DEF IInv, BornInv
<1>3. ReportInv'
  BY <1>1 DEF IInv, ReportInv, ReportTimesStay, Second
<1>4. ShotInv'
  BY <1>1 DEF IInv, ShotInv
<1> QED
  BY <1>2, <1>3, <1>4 DEF IInv

\* The dates of the documents of shots are those of the restore: all of them
\* lie before its end.
LEMMA RestoreInv ==
  ASSUME IInv, Restore
  PROVE  IInv'
<1> DEFINE date(i) == now + Cardinality({j \in DOMAIN cloud : j < i})
<1>1. /\ phone' = [i \in DOMAIN cloud |-> Mapped(cloud[i], date(i))]
      /\ now' = now + Cardinality(DOMAIN cloud)
      /\ together' = DOMAIN cloud \cap Shots
      /\ UNCHANGED <<cloud, born>>
  BY DEF Restore
<1>2. /\ now \in Nat /\ DOMAIN cloud \subseteq DOMAIN born
      /\ \A i \in DOMAIN born : i \in Ids /\ born[i] \in Nat /\ born[i] < now
  BY DEF IInv, BornInv
<1>3. IsFiniteSet(DOMAIN cloud) /\ Cardinality(DOMAIN cloud) \in Nat
  <2>1. DOMAIN cloud \subseteq Ids
    BY <1>2
  <2>2. IsFiniteSet(DOMAIN cloud)
    BY <2>1, IdFacts, FS_Subset, Zenon
  <2> QED
    BY <2>2, FS_CardinalityType
<1>4. ASSUME NEW i \in DOMAIN cloud
      PROVE  date(i) \in Nat /\ date(i) < now'
  <2> DEFINE before == {j \in DOMAIN cloud : j < i}
  <2>1. i \in Nat
    BY <1>2, <1>4, IdFacts
  <2>2. before \subseteq DOMAIN cloud /\ before # DOMAIN cloud
    BY <1>4, <2>1
  <2>3. IsFiniteSet(before) /\ Cardinality(before) < Cardinality(DOMAIN cloud)
    <3>1. before \in SUBSET (DOMAIN cloud)
      BY <2>2
    <3> HIDE DEF before
    <3>2. /\ IsFiniteSet(before)
          /\ Cardinality(before) <= Cardinality(DOMAIN cloud)
          /\ Cardinality(DOMAIN cloud) # Cardinality(before)
      BY <1>3, <2>2, <3>1, FS_Subset, Zenon
    <3> QED
      BY <1>3, <3>2, FS_CardinalityType
  <2>4. Cardinality(before) \in Nat
    BY <2>3, FS_CardinalityType
  <2> HIDE DEF before
  <2>5. date(i) = now + Cardinality(before)
    BY DEF before
  <2> HIDE DEF date
  <2> QED
    BY <1>1, <1>2, <1>3, <2>3, <2>4, <2>5
<1> HIDE DEF date
<1>5. /\ DOMAIN phone' = DOMAIN cloud
      /\ \A i \in DOMAIN cloud :
           /\ phone'[i] = [content |-> phone'[i].content, time |-> phone'[i].time]
           /\ cloud[i].time = Nil => phone'[i].time = date(i)
           /\ cloud[i].time # Nil => phone'[i].time = DateFormatted(cloud[i].time)
  BY <1>1 DEF Mapped
<1>6. BornInv'
  <2>1. now' \in Nat /\ now' >= now
    BY <1>1, <1>2, <1>3
  <2>2. \A i \in DOMAIN born' : i \in Ids /\ born'[i] \in Nat /\ born'[i] < now'
    BY <1>1, <1>2, <2>1
  <2> QED
    BY <1>1, <1>2, <1>5, <2>1, <2>2 DEF BornInv
<1>7. ReportInv'
  <2>1. ASSUME NEW r \in Reports \cap DOMAIN cloud
        PROVE  phone'[r].time = Second(born[r])
    <3>1. born[r] \in Nat /\ cloud[r].time \in {born[r], Second(born[r])}
      BY <1>2, <2>1 DEF IInv, ReportInv
    <3>2. Second(born[r]) \in Nat
      BY <3>1, DateFormattedFacts
    <3>3. cloud[r].time # Nil
      BY <3>1, <3>2, SizeAssumption
    <3>4. DateFormatted(cloud[r].time) = Second(born[r])
      BY <3>1, DateFormattedFacts
    <3> QED
      BY <1>5, <3>3, <3>4
  <2>2. ReportTimesStay'
    BY <1>1, <1>5, <2>1 DEF ReportTimesStay, Second
  <2> QED
    BY <1>1, <2>2 DEF IInv, ReportInv, Second
<1>8. ShotInv'
  <2>1. \A s \in Shots \cap DOMAIN cloud : cloud[s].time = Nil
    BY DEF IInv, ShotInv
  <2>2. \A s \in Shots \cap DOMAIN phone' : phone'[s].time \in Nat /\ phone'[s].time < now'
    BY <1>4, <1>5, <2>1
  <2>3. (Shots \cap DOMAIN phone') \ together' = {}
    BY <1>1, <1>5
  <2> QED
    BY <1>1, <2>1, <2>2, <2>3 DEF ShotInv
<1> QED
  BY <1>6, <1>7, <1>8 DEF IInv

LEMMA NextInv == IInv /\ [Next]_vars => IInv'
<1> SUFFICES ASSUME IInv, [Next]_vars
             PROVE  IInv'
  OBVIOUS
<1>1. CASE UNCHANGED vars
  BY <1>1 DEF vars, IInv, BornInv, ReportInv, ShotInv, ReportTimesStay, Second
<1> QED
  BY <1>1, AddInv, EditInv, UploadInv, ReinstallInv, RestoreInv DEF Next

LEMMA Invariant == Spec => []IInv
BY InitInv, NextInv, PTL DEF Spec

-----------------------------------------------------------------------------
(* The theorems.                                                           *)

\* The time of a report stays the second in which it was created, however
\* often it is written as text and read again (getDateFormatted cuts a time
\* once, and a time that is cut it leaves alone).
THEOREM ReportTimes == Spec => []ReportTimesStay
<1>1. IInv => ReportTimesStay
  BY DEF IInv, ReportInv
<1> QED
  BY <1>1, Invariant, PTL

\* A restore brings its shots a time that is earlier than that of every shot
\* made after it, so the order of two shots is lost only if both came with the
\* same restore.
LEMMA OrderKept == IInv => ShotsInOrder
<1> SUFFICES ASSUME IInv, NEW s \in Shots \cap DOMAIN phone,
                    NEW t \in Shots \cap DOMAIN phone, born[s] < born[t],
                    ~({s, t} \subseteq together)
             PROVE  phone[s].time < phone[t].time
  BY DEF ShotsInOrder
<1>1. born[s] \in Nat /\ born[t] \in Nat
  BY DEF IInv, BornInv
<1>2. CASE s \notin together /\ t \notin together
  BY <1>2 DEF IInv, ShotInv
<1>3. CASE s \in together /\ t \notin together
  BY <1>3 DEF IInv, ShotInv
<1>4. CASE s \notin together /\ t \in together
  BY <1>1, <1>4 DEF IInv, ShotInv
<1> QED
  BY <1>2, <1>3, <1>4

THEOREM ShotOrder == Spec => []ShotsInOrder
BY Invariant, OrderKept, PTL
=============================================================================
