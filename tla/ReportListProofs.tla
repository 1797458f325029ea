-------------------------- MODULE ReportListProofs --------------------------
(***************************************************************************)
(* The sections of the list of reports and the numbers of new reports, for *)
(* any numbers of reports, days and restores.                              *)
(***************************************************************************)
EXTENDS ReportList, FiniteSetTheorems, WellFoundedInduction, TLAPS

-----------------------------------------------------------------------------
(* Days and the least of a set of numbers.                                 *)

LEMMA LeastOfSome ==
  ASSUME NEW T \in SUBSET Nat, T # {}
  PROVE  \E i \in T : \A j \in T : i <= j
<1> DEFINE R == OpToRel(<, Nat)
<1>1. IsWellFoundedOn(R, Nat)
  BY NatLessThanWellFounded
<1>2. \A x, y \in Nat : y < x => <<y, x>> \in R
  BY DEF OpToRel
<1> HIDE DEF R
<1>3. PICK x \in T : \A y \in T : <<y, x>> \notin R
  BY <1>1, WFMin
<1>4. \A y \in T : ~(y < x)
  BY <1>2, <1>3
<1> QED
  BY <1>3, <1>4

LEMMA DayFacts ==
  ASSUME NEW t \in Nat
  PROVE  /\ Day(t) \in Nat /\ t % TicksPerDay \in 0 .. TicksPerDay - 1
         /\ t = TicksPerDay * Day(t) + (t % TicksPerDay)
         /\ TicksPerDay * Day(t) \in Nat
  BY TimeAssumption DEF Day

\* A day ends before the midnight with which a later day begins.
LEMMA DaysApart ==
  ASSUME NEW u \in Nat, NEW t \in Nat, Day(u) < Day(t)
  PROVE  u < t - (t % TicksPerDay)
<1> DEFINE a == Day(t)
           b == Day(u)
<1>1. a \in Nat /\ b \in Nat /\ b + 1 <= a /\ TicksPerDay \in Nat
  BY DayFacts, TimeAssumption
<1>2. u < TicksPerDay * b + TicksPerDay
  <2>1. u % TicksPerDay < TicksPerDay /\ u % TicksPerDay \in Nat
    BY DayFacts, TimeAssumption
  <2>2. u = TicksPerDay * b + (u % TicksPerDay) /\ TicksPerDay * b \in Nat
    BY DayFacts
  <2> HIDE DEF b
  <2> QED
    BY <1>1, <2>1, <2>2
<1>3. t - (t % TicksPerDay) = TicksPerDay * a
  <2>1. t % TicksPerDay \in Nat
    BY DayFacts, TimeAssumption
  <2>2. t = TicksPerDay * a + (t % TicksPerDay) /\ TicksPerDay * a \in Nat
    BY DayFacts
  <2> HIDE DEF a
  <2> QED
    BY <1>1, <2>1, <2>2
<1> HIDE DEF a, b
<1>4. PICK c \in Nat : a = b + 1 + c
  <2>1. a - b - 1 \in Nat /\ a = b + 1 + (a - b - 1)
    BY <1>1
  <2> QED
    BY <2>1
<1>5. TicksPerDay * a = TicksPerDay * b + TicksPerDay + TicksPerDay * c
  BY <1>1, <1>4
<1>6. TicksPerDay * c \in Nat /\ TicksPerDay * b \in Nat
  BY <1>1, <1>4
<1> QED
  BY <1>1, <1>2, <1>3, <1>5, <1>6

LEMMA DaysRise ==
  ASSUME NEW t \in Nat, NEW u \in Nat, t <= u
  PROVE  Day(t) <= Day(u)
<1> SUFFICES ASSUME Day(u) < Day(t)
             PROVE  FALSE
  BY DayFacts
<1>1. u < t - (t % TicksPerDay)
  BY DaysApart
<1>2. t % TicksPerDay \in Nat
  BY DayFacts, TimeAssumption
<1> QED
  BY <1>1, <1>2

\* What is not at midnight is after it.
LEMMA AfterMidnight ==
  ASSUME NEW u \in Nat, NEW t \in Nat, Day(u) = Day(t), ~Midnight(u)
  PROVE  u > t - (t % TicksPerDay)
<1> DEFINE c == TicksPerDay * Day(t)
           v == u % TicksPerDay
           w == t % TicksPerDay
<1>1. u = c + v /\ t = c + w /\ c \in Nat /\ v \in Nat /\ w \in Nat /\ v # 0
  <2>1. v \in Nat /\ w \in Nat
    BY DayFacts, TimeAssumption
  <2> QED
    BY <2>1, DayFacts DEF Midnight
<1> HIDE DEF c, v, w
<1>2. u > t - w
  BY <1>1
<1> QED
  BY <1>2 DEF w

-----------------------------------------------------------------------------
(* The loop of setupDatas.                                                 *)

\* A section: some reports, of one day, none twice.
OneDay(day, section) ==
  /\ Len(section) > 0
  /\ \A i, j \in 1 .. Len(section) :
       day[section[i]] = day[section[j]] /\ (section[i] = section[j] => i = j)

\* The reports of placed in sections of falling days.
Sectioned(day, sections, placed) ==
  /\ sections \in Seq(Seq(placed))
  /\ \A s \in 1 .. Len(sections) : OneDay(day, sections[s])
  /\ \A s, t \in 1 .. Len(sections) :
       s < t => day[sections[s][1]] > day[sections[t][1]]
  /\ \A r \in placed : \E s \in 1 .. Len(sections) :
       \E i \in 1 .. Len(sections[s]) : sections[s][i] = r

\* A new section, for a report of an earlier day.
LEMMA NewSection ==
  ASSUME NEW D, NEW day \in [D -> Nat], NEW placed \in SUBSET D, NEW sections,
         Sectioned(day, sections, placed), NEW r \in D \ placed,
         \A s \in 1 .. Len(sections) : day[sections[s][1]] > day[r]
  PROVE  Sectioned(day, Append(sections, <<r>>), placed \cup {r})
<1> DEFINE n == Len(sections)
           new == Append(sections, <<r>>)
           P == placed \cup {r}
<1>1. sections \in Seq(Seq(placed)) /\ n \in Nat
  BY DEF Sectioned
<1>2. \A s \in 1 .. n : sections[s] \in Seq(placed) /\ sections[s] \in Seq(P)
  BY <1>1
<1>3. Len(new) = n + 1 /\ new[n + 1] = <<r>> /\ \A s \in 1 .. n : new[s] = sections[s]
  BY <1>1
<1>4. <<r>> \in Seq(P) /\ Len(<<r>>) = 1 /\ <<r>>[1] = r
  OBVIOUS
<1>5. new \in Seq(Seq(P))
  <2>1. sections \in Seq(Seq(P))
    BY <1>1, <1>2
  <2> QED
    BY <1>4, <2>1
<1> HIDE DEF new, n, P
<1>6. \A s \in 1 .. n + 1 : OneDay(day, new[s])
  <2> TAKE s \in 1 .. n + 1
  <2>1. CASE s = n + 1
    <3>1. Len(new[s]) = 1
      BY <1>3, <1>4, <2>1
    <3>2. \A i, j \in 1 .. Len(new[s]) : i = j
      BY <3>1
    <3>3. \A i, j \in 1 .. Len(new[s]) : day[new[s][i]] = day[new[s][j]]
      BY <3>2
    <3> QED
      BY <3>1, <3>2, <3>3 DEF OneDay
  <2>2. CASE s \in 1 .. n
    BY <1>3, <2>2 DEF Sectioned, n
  <2> QED
    BY <1>1, <2>1, <2>2
<1>7. \A s, t \in 1 .. n + 1 : s < t => day[new[s][1]] > day[new[t][1]]
  <2> TAKE s, t \in 1 .. n + 1
  <2> HAVE s < t
  <2>1. s \in 1 .. n
    BY <1>1
  <2>2. CASE t = n + 1
    BY <1>3, <1>4, <2>1, <2>2 DEF n
  <2>3. CASE t \in 1 .. n
    BY <1>3, <2>1, <2>3 DEF Sectioned, n
  <2> QED
    BY <1>1, <2>2, <2>3
<1>8. \A q \in P : \E s \in 1 .. n + 1 : \E i \in 1 .. Len(new[s]) : new[s][i] = q
  <2> TAKE q \in P
  <2>1. CASE q = r
    <3>1. n + 1 \in 1 .. n + 1 /\ 1 \in 1 .. Len(new[n + 1]) /\ new[n + 1][1] = q
      BY <1>1, <1>3, <1>4, <2>1
    <3> QED
      BY <3>1
  <2>2. CASE q \in placed
    <3>1. PICK s \in 1 .. n : \E i \in 1 .. Len(sections[s]) : sections[s][i] = q
      BY <2>2 DEF Sectioned, n
    <3> QED
      BY <1>1, <1>3, <3>1
  <2> QED
    BY <2>1, <2>2 DEF P
<1> QED
  BY <1>3, <1>5, <1>6, <1>7, <1>8 DEF Sectioned, P, new

\* A report of the day of the last section.
LEMMA SameSection ==
  ASSUME NEW D, NEW day \in [D -> Nat], NEW placed \in SUBSET D, NEW closed, NEW open,
         closed \in Seq(Seq(placed)), open \in Seq(placed),
         Sectioned(day, Append(closed, open), placed), NEW r \in D \ placed,
         day[open[1]] = day[r]
  PROVE  Sectioned(day, Append(closed, Append(open, r)), placed \cup {r})
<1> DEFINE n == Len(closed)
           m == Len(open)
           old == Append(closed, open)
           last == Append(open, r)
           new == Append(closed, last)
           P == placed \cup {r}
<1>1. n \in Nat /\ m \in Nat
  OBVIOUS
<1>2. /\ Len(old) = n + 1 /\ old[n + 1] = open /\ \A s \in 1 .. n : old[s] = closed[s]
      /\ Len(new) = n + 1 /\ new[n + 1] = last /\ \A s \in 1 .. n : new[s] = closed[s]
  OBVIOUS
<1>3. Len(last) = m + 1 /\ last[m + 1] = r /\ \A i \in 1 .. m : last[i] = open[i]
  OBVIOUS
<1>4. \A s \in 1 .. n : closed[s] \in Seq(P)
  OBVIOUS
<1>5. new \in Seq(Seq(P))
  <2>1. closed \in Seq(Seq(P)) /\ last \in Seq(P)
    BY <1>4
  <2> QED
    BY <2>1
<1>6. \A i \in 1 .. m : open[i] \in placed
  OBVIOUS
<1> HIDE DEF old, last, new, n, m, P
<1>7. OneDay(day, open)
  BY <1>1, <1>2 DEF Sectioned, old
<1>8. m > 0 /\ \A i, j \in 1 .. m :
        day[open[i]] = day[r] /\ (open[i] = open[j] => i = j)
  <2>1. m > 0 /\ \A i, j \in 1 .. m :
          day[open[i]] = day[open[j]] /\ (open[i] = open[j] => i = j)
    BY <1>7, Zenon DEF OneDay, m
  <2>2. 1 \in 1 .. m
    BY <1>1, <2>1
  <2> QED
    BY <2>1, <2>2
<1>9. OneDay(day, last)
  <2> SUFFICES ASSUME NEW i \in 1 .. m + 1, NEW j \in 1 .. m + 1
               PROVE  day[last[i]] = day[last[j]] /\ (last[i] = last[j] => i = j)
    BY <1>1, <1>3 DEF OneDay
  <2>1. CASE i \in 1 .. m /\ j \in 1 .. m
    <3>1. last[i] = open[i] /\ last[j] = open[j]
      BY <1>3, <2>1
    <3> QED
      BY <1>8, <2>1, <3>1
  <2>2. CASE i = m + 1 /\ j \in 1 .. m
    BY <1>3, <1>6, <1>8, <2>2
  <2>3. CASE i \in 1 .. m /\ j = m + 1
    BY <1>3, <1>6, <1>8, <2>3
  <2> QED
    BY <1>1, <2>1, <2>2, <2>3
<1>10. \A s \in 1 .. n + 1 : OneDay(day, new[s])
  <2> TAKE s \in 1 .. n + 1
  <2>1. CASE s = n + 1
    BY <1>2, <1>9, <2>1
  <2>2. CASE s \in 1 .. n
    BY <1>1, <1>2, <2>2 DEF Sectioned, old
  <2> QED
    BY <1>1, <2>1, <2>2
<1>11. \A s \in 1 .. n + 1 : day[new[s][1]] = day[old[s][1]]
  <2> TAKE s \in 1 .. n + 1
  <2>1. CASE s = n + 1
    <3>1. last[1] = open[1]
      BY <1>1, <1>3, <1>8
    <3> QED
      BY <1>2, <2>1, <3>1
  <2>2. CASE s \in 1 .. n
    BY <1>2, <2>2
  <2> QED
    BY <1>1, <2>1, <2>2
<1>12. \A s, t \in 1 .. n + 1 : s < t => day[new[s][1]] > day[new[t][1]]
  BY <1>2, <1>11 DEF Sectioned, old
<1>13. \A q \in P : \E s \in 1 .. n + 1 : \E i \in 1 .. Len(new[s]) : new[s][i] = q
  <2> TAKE q \in P
  <2>1. CASE q = r
    <3>1. n + 1 \in 1 .. n + 1 /\ m + 1 \in 1 .. Len(new[n + 1]) /\ new[n + 1][m + 1] = q
      BY <1>1, <1>2, <1>3, <2>1
    <3> QED
      BY <3>1
  <2>2. CASE q \in placed
    <3>1. PICK s \in 1 .. n + 1 : \E i \in 1 .. Len(old[s]) : old[s][i] = q
      BY <1>2, <2>2 DEF Sectioned, old
    <3>2. CASE s = n + 1
      <4>1. PICK i \in 1 .. m : open[i] = q
        BY <1>2, <3>1, <3>2 DEF m
      <4>2. i \in 1 .. Len(new[s]) /\ new[s][i] = q
        BY <1>1, <1>2, <1>3, <3>2, <4>1
      <4> QED
        BY <4>2
    <3>3. CASE s \in 1 .. n
      BY <1>2, <3>1, <3>3
    <3> QED
      BY <1>1, <3>1, <3>2, <3>3
  <2> QED
    BY <2>1, <2>2 DEF P
<1>14. Sectioned(day, new, P)
  <2>1. Len(new) = n + 1
    BY <1>2
  <2>2. /\ \A s \in 1 .. Len(new) : OneDay(day, new[s])
        /\ \A s, t \in 1 .. Len(new) : s < t => day[new[s][1]] > day[new[t][1]]
        /\ \A q \in P : \E s \in 1 .. Len(new) : \E i \in 1 .. Len(new[s]) : new[s][i] = q
    BY <1>10, <1>12, <1>13, <2>1, Zenon
  <2> QED
    BY <1>5, <2>2, Zenon DEF Sectioned
<1> QED
  BY <1>14 DEF P, new, last

\* The states of the loop, one for each report of list.
AreStates(data, list, days) ==
  /\ days[0] = [closed |-> <<>>, open |-> <<>>, date |-> Day(data[list[1]].time)]
  /\ \A n \in 1 .. Len(list) : days[n] = Put(data, days[n - 1], list[n])
  /\ Placed(data, list) = days[Len(list)]

\* The loop as a sequence of its states: a recursive function has the values of
\* its definition, since there is no first place where it could have none.
LEMMA LoopStates ==
  ASSUME NEW data, NEW list, Len(list) \in Nat
  PROVE  \E days : AreStates(data, list, days)
<1> USE DEF AreStates
<1> DEFINE first == [closed |-> <<>>, open |-> <<>>, date |-> Day(data[list[1]].time)]
           IsLoop(g, n) == g = [m \in 0 .. n |->
                                  IF m = 0 THEN first ELSE Put(data, g[m - 1], list[m])]
           len == Len(list)
           days == CHOOSE g : g = [m \in 0 .. len |->
                                  IF m = 0 THEN first ELSE Put(data, g[m - 1], list[m])]
           Bad == {n \in Nat : ~\E g : IsLoop(g, n)}
<1>1. Placed(data, list) = days[len]
  BY DEF Placed
<1> HIDE DEF first
<1>2. IsLoop([m \in 0 .. 0 |-> first], 0)
  OBVIOUS
<1>3. ASSUME NEW n \in Nat, NEW g, IsLoop(g, n)
      PROVE  \E h : IsLoop(h, n + 1)
  <2> DEFINE next == Put(data, g[n], list[n + 1])
             h == [m \in 0 .. n + 1 |-> IF m = n + 1 THEN next ELSE g[m]]
  <2>1. \A m \in 0 .. n : g[m] = IF m = 0 THEN first ELSE Put(data, g[m - 1], list[m])
    BY <1>3
  <2>2. h[n] = g[n] /\ h[n + 1] = next
    OBVIOUS
  <2>3. h[n + 1] = Put(data, h[n], list[n + 1])
    BY <2>2
  <2>4. \A m \in 0 .. n : h[m] = g[m] /\ (m # 0 => h[m - 1] = g[m - 1])
    OBVIOUS
  <2> HIDE DEF next
  <2>5. \A m \in 0 .. n + 1 :
          h[m] = IF m = 0 THEN first ELSE Put(data, h[m - 1], list[m])
    <3> TAKE m \in 0 .. n + 1
    <3>1. CASE m = n + 1
      <4>1. m # 0 /\ m - 1 = n
        BY <3>1
      <4> HIDE DEF h
      <4> QED
        BY <2>3, <3>1, <4>1
    <3>2. CASE m \in 0 .. n
      <4>1. h[m] = g[m] /\ (m # 0 => h[m - 1] = g[m - 1])
        BY <2>4, <3>2
      <4> HIDE DEF h
      <4> QED
        BY <2>1, <3>2, <4>1
    <3> QED
      BY <3>1, <3>2
  <2>6. IsLoop(h, n + 1)
    BY <2>5
  <2> QED
    BY <2>6
<1> HIDE DEF IsLoop
<1>4. Bad = {}
  <2> SUFFICES ASSUME Bad # {}
               PROVE  FALSE
    OBVIOUS
  <2>1. PICK n \in Bad : \A m \in Bad : n <= m
    BY LeastOfSome
  <2>2. n # 0
    BY <1>2, <2>1
  <2>3. n - 1 \in Nat /\ n - 1 \notin Bad /\ (n - 1) + 1 = n
    BY <2>1, <2>2
  <2>4. PICK g : IsLoop(g, n - 1)
    BY <2>3
  <2>5. \E h : IsLoop(h, n)
    BY <1>3, <2>3, <2>4
  <2> QED
    BY <2>1, <2>5
<1>5. \E g : IsLoop(g, len)
  BY <1>4
<1>6. days = CHOOSE g : IsLoop(g, len)
  BY DEF IsLoop
<1>7. IsLoop(days, len)
  <2> HIDE DEF days
  <2> QED
    BY <1>5, <1>6
<1> HIDE DEF days
<1>8. \A m \in 0 .. len : days[m] = IF m = 0 THEN first ELSE Put(data, days[m - 1], list[m])
  BY <1>7 DEF IsLoop
<1>9. days[0] = first /\ \A n \in 1 .. len : days[n] = Put(data, days[n - 1], list[n])
  BY <1>8
<1> QED
  BY <1>1, <1>9 DEF first

\* The days of the reports in data.
DaysOf(data) == [r \in DOMAIN data |-> Day(data[r].time)]

\* A state of the loop in which the reports of placed have their places, and the
\* section of the given day is open.
Loop(data, state, placed, date) ==
  \E closed \in Seq(Seq(placed)) : \E open \in Seq(placed) :
    /\ state = [closed |-> closed, open |-> open, date |-> date]
    /\ open # <<>> /\ DaysOf(data)[open[1]] = date
    /\ Sectioned(DaysOf(data), Append(closed, open), placed)

\* One turn: a report that is not later than those placed.
LEMMA LoopTurn ==
  ASSUME NEW data, \A q \in DOMAIN data : data[q].time \in Nat,
         NEW placed \in SUBSET DOMAIN data, NEW r \in DOMAIN data \ placed,
         NEW q \in placed, data[r].time <= data[q].time,
         NEW state, Loop(data, state, placed, DaysOf(data)[q])
  PROVE  Loop(data, Put(data, state, r), placed \cup {r}, DaysOf(data)[r])
<1> DEFINE day == DaysOf(data)
           P == placed \cup {r}
<1>1. day \in [DOMAIN data -> Nat]
  BY DayFacts DEF DaysOf
<1>2. day[r] <= day[q] /\ day[r] = Day(data[r].time) /\ day[r] \in Nat /\ day[q] \in Nat
  BY DaysRise, DayFacts DEF DaysOf
<1>3. PICK closed \in Seq(Seq(placed)), open \in Seq(placed) :
        /\ state = [closed |-> closed, open |-> open, date |-> day[q]]
        /\ open # <<>> /\ day[open[1]] = day[q]
        /\ Sectioned(day, Append(closed, open), placed)
  BY DEF Loop
<1> HIDE DEF day
<1>4. state.closed = closed /\ state.open = open /\ state.date = day[q]
  BY <1>3
<1>5. placed \subseteq P /\ closed \in Seq(Seq(P)) /\ open \in Seq(P)
  <2>1. \A s \in 1 .. Len(closed) : closed[s] \in Seq(P)
    OBVIOUS
  <2> QED
    BY <2>1
<1>6. CASE day[r] = day[q]
  <2> DEFINE last == Append(open, r)
  <2>1. Put(data, state, r) = [closed |-> closed, open |-> last, date |-> day[r]]
    BY <1>2, <1>3, <1>6 DEF Put
  <2>2. last \in Seq(P) /\ last # <<>> /\ last[1] = open[1]
    <3>1. Len(open) \in Nat \ {0}
      BY <1>3
    <3> QED
      BY <1>5, <3>1
  <2>3. Sectioned(day, Append(closed, last), P)
    BY <1>1, <1>3, <1>6, SameSection
  <2> HIDE DEF last
  <2>4. day[last[1]] = day[r]
    BY <1>3, <1>6, <2>2
  <2> QED
    BY <1>5, <2>1, <2>2, <2>3, <2>4 DEF Loop, day
<1>7. CASE day[r] # day[q]
  <2> DEFINE all == Append(closed, open)
  <2>1. Put(data, state, r) = [closed |-> all, open |-> <<r>>, date |-> day[r]]
    BY <1>2, <1>4, <1>7 DEF Put
  <2>2. all \in Seq(Seq(P)) /\ <<r>> \in Seq(P) /\ <<r>> # <<>> /\ <<r>>[1] = r
    BY <1>5
  <2>3. Len(all) = Len(closed) + 1 /\ Len(closed) \in Nat /\ all[Len(all)] = open
    OBVIOUS
  <2>4. \A s \in 1 .. Len(all) : all[s] \in Seq(placed) /\ Len(all[s]) > 0
    BY <1>3 DEF Sectioned, OneDay
  <2> HIDE DEF all
  <2>5. \A s \in 1 .. Len(all) : day[all[s][1]] \in Nat
    BY <1>1, <2>4
  <2>6. \A s \in 1 .. Len(all) : day[all[s][1]] >= day[q]
    <3> TAKE s \in 1 .. Len(all)
    <3>1. CASE s = Len(all)
      BY <1>2, <1>3, <2>3, <3>1
    <3>2. CASE s < Len(all)
      <4>1. Len(all) \in 1 .. Len(all)
        BY <2>3
      <4>2. day[all[s][1]] > day[all[Len(all)][1]]
        BY <1>3, <3>2, <4>1 DEF Sectioned, all
      <4> QED
        BY <1>2, <1>3, <2>3, <2>5, <4>2
    <3> QED
      BY <2>3, <3>1, <3>2
  <2>7. \A s \in 1 .. Len(all) : day[all[s][1]] > day[r]
    BY <1>2, <1>7, <2>5, <2>6
  <2>8. Sectioned(day, Append(all, <<r>>), P)
    BY <1>1, <1>3, <2>7, NewSection DEF all
  <2> QED
    BY <2>1, <2>2, <2>8 DEF Loop, day
<1> QED
  BY <1>6, <1>7

\* The loop over all reports, in a list by falling time.
LEMMA LoopSections ==
  ASSUME NEW data, \A q \in DOMAIN data : data[q].time \in Nat,
         NEW n \in Nat \ {0}, NEW list \in [1 .. n -> DOMAIN data],
         \A i, j \in 1 .. n : i # j => list[i] # list[j],
         \A i, j \in 1 .. n : i < j => data[list[i]].time >= data[list[j]].time,
         \A r \in DOMAIN data : \E i \in 1 .. n : list[i] = r
  PROVE  Sectioned(DaysOf(data), ReportData(Placed(data, list)), DOMAIN data)
<1> DEFINE D == DOMAIN data
           day == DaysOf(data)
           P(k) == {list[i] : i \in 1 .. k}
<1>1. Len(list) = n
  OBVIOUS
<1>2. Len(list) \in Nat
  BY <1>1
<1>0. PICK days : AreStates(data, list, days)
  BY <1>2, LoopStates, Zenon
<1>3. /\ days[0] = [closed |-> <<>>, open |-> <<>>, date |-> Day(data[list[1]].time)]
      /\ \A k \in 1 .. Len(list) : days[k] = Put(data, days[k - 1], list[k])
      /\ Placed(data, list) = days[Len(list)]
  BY <1>0, Zenon DEF AreStates
<1> DEFINE Holds(k) == Loop(data, days[k], P(k), day[list[k]])
           Bad == {k \in 1 .. n : ~Holds(k)}
<1>4. day \in [D -> Nat]
  BY DayFacts DEF DaysOf
<1>5. Holds(1)
  <2> DEFINE r == list[1]
             state == [closed |-> <<>>, open |-> <<r>>, date |-> day[r]]
  <2>1. r \in D /\ day[r] = Day(data[r].time)
    BY DEF DaysOf
  <2>2. days[1] = Put(data, days[0], r)
    BY <1>1, <1>3
  <2>3. Put(data, days[0], r) = state
    <3>1. Append(<<>>, r) = <<r>>
      OBVIOUS
    <3>2. Put(data, days[0], r) = [days[0] EXCEPT !.open = Append(@, r)]
      BY <1>3, <2>1 DEF Put
    <3> QED
      BY <1>3, <2>1, <3>1, <3>2
  <2>4. P(1) = {r}
    OBVIOUS
  <2> HIDE DEF r, day
  <2>5. Sectioned(day, <<>>, {})
    BY DEF Sectioned
  <2>6. Sectioned(day, Append(<<>>, <<r>>), {} \cup {r})
    <3>1. {} \in SUBSET D /\ r \in D \ {}
      BY <2>1
    <3>2. \A s \in 1 .. Len(<<>>) : day[<<>>[s][1]] > day[r]
      OBVIOUS
    <3> HIDE DEF D
    <3> QED
      BY <1>4, <2>5, <3>1, <3>2, NewSection
  <2>7. <<>> \in Seq(Seq({r})) /\ <<r>> \in Seq({r}) /\ <<r>> # <<>> /\ <<r>>[1] = r
        /\ {} \cup {r} = {r}
    OBVIOUS
  <2>8. Sectioned(day, Append(<<>>, <<r>>), {r}) /\ day[<<r>>[1]] = day[r]
    BY <2>6, <2>7
  <2>9. Loop(data, state, {r}, day[r])
    <3>1. \E closed \in Seq(Seq({r})) : \E open \in Seq({r}) :
            /\ state = [closed |-> closed, open |-> open, date |-> day[r]]
            /\ open # <<>> /\ day[open[1]] = day[r]
            /\ Sectioned(day, Append(closed, open), {r})
      <4>1. state = [closed |-> <<>>, open |-> <<r>>, date |-> day[r]]
        OBVIOUS
      <4> HIDE DEF state
      <4> QED
        BY <2>7, <2>8, <4>1, Zenon
    <3> HIDE DEF state
    <3> QED
      BY <3>1 DEF Loop, day
  <2> QED
    BY <2>2, <2>3, <2>4, <2>9 DEF r
<1>6. ASSUME NEW k \in 1 .. n - 1, Holds(k)
      PROVE  Holds(k + 1)
  <2>1. k \in 1 .. n /\ k + 1 \in 1 .. n /\ (k + 1) - 1 = k
    OBVIOUS
  <2>2. P(k) \subseteq D /\ list[k] \in P(k) /\ list[k + 1] \in D
    BY <2>1
  <2>3. list[k + 1] \notin P(k)
    BY <2>1
  <2>4. data[list[k + 1]].time <= data[list[k]].time
    BY <2>1, <2>2
  <2>5. P(k + 1) = P(k) \cup {list[k + 1]}
    BY <2>1
  <2>6. days[k + 1] = Put(data, days[k], list[k + 1])
    BY <1>1, <1>3, <2>1
  <2> HIDE DEF P
  <2>7. Loop(data, Put(data, days[k], list[k + 1]), P(k) \cup {list[k + 1]},
             DaysOf(data)[list[k + 1]])
    BY <1>6, <2>2, <2>3, <2>4, LoopTurn
  <2> QED
    BY <2>5, <2>6, <2>7
<1> HIDE DEF Holds
<1>7. Bad = {}
  <2> SUFFICES ASSUME Bad # {}
               PROVE  FALSE
    OBVIOUS
  <2>1. PICK k \in Bad : \A m \in Bad : k <= m
    <3>1. Bad \in SUBSET Nat
      OBVIOUS
    <3> HIDE DEF Bad
    <3> QED
      BY <3>1, LeastOfSome
  <2>2. k \in 1 .. n /\ k # 1
    BY <1>5, <2>1
  <2>3. k - 1 \in 1 .. n - 1 /\ (k - 1) + 1 = k /\ k - 1 \in 1 .. n
    BY <2>2
  <2>4. k - 1 \notin Bad
    BY <2>1, <2>3
  <2>5. Holds(k - 1)
    BY <2>3, <2>4
  <2>6. Holds(k)
    BY <1>6, <2>3, <2>5
  <2> QED
    BY <2>1, <2>6
<1>8. Loop(data, days[n], P(n), day[list[n]])
  <2>1. n \in 1 .. n /\ n \notin Bad
    BY <1>7
  <2>2. Holds(n)
    BY <2>1
  <2> QED
    BY <2>2 DEF Holds
<1>9. P(n) = D
  <2>1. P(n) \subseteq D
    OBVIOUS
  <2>2. \A r \in D : r \in P(n)
    <3> TAKE r \in D
    <3>1. PICK i \in 1 .. n : list[i] = r
      OBVIOUS
    <3> QED
      BY <3>1
  <2> QED
    BY <2>1, <2>2
<1> HIDE DEF P, D
<1>10. PICK closed \in Seq(Seq(D)), open \in Seq(D) :
         /\ days[n].closed = closed /\ days[n].open = open
         /\ Sectioned(day, Append(closed, open), D)
  BY <1>8, <1>9 DEF Loop
<1> QED
  BY <1>1, <1>3, <1>10 DEF ReportData, D

-----------------------------------------------------------------------------
(* What the sections are.                                                  *)

\* The reports in D of the day of a section.
DayOfSection(day, D, section) == {r \in D : day[r] = day[section[1]]}

\* A section has all the reports of its day.
LEMMA SectionIsDay ==
  ASSUME NEW D, IsFiniteSet(D), NEW day \in [D -> Nat], NEW sections,
         Sectioned(day, sections, D), NEW s \in 1 .. Len(sections),
         NEW today, today = DayOfSection(day, D, sections[s])
  PROVE  /\ sections[s] # <<>> /\ sections[s][1] \in D
         /\ ToSet(sections[s]) = today /\ Len(sections[s]) = Cardinality(today)
         /\ DOMAIN sections[s] = 1 .. Len(sections[s])
<1> DEFINE section == sections[s]
           n == Len(section)
<1> USE DEF DayOfSection
<1>1. section \in Seq(D) /\ n \in Nat /\ DOMAIN section = 1 .. n
  BY DEF Sectioned
<1>2. n > 0 /\ \A i, j \in 1 .. n :
        day[section[i]] = day[section[j]] /\ (section[i] = section[j] => i = j)
  BY DEF Sectioned, OneDay
<1>3. \A i \in 1 .. n : section[i] \in D /\ section[i] \in today
  BY <1>1, <1>2
<1>4. ASSUME NEW r \in today
      PROVE  \E i \in 1 .. n : section[i] = r
  <2>1. PICK t \in 1 .. Len(sections) : \E i \in 1 .. Len(sections[t]) : sections[t][i] = r
    BY DEF Sectioned
  <2>2. PICK i \in 1 .. Len(sections[t]) : sections[t][i] = r
    BY <2>1
  <2>3. day[sections[t][1]] = day[r]
    <3>1. Len(sections[t]) \in Nat /\ Len(sections[t]) > 0
      BY DEF Sectioned, OneDay
    <3>2. 1 \in 1 .. Len(sections[t])
      BY <3>1
    <3>3. OneDay(day, sections[t])
      BY Zenon DEF Sectioned
    <3>4. day[sections[t][1]] = day[sections[t][i]]
      BY <3>2, <3>3, Zenon DEF OneDay
    <3> QED
      BY <2>2, <3>4, Zenon
  <2>4. day[r] \in Nat /\ day[r] = day[sections[s][1]]
    OBVIOUS
  <2>5. ~(s < t) /\ ~(t < s)
    <3>1. \A u, v \in 1 .. Len(sections) :
            u < v => day[sections[u][1]] > day[sections[v][1]]
      BY DEF Sectioned
    <3>2. day[sections[s][1]] = day[sections[t][1]] /\ day[sections[s][1]] \in Nat
      BY <2>3, <2>4
    <3>3. ~(day[sections[s][1]] > day[sections[t][1]])
      BY <3>2
    <3>4. ~(day[sections[t][1]] > day[sections[s][1]])
      BY <3>2
    <3> QED
      BY <3>1, <3>3, <3>4
  <2>6. s = t
    BY <2>5
  <2> QED
    BY <2>2, <2>6
<1> HIDE DEF section, n
<1> HIDE DEF DayOfSection
<1>5. ToSet(section) = today
  <2>1. ToSet(section) = {section[i] : i \in 1 .. n}
    BY <1>1, Zenon DEF ToSet
  <2>2. {section[i] : i \in 1 .. n} \subseteq today
    BY <1>3
  <2>3. \A r \in today : r \in {section[i] : i \in 1 .. n}
    BY <1>4
  <2> QED
    BY <2>1, <2>2, <2>3
<1>6. n = Cardinality(today)
  <2>1. section \in [1 .. n -> today]
    BY <1>1, <1>3 DEF n
  <2>2. section \in Bijection(1 .. n, today)
    BY <1>2, <1>4, <2>1 DEF Bijection, Injection, Surjection, IsInjective
  <2>3. IsFiniteSet(1 .. n) /\ Cardinality(1 .. n) = n
    BY <1>1, FS_Interval
  <2> QED
    BY <2>2, <2>3, FS_Bijection DEF ExistsBijection
<1>7. section # <<>> /\ section[1] \in D
  BY <1>1, <1>2, <1>3 DEF n
<1> QED
  BY <1>1, <1>5, <1>6, <1>7 DEF section, n

\* The list shows the database.
Listed == Sectioned(DaysOf(reports), reportData, Live)

\* The objects in the database.
ReportsInv ==
  /\ made \in Nat /\ now \in Nat /\ now >= Start
  /\ Live \subseteq 1 .. made
  /\ reports \in [Live -> [time : Nat, no : Nat]]

LEMMA LiveFacts ==
  ASSUME ReportsInv
  PROVE  /\ IsFiniteSet(Live) /\ Live \subseteq Nat
         /\ \A r \in Live : reports[r].time \in Nat /\ reports[r].no \in Nat
         /\ \A r \in Live : DayOf(r) \in Nat /\ DayOf(r) = DaysOf(reports)[r]
         /\ DaysOf(reports) \in [Live -> Nat]
<1>1. IsFiniteSet(Live) /\ Live \subseteq Nat
  <2>1. IsFiniteSet(1 .. made) /\ 1 .. made \subseteq Nat
    BY FS_Interval DEF ReportsInv
  <2> QED
    BY <2>1, FS_Subset DEF ReportsInv
<1>2. \A r \in Live : reports[r].time \in Nat /\ reports[r].no \in Nat
  BY DEF ReportsInv
<1>3. \A r \in Live : DayOf(r) \in Nat /\ DayOf(r) = DaysOf(reports)[r]
  BY <1>2, DayFacts DEF DayOf, DaysOf, Live
<1>4. DaysOf(reports) \in [Live -> Nat]
  BY <1>2, DayFacts DEF DaysOf, Live
<1> QED
  BY <1>1, <1>2, <1>3, <1>4

\* However the list is set up, it shows the database.
LEMMA SetupLists ==
  ASSUME NEW data, \A r \in DOMAIN data : data[r].time \in Nat,
         IsFiniteSet(DOMAIN data), SetupDatas(data)
  PROVE  Sectioned(DaysOf(data), reportData', DOMAIN data)
<1> DEFINE D == DOMAIN data
           n == Cardinality(D)
<1>1. CASE D = {}
  <2>1. reportData' = <<>>
    BY <1>1 DEF SetupDatas
  <2> QED
    BY <1>1, <2>1 DEF Sectioned
<1>2. CASE D # {}
  <2>1. PICK list \in SetToSeqs(D) :
          /\ \A i, j \in DOMAIN list : i < j => data[list[i]].time >= data[list[j]].time
          /\ reportData' = ReportData(Placed(data, list))
    BY <1>2 DEF SetupDatas
  <2>2. n \in Nat \ {0}
    BY <1>2, FS_CardinalityType, FS_EmptySet
  <2>3. list \in [1 .. n -> D] /\ \A i, j \in 1 .. n : i # j => list[i] # list[j]
    BY <2>1 DEF SetToSeqs
  <2>4. \A r \in D : \E i \in 1 .. n : list[i] = r
    <3>1. IsFiniteSet(1 .. n) /\ Cardinality(1 .. n) = n
      BY <2>2, FS_Interval
    <3> HIDE DEF D
    <3>2. list \in Injection(1 .. n, D)
      BY <2>3 DEF Injection, IsInjective
    <3>3. list \in Surjection(1 .. n, D)
      BY <3>1, <3>2, FS_Injection DEF n, D
    <3> QED
      BY <3>3 DEF Surjection
  <2>5. \A i, j \in 1 .. n : i < j => data[list[i]].time >= data[list[j]].time
    BY <2>1, <2>3
  <2> HIDE DEF n
  <2>6. Sectioned(DaysOf(data), ReportData(Placed(data, list)), D)
    BY <2>2, <2>3, <2>4, <2>5, LoopSections
  <2> QED
    BY <2>1, <2>6
<1> QED
  BY <1>1, <1>2

-----------------------------------------------------------------------------
(* The reports of the phone at launch, or of a restore.                    *)

\* The number of times before t rises with t.
LEMMA FewerBefore ==
  ASSUME NEW times \in SUBSET Nat, IsFiniteSet(times), NEW t \in times, NEW u \in Nat, t < u
  PROVE  Cardinality({v \in times : v < t}) < Cardinality({v \in times : v < u})
<1> DEFINE T == {v \in times : v < t}
           U == {v \in times : v < u}
<1>1. IsFiniteSet(T) /\ IsFiniteSet(U)
  BY FS_Subset
<1>2. t \notin T /\ T \cup {t} \subseteq U
  <2>1. t \in Nat /\ ~(t < t) /\ \A v \in times : v \in Nat /\ (v < t => v < u)
    OBVIOUS
  <2> QED
    BY <2>1
<1> HIDE DEF T, U
<1>3. Cardinality(T \cup {t}) = Cardinality(T) + 1
  BY <1>1, <1>2, FS_AddElement
<1>4. Cardinality(T \cup {t}) <= Cardinality(U)
  BY <1>1, <1>2, FS_Subset
<1>5. Cardinality(T) \in Nat /\ Cardinality(U) \in Nat
  BY <1>1, FS_CardinalityType
<1> QED
  BY <1>3, <1>4, <1>5 DEF T, U

\* Every place among the times is some time's.
LEMMA NthTime ==
  ASSUME NEW m \in Nat, NEW times \in SUBSET (0 .. m), NEW k \in Nat, k < Cardinality(times)
  PROVE  \E t \in times : Cardinality({u \in times : u < t}) = k
<1> DEFINE Upto(t) == {u \in times : u <= t}
           Before(t) == {u \in times : u < t}
           T == {t \in Nat : Cardinality(Upto(t)) > k}
<1>1. IsFiniteSet(times) /\ \A u \in times : u \in Nat /\ u <= m
  <2>1. IsFiniteSet(0 .. m)
    BY FS_Interval
  <2>2. IsFiniteSet(times)
    BY <2>1, FS_Subset
  <2>3. \A u \in times : u \in 0 .. m
    OBVIOUS
  <2> QED
    BY <2>2, <2>3
<1>2. \A t \in Nat : IsFiniteSet(Before(t)) /\ Cardinality(Before(t)) \in Nat
  BY <1>1, FS_Subset, FS_CardinalityType
<1>3. \A t \in Nat : Upto(t) = IF t \in times THEN Before(t) \cup {t} ELSE Before(t)
  <2> TAKE t \in Nat
  <2>1. \A u \in times : u <= t <=> u < t \/ u = t
    BY <1>1
  <2> QED
    BY <2>1
<1>4. \A t \in Nat : t # 0 => Before(t) = Upto(t - 1)
  <2> TAKE t \in Nat
  <2> HAVE t # 0
  <2>1. \A u \in times : u < t <=> u <= t - 1
    BY <1>1
  <2> QED
    BY <2>1
<1>5. Before(0) = {} /\ Upto(m) = times
  <2>1. \A u \in times : ~(u < 0) /\ u <= m
    BY <1>1
  <2> QED
    BY <2>1
<1>6. PICK t \in T : \A v \in T : t <= v
  <2>1. m \in T
    BY <1>5
  <2>2. T \in SUBSET Nat
    OBVIOUS
  <2> HIDE DEF T
  <2> QED
    BY <2>1, <2>2, LeastOfSome
<1>7. t \in Nat /\ Cardinality(Upto(t)) > k
  OBVIOUS
<1>8. Cardinality(Before(t)) <= k
  <2>1. CASE t = 0
    BY <1>5, <2>1, FS_EmptySet
  <2>2. CASE t # 0
    <3>1. t - 1 \in Nat /\ t - 1 \notin T
      <4>1. t - 1 \in Nat /\ ~(t <= t - 1)
        BY <1>7, <2>2
      <4> HIDE DEF T
      <4> QED
        BY <1>6, <4>1
    <3>2. ~(Cardinality(Upto(t - 1)) > k)
      BY <3>1
    <3>3. Before(t) = Upto(t - 1)
      BY <1>4, <1>7, <2>2
    <3>4. Cardinality(Before(t)) \in Nat
      BY <1>2, <1>7
    <3> HIDE DEF Before, Upto
    <3> QED
      BY <3>2, <3>3, <3>4
  <2> QED
    BY <2>1, <2>2
<1>9. t \in times /\ Cardinality(Before(t)) = k
  <2>1. /\ IsFiniteSet(Before(t)) /\ Cardinality(Before(t)) \in Nat
        /\ Upto(t) = IF t \in times THEN Before(t) \cup {t} ELSE Before(t)
    BY <1>2, <1>3, <1>7
  <2> HIDE DEF Before, Upto
  <2>2. Cardinality(Upto(t)) \in {Cardinality(Before(t)), Cardinality(Before(t)) + 1}
    BY <2>1, FS_AddElement
  <2>3. Cardinality(Upto(t)) # Cardinality(Before(t))
    BY <1>7, <1>8, <2>1, <2>2
  <2> QED
    BY <1>7, <1>8, <2>1, <2>2, <2>3
<1> QED
  BY <1>9

\* The place of r among the reports of its day in data.
PlaceOf(data, r) ==
  Cardinality({q \in DOMAIN data :
    Day(data[q].time) = Day(data[r].time) /\ data[q].time <= data[r].time})

\* Numbered makes one report of each time, numbered by its place on its day.
LEMMA NumberedFacts ==
  ASSUME NEW m \in Nat, NEW times \in SUBSET (0 .. m), NEW first \in Nat,
         NEW data, data = Numbered(times, first)
  PROVE  /\ Cardinality(times) \in Nat
         /\ DOMAIN data = first .. first + Cardinality(times) - 1
         /\ data \in [DOMAIN data -> [time : Nat, no : Nat]]
         /\ \A r \in DOMAIN data : data[r].time \in times
         /\ \A r \in DOMAIN data : data[r].no = PlaceOf(data, r)
<1> DEFINE n == Cardinality(times)
           D == first .. first + n - 1
           Before(t) == {u \in times : u < t}
           Time(r) == CHOOSE t \in times : Cardinality(Before(t)) = r - first
           Same(t) == {u \in times : Day(u) = Day(t) /\ u <= t}
<1>1. IsFiniteSet(times) /\ n \in Nat /\ times \subseteq Nat
  <2>1. IsFiniteSet(0 .. m) /\ 0 .. m \subseteq Nat
    BY FS_Interval
  <2>2. IsFiniteSet(times)
    BY <2>1, FS_Subset
  <2> QED
    BY <2>1, <2>2, FS_CardinalityType
<1>2. data = [r \in D |-> [time |-> Time(r), no |-> Cardinality(Same(Time(r)))]]
  BY DEF Numbered
<1> HIDE DEF Same
<1>3. ASSUME NEW r \in D
      PROVE  Time(r) \in times /\ Cardinality(Before(Time(r))) = r - first
  <2>1. r - first \in Nat /\ r - first < n
    BY <1>1
  <2>2. \E t \in times : Cardinality(Before(t)) = r - first
    BY <2>1, NthTime
  <2> HIDE DEF Before
  <2> QED
    BY <2>2
<1> HIDE DEF Time
<1>4. \A t, u \in times : Cardinality(Before(t)) = Cardinality(Before(u)) => t = u
  <2> TAKE t, u \in times
  <2>1. \A v \in times : IsFiniteSet(Before(v)) /\ Cardinality(Before(v)) \in Nat
    BY <1>1, FS_Subset, FS_CardinalityType
  <2>2. t < u => Cardinality(Before(t)) < Cardinality(Before(u))
    BY <1>1, FewerBefore
  <2>3. u < t => Cardinality(Before(u)) < Cardinality(Before(t))
    BY <1>1, FewerBefore
  <2> HIDE DEF Before
  <2> QED
    BY <1>1, <2>1, <2>2, <2>3
<1>5. ASSUME NEW t \in times
      PROVE  \E r \in D : Time(r) = t
  <2>1. t \notin Before(t) /\ Before(t) \subseteq times
    OBVIOUS
  <2>2. /\ Cardinality(Before(t)) \in Nat /\ Cardinality(Before(t)) <= n
        /\ Cardinality(Before(t)) # n
    <3> HIDE DEF Before
    <3> QED
      BY <1>1, <2>1, FS_Subset, FS_CardinalityType
  <2> HIDE DEF Before
  <2>3. first + Cardinality(Before(t)) \in D
    BY <1>1, <2>2
  <2>4. Time(first + Cardinality(Before(t))) = t
    <3>1. Cardinality(Before(Time(first + Cardinality(Before(t))))) = Cardinality(Before(t))
      BY <1>3, <2>2, <2>3
    <3> QED
      BY <1>3, <1>4, <2>3, <3>1
  <2> QED
    BY <2>3, <2>4
<1>6. \A q, r \in D : Time(q) = Time(r) => q = r
  <2> TAKE q, r \in D
  <2> HAVE Time(q) = Time(r)
  <2>1. q - first = r - first
    BY <1>3
  <2> QED
    BY <1>1, <2>1
<1> HIDE DEF Before, n
<1>7. DOMAIN data = D /\ \A r \in D : data[r].time = Time(r) /\ data[r].time \in times
                              /\ data[r].no = Cardinality(Same(Time(r)))
  BY <1>2, <1>3
<1>8. \A t \in times : IsFiniteSet(Same(t)) /\ Cardinality(Same(t)) \in Nat
  BY <1>1, FS_Subset, FS_CardinalityType DEF Same
<1>9. data \in [D -> [time : Nat, no : Nat]]
  <2>1. \A r \in D : Time(r) \in Nat /\ Cardinality(Same(Time(r))) \in Nat
    BY <1>1, <1>3, <1>8
  <2>2. data = [r \in D |-> [time |-> Time(r), no |-> Cardinality(Same(Time(r)))]]
    BY <1>2
  <2> HIDE DEF D, Time, Same
  <2> QED
    BY <2>1, <2>2
<1>10. ASSUME NEW r \in D
       PROVE  Cardinality(Same(Time(r))) = Cardinality({q \in D :
                Day(data[q].time) = Day(data[r].time) /\ data[q].time <= data[r].time})
  <2> DEFINE Q == {q \in D :
                Day(data[q].time) = Day(data[r].time) /\ data[q].time <= data[r].time}
             f == [q \in Q |-> Time(q)]
  <2>1. Time(r) \in times
    BY <1>3
  <2>2. \A q \in Q : Time(q) \in Same(Time(r))
    BY <1>7 DEF Same
  <2>3. ASSUME NEW u \in Same(Time(r))
        PROVE  \E q \in Q : Time(q) = u
    <3>1. u \in times /\ Day(u) = Day(Time(r)) /\ u <= Time(r)
      BY DEF Same
    <3>2. PICK q \in D : Time(q) = u
      BY <1>5, <3>1
    <3>3. data[q].time = u /\ data[r].time = Time(r)
      BY <1>7, <3>2
    <3>4. q \in Q
      BY <3>1, <3>3
    <3> QED
      BY <3>2, <3>4
  <2>4. f \in Bijection(Q, Same(Time(r)))
    <3>1. f \in [Q -> Same(Time(r))] /\ \A q \in Q : f[q] = Time(q)
      BY <2>2
    <3>2. Q \subseteq D
      OBVIOUS
    <3> HIDE DEF f, Q, D
    <3>3. \A a, b \in Q : f[a] = f[b] => a = b
      BY <1>6, <3>1, <3>2
    <3> QED
      BY <2>3, <3>1, <3>3 DEF Bijection, Injection, Surjection, IsInjective
  <2>5. IsFiniteSet(Q)
    <3>1. IsFiniteSet(D)
      BY <1>1, FS_Interval
    <3> QED
      BY <3>1, FS_Subset
  <2> HIDE DEF Q, f
  <2>6. Cardinality(Same(Time(r))) = Cardinality(Q)
    BY <2>4, <2>5, FS_Bijection DEF ExistsBijection
  <2> QED
    BY <2>6 DEF Q
<1>11. \A r \in D : PlaceOf(data, r) = Cardinality(Same(Time(r)))
  BY <1>7, <1>10 DEF PlaceOf
<1> QED
  BY <1>1, <1>7, <1>9, <1>11 DEF n

-----------------------------------------------------------------------------
(* The invariant.                                                          *)

\* A restore brings reports of before the launch.
CloudInv == cloud # Nil => cloud \subseteq 0 .. Start - 1

\* What is on the screen: the alerts stand over a list that shows the database,
\* and nothing is deleted while a report is edited.
ScreenInv ==
  /\ screen = "list" => Listed
  /\ alert # Nil =>
       /\ screen = "list"
       /\ \/ /\ alert.kind = "delete" /\ edit = Nil
             /\ alert.section \in 1 .. Len(reportData)
             /\ alert.item \in 1 .. Len(reportData[alert.section])
          \/ alert.kind = "restore" /\ cloud # Nil
  /\ DeletedIsSwiped
  /\ edit # Nil => screen # "away" /\ edit \in Live \cup replaced
  /\ EditedExists

\* A report may be later than the clock; then the clock was set back, and the
\* days up to the report's are irregular.
ClockInv ==
  \A r \in Live : reports[r].time < now \/ Day(now) .. DayOf(r) \subseteq irregular

IInv == ReportsInv /\ CloudInv /\ ScreenInv /\ ClockInv /\ NumbersInOrder

-----------------------------------------------------------------------------
(* Numbers.                                                                *)

\* The number of a report is right, or need not be.
NumberOk(r) ==
  \/ DayOf(r) \in irregular
  \/ \E q \in OnDay(DayOf(r)) : Midnight(reports[q].time)
  \/ reports[r].no \in {0, Rank(r)}

LEMMA NumbersOk == NumbersInOrder <=> \A r \in Live : NumberOk(r)
  BY DEF NumbersInOrder, NumberOk

\* A report keeps its rank where its day keeps its reports and their times.
LEMMA NumberStays ==
  ASSUME NEW r \in Live, NumberOk(r), NEW d, d = DayOf(r), DayOf(r)' = d,
         OnDay(d)' = OnDay(d), reports'[r].time = reports[r].time,
         \A q \in OnDay(d) : reports'[q].time = reports[q].time,
         reports'[r].no \in {0, reports[r].no}, irregular \subseteq irregular'
  PROVE  NumberOk(r)'
<1>1. CASE d \in irregular
  BY <1>1 DEF NumberOk
<1>2. CASE \E q \in OnDay(d) : Midnight(reports[q].time)
  BY <1>2 DEF NumberOk
<1>3. CASE reports[r].no \in {0, Rank(r)}
  <2>1. {q \in OnDay(d) : reports[q].time <= reports[r].time}
          = {q \in OnDay(d)' : reports'[q].time <= reports'[r].time}
    OBVIOUS
  <2>2. Rank(r)' = Rank(r)
    BY <2>1 DEF Rank
  <2> QED
    BY <1>3, <2>2 DEF NumberOk
<1> QED
  BY <1>1, <1>2, <1>3 DEF NumberOk

\* What neither changes the reports nor the clock.
LEMMA SameDatabase ==
  ASSUME IInv, UNCHANGED <<reports, now, made, irregular>>
  PROVE  ReportsInv' /\ ClockInv' /\ NumbersInOrder'
<1>1. ReportsInv' /\ ClockInv'
  BY DEF IInv, ReportsInv, ClockInv, Live, DayOf
<1>2. NumbersInOrder'
  BY DEF IInv, NumbersInOrder, Live, DayOf, OnDay, Rank
<1> QED
  BY <1>1, <1>2

\* A report of the list's row.
LEMMA RowIsLive ==
  ASSUME ReportsInv, Listed, NEW s \in 1 .. Len(reportData), NEW i \in 1 .. Len(reportData[s])
  PROVE  reportData[s][i] \in Live
<1>1. reportData[s] \in Seq(Live)
  BY DEF Listed, Sectioned
<1> QED
  BY <1>1

LEMMA ListDomains ==
  ASSUME Listed
  PROVE  /\ DOMAIN reportData = 1 .. Len(reportData) /\ Len(reportData) \in Nat
         /\ \A s \in 1 .. Len(reportData) : DOMAIN reportData[s] = 1 .. Len(reportData[s])
<1>1. reportData \in Seq(Seq(Live))
  BY DEF Listed, Sectioned
<1> QED
  BY <1>1

-----------------------------------------------------------------------------
(* The actions that change no report.                                      *)

LEMMA ViewWillAppearInv == IInv /\ ViewWillAppear => IInv'
<1> SUFFICES ASSUME IInv, ViewWillAppear
             PROVE  IInv'
  OBVIOUS
<1>1. /\ screen = "away" /\ screen' = "list" /\ SetupDatas(reports)
      /\ UNCHANGED <<reports, alert, edit, cloud, now, made, irregular, replaced>>
  BY DEF ViewWillAppear, history
<1>2. Listed'
  <2>1. Sectioned(DaysOf(reports), reportData', DOMAIN reports)
    <3>1. IsFiniteSet(DOMAIN reports) /\ \A r \in DOMAIN reports : reports[r].time \in Nat
      BY LiveFacts DEF IInv, Live
    <3> QED
      BY <1>1, <3>1, SetupLists
  <2> QED
    BY <1>1, <2>1 DEF Listed, Live, DaysOf
<1>3. alert = Nil /\ edit = Nil
  BY <1>1 DEF IInv, ScreenInv
<1>4. ScreenInv'
  BY <1>1, <1>2, <1>3 DEF ScreenInv, DeletedIsSwiped, EditedExists
<1> QED
  BY <1>1, <1>4, SameDatabase DEF IInv, CloudInv

\* A list on the screen that neither changes nor shows other reports.
LEMMA ListStays ==
  ASSUME UNCHANGED <<reports, reportData>>
  PROVE  Listed' <=> Listed
  BY DEF Listed, Live, DaysOf

LEMMA SwipeInv ==
  ASSUME IInv, NEW s \in DOMAIN reportData, NEW i \in DOMAIN reportData[s],
         SwipeDelete(s, i) \/ SwipeEdit(s, i)
  PROVE  IInv'
<1>1. /\ screen = "list" /\ alert = Nil /\ edit = Nil
      /\ UNCHANGED <<reports, reportData, screen, cloud, now, made, irregular, replaced>>
  BY DEF SwipeDelete, SwipeEdit, Free, history
<1>2. Listed /\ Listed'
  BY <1>1, ListStays DEF IInv, ScreenInv
<1>3. s \in 1 .. Len(reportData) /\ i \in 1 .. Len(reportData[s])
  BY <1>2, ListDomains
<1>4. CASE SwipeDelete(s, i)
  <2>1. /\ alert' = [kind |-> "delete", section |-> s, item |-> i, shown |-> reportData[s][i]]
        /\ edit' = Nil
    BY <1>1, <1>4 DEF SwipeDelete
  <2>2. ScreenInv'
    BY <1>1, <1>2, <1>3, <2>1 DEF IInv, ScreenInv, DeletedIsSwiped, EditedExists
  <2> QED
    BY <1>1, <2>2, SameDatabase DEF IInv, CloudInv
<1>5. CASE SwipeEdit(s, i)
  <2>1. edit' \in Live /\ alert' = Nil
    BY <1>1, <1>2, <1>3, <1>5, RowIsLive DEF SwipeEdit, IInv
  <2>2. ScreenInv'
    BY <1>1, <1>2, <2>1 DEF ScreenInv, DeletedIsSwiped, EditedExists, Live
  <2> QED
    BY <1>1, <2>2, SameDatabase DEF IInv, CloudInv
<1> QED
  BY <1>4, <1>5

LEMMA QuietInv ==
  ASSUME IInv, OpenReports \/ CancelAlert \/ CancelEdit \/ FetchesDone \/ UNCHANGED vars
  PROVE  IInv'
<1>1. UNCHANGED <<reports, reportData, now, made, irregular, replaced>>
  BY DEF OpenReports, CancelAlert, CancelEdit, FetchesDone, vars, history
<1>2. ReportsInv' /\ ClockInv' /\ NumbersInOrder' /\ (Listed' <=> Listed) /\ Live' = Live
  BY <1>1, SameDatabase, ListStays DEF Live
<1>3. CASE OpenReports
  <2>1. /\ alert = Nil /\ edit = Nil /\ screen' = "away" /\ UNCHANGED <<alert, edit, cloud>>
    BY <1>3 DEF OpenReports, Free
  <2> QED
    BY <1>1, <1>2, <2>1 DEF IInv, CloudInv, ScreenInv, DeletedIsSwiped, EditedExists
<1>4. CASE CancelAlert
  <2>1. alert' = Nil /\ UNCHANGED <<screen, edit>> /\ cloud' \in {Nil, cloud}
    BY <1>4 DEF CancelAlert
  <2> QED
    BY <1>1, <1>2, <2>1 DEF IInv, CloudInv, ScreenInv, DeletedIsSwiped, EditedExists
<1>5. CASE CancelEdit
  <2>1. screen = "list" /\ alert = Nil /\ edit' = Nil /\ UNCHANGED <<screen, alert, cloud>>
    BY <1>5 DEF CancelEdit
  <2> QED
    BY <1>1, <1>2, <2>1 DEF IInv, CloudInv, ScreenInv, DeletedIsSwiped, EditedExists
<1>6. CASE FetchesDone
  <2>1. cloud # Nil /\ UNCHANGED <<screen, edit>>
    BY <1>6 DEF FetchesDone
  <2>2. CASE /\ screen = "list" /\ alert = Nil
             /\ alert' = [kind |-> "restore"] /\ UNCHANGED cloud
    BY <1>1, <1>2, <2>1, <2>2 DEF IInv, CloudInv, ScreenInv, DeletedIsSwiped, EditedExists
  <2>3. CASE cloud' = Nil /\ UNCHANGED alert /\ (alert # Nil => alert.kind = "delete")
    BY <1>1, <1>2, <2>1, <2>3 DEF IInv, CloudInv, ScreenInv, DeletedIsSwiped, EditedExists
  <2> QED
    BY <1>6, <2>2, <2>3 DEF FetchesDone
<1>7. CASE UNCHANGED vars
  BY <1>1, <1>2, <1>7
     DEF IInv, CloudInv, ScreenInv, DeletedIsSwiped, EditedExists, vars, history
<1> QED
  BY <1>3, <1>4, <1>5, <1>6, <1>7

-----------------------------------------------------------------------------
(* A numbered database: at the launch, and after a restore.                *)

\* A database that is numbered as the app numbers it is in order.
NumberedInOrder ==
  \A times \in SUBSET (0 .. Start - 1), first \in Nat \ {0} :
    /\ reports = Numbered(times, first) /\ made = first + Cardinality(times) - 1
    /\ now \in Nat /\ now >= Start
    => ReportsInv /\ ClockInv /\ NumbersInOrder

LEMMA NumberedDatabase == NumberedInOrder
<1> SUFFICES ASSUME NEW times \in SUBSET (0 .. Start - 1), NEW first \in Nat \ {0},
                    reports = Numbered(times, first), made = first + Cardinality(times) - 1,
                    now \in Nat, now >= Start
             PROVE  ReportsInv /\ ClockInv /\ NumbersInOrder
  BY DEF NumberedInOrder
<1>1. Start \in Nat /\ times \in SUBSET (0 .. Start)
  BY TimeAssumption
<1>2. /\ Cardinality(times) \in Nat
      /\ Live = first .. first + Cardinality(times) - 1
      /\ reports \in [Live -> [time : Nat, no : Nat]]
      /\ \A r \in Live : reports[r].time \in times
      /\ \A r \in Live : reports[r].no = PlaceOf(reports, r)
  BY <1>1, NumberedFacts DEF Live
<1>3. ReportsInv
  <2>1. made \in Nat /\ Live \subseteq 1 .. made
    BY <1>2
  <2> QED
    BY <1>2, <2>1 DEF ReportsInv
<1>4. ClockInv
  <2>1. \A t \in times : t < now
    BY <1>1
  <2> QED
    BY <1>2, <2>1 DEF ClockInv
<1>5. NumbersInOrder
  <2> SUFFICES ASSUME NEW r \in Live
               PROVE  reports[r].no = Rank(r)
    BY DEF NumbersInOrder
  <2>1. {q \in Live :
           Day(reports[q].time) = Day(reports[r].time) /\ reports[q].time <= reports[r].time}
          = {q \in OnDay(DayOf(r)) : reports[q].time <= reports[r].time}
    BY DEF OnDay, DayOf
  <2>2. PlaceOf(reports, r) = Rank(r)
    BY <2>1 DEF PlaceOf, Rank, Live
  <2> QED
    BY <1>2, <2>2
<1> QED
  BY <1>2, <1>3, <1>4, <1>5

LEMMA InitInv == Init => IInv
<1> SUFFICES ASSUME Init
             PROVE  IInv
  OBVIOUS
<1>1. PICK times \in SUBSET (0 .. Start - 1) :
        \/ reports = Numbered(times, 1) /\ cloud = Nil
        \/ reports = <<>> /\ cloud = times
  BY DEF Init
<1>2. /\ screen = "away" /\ alert = Nil /\ edit = Nil
      /\ now = Start /\ made = Cardinality(Live)
  BY DEF Init
<1>3. CloudInv /\ ScreenInv
  BY <1>1, <1>2 DEF CloudInv, ScreenInv, DeletedIsSwiped, EditedExists
<1>4. Start \in Nat /\ now \in Nat /\ now >= Start
  BY <1>2, TimeAssumption
<1>5. ReportsInv /\ ClockInv /\ NumbersInOrder
  <2>1. CASE reports = Numbered(times, 1)
    <3>1. Cardinality(times) \in Nat /\ Live = 1 .. 1 + Cardinality(times) - 1
      BY <1>4, <2>1, NumberedFacts DEF Live
    <3>2. made = 1 + Cardinality(times) - 1
      BY <1>2, <3>1, FS_Interval
    <3>3. 1 \in Nat \ {0}
      OBVIOUS
    <3> QED
      BY <1>4, <2>1, <3>2, <3>3, NumberedDatabase DEF NumberedInOrder
  <2>2. CASE reports = <<>>
    <3>1. Live = {} /\ made = 0
      BY <1>2, <2>2, FS_EmptySet DEF Live
    <3>2. reports \in [Live -> [time : Nat, no : Nat]]
      BY <2>2, <3>1
    <3> QED
      BY <1>4, <3>1, <3>2 DEF ReportsInv, ClockInv, NumbersInOrder
  <2> QED
    BY <1>1, <2>1, <2>2
<1> QED
  BY <1>3, <1>5 DEF IInv

\* The list is set up over the reports of the next state.
LEMMA SetupListed ==
  ASSUME ReportsInv', NEW data, data = reports', SetupDatas(data)
  PROVE  Listed'
<1>1. IsFiniteSet(DOMAIN data) /\ \A r \in DOMAIN data : data[r].time \in Nat
  <2>1. made' \in Nat /\ DOMAIN data \subseteq 1 .. made'
    BY DEF ReportsInv, Live
  <2>2. IsFiniteSet(1 .. made')
    BY <2>1, FS_Interval
  <2>3. data \in [DOMAIN data -> [time : Nat, no : Nat]]
    BY DEF ReportsInv, Live
  <2> QED
    BY <2>1, <2>2, <2>3, FS_Subset
<1>2. Sectioned(DaysOf(data), reportData', DOMAIN data)
  BY <1>1, SetupLists
<1> QED
  BY <1>2 DEF Listed, Live, DaysOf

LEMMA ConfirmRestoreInv == IInv /\ ConfirmRestore => IInv'
<1> SUFFICES ASSUME IInv, ConfirmRestore
             PROVE  IInv'
  OBVIOUS
<1>1. /\ alert # Nil /\ alert.kind = "restore" /\ alert' = Nil
      /\ reports' = Numbered(cloud, made + 1)
      /\ made' = made + Cardinality(cloud)
      /\ replaced' = replaced \cup Live
      /\ SetupDatas(reports') /\ cloud' = Nil
      /\ UNCHANGED <<screen, edit, now, irregular>>
  BY DEF ConfirmRestore, RestoreData
<1>2. screen = "list" /\ cloud \subseteq 0 .. Start - 1
  BY <1>1 DEF IInv, ScreenInv, CloudInv
<1>3. made \in Nat /\ now \in Nat /\ now >= Start /\ Start \in Nat
  BY TimeAssumption DEF IInv, ReportsInv
<1>4. Cardinality(cloud) \in Nat
  BY <1>2, <1>3, NumberedFacts
<1>5. ReportsInv' /\ ClockInv' /\ NumbersInOrder'
  <2>1. made + 1 \in Nat \ {0} /\ made' = (made + 1) + Cardinality(cloud) - 1
    BY <1>1, <1>3, <1>4
  <2>2. NumberedInOrder'
    BY NumberedDatabase, PTL
  <2>3. cloud \in SUBSET (0 .. Start - 1) /\ now' \in Nat /\ now' >= Start
    BY <1>1, <1>2, <1>3
  <2> QED
    BY <1>1, <2>1, <2>2, <2>3 DEF NumberedInOrder
<1>6. Listed'
  BY <1>1, <1>5, SetupListed
<1>7. ScreenInv'
  <2>1. edit' # Nil => screen' # "away" /\ edit' \in (Live \cup replaced)'
    BY <1>1, <1>2 DEF IInv, ScreenInv
  <2>2. EditedExists'
    BY <1>1, <1>2 DEF EditedExists
  <2> QED
    BY <1>1, <1>6, <2>1, <2>2 DEF ScreenInv, DeletedIsSwiped
<1> QED
  BY <1>1, <1>5, <1>7 DEF IInv, CloudInv

-----------------------------------------------------------------------------
(* Deletions and edits.                                                    *)

LEMMA ConfirmDeleteInv == IInv /\ ConfirmDelete => IInv'
<1> SUFFICES ASSUME IInv, ConfirmDelete
             PROVE  IInv'
  OBVIOUS
<1> DEFINE r == reportData[alert.section][alert.item]
<1>1. /\ alert # Nil /\ alert.kind = "delete" /\ alert' = Nil
      /\ reports' = [q \in Live \ {r} |-> reports[q]]
      /\ irregular' = irregular \cup {DayOf(r)}
      /\ SetupDatas(reports')
      /\ UNCHANGED <<screen, edit, cloud, now, made, replaced>>
  BY DEF ConfirmDelete
<1>2. screen = "list" /\ edit = Nil /\ Listed /\ r \in Live
  <2>1. /\ screen = "list" /\ edit = Nil
        /\ alert.section \in 1 .. Len(reportData)
        /\ alert.item \in 1 .. Len(reportData[alert.section])
    BY <1>1 DEF IInv, ScreenInv
  <2> QED
    BY <2>1, RowIsLive DEF IInv, ScreenInv
<1> HIDE DEF r
<1>3. Live' = Live \ {r} /\ \A q \in Live' : reports'[q] = reports[q]
  BY <1>1 DEF Live
<1>4. ReportsInv'
  BY <1>1, <1>3 DEF IInv, ReportsInv
<1>5. Listed'
  BY <1>1, <1>4, SetupListed
<1>6. ScreenInv'
  BY <1>1, <1>2, <1>5 DEF ScreenInv, DeletedIsSwiped, EditedExists
<1>7. \A q \in Live' : DayOf(q)' = DayOf(q)
  BY <1>3 DEF DayOf
<1>8. ClockInv'
  <2> SUFFICES ASSUME NEW q \in Live'
               PROVE  reports'[q].time < now' \/ Day(now') .. DayOf(q)' \subseteq irregular'
    BY DEF ClockInv
  <2>1. q \in Live /\ reports'[q] = reports[q] /\ DayOf(q)' = DayOf(q)
    BY <1>3, <1>7
  <2>2. reports[q].time < now \/ Day(now) .. DayOf(q) \subseteq irregular
    BY <2>1 DEF IInv, ClockInv
  <2> QED
    BY <1>1, <2>1, <2>2
<1>9. NumbersInOrder'
  <2> SUFFICES ASSUME NEW q \in Live'
               PROVE  NumberOk(q)'
    BY DEF NumbersInOrder, NumberOk
  <2>1. q \in Live /\ NumberOk(q)
    BY <1>3, NumbersOk DEF IInv
  <2>2. CASE DayOf(q) = DayOf(r)
    BY <1>1, <1>7, <2>2 DEF NumberOk
  <2>3. CASE DayOf(q) # DayOf(r)
    <3>1. OnDay(DayOf(q))' = OnDay(DayOf(q))
      <4>1. r \notin OnDay(DayOf(q))
        BY <2>3 DEF OnDay
      <4>2. \A p : p \in OnDay(DayOf(q)) <=> p \in Live /\ DayOf(p) = DayOf(q)
        BY DEF OnDay
      <4>3. \A p : p \in OnDay(DayOf(q))' <=> p \in Live' /\ DayOf(p)' = DayOf(q)'
        BY DEF OnDay
      <4> QED
        BY <1>3, <1>7, <4>1, <4>2, <4>3
    <3>2. OnDay(DayOf(q)) \subseteq Live'
      BY <1>3, <2>3 DEF OnDay
    <3>3. \A p \in OnDay(DayOf(q)) : reports'[p].time = reports[p].time
      BY <1>3, <3>2
    <3> QED
      BY <1>1, <1>3, <1>7, <2>1, <3>1, <3>3, NumberStays
  <2> QED
    BY <2>2, <2>3
<1> QED
  BY <1>1, <1>4, <1>6, <1>8, <1>9 DEF IInv, CloudInv

LEMMA ConfirmEditInv == IInv /\ ConfirmEdit => IInv'
<1> SUFFICES ASSUME IInv, ConfirmEdit
             PROVE  IInv'
  OBVIOUS
<1>1. /\ screen = "list" /\ alert = Nil /\ edit # Nil
      /\ UNCHANGED <<reportData, alert, cloud, now, made, irregular, replaced>>
  BY DEF ConfirmEdit, history
<1>2. CASE edit \notin Live
  <2>1. screen' = "crashed" /\ UNCHANGED <<reports, edit>>
    BY <1>2 DEF ConfirmEdit
  <2>2. edit \in replaced
    BY <1>1, <1>2 DEF IInv, ScreenInv
  <2>3. ScreenInv'
    BY <1>1, <2>1, <2>2 DEF ScreenInv, DeletedIsSwiped, EditedExists
  <2> QED
    BY <1>1, <2>1, <2>3, SameDatabase DEF IInv, CloudInv
<1>3. CASE edit \in Live
  <2>1. reports' = [reports EXCEPT ![edit].no = 0] /\ edit' = Nil /\ screen' = screen
    BY <1>3 DEF ConfirmEdit
  <2>2. Live' = Live /\ reports' \in [Live -> [time : Nat, no : Nat]]
    BY <2>1 DEF IInv, ReportsInv, Live
  <2>3. \A r \in Live :
          reports'[r].time = reports[r].time /\ reports'[r].no \in {0, reports[r].no}
    BY <2>1 DEF IInv, ReportsInv, Live
  <2>4. \A r \in Live : DayOf(r)' = DayOf(r)
    BY <2>3 DEF DayOf
  <2>5. \A d : OnDay(d)' = OnDay(d)
    BY <2>2, <2>4 DEF OnDay
  <2>6. ReportsInv' /\ ClockInv'
    BY <1>1, <2>2, <2>3, <2>4 DEF IInv, ReportsInv, ClockInv
  <2>7. Listed'
    <3>1. DaysOf(reports') = DaysOf(reports)
      BY <2>2, <2>3 DEF DaysOf, Live
    <3>2. Listed
      BY <1>1 DEF IInv, ScreenInv
    <3> QED
      BY <1>1, <2>2, <3>1, <3>2 DEF Listed
  <2>8. ScreenInv'
    BY <1>1, <2>1, <2>7 DEF ScreenInv, DeletedIsSwiped, EditedExists
  <2>9. NumbersInOrder'
    <3> SUFFICES ASSUME NEW r \in Live
                 PROVE  NumberOk(r)'
      BY <2>2 DEF NumbersInOrder, NumberOk
    <3>1. NumberOk(r)
      BY NumbersOk DEF IInv
    <3>2. OnDay(DayOf(r)) \subseteq Live
      BY DEF OnDay
    <3> QED
      BY <1>1, <2>3, <2>4, <2>5, <3>1, <3>2, NumberStays
  <2> QED
    BY <1>1, <2>6, <2>8, <2>9 DEF IInv, CloudInv
<1> QED
  BY <1>2, <1>3

-----------------------------------------------------------------------------
(* The clock and new reports.                                              *)

LEMMA LaterFacts ==
  ASSUME NEW t \in Nat
  PROVE  Later(t) \in Nat /\ t < Later(t) /\ Day(t) <= Day(Later(t))
<1>1. Later(t) \in Nat /\ t < Later(t)
  BY DEF Later
<1> QED
  BY <1>1, DaysRise

LEMMA TickInv == IInv /\ Tick => IInv'
<1> SUFFICES ASSUME IInv, Tick
             PROVE  IInv'
  OBVIOUS
<1>1. /\ now' = Later(now)
      /\ UNCHANGED <<reports, reportData, screen, alert, edit, cloud, made, irregular, replaced>>
  BY DEF Tick, history
<1>2. now \in Nat /\ now' \in Nat /\ now < now' /\ Day(now) <= Day(now')
      /\ Day(now) \in Nat /\ Day(now') \in Nat
  BY <1>1, LaterFacts, DayFacts DEF IInv, ReportsInv
<1>3. Live' = Live /\ \A r \in Live : DayOf(r)' = DayOf(r)
  BY <1>1 DEF Live, DayOf
<1>4. ReportsInv'
  BY <1>1, <1>2, <1>3, TimeAssumption DEF IInv, ReportsInv
<1>5. ClockInv'
  <2> SUFFICES ASSUME NEW r \in Live
               PROVE  reports[r].time < now' \/ Day(now') .. DayOf(r) \subseteq irregular
    BY <1>1, <1>3 DEF ClockInv
  <2>1. reports[r].time \in Nat /\ DayOf(r) \in Nat
    BY LiveFacts DEF IInv
  <2>2. Day(now') .. DayOf(r) \subseteq Day(now) .. DayOf(r)
    BY <1>2, <2>1
  <2> QED
    BY <1>2, <2>1, <2>2 DEF IInv, ClockInv
<1>6. NumbersInOrder'
  BY <1>1 DEF IInv, NumbersInOrder, Live, DayOf, OnDay, Rank
<1>7. ScreenInv'
  BY <1>1, <1>3, ListStays DEF IInv, ScreenInv, DeletedIsSwiped, EditedExists
<1> QED
  BY <1>1, <1>4, <1>5, <1>6, <1>7 DEF IInv, CloudInv

LEMMA SetBackInv == IInv /\ SetBack => IInv'
<1> SUFFICES ASSUME IInv, SetBack
             PROVE  IInv'
  OBVIOUS
<1>1. PICK t \in Start .. now - 1 : now' = t /\ irregular' = irregular \cup (Day(t) .. Day(now))
  BY DEF SetBack
<1>2. UNCHANGED <<reports, reportData, screen, alert, edit, cloud, made, replaced>>
  BY DEF SetBack
<1>3. now \in Nat /\ t \in Nat /\ t < now /\ t >= Start
      /\ Day(t) \in Nat /\ Day(now) \in Nat /\ Day(t) <= Day(now)
  <2>1. now \in Nat /\ t \in Nat /\ t < now /\ t >= Start
    BY TimeAssumption DEF IInv, ReportsInv
  <2>2. Day(t) <= Day(now)
    <3>1. t <= now
      BY <2>1
    <3> QED
      BY <2>1, <3>1, DaysRise
  <2> QED
    BY <2>1, <2>2, DayFacts
<1>4. Live' = Live /\ \A r \in Live : DayOf(r)' = DayOf(r)
  BY <1>2 DEF Live, DayOf
<1>5. ReportsInv'
  BY <1>1, <1>2, <1>3, <1>4 DEF IInv, ReportsInv
<1>6. ClockInv'
  <2> SUFFICES ASSUME NEW r \in Live
               PROVE  Day(t) .. DayOf(r) \subseteq irregular'
    BY <1>1, <1>2, <1>4 DEF ClockInv
  <2>1. reports[r].time \in Nat /\ DayOf(r) \in Nat /\ DayOf(r) = Day(reports[r].time)
    BY LiveFacts DEF IInv, DayOf
  <2>2. CASE reports[r].time < now
    <3>1. DayOf(r) <= Day(now)
      BY <1>3, <2>1, <2>2, DaysRise
    <3> QED
      BY <1>1, <1>3, <2>1, <3>1
  <2>3. CASE Day(now) .. DayOf(r) \subseteq irregular
    <3>1. \A d \in Day(t) .. DayOf(r) : d \in Day(t) .. Day(now) \/ d \in Day(now) .. DayOf(r)
      BY <1>3, <2>1
    <3> QED
      BY <1>1, <2>3, <3>1
  <2> QED
    BY <2>2, <2>3 DEF IInv, ClockInv
<1>7. NumbersInOrder'
  <2> SUFFICES ASSUME NEW r \in Live
               PROVE  NumberOk(r)'
    BY <1>4 DEF NumbersInOrder, NumberOk
  <2>1. NumberOk(r)
    BY NumbersOk DEF IInv
  <2>2. OnDay(DayOf(r))' = OnDay(DayOf(r))
    BY <1>2 DEF OnDay, Live, DayOf
  <2> QED
    BY <1>1, <1>2, <1>4, <2>1, <2>2, NumberStays
<1>8. ScreenInv'
  BY <1>2, <1>4, ListStays DEF IInv, ScreenInv, DeletedIsSwiped, EditedExists
<1> QED
  BY <1>2, <1>5, <1>6, <1>7, <1>8 DEF IInv, CloudInv

\* On a day that is neither irregular nor has a report at midnight, the new number
\* is one more than the day's reports: the first section is that of the day, or of
\* an earlier day.
LEMMA NumberCounts ==
  ASSUME ReportsInv, Listed, ClockInv, NEW d, d = Day(now), d \notin irregular,
         \A q \in OnDay(d) : ~Midnight(reports[q].time)
  PROVE  Number = Cardinality(OnDay(d)) + 1
<1> DEFINE start == now - (now % TicksPerDay)
           first == reportData[1]
           Counted == {i \in DOMAIN first : reports[first[i]].time > start}
<1>1. now \in Nat /\ d \in Nat /\ start \in Int
  <2>1. now \in Nat
    BY DEF ReportsInv
  <2> QED
    BY <2>1, DayFacts, TimeAssumption
<1>2. \A r \in Live : reports[r].time \in Nat /\ DayOf(r) \in Nat
                      /\ DayOf(r) = Day(reports[r].time) /\ DaysOf(reports)[r] = DayOf(r)
  BY LiveFacts DEF DayOf
<1>3. \A r \in Live : DayOf(r) <= d
  <2> TAKE r \in Live
  <2>1. CASE reports[r].time < now
    <3>1. reports[r].time <= now
      BY <1>1, <1>2, <2>1
    <3> QED
      BY <1>1, <1>2, <3>1, DaysRise
  <2>2. CASE Day(now) .. DayOf(r) \subseteq irregular
    <3>1. Day(now) \notin Day(now) .. DayOf(r)
      BY <2>2
    <3> QED
      BY <1>1, <1>2, <3>1
  <2> QED
    BY <2>1, <2>2 DEF ClockInv
<1>4. CASE reportData = <<>>
  <2>1. Live = {}
    BY <1>4 DEF Listed, Sectioned
  <2>2. OnDay(d) = {}
    BY <2>1 DEF OnDay
  <2> QED
    BY <1>4, <2>2, FS_EmptySet DEF Number
<1>5. CASE reportData # <<>>
  <2>1. 1 \in 1 .. Len(reportData) /\ Len(reportData) \in Nat
    BY <1>5, ListDomains
  <2>2. /\ first[1] \in Live
        /\ ToSet(first) = {r \in Live : DaysOf(reports)[r] = DaysOf(reports)[first[1]]}
        /\ Len(first) = Cardinality({r \in Live :
             DaysOf(reports)[r] = DaysOf(reports)[first[1]]})
        /\ DOMAIN first = 1 .. Len(first)
    <3>1. /\ IsFiniteSet(Live) /\ DaysOf(reports) \in [Live -> Nat]
          /\ Sectioned(DaysOf(reports), reportData, Live)
      BY LiveFacts DEF Listed
    <3>2. /\ first[1] \in Live
          /\ ToSet(first) = DayOfSection(DaysOf(reports), Live, first)
          /\ Len(first) = Cardinality(DayOfSection(DaysOf(reports), Live, first))
          /\ DOMAIN first = 1 .. Len(first)
      BY <2>1, <3>1, SectionIsDay
    <3> QED
      BY <3>2 DEF DayOfSection
  <2>3. Len(first) \in Nat
    BY <2>1 DEF Listed, Sectioned
  <2>4. {r \in Live : DaysOf(reports)[r] = DaysOf(reports)[first[1]]} = OnDay(DayOf(first[1]))
    BY <1>2, <2>2 DEF OnDay
  <2>5. \A i \in DOMAIN first : first[i] \in OnDay(DayOf(first[1]))
    BY <2>2, <2>4 DEF ToSet
  <2>6. Number = Cardinality(Counted) + 1
    BY <1>5 DEF Number
  <2>7. CASE DayOf(first[1]) = d
    <3>1. Counted = DOMAIN first
      <4> SUFFICES ASSUME NEW i \in DOMAIN first
                   PROVE  reports[first[i]].time > start
        OBVIOUS
      <4>1. first[i] \in OnDay(d)
        BY <2>5, <2>7
      <4>2. first[i] \in Live /\ DayOf(first[i]) = d
        BY <4>1 DEF OnDay
      <4>3. ~Midnight(reports[first[i]].time)
        BY <4>1
      <4>4. reports[first[i]].time \in Nat /\ Day(reports[first[i]].time) = Day(now)
        BY <1>2, <4>2
      <4> QED
        BY <1>1, <4>3, <4>4, AfterMidnight
    <3>2. Cardinality(DOMAIN first) = Len(first)
      BY <2>2, <2>3, FS_Interval
    <3> QED
      BY <2>2, <2>4, <2>6, <2>7, <3>1, <3>2
  <2>8. CASE DayOf(first[1]) # d
    <3>1. DayOf(first[1]) < d
      BY <1>1, <1>2, <1>3, <2>2, <2>8
    <3>2. \A r \in Live : DayOf(r) <= DayOf(first[1])
      <4> TAKE r \in Live
      <4>1. PICK s \in 1 .. Len(reportData) :
              \E i \in 1 .. Len(reportData[s]) : reportData[s][i] = r
        BY DEF Listed, Sectioned
      <4>2. /\ reportData[s][1] \in Live
            /\ DaysOf(reports)[r] = DaysOf(reports)[reportData[s][1]]
        <5>1. Len(reportData[s]) \in Nat /\ Len(reportData[s]) > 0
          BY <4>1 DEF Listed, Sectioned, OneDay
        <5>2. 1 \in 1 .. Len(reportData[s])
          BY <5>1
        <5>3. OneDay(DaysOf(reports), reportData[s])
          BY DEF Listed, Sectioned
        <5>4. PICK i \in 1 .. Len(reportData[s]) : reportData[s][i] = r
          BY <4>1
        <5>5. DaysOf(reports)[r] = DaysOf(reports)[reportData[s][1]]
          BY <5>2, <5>3, <5>4, Zenon DEF OneDay
        <5>6. reportData[s][1] \in Live
          BY <5>2, RowIsLive
        <5> QED
          BY <5>5, <5>6
      <4>3. 1 < s => DaysOf(reports)[first[1]] > DaysOf(reports)[reportData[s][1]]
        BY <2>1, <4>1 DEF Listed, Sectioned
      <4>4. DayOf(r) = DayOf(reportData[s][1])
        BY <1>2, <4>2
      <4>5. 1 < s => DayOf(first[1]) > DayOf(reportData[s][1])
        BY <1>2, <2>2, <4>2, <4>3
      <4>6. s = 1 \/ 1 < s
        BY <2>1, <4>1
      <4>7. DayOf(first[1]) \in Nat /\ DayOf(reportData[s][1]) \in Nat
        BY <1>2, <2>2, <4>2
      <4> QED
        BY <4>4, <4>5, <4>6, <4>7
    <3>3. OnDay(d) = {}
      <4>1. \A r \in Live : DayOf(r) # d
        BY <1>1, <1>2, <2>2, <3>1, <3>2
      <4> QED
        BY <4>1 DEF OnDay
    <3>4. Counted = {}
      <4> SUFFICES ASSUME NEW i \in DOMAIN first
                   PROVE  ~(reports[first[i]].time > start)
        OBVIOUS
      <4>1. first[i] \in Live /\ DayOf(first[i]) = DayOf(first[1])
        BY <2>5 DEF OnDay
      <4>2. reports[first[i]].time \in Nat /\ Day(reports[first[i]].time) < Day(now)
        BY <1>2, <3>1, <4>1
      <4>3. reports[first[i]].time < start
        BY <1>1, <4>2, DaysApart
      <4> QED
        BY <1>1, <4>2, <4>3
    <3> HIDE DEF Counted
    <3> QED
      BY <2>6, <3>3, <3>4, FS_EmptySet
  <2> QED
    BY <2>7, <2>8
<1> QED
  BY <1>4, <1>5

LEMMA BtnAddInv == IInv /\ BtnAddNewWasTapped => IInv'
<1> SUFFICES ASSUME IInv, BtnAddNewWasTapped
             PROVE  IInv'
  OBVIOUS
<1>a. PICK new \in Nat, d \in Nat : new = made + 1 /\ d = Day(now)
  <2>1. made + 1 \in Nat /\ Day(now) \in Nat
    BY DayFacts DEF IInv, ReportsInv
  <2> QED
    BY <2>1
<1>1. /\ screen = "list" /\ alert = Nil /\ edit = Nil
      /\ screen' = "away" /\ now' = Later(now) /\ made' = new
      /\ reports' = [r \in Live \cup {new} |->
                       IF r = new THEN [time |-> now, no |-> Number] ELSE reports[r]]
      /\ UNCHANGED <<reportData, alert, edit, cloud, irregular, replaced>>
  BY <1>a DEF BtnAddNewWasTapped, Free, history
<1>2. /\ now \in Nat /\ now' \in Nat /\ now < now' /\ now >= Start
      /\ Day(now) <= Day(now') /\ Day(now') \in Nat /\ d \in Nat
      /\ made \in Nat /\ Live \subseteq 1 .. made
  BY <1>1, LaterFacts, DayFacts DEF IInv, ReportsInv
<1>3. new \notin Live
  BY <1>a, <1>2
<1>4. /\ Live' = Live \cup {new}
      /\ \A r \in Live : reports'[r] = reports[r]
      /\ reports'[new] = [time |-> now, no |-> Number]
  BY <1>1, <1>3 DEF Live
<1>5. /\ reports'[new].time = now /\ reports'[new].no = Number
      /\ \A r \in Live : DayOf(r)' = DayOf(r)
      /\ DayOf(new)' = d
  BY <1>a, <1>4 DEF DayOf
<1>6. \A r \in Live : reports[r].time \in Nat /\ DayOf(r) \in Nat
  BY LiveFacts DEF IInv
<1>7. Number \in Nat
  <2>1. CASE reportData = <<>>
    BY <2>1 DEF Number
  <2>2. CASE reportData # <<>>
    <3>1. Listed
      BY <1>1 DEF IInv, ScreenInv
    <3>2. 1 \in 1 .. Len(reportData) /\ DOMAIN reportData[1] = 1 .. Len(reportData[1])
      BY <2>2, <3>1, ListDomains
    <3>3. Len(reportData[1]) \in Nat
      BY <3>1, <3>2 DEF Listed, Sectioned
    <3>4. IsFiniteSet(DOMAIN reportData[1])
      BY <3>2, <3>3, FS_Interval
    <3> DEFINE Counted == {i \in DOMAIN reportData[1] :
                             reports[reportData[1][i]].time > now - (now % TicksPerDay)}
    <3>5. Cardinality(Counted) \in Nat
      BY <3>4, FS_Subset, FS_CardinalityType
    <3>6. Number = Cardinality(Counted) + 1
      BY <2>2 DEF Number
    <3> HIDE DEF Counted
    <3> QED
      BY <3>5, <3>6
  <2> QED
    BY <2>1, <2>2
<1>8. ReportsInv'
  <2>1. reports' \in [Live' -> [time : Nat, no : Nat]]
    BY <1>1, <1>2, <1>4, <1>7 DEF IInv, ReportsInv
  <2>2. made' \in Nat /\ Live' \subseteq 1 .. made'
    BY <1>a, <1>1, <1>2, <1>4
  <2>3. now' >= Start
    BY <1>2, TimeAssumption
  <2> QED
    BY <1>2, <2>1, <2>2, <2>3 DEF ReportsInv
<1>9. ScreenInv'
  BY <1>1 DEF ScreenInv, DeletedIsSwiped, EditedExists
<1>10. ClockInv'
  <2> SUFFICES ASSUME NEW r \in Live'
               PROVE  reports'[r].time < now' \/ Day(now') .. DayOf(r)' \subseteq irregular'
    BY DEF ClockInv
  <2>1. CASE r = new
    BY <1>2, <1>5, <2>1
  <2>2. CASE r \in Live
    <3>1. DayOf(r)' = DayOf(r) /\ reports'[r].time = reports[r].time
      BY <1>4, <1>5, <2>2
    <3>2. Day(now') .. DayOf(r) \subseteq d .. DayOf(r)
      BY <1>a, <1>2, <1>6, <2>2
    <3>3. reports[r].time < now \/ d .. DayOf(r) \subseteq irregular
      BY <1>a, <2>2 DEF IInv, ClockInv
    <3> QED
      BY <1>1, <1>2, <1>6, <2>2, <3>1, <3>2, <3>3
  <2> QED
    BY <1>4, <2>1, <2>2
<1>11. OnDay(d)' = OnDay(d) \cup {new}
  <2>1. \A r \in Live' : DayOf(r)' = d <=> r = new \/ (r \in Live /\ DayOf(r) = d)
    BY <1>4, <1>5
  <2> QED
    BY <1>4, <2>1 DEF OnDay
<1>12. \A e : e # d => OnDay(e)' = OnDay(e)
  <2> TAKE e
  <2> HAVE e # d
  <2>1. \A r \in Live' : DayOf(r)' = e <=> r \in Live /\ DayOf(r) = e
    BY <1>4, <1>5
  <2> QED
    BY <1>4, <2>1 DEF OnDay
<1> DEFINE Exempt == \/ d \in irregular
                     \/ \E q \in OnDay(d) : Midnight(reports[q].time)
                     \/ Midnight(now)
<1>13. ASSUME Exempt, NEW r \in Live', DayOf(r)' = d
       PROVE  NumberOk(r)'
  <2>1. OnDay(d) \subseteq Live
    BY DEF OnDay
  <2>2. CASE \E q \in OnDay(d) : Midnight(reports[q].time)
    <3>1. \E q \in OnDay(d)' : Midnight(reports'[q].time)
      BY <1>4, <1>11, <2>1, <2>2
    <3> QED
      BY <1>13, <3>1 DEF NumberOk
  <2>3. CASE Midnight(now)
    <3>1. \E q \in OnDay(d)' : Midnight(reports'[q].time)
      BY <1>5, <1>11, <2>3
    <3> QED
      BY <1>13, <3>1 DEF NumberOk
  <2>4. CASE d \in irregular
    BY <1>1, <1>13, <2>4 DEF NumberOk
  <2> QED
    BY <1>13, <2>2, <2>3, <2>4
<1>14. ASSUME ~Exempt
       PROVE  \A q \in OnDay(d) : reports[q].time < now /\ reports'[q].time = reports[q].time
  <2> TAKE q \in OnDay(d)
  <2>1. q \in Live /\ DayOf(q) = d
    BY DEF OnDay
  <2>2. d \in Day(now) .. DayOf(q)
    BY <1>a, <2>1
  <2> QED
    BY <1>4, <1>14, <2>1, <2>2 DEF IInv, ClockInv
<1>15. ASSUME NEW r \in Live
       PROVE  NumberOk(r)'
  <2>1. NumberOk(r)
    BY NumbersOk DEF IInv
  <2>2. CASE DayOf(r) # d
    <3>1. OnDay(DayOf(r))' = OnDay(DayOf(r))
      <4>1. PICK e : e = DayOf(r)
        OBVIOUS
      <4>2. OnDay(e)' = OnDay(e) /\ DayOf(r)' = e
        BY <1>5, <1>12, <2>2, <4>1
      <4> QED
        BY <4>1, <4>2 DEF OnDay
    <3>2. OnDay(DayOf(r)) \subseteq Live
      BY DEF OnDay
    <3> QED
      BY <1>1, <1>4, <1>5, <2>1, <3>1, <3>2, NumberStays
  <2>3. CASE DayOf(r) = d /\ Exempt
    BY <1>4, <1>5, <1>13, <2>3
  <2>4. CASE DayOf(r) = d /\ ~Exempt
    <3>1. r \in OnDay(d)
      BY <2>4 DEF OnDay
    <3>2. {q \in OnDay(d)' : reports'[q].time <= reports'[r].time}
            = {q \in OnDay(d) : reports[q].time <= reports[r].time}
      <4>1. ~(reports'[new].time <= reports'[r].time)
        BY <1>2, <1>5, <1>6, <1>14, <2>4, <3>1
      <4> QED
        BY <1>11, <1>14, <2>4, <3>1, <4>1
    <3>3. Rank(r)' = Rank(r)
      BY <1>5, <2>4, <3>2 DEF Rank
    <3>4. reports[r].no \in {0, Rank(r)}
      BY <2>1, <2>4 DEF NumberOk
    <3> QED
      BY <1>4, <3>3, <3>4 DEF NumberOk
  <2> QED
    BY <2>2, <2>3, <2>4
<1>16. NumberOk(new)'
  <2>1. CASE Exempt
    BY <1>4, <1>5, <1>13, <2>1
  <2>2. CASE ~Exempt
    <3>1. Number = Cardinality(OnDay(d)) + 1
      <4>1. Listed
        BY <1>1 DEF IInv, ScreenInv
      <4> QED
        BY <1>a, <2>2, <4>1, NumberCounts DEF IInv
    <3>2. IsFiniteSet(OnDay(d)) /\ new \notin OnDay(d)
      <4>1. OnDay(d) \subseteq Live
        BY DEF OnDay
      <4> QED
        BY <1>3, <4>1, LiveFacts, FS_Subset DEF IInv
    <3>3. Cardinality(OnDay(d)') = Cardinality(OnDay(d)) + 1
      BY <1>11, <3>2, FS_AddElement
    <3>4. {q \in OnDay(d)' : reports'[q].time <= reports'[new].time} = OnDay(d)'
      <4> SUFFICES ASSUME NEW q \in OnDay(d)'
                   PROVE  reports'[q].time <= now
        BY <1>5
      <4>1. CASE q = new
        BY <1>2, <1>5, <4>1
      <4>2. CASE q \in OnDay(d)
        <5>1. reports[q].time \in Nat
          BY <1>6, <4>2 DEF OnDay
        <5> QED
          BY <1>2, <1>14, <2>2, <4>2, <5>1
      <4> QED
        BY <1>11, <4>1, <4>2
    <3>5. Rank(new)' = Cardinality(OnDay(d)')
      BY <1>5, <3>4 DEF Rank
    <3> QED
      BY <1>5, <3>1, <3>3, <3>5 DEF NumberOk
  <2> QED
    BY <2>1, <2>2
<1>17. NumbersInOrder'
  BY <1>4, <1>15, <1>16 DEF NumbersInOrder, NumberOk
<1> QED
  BY <1>1, <1>8, <1>9, <1>10, <1>17 DEF IInv, CloudInv

LEMMA NextInv == IInv /\ [Next]_vars => IInv'
  BY ViewWillAppearInv, SwipeInv, QuietInv, ConfirmRestoreInv, ConfirmDeleteInv,
     ConfirmEditInv, BtnAddInv, TickInv, SetBackInv DEF Next

LEMMA Invariant == Spec => []IInv
  BY InitInv, NextInv, PTL DEF Spec

-----------------------------------------------------------------------------
(* The properties.                                                         *)

\* The numbers of a day's reports count from 1 by their time, whatever section the
\* app takes for today's, but for the exceptions of NumbersInOrder.
THEOREM NumbersCount == Spec => []NumbersInOrder
<1>1. IInv => NumbersInOrder
  BY DEF IInv
<1> QED
  BY <1>1, Invariant, PTL

\* What a list shows while it is on the screen is what the database has.
LEMMA ListedAreDays ==
  ASSUME ReportsInv, Listed, screen = "list"
  PROVE  SectionsAreDays
<1>1. /\ DOMAIN reportData = 1 .. Len(reportData)
      /\ \A s \in 1 .. Len(reportData) : DOMAIN reportData[s] = 1 .. Len(reportData[s])
  BY ListDomains
<1>2. \A r \in Live : DaysOf(reports)[r] = DayOf(r)
  BY LiveFacts
<1>3. ASSUME NEW s \in 1 .. Len(reportData)
      PROVE  /\ reportData[s] # <<>> /\ reportData[s][1] \in Live
             /\ ToSet(reportData[s]) = OnDay(DayOf(reportData[s][1]))
             /\ Len(reportData[s]) = Cardinality(OnDay(DayOf(reportData[s][1])))
  <2>1. /\ IsFiniteSet(Live) /\ DaysOf(reports) \in [Live -> Nat]
        /\ Sectioned(DaysOf(reports), reportData, Live)
    BY LiveFacts DEF Listed
  <2>2. /\ reportData[s] # <<>> /\ reportData[s][1] \in Live
        /\ ToSet(reportData[s]) = DayOfSection(DaysOf(reports), Live, reportData[s])
        /\ Len(reportData[s]) = Cardinality(DayOfSection(DaysOf(reports), Live, reportData[s]))
    BY <2>1, SectionIsDay
  <2>3. DayOfSection(DaysOf(reports), Live, reportData[s]) = OnDay(DayOf(reportData[s][1]))
    BY <1>2, <2>2 DEF DayOfSection, OnDay
  <2> QED
    BY <2>2, <2>3
<1>4. \A s, t \in 1 .. Len(reportData) :
        s < t => DayOf(reportData[s][1]) > DayOf(reportData[t][1])
  BY <1>2, <1>3 DEF Listed, Sectioned
<1>5. \A r \in Live : \E s \in 1 .. Len(reportData) : r \in ToSet(reportData[s])
  BY <1>1 DEF Listed, Sectioned, ToSet
<1> QED
  BY <1>1, <1>3, <1>4, <1>5 DEF SectionsAreDays

\* While the list is on the screen, its sections are the days that have reports,
\* each with all of its reports, after any deletion, edit or restore.
THEOREM SectionsShown == Spec => []SectionsAreDays
<1>1. IInv => SectionsAreDays
  BY ListedAreDays DEF IInv, ScreenInv, SectionsAreDays
<1> QED
  BY <1>1, Invariant, PTL

\* The report that is deleted is the one that was swiped.
THEOREM SwipedIsDeleted == Spec => []DeletedIsSwiped
<1>1. IInv => DeletedIsSwiped
  BY DEF IInv, ScreenInv
<1> QED
  BY <1>1, Invariant, PTL

\* An edit is confirmed of a report that exists, unless a restore has replaced it.
THEOREM EditedLives == Spec => []EditedExists
<1>1. IInv => EditedExists
  BY DEF IInv, ScreenInv
<1> QED
  BY <1>1, Invariant, PTL
=============================================================================
