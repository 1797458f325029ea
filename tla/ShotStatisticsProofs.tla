------------------------ MODULE ShotStatisticsProofs ------------------------
(***************************************************************************)
(* The statistics are right for reports of any length: after any number of *)
(* iterations of the loop the counters and the streaks are those of the    *)
(* shots counted so far.                                                   *)
(***************************************************************************)
EXTENDS ShotStatistics, FiniteSetTheorems, TLAPS

\* What a streak needs to go on: r is the run that ends at position m.
RunAtEnd(r, S, m) ==
  /\ r \in 0 .. m
  /\ m - r + 1 .. m \subseteq S
  /\ r < m => m - r \notin S

LoopInv ==
  screen # "covered" =>
    /\ next <= Len(shots) + 1
    /\ RunAtEnd(run.hold, Held, counted)
    /\ RunAtEnd(run.miss, Missed, counted)

IInv == TypeOK /\ LoopInv /\ CountersAreExact /\ StreaksAreExact

-----------------------------------------------------------------------------
(* Runs and numbers of positions.                                          *)

\* One more position in S: its last run is one longer.
LEMMA RunGoesOn ==
  ASSUME NEW m \in Nat, NEW S \in SUBSET (1 .. m), NEW n \in Nat, NEW r \in Nat,
         LongestRun(n, S, m), RunAtEnd(r, S, m)
  PROVE  /\ LongestRun(Larger(n, r + 1), S \cup {m + 1}, m + 1)
         /\ RunAtEnd(r + 1, S \cup {m + 1}, m + 1)
<1> DEFINE T == S \cup {m + 1}
           l == Larger(n, r + 1)
<1>1. RunAtEnd(r + 1, T, m + 1)
  BY DEF RunAtEnd
<1>2. \E a \in 0 .. (m + 1) - l : a + 1 .. a + l \subseteq T
  <2>1. CASE n > r + 1
    <3>1. PICK a \in 0 .. m - n : a + 1 .. a + n \subseteq S
      BY DEF LongestRun
    <3> QED  BY <2>1, <3>1 DEF Larger
  <2>2. CASE ~(n > r + 1)
    <3>1. l = r + 1 /\ m - r \in 0 .. (m + 1) - l
      BY <2>2 DEF Larger, RunAtEnd
    <3>2. (m - r) + 1 .. (m - r) + (r + 1) \subseteq T
      BY DEF RunAtEnd
    <3> QED  BY <3>1, <3>2
  <2> QED  BY <2>1, <2>2
<1>3. ASSUME NEW a \in 0 .. m + 1, NEW b \in 0 .. m + 1, a + 1 .. b \subseteq T
      PROVE  b - a <= l
  <2>1. CASE b <= m
    <3>1. b \in 0 .. m /\ a + 1 .. b \subseteq S
      BY <1>3, <2>1
    <3>2. CASE a <= m
      BY <3>1, <3>2 DEF LongestRun, Larger
    <3>3. CASE a = m + 1
      BY <2>1, <3>3 DEF Larger
    <3> QED  BY <3>2, <3>3
  <2>2. CASE b = m + 1
    <3>1. SUFFICES ASSUME m - a > r PROVE FALSE
      BY <2>2 DEF Larger
    <3>2. m - r \in a + 1 .. b /\ m - r # m + 1 /\ r < m
      BY <2>2, <3>1
    <3> QED  BY <1>3, <3>2 DEF RunAtEnd
  <2> QED  BY <2>1, <2>2
<1>4. \A a, b \in 0 .. m + 1 : a + 1 .. b \subseteq T => b - a <= l
  BY <1>3
<1> HIDE DEF T, l
<1>5. LongestRun(l, T, m + 1)
  BY <1>2, <1>4, Zenon DEF LongestRun
<1> QED  BY <1>1, <1>5 DEF T, l

\* One more position outside S: the longest run stays, the last is empty.
LEMMA RunEnds ==
  ASSUME NEW m \in Nat, NEW S \in SUBSET (1 .. m), NEW n \in Nat,
         LongestRun(n, S, m)
  PROVE  LongestRun(n, S, m + 1) /\ RunAtEnd(0, S, m + 1)
<1>1. RunAtEnd(0, S, m + 1)
  BY DEF RunAtEnd
<1>2. \E a \in 0 .. (m + 1) - n : a + 1 .. a + n \subseteq S
  <2>1. PICK a \in 0 .. m - n : a + 1 .. a + n \subseteq S
    BY DEF LongestRun
  <2>2. a \in 0 .. (m + 1) - n
    OBVIOUS
  <2> QED  BY <2>1, <2>2, Zenon
<1>3. ASSUME NEW a \in 0 .. m + 1, NEW b \in 0 .. m + 1, a + 1 .. b \subseteq S
      PROVE  b - a <= n
  <2>1. n >= 0
    OBVIOUS
  <2>2. CASE b > a
    <3>1. b \in a + 1 .. b
      BY <2>2
    <3> QED  BY <1>3, <2>2, <3>1 DEF LongestRun
  <2> QED  BY <2>1, <2>2
<1>4. \A a, b \in 0 .. m + 1 : a + 1 .. b \subseteq S => b - a <= n
  BY <1>3
<1> QED  BY <1>1, <1>2, <1>4, Zenon DEF LongestRun

\* The number of a set of positions grows with the position that joins it.
LEMMA OneMore ==
  ASSUME NEW m \in Nat, NEW S \in SUBSET (1 .. m), NEW T, T = S \cup {m + 1}
  PROVE  Cardinality(T) = Cardinality(S) + 1
<1>1. IsFiniteSet(S)
  <2>1. IsFiniteSet(1 .. m)
    BY FS_Interval
  <2> QED  BY <2>1, FS_Subset
<1>2. m + 1 \notin S
  OBVIOUS
<1> QED  BY <1>1, <1>2, FS_AddElement

-----------------------------------------------------------------------------
(* The initial states, and the steps outside the loop.                     *)

Fresh ==
  /\ shots \in Seq(ShotSet) /\ changes \in Nat
  /\ screen = "counting" /\ next = 1 /\ run = NoRun /\ count = Zero

\* Before the first iteration nothing is counted.
LEMMA FreshInv == Fresh => IInv
<1> SUFFICES ASSUME Fresh PROVE IInv
  OBVIOUS
<1> USE DEF Fresh
<1>1. /\ Held = {} /\ Missed = {} /\ HeldTechnically = {}
      /\ MissedSingle = {} /\ MissedMix = {} /\ MissedLeft = {} /\ MissedRight = {}
  BY DEF Held, Missed, counted, HeldTechnically, MissedSingle, MissedMix,
         MissedLeft, MissedRight
<1>2. TypeOK
  BY DEF TypeOK, Zero, NoRun, Counters, Runs
<1>3. RunAtEnd(0, {}, 0) /\ LongestRun(0, {}, 0)
  <2>1. \E a \in 0 .. 0 - 0 : a + 1 .. a + 0 \subseteq {}
    OBVIOUS
  <2>2. \A a, b \in 0 .. 0 : a + 1 .. b \subseteq {} => b - a <= 0
    OBVIOUS
  <2>3. RunAtEnd(0, {}, 0)
    BY DEF RunAtEnd
  <2> QED  BY <2>1, <2>2, <2>3, Zenon DEF LongestRun
<1>4. counted = 0 /\ next <= Len(shots) + 1
  BY DEF counted
<1>5. LoopInv
  BY <1>1, <1>3, <1>4 DEF LoopInv, NoRun
<1>6. CountersAreExact
  BY <1>1, FS_EmptySet DEF CountersAreExact, Zero
<1>7. StreaksAreExact
  BY <1>1, <1>3, <1>4 DEF StreaksAreExact, Zero
<1> QED  BY <1>2, <1>5, <1>6, <1>7 DEF IInv

LEMMA InitInv == Init => IInv
<1> SUFFICES ASSUME Init PROVE IInv
  OBVIOUS
<1>1. shots \in Seq(ShotSet)
  BY BoundAssumption DEF Init
<1> QED  BY <1>1, FreshInv DEF Init, Fresh

LEMMA ViewWillAppearInv == IInv /\ ViewWillAppear => IInv'
<1>1. IInv /\ ViewWillAppear => Fresh'
  BY DEF IInv, TypeOK, ViewWillAppear, SetupDatas, Fresh
<1> QED  BY <1>1, FreshInv, PTL

\* The list of the shots changes them, and nothing else, while it covers the
\* statistics.
LEMMA ChangeInv ==
  ASSUME IInv, Change, (shots \in Seq(ShotSet))'
  PROVE  IInv'
BY DEF IInv, TypeOK, LoopInv, CountersAreExact, StreaksAreExact, Change

LEMMA AddShotInv == IInv /\ AddShot => IInv'
<1> SUFFICES ASSUME IInv, AddShot PROVE IInv'
  OBVIOUS
<1>1. PICK s \in ShotSet, k \in 0 .. Len(shots) :
        shots' = [i \in 1 .. Len(shots) + 1 |->
                    IF i <= k THEN shots[i] ELSE IF i = k + 1 THEN s ELSE shots[i - 1]]
  BY DEF AddShot
<1>2. shots \in Seq(ShotSet) /\ Change
  BY DEF IInv, TypeOK, AddShot
<1>3. Len(shots) + 1 \in Nat /\ shots' \in [1 .. Len(shots) + 1 -> ShotSet]
  BY <1>1, <1>2
<1>4. shots' \in Seq(ShotSet)
  BY <1>3
<1> QED  BY <1>2, <1>4, ChangeInv

LEMMA EditShotInv == IInv /\ EditShot => IInv'
<1> SUFFICES ASSUME IInv, EditShot PROVE IInv'
  OBVIOUS
<1>1. PICK s \in ShotSet, k \in 1 .. Len(shots) : shots' = [shots EXCEPT ![k] = s]
  BY DEF EditShot
<1>2. shots \in Seq(ShotSet) /\ Change
  BY DEF IInv, TypeOK, EditShot
<1>3. shots' \in Seq(ShotSet)
  BY <1>1, <1>2
<1> QED  BY <1>2, <1>3, ChangeInv

LEMMA DeleteShotInv == IInv /\ DeleteShot => IInv'
<1> SUFFICES ASSUME IInv, DeleteShot PROVE IInv'
  OBVIOUS
<1>1. PICK k \in 1 .. Len(shots) :
        shots' = [i \in 1 .. Len(shots) - 1 |-> IF i < k THEN shots[i] ELSE shots[i + 1]]
  BY DEF DeleteShot
<1>2. shots \in Seq(ShotSet) /\ Change
  BY DEF IInv, TypeOK, DeleteShot
<1>3. Len(shots) - 1 \in Nat /\ shots' \in [1 .. Len(shots) - 1 -> ShotSet]
  BY <1>1, <1>2
<1>4. shots' \in Seq(ShotSet)
  BY <1>3
<1> QED  BY <1>2, <1>4, ChangeInv

-----------------------------------------------------------------------------
(* One iteration of the loop.                                              *)

\* What an iteration adds to the sets that are counted.
LEMMA SetsGrow ==
  ASSUME IInv, CountShot
  PROVE  /\ next \in Nat \ {0} /\ counted \in Nat /\ next = counted + 1
         /\ counted' = counted + 1
         /\ shots[next] \in ShotSet
         /\ Held \in SUBSET (1 .. counted) /\ Missed \in SUBSET (1 .. counted)
         /\ shots[next].result = hold =>
              /\ Held' = Held \cup {next} /\ Missed' = Missed
              /\ HeldTechnically' = IF shots[next].technically = 1
                                    THEN HeldTechnically \cup {next} ELSE HeldTechnically
         /\ shots[next].result # hold =>
              /\ Held' = Held /\ Missed' = Missed \cup {next}
              /\ MissedSingle' = IF shots[next].ball \in 1 .. 8
                                 THEN MissedSingle \cup {next} ELSE MissedSingle
              /\ MissedMix' = IF shots[next].ball \in 9 .. 15
                              THEN MissedMix \cup {next} ELSE MissedMix
              /\ MissedLeft' = IF shots[next].result < hold
                               THEN MissedLeft \cup {next} ELSE MissedLeft
              /\ MissedRight' = IF shots[next].result > hold
                                THEN MissedRight \cup {next} ELSE MissedRight
<1>1. next \in 1 .. Len(shots) /\ next' = next + 1 /\ shots' = shots
  BY DEF IInv, TypeOK, CountShot
<1>2. shots[next] \in ShotSet
  BY <1>1 DEF IInv, TypeOK
<1>3. /\ next \in Nat \ {0} /\ counted \in Nat /\ next = counted + 1
      /\ counted' = counted + 1
  BY <1>1 DEF counted
<1>4. Held \in SUBSET (1 .. counted) /\ Missed \in SUBSET (1 .. counted)
  BY DEF Held, Missed
<1>5. ASSUME shots[next].result = hold
      PROVE  /\ Held' = Held \cup {next} /\ Missed' = Missed
             /\ HeldTechnically' = IF shots[next].technically = 1
                                   THEN HeldTechnically \cup {next} ELSE HeldTechnically
  <2>1. Held' = Held \cup {next} /\ Missed' = Missed
    BY <1>1, <1>3, <1>5 DEF Held, Missed
  <2> QED  BY <1>1, <2>1 DEF HeldTechnically
<1>6. ASSUME shots[next].result # hold
      PROVE  /\ Held' = Held /\ Missed' = Missed \cup {next}
             /\ MissedSingle' = IF shots[next].ball \in 1 .. 8
                                THEN MissedSingle \cup {next} ELSE MissedSingle
             /\ MissedMix' = IF shots[next].ball \in 9 .. 15
                             THEN MissedMix \cup {next} ELSE MissedMix
             /\ MissedLeft' = IF shots[next].result < hold
                              THEN MissedLeft \cup {next} ELSE MissedLeft
             /\ MissedRight' = IF shots[next].result > hold
                               THEN MissedRight \cup {next} ELSE MissedRight
  <2>1. Held' = Held /\ Missed' = Missed \cup {next}
    BY <1>1, <1>3, <1>6 DEF Held, Missed
  <2>2. MissedSingle' = IF shots[next].ball \in 1 .. 8
                        THEN MissedSingle \cup {next} ELSE MissedSingle
    BY <1>1, <2>1 DEF MissedSingle
  <2>3. MissedMix' = IF shots[next].ball \in 9 .. 15
                     THEN MissedMix \cup {next} ELSE MissedMix
    BY <1>1, <2>1 DEF MissedMix
  <2>4. MissedLeft' = IF shots[next].result < hold
                      THEN MissedLeft \cup {next} ELSE MissedLeft
    BY <1>1, <2>1 DEF MissedLeft
  <2>5. MissedRight' = IF shots[next].result > hold
                       THEN MissedRight \cup {next} ELSE MissedRight
    BY <1>1, <2>1 DEF MissedRight
  <2> QED  BY <2>1, <2>2, <2>3, <2>4, <2>5
<1> QED  BY <1>2, <1>3, <1>4, <1>5, <1>6

LEMMA CountHoldInv ==
  ASSUME IInv, CountShot, shots[next].result = hold
  PROVE  IInv'
<1> DEFINE s == shots[next]
<1>1. CountHold(s) /\ screen = "counting" /\ UNCHANGED <<shots, screen, changes>>
      /\ next' = next + 1 /\ next <= Len(shots)
  BY DEF CountShot
<1>2. /\ count \in Counters /\ run \in Runs
      /\ LoopInv /\ CountersAreExact /\ StreaksAreExact
  BY DEF IInv, TypeOK
<1>3. TypeOK'
  <2>1. count' \in Counters
    <3>1. PICK l \in Nat : l = Larger(count.longestHold, run.hold + 1)
      BY <1>2 DEF Larger, Counters, Runs
    <3>2. PICK t \in Nat : t = IF s.technically = 1 THEN count.technically + 1
                                                  ELSE count.technically
      BY <1>2 DEF Counters
    <3>3. count' = [count EXCEPT !.hold = count.hold + 1, !.longestHold = l,
                                 !.technically = t]
      BY <1>1, <1>2, <3>1, <3>2 DEF CountHold, Counters
    <3>4. count.hold + 1 \in Nat
      BY <1>2 DEF Counters
    <3> QED  BY <1>2, <3>3, <3>4, Zenon DEF Counters
  <2>2. run' \in Runs
    BY <1>1, <1>2 DEF CountHold, AfterHold, Runs
  <2> QED  BY <1>1, <2>1, <2>2 DEF IInv, TypeOK
<1>4. /\ LongestRun(count'.longestHold, Held', counted')
      /\ RunAtEnd(run'.hold, Held', counted')
  <2>1. LongestRun(count.longestHold, Held, counted) /\ RunAtEnd(run.hold, Held, counted)
    BY <1>1, <1>2 DEF LoopInv, StreaksAreExact
  <2>2. count.longestHold \in Nat /\ run.hold \in Nat
    BY <1>2 DEF Counters, Runs
  <2>3. count'.longestHold = Larger(count.longestHold, run.hold + 1) /\ run'.hold = run.hold + 1
    BY <1>1, <1>2 DEF CountHold, AfterHold, Counters
  <2>4. /\ Held \in SUBSET (1 .. counted) /\ counted \in Nat
        /\ Held' = Held \cup {counted + 1} /\ counted' = counted + 1
    BY SetsGrow
  <2>5. /\ LongestRun(Larger(count.longestHold, run.hold + 1), Held \cup {counted + 1}, counted + 1)
        /\ RunAtEnd(run.hold + 1, Held \cup {counted + 1}, counted + 1)
    BY <2>1, <2>2, <2>4, RunGoesOn
  <2> QED  BY <2>3, <2>4, <2>5
<1>5. /\ LongestRun(count'.longestMiss, Missed', counted')
      /\ RunAtEnd(run'.miss, Missed', counted')
  <2>1. LongestRun(count.longestMiss, Missed, counted) /\ count.longestMiss \in Nat
    BY <1>1, <1>2 DEF StreaksAreExact, Counters
  <2>2. count'.longestMiss = count.longestMiss /\ run'.miss = 0
    BY <1>1, <1>2 DEF CountHold, AfterHold, Counters
  <2> QED  BY <2>1, <2>2, SetsGrow, RunEnds
<1>6. CountersAreExact'
  <2>1. /\ count'.hold = count.hold + 1
        /\ count'.technically = IF s.technically = 1
                                THEN count.technically + 1 ELSE count.technically
        /\ count'.single = count.single /\ count'.mix = count.mix
        /\ count'.left = count.left /\ count'.right = count.right
    BY <1>1, <1>2 DEF CountHold, Counters
  <2>2. Cardinality(Held') = Cardinality(Held) + 1
    BY SetsGrow, OneMore
  <2>3. Cardinality(HeldTechnically') = IF s.technically = 1
          THEN Cardinality(HeldTechnically) + 1 ELSE Cardinality(HeldTechnically)
    <3>1. HeldTechnically \in SUBSET (1 .. counted)
      BY SetsGrow DEF HeldTechnically
    <3> QED  BY <3>1, SetsGrow, OneMore
  <2>4. /\ MissedSingle' = MissedSingle /\ MissedMix' = MissedMix
        /\ MissedLeft' = MissedLeft /\ MissedRight' = MissedRight
    BY <1>1, SetsGrow DEF MissedSingle, MissedMix, MissedLeft, MissedRight
  <2> QED  BY <1>1, <1>2, <2>1, <2>2, <2>3, <2>4 DEF CountersAreExact
<1>7. LoopInv' /\ StreaksAreExact'
  <2>1. (next <= Len(shots) + 1)'
    <3>1. next \in Nat /\ Len(shots) \in Nat
      BY DEF IInv, TypeOK
    <3> QED  BY <1>1, <3>1
  <2>2. LoopInv'
    BY <1>4, <1>5, <2>1 DEF LoopInv
  <2>3. StreaksAreExact'
    BY <1>4, <1>5 DEF StreaksAreExact
  <2> QED  BY <2>2, <2>3
<1> QED  BY <1>3, <1>6, <1>7 DEF IInv

LEMMA CountMissInv ==
  ASSUME IInv, CountShot, shots[next].result # hold
  PROVE  IInv'
<1> DEFINE s == shots[next]
<1>1. CountMiss(s) /\ screen = "counting" /\ UNCHANGED <<shots, screen, changes>>
      /\ next' = next + 1 /\ next <= Len(shots)
  BY DEF CountShot
<1>2. /\ count \in Counters /\ run \in Runs
      /\ LoopInv /\ CountersAreExact /\ StreaksAreExact
  BY DEF IInv, TypeOK
<1>3. TypeOK'
  <2>1. count' \in Counters
    <3>1. PICK l \in Nat : l = Larger(count.longestMiss, run.miss + 1)
      BY <1>2 DEF Larger, Counters, Runs
    <3>2. PICK sgl \in Nat : sgl = IF s.ball <= 8 /\ s.ball > 0
                                   THEN count.single + 1 ELSE count.single
      BY <1>2 DEF Counters
    <3>3. PICK mx \in Nat : mx = IF ~(s.ball <= 8 /\ s.ball > 0) /\ s.ball <= 15
                                 THEN count.mix + 1 ELSE count.mix
      BY <1>2 DEF Counters
    <3>4. PICK lft \in Nat : lft = IF s.result \in {left, leftHold}
                                   THEN count.left + 1 ELSE count.left
      BY <1>2 DEF Counters
    <3>5. PICK rgt \in Nat : rgt = IF s.result \in {left, leftHold}
                                   THEN count.right ELSE count.right + 1
      BY <1>2 DEF Counters
    <3>6. count' = [count EXCEPT !.longestMiss = l, !.single = sgl, !.mix = mx,
                                 !.left = lft, !.right = rgt]
      BY <1>1, <1>2, <3>1, <3>2, <3>3, <3>4, <3>5 DEF CountMiss, Counters
    <3> QED  BY <1>2, <3>6, Zenon DEF Counters
  <2>2. run' \in Runs
    BY <1>1, <1>2 DEF CountMiss, AfterMiss, Runs
  <2> QED  BY <1>1, <2>1, <2>2 DEF IInv, TypeOK
<1>4. /\ LongestRun(count'.longestMiss, Missed', counted')
      /\ RunAtEnd(run'.miss, Missed', counted')
  <2>1. LongestRun(count.longestMiss, Missed, counted) /\ RunAtEnd(run.miss, Missed, counted)
    BY <1>1, <1>2 DEF LoopInv, StreaksAreExact
  <2>2. count.longestMiss \in Nat /\ run.miss \in Nat
    BY <1>2 DEF Counters, Runs
  <2>3. count'.longestMiss = Larger(count.longestMiss, run.miss + 1) /\ run'.miss = run.miss + 1
    BY <1>1, <1>2 DEF CountMiss, AfterMiss, Counters
  <2>4. /\ Missed \in SUBSET (1 .. counted) /\ counted \in Nat
        /\ Missed' = Missed \cup {counted + 1} /\ counted' = counted + 1
    BY SetsGrow
  <2>5. /\ LongestRun(Larger(count.longestMiss, run.miss + 1), Missed \cup {counted + 1}, counted + 1)
        /\ RunAtEnd(run.miss + 1, Missed \cup {counted + 1}, counted + 1)
    BY <2>1, <2>2, <2>4, RunGoesOn
  <2> QED  BY <2>3, <2>4, <2>5
<1>5. /\ LongestRun(count'.longestHold, Held', counted')
      /\ RunAtEnd(run'.hold, Held', counted')
  <2>1. LongestRun(count.longestHold, Held, counted) /\ count.longestHold \in Nat
    BY <1>1, <1>2 DEF StreaksAreExact, Counters
  <2>2. count'.longestHold = count.longestHold /\ run'.hold = 0
    BY <1>1, <1>2 DEF CountMiss, AfterMiss, Counters
  <2> QED  BY <2>1, <2>2, SetsGrow, RunEnds
<1>6. CountersAreExact'
  <2>1. /\ s.ball \in 1 .. 15 /\ s.result \in {0, 1, 3, 4}
    BY SetsGrow, BallAssumption DEF ShotSet, left, leftHold, hold, righHold, right
  <2>2. /\ count'.hold = count.hold /\ count'.technically = count.technically
        /\ count'.single = IF s.ball \in 1 .. 8 THEN count.single + 1 ELSE count.single
        /\ count'.mix = IF s.ball \in 9 .. 15 THEN count.mix + 1 ELSE count.mix
    <3>1. count'.hold = count.hold /\ count'.technically = count.technically
      BY <1>1, <1>2 DEF CountMiss, Counters
    <3>2. count'.single = IF s.ball <= 8 /\ s.ball > 0 THEN count.single + 1 ELSE count.single
      BY <1>1, <1>2 DEF CountMiss, Counters
    <3>3. count'.mix = IF ~(s.ball <= 8 /\ s.ball > 0) /\ s.ball <= 15
                       THEN count.mix + 1 ELSE count.mix
      BY <1>1, <1>2 DEF CountMiss, Counters
    <3>4. /\ s.ball <= 8 /\ s.ball > 0 <=> s.ball \in 1 .. 8
          /\ ~(s.ball <= 8 /\ s.ball > 0) /\ s.ball <= 15 <=> s.ball \in 9 .. 15
      BY <2>1
    <3> QED  BY <3>1, <3>2, <3>3, <3>4
  <2>3. /\ count'.left = IF s.result < hold THEN count.left + 1 ELSE count.left
        /\ count'.right = IF s.result > hold THEN count.right + 1 ELSE count.right
    <3>1. count'.left = IF s.result \in {left, leftHold} THEN count.left + 1 ELSE count.left
      BY <1>1, <1>2 DEF CountMiss, Counters
    <3>2. count'.right = IF s.result \in {left, leftHold} THEN count.right ELSE count.right + 1
      BY <1>1, <1>2 DEF CountMiss, Counters
    <3>3. /\ s.result \in {left, leftHold} <=> s.result < hold
          /\ s.result \in {left, leftHold} <=> ~(s.result > hold)
      BY <2>1 DEF left, leftHold, hold
    <3> QED  BY <3>1, <3>2, <3>3
  <2>4. /\ MissedSingle \in SUBSET (1 .. counted) /\ MissedMix \in SUBSET (1 .. counted)
        /\ MissedLeft \in SUBSET (1 .. counted) /\ MissedRight \in SUBSET (1 .. counted)
    BY SetsGrow DEF MissedSingle, MissedMix, MissedLeft, MissedRight
  <2>5. /\ Cardinality(MissedSingle') = IF s.ball \in 1 .. 8
             THEN Cardinality(MissedSingle) + 1 ELSE Cardinality(MissedSingle)
        /\ Cardinality(MissedMix') = IF s.ball \in 9 .. 15
             THEN Cardinality(MissedMix) + 1 ELSE Cardinality(MissedMix)
    BY <2>4, SetsGrow, OneMore
  <2>6. /\ Cardinality(MissedLeft') = IF s.result < hold
             THEN Cardinality(MissedLeft) + 1 ELSE Cardinality(MissedLeft)
        /\ Cardinality(MissedRight') = IF s.result > hold
             THEN Cardinality(MissedRight) + 1 ELSE Cardinality(MissedRight)
    BY <2>4, SetsGrow, OneMore
  <2>7. Held' = Held /\ HeldTechnically' = HeldTechnically
    BY <1>1, SetsGrow DEF HeldTechnically
  <2> QED  BY <1>1, <1>2, <2>2, <2>3, <2>5, <2>6, <2>7 DEF CountersAreExact
<1>7. LoopInv' /\ StreaksAreExact'
  <2>1. (next <= Len(shots) + 1)'
    <3>1. next \in Nat /\ Len(shots) \in Nat
      BY DEF IInv, TypeOK
    <3> QED  BY <1>1, <3>1
  <2>2. LoopInv'
    BY <1>4, <1>5, <2>1 DEF LoopInv
  <2>3. StreaksAreExact'
    BY <1>4, <1>5 DEF StreaksAreExact
  <2> QED  BY <2>2, <2>3
<1> QED  BY <1>3, <1>6, <1>7 DEF IInv

-----------------------------------------------------------------------------
LEMMA NextInv == IInv /\ [Next]_vars => IInv'
<1> SUFFICES ASSUME IInv, [Next]_vars PROVE IInv'
  OBVIOUS
<1>1. CASE CountShot
  BY <1>1, CountHoldInv, CountMissInv
<1>2. CASE ReloadData \/ Cover \/ UNCHANGED vars
  BY <1>2 DEF IInv, TypeOK, LoopInv, CountersAreExact, StreaksAreExact, ReloadData, Cover,
     vars, counted, Held, Missed, HeldTechnically, MissedSingle, MissedMix, MissedLeft,
     MissedRight
<1>3. CASE ViewWillAppear
  BY <1>3, ViewWillAppearInv
<1>4. CASE AddShot \/ EditShot \/ DeleteShot
  BY <1>4, AddShotInv, EditShotInv, DeleteShotInv
<1> QED  BY <1>1, <1>2, <1>3, <1>4 DEF Next

LEMMA Invariant == Spec => []IInv
  BY InitInv, NextInv, PTL DEF Spec

\* The types of the variables of the statistics screen.
THEOREM StatisticsTypes == Spec => []TypeOK
  BY Invariant, PTL DEF IInv

\* Whenever the statistics are on the screen, its six counters are numbers of
\* the shots it is about.
THEOREM CountersExact == Spec => []CountersAreExact
<1>1. IInv => CountersAreExact
  BY DEF IInv
<1> QED  BY <1>1, Invariant, PTL

\* Whenever the statistics are on the screen, its streaks are the longest runs
\* of holds and of misses.
THEOREM StreaksExact == Spec => []StreaksAreExact
<1>1. IInv => StreaksAreExact
  BY DEF IInv
<1> QED  BY <1>1, Invariant, PTL
=============================================================================
