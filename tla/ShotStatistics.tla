--------------------------- MODULE ShotStatistics ---------------------------
(***************************************************************************)
(* ReportDetailsViewController: eight counters over the shots of the       *)
(* reports on the screen, recomputed by one loop whenever the screen       *)
(* appears.  While it is covered by the list of the shots the user adds,   *)
(* edits and deletes shots.                                                *)
(***************************************************************************)
EXTENDS Integers, Sequences, FiniteSets

CONSTANTS
  Ball,         \* the balls of the collection on the shot form
  MaxShots,     \* bound: shots of the reports on the screen
  MaxChanges    \* bound: shots added, edited and deleted

ASSUME BallAssumption  == Ball \subseteq 1 .. 15
ASSUME BoundAssumption == MaxShots \in Nat /\ MaxChanges \in Nat

\* ResultType
left     == 0
leftHold == 1
hold     == 2
righHold == 3
right    == 4

ShotSet == [ball : Ball, result : {left, leftHold, hold, righHold, right},
            technically : {0, 1}]

VARIABLES
  shots,    \* the shots of the screen's reports, by time
  screen,   \* "counting", "shown" or "covered"
  next,     \* the iteration of the loop over shotResult
  count,    \* the counters of the view controller
  run,      \* tempLongestHold and tempLongestMiss
  changes

vars == <<shots, screen, next, count, run, changes>>

Counters == [hold : Nat, longestHold : Nat, longestMiss : Nat, technically : Nat,
             single : Nat, mix : Nat, left : Nat, right : Nat]
Runs     == [hold : Nat, miss : Nat]

Zero  == [hold |-> 0, longestHold |-> 0, longestMiss |-> 0, technically |-> 0,
          single |-> 0, mix |-> 0, left |-> 0, right |-> 0]
NoRun == [hold |-> 0, miss |-> 0]

Larger(m, n) == IF m > n THEN m ELSE n

\* Mutant: the loop begins one shot too early.
SetupDatasEarly ==
  /\ screen' = "counting" /\ next' = 0 /\ run' = NoRun
  /\ count' = Zero

\* Mutant: two of the counters keep what an earlier appearance counted.
SetupDatasKeeping ==
  /\ screen' = "counting" /\ next' = 1 /\ run' = NoRun
  /\ count' = [Zero EXCEPT !.hold = count.hold, !.longestHold = count.longestHold]

\* setupDatas sets every counter to zero and reads the shots again.
SetupDatas ==
  /\ screen' = "counting" /\ next' = 1 /\ run' = NoRun
  /\ count' = Zero

Init ==
  /\ shots \in UNION {[1 .. n -> ShotSet] : n \in 0 .. MaxShots}
  /\ screen = "counting" /\ next = 1 /\ run = NoRun /\ count = Zero
  /\ changes = 0

-----------------------------------------------------------------------------
(* The loop.                                                               *)

\* Mutant: a miss does not end the run of holds.
AfterMissKeepingHolds == [run EXCEPT !.miss = @ + 1]

AfterHold == [hold |-> run.hold + 1, miss |-> 0]
AfterMiss == [hold |-> 0, miss |-> run.miss + 1]

CountHold(s) ==
  /\ run' = AfterHold
  /\ count' = [count EXCEPT
       !.hold        = @ + 1,
       !.longestHold = Larger(@, run.hold + 1),
       !.technically = IF s.technically = 1 THEN @ + 1 ELSE @]

CountMiss(s) ==
  LET solid  == s.ball <= 8 /\ s.ball > 0
      toLeft == s.result \in {left, leftHold}
  IN  /\ run' = AfterMiss
      /\ count' = [count EXCEPT
           !.longestMiss = Larger(@, run.miss + 1),
           !.single = IF solid THEN @ + 1 ELSE @,
           !.mix    = IF ~solid /\ s.ball <= 15 THEN @ + 1 ELSE @,
           !.left   = IF toLeft THEN @ + 1 ELSE @,
           !.right  = IF toLeft THEN @ ELSE @ + 1]

CountShot ==
  /\ screen = "counting" /\ next <= Len(shots)
  /\ LET s == shots[next]
     IN  IF s.result = hold THEN CountHold(s) ELSE CountMiss(s)
  /\ next' = next + 1
  /\ UNCHANGED <<shots, screen, changes>>

ReloadData ==
  /\ screen = "counting" /\ next > Len(shots)
  /\ screen' = "shown"
  /\ UNCHANGED <<shots, next, count, run, changes>>

-----------------------------------------------------------------------------
(* The screen is covered by the list of its shots, and comes back.         *)

Cover ==
  /\ screen = "shown" /\ screen' = "covered"
  /\ UNCHANGED <<shots, next, count, run, changes>>

ViewWillAppear ==
  /\ screen = "covered"
  /\ SetupDatas
  /\ UNCHANGED <<shots, changes>>

Change ==
  /\ screen = "covered" /\ changes < MaxChanges
  /\ changes' = changes + 1
  /\ UNCHANGED <<screen, next, count, run>>

\* A new shot is the last by time, unless the device's clock was set back.
AddShot ==
  /\ Change /\ Len(shots) < MaxShots
  /\ \E s \in ShotSet, k \in 0 .. Len(shots) :
       shots' = [i \in 1 .. Len(shots) + 1 |->
                   IF i <= k THEN shots[i] ELSE IF i = k + 1 THEN s ELSE shots[i - 1]]

\* An edited shot keeps its time.
EditShot ==
  /\ Change
  /\ \E s \in ShotSet, k \in 1 .. Len(shots) : shots' = [shots EXCEPT ![k] = s]

DeleteShot ==
  /\ Change
  /\ \E k \in 1 .. Len(shots) :
       shots' = [i \in 1 .. Len(shots) - 1 |-> IF i < k THEN shots[i] ELSE shots[i + 1]]

Next == \/ CountShot \/ ReloadData \/ Cover \/ ViewWillAppear
        \/ AddShot \/ EditShot \/ DeleteShot

Spec == Init /\ [][Next]_vars

-----------------------------------------------------------------------------
(* Properties.  In the loop they are about the shots counted so far.       *)

TypeOK ==
  /\ shots \in Seq(ShotSet)
  /\ screen \in {"counting", "shown", "covered"}
  /\ next \in Nat \ {0}
  /\ count \in Counters /\ run \in Runs
  /\ changes \in Nat

counted == next - 1
Held    == {k \in 1 .. counted : shots[k].result = hold}
Missed  == {k \in 1 .. counted : shots[k].result # hold}
HeldTechnically == {k \in Held : shots[k].technically = 1}
MissedSingle    == {k \in Missed : shots[k].ball \in 1 .. 8}
MissedMix       == {k \in Missed : shots[k].ball \in 9 .. 15}
MissedLeft      == {k \in Missed : shots[k].result < hold}
MissedRight     == {k \in Missed : shots[k].result > hold}

\* The text of each row of the statistics (142-171) is a number of shots: each
\* miss counts once by the ball and once by the side, whatever was counted the
\* last time the screen appeared.
CountersAreExact ==
  screen # "covered" =>
    /\ count.hold = Cardinality(Held)
    /\ count.technically = Cardinality(HeldTechnically)
    /\ count.single = Cardinality(MissedSingle)
    /\ count.mix    = Cardinality(MissedMix)
    /\ count.left   = Cardinality(MissedLeft)
    /\ count.right  = Cardinality(MissedRight)

\* n is the length of the longest run in S, a set of positions up to m.
LongestRun(n, S, m) ==
  /\ \E a \in 0 .. m - n : a + 1 .. a + n \subseteq S
  /\ \A a, b \in 0 .. m : a + 1 .. b \subseteq S => b - a <= n

\* longestHold and longestMiss (20-21) are the longest runs of holds and of
\* misses, which the loop finds without looking back.
StreaksAreExact ==
  screen # "covered" =>
    /\ LongestRun(count.longestHold, Held, counted)
    /\ LongestRun(count.longestMiss, Missed, counted)
=============================================================================
