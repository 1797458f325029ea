------------------------------ MODULE MCRestore ------------------------------
\* A report with a shot that the cloud may hold, and a report the user adds.
EXTENDS Restore

CONSTANTS r1, r2, s1

MCDoc == {r1, r2, s1}
MCReport == {r1, r2}
MCReportOf == s1 :> r1

\* r2 is the one that is new: r1 and r2 would only change their places.  Either
\* the process is killed or the link changes; the other is used up.
MCInit ==
  /\ FirstStart /\ server[r2] = Absent
  /\ changes = 1 /\ refusals = 0
  /\ \/ kills = 0 /\ flips = MaxFlips
     \/ kills = MaxKills /\ flips = 0
MCSpec == MCInit /\ [][RestoreNext]_allVars
=============================================================================
