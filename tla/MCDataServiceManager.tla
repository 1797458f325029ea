------------------------ MODULE MCDataServiceManager ------------------------
\* A report with two shots.  Two families of initial states share the run; the
\* events a family does without are used up in its counters.
EXTENDS DataServiceManager

CONSTANTS r1, s1, s2

MCDoc == {r1, s1, s2}
MCReport == {r1}
MCReportOf == s1 :> r1 @@ s2 :> r1

AtRest ==
  /\ server = local
  /\ queue = <<>> /\ persisted = 0 /\ applied = 0 /\ done = <<>>
  /\ outbox = {} /\ handler = Nil /\ todo = {}
  /\ link \in BOOLEAN /\ available = link
  /\ torn = {} /\ refused = {}

\* The first launch: changes with two of a kill, an outage and a refusal, in any
\* order.  The second shot is never created.
FirstLaunch ==
  /\ local = [o \in Doc |-> Absent] /\ used = {s2}
  /\ changes = 0
  /\ \/ kills = 0 /\ flips = 0 /\ refusals = MaxRefusals
     \/ kills = 0 /\ flips = MaxFlips /\ refusals = 0
     \/ kills = MaxKills /\ flips = 0 /\ refusals = 0

\* The three were created and acknowledged: the changes and the kill fall on
\* the deletion of the three and on what follows it.
Recorded ==
  /\ local = [o \in Doc |-> 1] /\ used = Doc
  /\ changes = MaxChanges - 1 /\ kills = 0
  /\ flips = MaxFlips /\ refusals = MaxRefusals

MCInit == (FirstLaunch \/ Recorded) /\ AtRest
MCSpec == MCInit /\ [][Next]_vars /\ Fairness
=============================================================================
