---------------------------- MODULE MCBackupEdits ----------------------------
\* A report and two shots: a collection with one document and one with two.
\* Three families of initial states share the run; the events a family does
\* without are used up in its counters.
EXTENDS BackupEdits

CONSTANTS r1, s1, s2

MCDoc == {r1, s1, s2}
MCReport == {r1}
MCReportOf == s1 :> r1 @@ s2 :> r1

\* The second shot is neither on the phone nor in the cloud.
OneShot == local[s2] = Absent /\ server[s2] = Absent

\* The phone, the cloud and the cache differ in any way, and nobody edits.
Differing ==
  /\ outbox = {} /\ edits = MaxEdits
  /\ started = 0 /\ kills = 0 /\ outages = 0 /\ refusals = 0

\* Everything was backed up before, and the SDK has seen the server: an edit
\* with two of a refusal, a second backup, and a kill or an outage.
Edited ==
  /\ outbox = {} /\ edits = 0
  /\ OneShot /\ link /\ cache = server /\ Present(server) = Present(local)
  /\ \/ started = 0 /\ kills = 0 /\ outages = MaxOutages /\ refusals = 0
     \/ started = 0 /\ kills = MaxKills /\ outages = 0 /\ refusals = MaxRefusals
     \/ started = MaxBackups - 1 /\ kills = MaxKills /\ outages = 0 /\ refusals = 0

\* One backup, and the records of an outbox that are merged beside it when the
\* network comes back.
Unsent ==
  /\ outbox # {} /\ edits = MaxEdits
  /\ OneShot /\ cache = server /\ ~link
  /\ started = MaxBackups - 1 /\ kills = MaxKills /\ outages = MaxOutages /\ refusals = 0

MCInit ==
  /\ Contents /\ AtRest
  /\ outbox \in SUBSET Doc /\ crashed = FALSE
  /\ Differing \/ Edited \/ Unsent
MCSpec == MCInit /\ [][EditNext]_allVars /\ EditFairness
=============================================================================
