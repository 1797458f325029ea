------------------------------- MODULE Backup -------------------------------
(***************************************************************************)
(* DataServiceManager.backupData: the two collections of the cloud are     *)
(* fetched, their documents deleted, and once all deletions of a           *)
(* collection are acknowledged the objects of the phone are added to it.   *)
(* The progress ring covers the screen until an error or a full progress.  *)
(*                                                                         *)
(* After an error the ring is gone, but the callbacks of the failed backup *)
(* go on beside the next one's.  The objects of the phone do not change    *)
(* here: the covered screen takes no input, and BackupEdits adds the edits *)
(* after an error and the records of the outbox.                           *)
(***************************************************************************)
EXTENDS FirestoreClient, FiniteSets, SequencesExt

CONSTANTS
  Report,       \* the documents of the collection Report; the others are shots
  MaxBackups,   \* bound: backups started
  MaxKills,     \* bound: kills of the process
  MaxOutages,   \* bound: losses of the link
  MaxRefusals   \* bound: fetches and writes the server refuses for good

Shot == Doc \ Report
Collections == {Report, Shot}
CollectionOf(d) == IF d \in Report THEN Report ELSE Shot

ASSUME CollectionAssumption == Report \subseteq Doc /\ Report # Shot
ASSUME BoundAssumption ==
  MaxBackups \in Nat /\ MaxKills \in Nat /\ MaxOutages \in Nat /\ MaxRefusals \in Nat
ASSUME DocAssumption == IsFiniteSet(Doc)

\* Callbacks of writes that are not of a backup have run 0.
Callback ==
  [run : Nat, op : {"record"}, doc : Doc, val : Nat]
    \cup [run : Nat, op : {"delete", "add"}, doc : Doc]
    \cup [run : Nat, op : {"fetch"}, coll : Collections, docs : SUBSET Doc]

ASSUME NilAssumption == (\A S \in SUBSET Doc : S # Nil) /\ Nil \notin Callback

VARIABLES
  local,     \* the Realm database: the version of each object, or Absent
  cache,     \* what the SDK remembers of the server while it is offline
  link,      \* the server can be reached
  backups,   \* the calls of backupData in this process
  started, kills, outages, refusals   \* the bounded events so far

counters == <<started, kills, outages, refusals>>
vars == <<clientVars, local, cache, link, backups, counters>>

Present(copy) == {d \in Doc : copy[d] # Absent}

\* The variables one call of backupData captures in its closures.
NewBackup ==
  [asked    |-> Collections,                   \* fetches that are under way
   since    |-> 0,                             \* writes issued since they began
   cloud    |-> [c \in Collections |-> Nil],   \* reportCloudData, shotCloudData
   mine     |-> Present(local),                \* reportLocalData, shotLocalData
   deleted  |-> [c \in Collections |-> 0],     \* the two delete counters
   progress |-> 0,                             \* currentProgress
   covered  |-> TRUE,                          \* the ring covers the screen
   told     |-> "nothing"]                     \* the alert the user has seen

Loaded(b) == \A c \in Collections : b.cloud[c] # Nil

\* Mutant: the objects to add are not counted.
TotalOfDeletions(b) == Cardinality(b.cloud[Report]) + Cardinality(b.cloud[Shot])

\* totalTask
Total(b) ==
  Cardinality(b.cloud[Report]) + Cardinality(b.cloud[Shot]) + Cardinality(b.mine)

Full(b) == Loaded(b) /\ Total(b) > 0 /\ b.progress = Total(b)

-----------------------------------------------------------------------------
(* Writes and fetches.                                                     *)

\* The writes are issued after the fetches that are under way.
Issue(writes, bs) ==
  /\ queue' = queue \o writes
  /\ backups' = [b \in DOMAIN bs |->
       IF bs[b].asked = {} THEN bs[b]
       ELSE [bs[b] EXCEPT !.since = @ + Len(writes)]]

Deletions(b, docs) ==
  LET order == SetToSeq(docs)
  IN  [i \in DOMAIN order |->
         [doc |-> order[i], val |-> Absent,
          cb |-> [run |-> b, op |-> "delete", doc |-> order[i]]]]

Additions(b, order) ==
  [i \in DOMAIN order |->
     [doc |-> order[i], val |-> local[order[i]],
      cb |-> [run |-> b, op |-> "add", doc |-> order[i]]]]

Answer(b, c, source, ok) ==
  /\ c \in backups[b].asked
  /\ Len(queue) <= persisted + backups[b].since
  /\ done' = Append(done,
       [cb |-> [run |-> b, op |-> "fetch", coll |-> c,
                docs |-> {d \in c : Seen(source, d) # Absent}],
        ok |-> ok])
  /\ backups' = [backups EXCEPT ![b].asked = @ \ {c}]
  /\ UNCHANGED <<server, queue, persisted, applied, local, link, started, kills,
                 outages>>

\* getDocuments waits for the server, unless the client finds itself offline:
\* then it answers with the documents it remembers.
FetchFromServer(b, c) ==
  /\ link
  /\ Answer(b, c, server, TRUE)
  /\ cache' = [d \in Doc |-> IF d \in c THEN server[d] ELSE cache[d]]
  /\ UNCHANGED refusals

FetchFromCache(b, c) ==
  /\ ~link
  /\ Answer(b, c, cache, TRUE)
  /\ UNCHANGED <<cache, refusals>>

FetchRefused(b, c) ==
  /\ link
  /\ refusals < MaxRefusals /\ refusals' = refusals + 1
  /\ Answer(b, c, server, FALSE)
  /\ UNCHANGED cache

-----------------------------------------------------------------------------
(* backupData and its closures, on the main thread.                        *)

\* The button cannot be reached under the ring of another backup.
BackupData ==
  /\ started < MaxBackups /\ started' = started + 1
  /\ \A b \in DOMAIN backups : ~backups[b].covered
  /\ backups' = Append(backups, NewBackup)
  /\ UNCHANGED <<clientVars, local, cache, link, kills, outages, refusals>>

\* completion(nil, err): the ring is taken away and an alert shown.
Fail(b) ==
  /\ backups' = [backups EXCEPT ![b].covered = FALSE, ![b].told = "error"]
  /\ UNCHANGED queue

\* reportClosure and shotClosure: the second of them deletes what both found.
OnFetched(b, c, docs) ==
  LET bs == [backups EXCEPT ![b].cloud[c] = docs]
  IN  IF Loaded(bs[b])
      THEN Issue(Deletions(b, bs[b].cloud[Shot]) \o Deletions(b, bs[b].cloud[Report]), bs)
      ELSE backups' = bs /\ UNCHANGED queue

\* Mutant: the objects are added again with every deletion.
OnDeletedAddingAgain(b, c) ==
  LET bs == [backups EXCEPT ![b].progress = @ + 1, ![b].deleted[c] = @ + 1]
  IN  \E order \in SetToSeqs(bs[b].mine \cap c) : Issue(Additions(b, order), bs)

\* Mutant: both collections count their deletions in one counter.
OnDeletedSharedCounter(b, c) ==
  LET bs == [backups EXCEPT ![b].progress = @ + 1, ![b].deleted[Shot] = @ + 1]
  IN  IF bs[b].deleted[Shot] = Cardinality(bs[b].cloud[c])
      THEN \E order \in SetToSeqs(bs[b].mine \cap c) : Issue(Additions(b, order), bs)
      ELSE backups' = bs /\ UNCHANGED queue

\* The last deletion of a collection adds the objects of the phone to it.
\* Realm lists them in no particular order.
OnDeleted(b, c) ==
  LET bs == [backups EXCEPT ![b].progress = @ + 1, ![b].deleted[c] = @ + 1]
  IN  IF bs[b].deleted[c] = Cardinality(bs[b].cloud[c])
      THEN \E order \in SetToSeqs(bs[b].mine \cap c) : Issue(Additions(b, order), bs)
      ELSE backups' = bs /\ UNCHANGED queue

\* Mutant: the additions do not count.
OnAddedUncounted(b) == UNCHANGED <<backups, queue>>

OnAdded(b) ==
  /\ backups' = [backups EXCEPT ![b].progress = @ + 1]
  /\ UNCHANGED queue

OnAnswer ==
  /\ done # <<>>
  /\ LET cb == Head(done).cb
     IN  \/ ~Head(done).ok /\ Fail(cb.run)
         \/ Head(done).ok /\ cb.op = "fetch" /\ OnFetched(cb.run, cb.coll, cb.docs)
         \/ Head(done).ok /\ cb.op = "delete" /\ OnDeleted(cb.run, CollectionOf(cb.doc))
         \/ Head(done).ok /\ cb.op = "add" /\ OnAdded(cb.run)
  /\ done' = Tail(done)
  /\ UNCHANGED <<server, persisted, applied, local, cache, link, counters>>

\* Two seconds after a full progress the ring is taken away and the user told.
TellSuccess(b) ==
  /\ Full(backups[b]) /\ backups[b].told # "success"
  /\ backups' = [backups EXCEPT ![b].covered = FALSE, ![b].told = "success"]
  /\ UNCHANGED <<clientVars, local, cache, link, counters>>

-----------------------------------------------------------------------------
(* The SDK, the link and the end of the process.                           *)

ClientPersist ==
  Persist /\ UNCHANGED <<local, cache, link, backups, counters>>

ClientApply ==
  link /\ Apply /\ UNCHANGED <<local, cache, link, backups, counters>>

ClientAck ==
  /\ link /\ Acknowledge
  /\ cache' = [cache EXCEPT ![Head(queue).doc] = Head(queue).val]
  /\ UNCHANGED <<local, link, backups, counters>>

ClientReject ==
  /\ link /\ Reject
  /\ refusals < MaxRefusals /\ refusals' = refusals + 1
  /\ UNCHANGED <<local, cache, link, backups, started, kills, outages>>

LinkChange ==
  /\ link' = ~link
  /\ IF link
     THEN outages < MaxOutages /\ outages' = outages + 1 /\ StreamLost
     ELSE UNCHANGED <<outages, applied>>
  /\ UNCHANGED <<server, queue, persisted, done, local, cache, backups, started,
                 kills, refusals>>

KillAndRelaunch ==
  /\ kills < MaxKills /\ kills' = kills + 1
  /\ backups' = <<>> /\ done' = <<>>
  /\ queue' = Restored /\ StreamLost
  /\ UNCHANGED <<server, persisted, local, cache, link, started, outages,
                 refusals>>

-----------------------------------------------------------------------------
Fetch == \E b \in DOMAIN backups, c \in Collections :
           FetchFromServer(b, c) \/ FetchFromCache(b, c) \/ FetchRefused(b, c)

Told == \E b \in DOMAIN backups : TellSuccess(b)

Next ==
  \/ BackupData \/ Fetch \/ OnAnswer \/ Told
  \/ ClientPersist \/ ClientApply \/ ClientAck \/ ClientReject
  \/ LinkChange \/ KillAndRelaunch

\* The phone and the cloud may differ in any way: the cloud may hold what an
\* earlier installation wrote, which the SDK of this one has never seen, and
\* the phone what it has not sent.  No shot is without a report.
Contents ==
  /\ local \in [Doc -> {Absent, 2}]
  /\ Present(local) \subseteq Shot => local = [d \in Doc |-> Absent]
  /\ server \in [Doc -> {Absent, 1}]
  /\ cache \in {c \in [Doc -> {Absent, 1}] : \A d \in Doc : c[d] \in {Absent, server[d]}}
  /\ link \in BOOLEAN

AtRest == queue = <<>> /\ persisted = 0 /\ applied = 0 /\ done = <<>> /\ backups = <<>>

Init ==
  /\ Contents /\ AtRest
  /\ started = 0 /\ kills = 0 /\ outages = 0 /\ refusals = 0

Spec == Init /\ [][Next]_vars

\* Fetches are answered, the main queue is served, and the SDK keeps sending.
Fairness ==
  /\ WF_vars(Fetch) /\ WF_vars(OnAnswer) /\ WF_vars(Told)
  /\ WF_vars(ClientPersist) /\ WF_vars(ClientApply) /\ WF_vars(ClientAck)

FairSpec == Spec /\ Fairness

-----------------------------------------------------------------------------
(* Properties.                                                             *)

Known(cb) == cb \in Callback /\ cb.run \in {0} \cup DOMAIN backups

\* The types of the variables; every callback belongs to a backup that runs.
TypeOK ==
  /\ server \in [Doc -> Nat] /\ local \in [Doc -> Nat] /\ cache \in [Doc -> Nat]
  /\ persisted \in 0 .. Len(queue) /\ applied \in 0 .. persisted
  /\ \A i \in DOMAIN queue : queue[i].cb # Nil => Known(queue[i].cb)
  /\ \A i \in DOMAIN done : Known(done[i].cb)
  /\ \A b \in DOMAIN backups :
       /\ backups[b].asked \subseteq Collections
       /\ \A c \in Collections : backups[b].cloud[c] # Nil =>
            /\ backups[b].cloud[c] \subseteq c
            /\ backups[b].deleted[c] \in 0 .. Cardinality(backups[b].cloud[c])

\* A full progress is the last word of a backup: no fetch, write or answer of
\* it is still under way, so the progress cannot pass 1 and the user is told
\* once (DataServiceManager 335-345, ReportManagerViewController 176-183).
FullIsFinal ==
  \A b \in DOMAIN backups : Full(backups[b]) =>
    /\ backups[b].asked = {} /\ backups[b].told # "error"
    /\ \A i \in DOMAIN queue : queue[i].cb # Nil => queue[i].cb.run # b
    /\ \A i \in DOMAIN done : done[i].cb.run # b

\* A backup that can never end: an empty collection has no deletion that would
\* add the phone's objects to it, and with nothing to do nothing ever answers.
Stuck(b) ==
  /\ Loaded(b)
  /\ \/ Total(b) = 0
     \/ \E c \in Collections : b.cloud[c] = {} /\ b.mine \cap c # {}

\* What a backup waits for: a fetch, a write or an answer on the main thread.
Awaits(b) ==
  \/ backups[b].asked # {}
  \/ \E i \in DOMAIN queue : queue[i].cb # Nil /\ queue[i].cb.run = b
  \/ \E i \in DOMAIN done : done[i].cb.run = b

\* The ring stays only while an answer is still to come or the progress is full,
\* unless it is stuck: no deletion or addition is lost from the counters that
\* the two closures and their callbacks share (322-376).
RingAwaits ==
  \A b \in DOMAIN backups : backups[b].covered =>
    Awaits(b) \/ Full(backups[b]) \/ Stuck(backups[b])

\* Once the link stays up every other backup ends with an alert, or with the
\* process, whatever is lost, refused or resent meanwhile.  Only one backup at a
\* time is without its alert, for its ring covers the button.
BackupEnds ==
  <>[]link =>
    []<>(\A b \in DOMAIN backups : backups[b].told # "nothing" \/ Stuck(backups[b]))

\* What the user is asked to confirm: "every datum on the server will be
\* replaced by the data on your phone".
EndsReplaced ==
  <>[]link /\ [](kills = 0 /\ refusals = 0) =>
    (backups # <<>> ~> server = local)

\* The same, of the moment the user is told of the success.
SuccessIsReplaced ==
  backups # <<>> /\ Last(backups).told = "success" => server = local
=============================================================================
