# Captain Cue: a verification project

Captain Cue is an iOS app for billiard practice. Reports (training sessions)
and their shots live in a local Realm database and are copied to Cloud
Firestore. The logic that is hard to get right is the copying: the app works
offline, keeps a record of every change it has not yet sent, and merges the
records whenever it believes it is online. This directory holds TLA+ models of
that logic, TLC configurations that check them on small instances, and proofs
checked by TLAPS.

All paths below are relative to `src/Captain Cue/Captain Cue/` unless they begin
with `Pods/`, which stands for `src/Captain Cue/Pods/`.

## 1. Inventory

| component | source | state | operations |
|---|---|---|---|
| DataServiceManager | `Helpers/Data Service/DataServiceManager.swift` | none of its own; the Realm database (objects and `OfflineStorageModel` records), the closures it has handed to Firestore | `addObject`, `updateObject`, `deleteObject`, `checkAndMergeChangeInLocalDatabase`, `changeInternetConnection` |
| Backup | same file, `backupData`; `ReportManagerViewController` | the lists and counters its closures capture, the progress ring | two fetches, deletions, additions, the alerts |
| Restore | same file, `checkRestoreAbility`; `RealmDataService.restoreData` | the two fetched lists | two fetches, confirmation, two transactions |
| Network monitor | `Helpers/Network.swift`, `Pods/ReachabilitySwift` | `isInternetAvailable`, `status`, the flags, the notify closures on the main queue | `startMonitor`, `whenReachable`, `whenUnreachable` |
| Firestore client | `Pods/FirebaseFirestore` | the durable queue of mutations, the write stream, the completion blocks, the cache | set, delete, getDocuments, resend, reject |
| Realm and Firebase services | `Helpers/Data Service/Local`, `Remote` | the database | one transaction, or one write, per call |
| Models | `Helpers/Data Service/Model` | fields of a report, a shot, a record | `getJSONData`, `mapping`, `copy` |
| Report list, shot list, shot form, statistics | `ClassCode` | the lists on screen, the form | edit, delete, add, count |

How they interact. View controllers call `DataServiceManager.shared` on the main
thread and do not wait for anything. Each call is a Realm transaction on the
object, then `changeInLocalDatabase` (drop the object's old records, add a new
one, merge). The merge hands writes to Firestore, whose worker queue stores and
sends them; the completion block comes back to the main thread and deletes the
record. `Network` flips `isInternetAvailable` from closures on the main queue and
posts a notification on which `DataServiceManager` merges again. `AppDelegate`
builds everything at launch and merges once. `backupData` writes through the same
Firestore queue, beside the merges.

What is hard: completion blocks of old writes that arrive after newer changes; the
process killed between two transactions; an SDK that survives the kill with its
queue but without its completion blocks; answers lost with the write stream and
writes applied twice; a network flag that lags behind the link and behind the
closures that set it; a backup whose steps are counted in callbacks, and whose
callbacks go on after it has failed; a restore that is confirmed long after the database
was found empty, over any screen; rows that are looked up by index after an alert; a
form that keeps the same ticks twice. `PROJECT.json` lists these hazards at their
lines, with the properties that cover them, and a note where a property leaves out some
of it: a few of them the code does not guard against, and an exception in a property
(`torn`, `since`, `replaced`, `Stuck`) then names what is lost and bounds it.

What makes each component correct:

* *DataServiceManager*: no change is forgotten; a record goes away only when the
  cloud has what the phone has; one record per object; no shot without its report;
  the cloud catches up once it can.
* *Backup*: a reported success means that everything is on the server, and comes
  last; a backup ends; the server holds nothing else afterwards.
* *Network monitor*: the flag catches up with the link, and every flip is followed
  by a merge.
* *Restore*: what a backup stored comes back, and nothing newer is destroyed.
* *Screens*: the counters of the statistics equal their definitions; what the form
  stores does not depend on the order of the taps; rows and objects correspond.

## 2. The modules

| module | models | composed or checked by |
|---|---|---|
| `FirestoreClient` | the SDK's queue of writes, as the app depends on it | extended by `DataServiceManager`, `Backup` |
| `Mirror` | the abstract promise: an object is dirty, or its two copies agree | refined by `DataServiceManager` |
| `DataServiceManager` | the local database, the outbox, the merge, the network flag, kills | `MCDataServiceManager`, `DataServiceManagerProofs` |
| `Restore` | `checkRestoreAbility` beside all of `DataServiceManager` | `MCRestore`, `DataServiceManagerProofs` |
| `Backup` | `backupData` and the button that starts it | `MCBackup` |
| `BackupEdits` | `Backup` beside the user's edits and the outbox | `MCBackupEdits`, `BackupProofs` |
| `Network` | reachability, the notify closures, launch | directly, `NetworkProofs` |
| `ShotStatistics` | the loop of the statistics | directly, `ShotStatisticsProofs` |
| `ShotForm` | the form for a shot | directly, `ShotFormProofs` |
| `ShotList` | the list of shots, its alerts and the form over it | directly, `ShotListProofs` |
| `ReportList` | the list of reports, its alerts, and the restore under it | directly, `ReportListProofs` |
| `RoundTrip` | the two models' JSON, there and back | directly, `RoundTripProofs` |

### FirestoreClient

A write is `[doc, val, cb]`: the document, the version of it that is written
(`Absent` for a deletion) and the completion block, or `Nil`. `queue` is the list of
unanswered writes. `persisted` and `applied` are two cursors from its head: the
prefix that the worker queue has stored on disk (`WriteMutations`), and the prefix
that the server has applied in the present stream. `Acknowledge` pops the head when
its answer arrives, `Reject` when the server refuses it for good; both schedule the
completion block in `done`, the part of the main queue the SDK fills.
`StreamLost` puts `applied` back to 0, which is what losing the stream means to the
client: everything unanswered will be sent, and applied, again. After a kill
`Restored` keeps the stored prefix and no completion block, as the note in
`SyncEngine::NotifyUser` says. The window of ten writes on the wire is left out (it
only delays an `Apply`); so is back-off. The SDK calls the block and removes the write
from its disk in one task of its worker queue, and the model does both in one step.

### DataServiceManager

`local` maps an object to its version (0 is absent; the versions are the numbers of
the user's changes). `outbox` is the set of `OfflineStorageModel` records, each with
the object, the method and an identifier that stands for its UUID. Every public
method runs on the main thread without suspending, but each Realm write is its own
transaction and the process may be killed between any two. So a method is one action
per transaction, and `handler` says which comes next:

| code | action |
|---|---|
| `addObject` 197, `updateObject` 208 | `AddObject`, `UpdateObject` write the object and set `handler` |
| `deleteObject` 229-234 | `DeleteObject` collects the report's shots in `todo`; `DeleteNext` starts with one of them, the report last |
| `changeInLocalDatabase` 153-157 | `DropRecord`, once per old record |
| 159-162 | `AddRecord`: the new record and the merge |
| `deleteObject` 236 | `Erase`: the object is deleted, and the next of `todo` begins |
| 76-144 | `CheckAndMerge`: one write per record, in any order, with the object as it is *now* |
| completion blocks 91-139 | `OnWriteDone`: a success deletes the record the block captured |
| 54-57, `Network` 79-93 | `NetworkNotified`, and `NetworkMisreported` for a closure that is late |
| `AppDelegate` 18-28 | `KillAndRelaunch` |

Two history variables serve the properties. `torn` holds the objects a kill has left
changed without a record; `refused` the records whose write the server refused since
the last merge.

### Network

`flags` is written by the serial queue of Reachability (`OnLinkChanged`), each change
schedules a closure (`closures`), and the main thread (`main`) runs the launch and then
the closures. A closure is two actions, because it reads the flags twice: `Notify`
chooses the handler, and the handler reads again. Reading the flags can fail
(`ReadFails`); if it fails in `startNotifier`, the notifier is off. Without the
reachability object itself (`CreationFails`) the app stays offline. `heard` is the
value of the flag under which `DataServiceManager` merged last.

`DataServiceManager` uses a flag that changes at any time to the truth
(`NetworkNotified`, fair) or to a stale value (`NetworkMisreported`). `Network` is what
justifies it: every flip is announced, and `Settles` is the fairness.

### Backup

One record per call of `backupData` holds what its closures capture: the two fetched
lists, the phone's objects, the counters. `OnAnswer` is the main thread serving the
SDK: a fetch (`OnFetched`), a deletion (`OnDeleted`), an addition (`OnAdded`), or an
error of any of them (`Fail`). A fetch sees the writes already in the local store
before what the server, or when offline the cache, has (`Seen`); `since` counts the
writes issued after the fetch was, which it need not see. The initial states hold every
difference between the phone, the cloud and the cache of three documents.

### BackupEdits

Once an error has taken the ring away the user may edit again, while the closures of the
failed backup still run. Its additions read the Realm objects that were listed before
the fetches (`mine`): one that was changed is sent as it is now, and reading a deleted
one raises an exception (`ReadDeleted`). A change, its record and its merge are one step
here (`Change`); `LinkReturns` and `Relaunch` merge as well. `OnRecordDone` drops the
record unless the object was changed again, which its version tells.

### Restore

`Restore` adds to every action of `DataServiceManager` what `checkRestoreAbility` does:
`CheckRestoreAbility` at launch, the two fetches (`FetchFromServer`, `FetchFromCache`,
`FetchRefused`), their closures (`OnFetched`), the question, and one transaction per
table (`RestoreReports`, `RestoreShots`) with a possible kill in between. Reading the
code this way shows what a restore does *not* promise, and each appears as an exception
in a property:

* Objects that the user adds between the check and the answer are replaced
  (`since`): the database is not looked at again, and their records stay in the outbox.
  A shot among them can stay without its report (`stranded`): the shots were fetched
  after it was written, the reports before. The exception has to outlast the next edit of
  such a shot, which the proof of `RestoredReported` showed; the run's bounds do not reach
  that edit.
* The two fetches may come one from the server, one from the cache. Then a shot can
  come back without its report (`stranded`, again).
* A restore that was killed between its two transactions is not offered again, because
  the database is no longer empty. A report that is then deleted leaves its shots in the
  cloud, and a later restore finds them alone (`stranded`, again).
* A question that cannot be presented, under another alert or another screen, is lost
  until the next launch.

### ReportList, ShotList

`reportData` and `rows` are what the screens show, the sections and the rows with the
objects behind them; `reports` and `shots` are the database. Every handler that looks
something up by a row's index does so in the model, and a history variable (`alert.shown`,
`shown`) remembers what the user saw in that row. `ReportList` lets a restore come at any
time and the clock pass midnight or be set back; the title's number (`Number`) counts
what `btnAddNewWasTapped` counts. In `ShotList` the first row is the description of a
single report (`Offset`), and `canAdd` is computed only when the screen is opened,
while the clock goes on or is set back (`ClockChanges`). A report of another day can be
begun only from the list below (`AddReport`); the history `later` remembers how many
shots there were at the first one.

### ShotForm, ShotStatistics

`ShotForm` keeps `mistakeDict` and the check boxes apart, as the code does, and has a
touch down and a touch up for a row (`Press`, `DidSelectRow`) between which the switch
can be moved. `ShotStatistics` runs the loop of `setupDatas` one shot per step
(`CountShot`) over any sequence of shots, with its two running lengths (`run`); the
shots change while the screen is covered.

### RoundTrip

`JSONData` and `Mapped` are `getJSONData` and the `mapping` of the two models with
respect to the time; `DateFormatted` is what writing a date as text does to it.
`Content` stands for all other fields, which both directions carry.

## 3. What is checked

| run | checks | bounds |
|---|---|---|
| `sync` | `TypeOK`, `OneRecordPerObject`, `CleanIsMirrored`, `NoForgottenRecord`, `NoOrphanShot`, `ImplementsMirror`, `Converges` | 3 changes of a report and a shot with any two of a kill, an outage or stale notification, and a refusal; and one change of a recorded report with two shots, with a kill |
| `network` | `TypeOK`, `ClosuresCatchUp`, `Settles` | 4 changes of the link, 2 failed reads or creations |
| `backup` | `TypeOK`, `FullIsFinal`, `BackedUpOrRecorded`, `RingAwaits`, `OnlyFailedBackupsCrash`, `BackupEnds` | see below |
| `backup_replaces` | `SuccessIsReplaced`, violated | 1 report, 2 shots, 1 backup, 1 outage |
| `backup_hangs` | `EndsReplaced`, violated | 1 report, 2 shots, 1 backup |
| `restore` | `RestoredIsMirrored`, `RestoredHasReport`, `NothingOldIsReplaced` | 2 reports, 1 shot, 2 changes, 1 refusal, and a kill or an outage |
| `statistics` | `TypeOK`, `CountersAreExact`, `StreaksAreExact` | all lists of up to 3 shots with balls 8 and 9, 1 change |
| `shot_form` | `StoredIsLegal`, `RowsShowTheDict`, `StoredIsShown`, `UntouchedIsKept` | 2 balls, 2 mistakes, any number of taps |
| `shot_list` | `TargetIsShown`, `ListIsCurrent`, `DaysStayApart` | 3 shots, 7 instants on 4 days, the reports' day the second |
| `report_list` | `NumbersInOrder`, `SectionsAreDays`, `DeletedIsSwiped`, `EditedExists` | 3 reports, 8 instants on 3 days |
| `round_trip` | `ReportTimesStay`, `ShotsInOrder` | 1 report, 3 shots, 1 edit, 2 new installations |
| `round_trip_order` | `RestoredInOrder`, violated | 1 report, 2 shots, 1 new installation |

Some runs start from several families of initial states, which their MC modules name;
the events that a family does without are used up in its counters. So the sizes of the
families add up instead of multiplying.

* `MCDataServiceManager`: `FirstLaunch`, in which everything is still to come, and
  `Recorded`, in which a report and its two shots have been created and acknowledged.
  Three changes are a create, an update while the create is under way and a deletion on
  top, and each hazard needs one late answer, one kill or one lost stream in any place of
  that story, or two of them together. A second report would be independent of the first:
  objects meet only in the queue and in a cascade. Two shots make a point between shots.
* `MCBackupEdits`: `Differing`, 2 backups of 1 report and 2 shots that differ from the
  cloud and the cache in any way, with a kill, an outage and a refusal; `Edited`, a
  report and a shot with one edit and two of a refusal, a second backup, and a kill or an
  outage; `Unsent`, one backup beside any outbox that is merged when the link returns. A
  collection of two makes the counters count, and two backups make one fail under the
  other.
* `MCRestore`: a kill, or a change of the link. The report `r2` is new, `r1` and its shot
  may be in the cloud.

The screens need few objects: three make a first, a last and one between; balls 8 and 9
lie on the two sides of the boundary; a third day is one that neither the list nor the
new report is of. Deadlock is not checked: the user may stop anywhere, and the bounds run out.

The violated properties state what the app tells the user. The confirmation of the
back-up button (`ReportManagerViewController` 155) says that every datum on the server
will be replaced by the data on the phone:

* `backup_replaces`: a fetch made while the client is offline is answered from the
  SDK's cache. The backup deletes what the cache lists, adds the phone's objects once
  the link is back, and reports a success; documents the cache did not have remain.
* `backup_hangs`: the objects of a collection are added by its last deletion. If the
  cloud has no document of the collection, none comes; the ring covers the screen until
  the app is killed. A first backup, to an empty cloud, is such a case. `BackupEnds`
  shows that this (`Stuck`) is the only way in which a backup does not end, and
  `RingAwaits` why: in any other state under the ring something is still to come.
* `round_trip_order`: the document of a shot has no time, though the mapping reads one
  (`ShotModel` 103), so restored shots get the times at which they were mapped, in the
  order of their identifiers, which are random. The shot list and the streaks of the
  statistics follow that order. `ShotsInOrder` shows that nothing else disturbs it: an
  edit keeps the time, and only shots restored together lose their order.

Every property of a passing run has a mutant of the code that violates it; the mutants
stand in the modules before the definitions they alter.

### Fairness

`DataServiceManager`: a method that has begun runs to its end and the run loop serves
blocks and closures (weak fairness of `Handlers`, `OnWriteDone`, `NetworkNotified`);
the SDK stores, sends and answers while it can (`ClientPersist`, `ClientApply`,
`ClientAck`). `BackupEdits`: the same of `MainThread`, of the fetches and of the alert
after a full progress. Weak fairness is enough because `Converges` and `BackupEnds`
assume a link that stays up from some time on. Nothing is assumed of the user, the link,
kills or refusals. `Network`: the launch runs on, the main queue is served, and the
system calls back as long as the notifier is registered. The other modules have no
liveness property: what happens there, happens in the handler of a tap.

## 4. What is proved

`DataServiceManagerProofs`, for any documents, reports, changes, kills, outages and
refusals, from the three assumptions of the module (reports are documents, each shot
has a report, the bounds are numbers, `Nil` is neither a record nor a handler):

* `TypeCorrect`: `Spec => []TypeOK`.
* `OneRecord`: `Spec => []OneRecordPerObject`.
* `CleanMirrored`: `Spec => []CleanIsMirrored`.

`CleanIsMirrored` is far from inductive: that the queue and the server agree with the
phone *after* a record is deleted has to be known of every answer that may still delete
one. The invariant `IInv` adds: what a running method has done so far (`MethodInv`);
that the identifiers in records, writes and answers are of earlier changes, so that no
old block holds a new record (`FreshInv`); that an object with a deletion recorded is
gone from the phone (`DeletedIsGone`); that the server has the value of the last
applied write of a document, even while the writes before it are sent again
(`AppliedInv`); that behind the write of a record no older version of the object comes
(`OrderInv`); and that an answer that will delete a record found the cloud up to date
(`AnswerInv`). `Untouched` objects, without record or kill, give the property itself.
Each action keeps `IInv` by a lemma of its own; the merge, the pop of the queue and the
restart have lemmas about what they do to the positions of the queue (`MergeFacts`,
`FinishFacts`, `RestoredFacts`).

Three more sections of the module prove the other properties of the run `sync` that are
not liveness:

* `NoOrphans` (`Spec => []NoOrphanShot`). A kill leaves whatever a running
  deletion has done so far, so the invariant has to speak of what it has still to do:
  the objects before it (`Victims`) are closed under the shots of their reports, and a
  report is not begun while a shot is left (`CascadeInv`). Only deletions erase
  (`EraserDeletes`).
* `NoneForgotten` (`Spec => []NoForgottenRecord`). A merge sends every
  record; an answer moves its completion block from the one list to the other; the block
  deletes its record or leaves it refused.
* `Implements` (`Spec => ImplementsMirror`). The simulation needs `IInv`
  and the range of the versions (`VersionInv`). A method's call and `Erase` are an `Edit`,
  of two objects when a deletion goes on to its next victim; `DropRecord` and `AddRecord`
  change nothing, because their object is dirty; `ClientApply` is a `Push`, or it writes a
  clean object, and then `CleanIsMirrored` says that it writes what is there; `OnWriteDone`
  and `KillAndRelaunch` are a `Settle` if they make an object clean. That `Settle` is
  allowed, the copies being equal, is `IInv` after the step.

`BackupProofs`, for any finite set of documents and any numbers of backups, edits, kills,
outages and refusals, proves all properties of the run `backup` but its liveness, of the
model with the edits beside. The assumptions are those of `Backup` and `BackupEdits`: the
reports are some of the documents, which are finitely many, each shot has a report, the
bounds are numbers, and `Nil` is no set of documents and no callback.

* `Typing` (`EditSpec => []TypeOK`) and `FullProgress` (`EditSpec => []FullIsFinal`) need
  to know how many callbacks a backup can still have. `CoreInv` says that each of its
  callbacks waits once, in the queue or on the main thread (`OnceInv`), that a write
  belongs to what was found and listed (`WriteInv`), and that the tasks that are done, those
  still to come and the error together are never more than the tasks there were
  (`BudgetInv`). So a ring at 1 has nothing left to come, though `deleted` and `progress`
  are bare counters that any callback of the backup may raise.
* `OnlyFailedCrash` (`EditSpec => OnlyFailedBackupsCrash`). Until the user is told how a
  backup ended, its ring covers the screen, and the phone keeps all that it listed
  (`CoversInv`).
* `BackedUp` (`EditSpec => []BackedUpOrRecorded`). A full progress says that every addition
  was answered, not what the server has: older writes may wait behind, and older backups go
  on. `DataInv` adds that the versions of a document grow along the queue (`VersionInv`) and
  the server has the last one it applied (`AppliedInv`); that the last backup has listed
  all objects, and the earlier ones are over or failed (`MineInv`, `ToldInv`); that no
  deletion of an earlier backup comes behind one of the last (`DeletionInv`); and that an
  object whose addition was answered is on the server, unless a record of it is unanswered
  (`AddedInv`). The last one is about an addition that leaves the queue, and rests on all
  the others.
* `RingIsAwaited` (`EditSpec => []RingAwaits`). The ring never covers the screen with
  nothing under way, but for the empty collection of `backup_hangs`. `BudgetInv` says that a
  backup counts no task twice; `PendingsInv` is the converse, that it misses none as long as
  the user was told nothing: each collection is asked for, answered or found, and the tasks
  done and those still to come are at least the tasks there were (`RestInv`). Together the
  two make the counters exact, so a backup that waits for nothing has deleted all it found,
  issued all additions and counted them. This is what `BackupEnds` says without fairness.

`RoundTripProofs`, for any numbers of reports, shots, edits and installations:
`ReportTimes` and `ShotOrder`. Writing a time as text cuts it to the second, and what is
cut already stays (`DateFormattedFacts`); a time comes back as it was created or cut
(`ReportInv`). A shot made in this installation is later than all that a restore has
brought, and the others are in `together` (`ShotInv`).

The second half of `DataServiceManagerProofs`, for any contents of the cloud and any
documents, from the assumptions of `DataServiceManager`:

* `RestoredMirrored` (`RestoreSpec => []RestoredIsMirrored`) and `OnlyNewIsReplaced`
  (`RestoreSpec => NothingOldIsReplaced`). The invariant of `DataServiceManager` is stated
  for all objects but those of a set (`IInvBut`), since nothing is known of a document
  that is on one side only; here the set is `adrift`, which a record takes its object out
  of and a restore adds to. `EmptyInv` says that until the restore the phone has nothing
  but what was added since the check; `TruthInv`, that an answer is still true of the
  documents it was told of, because only objects added since can be written; `UsedInv`,
  that an identifier which exists anywhere was given out, so that what is added is new.
  What a query sees beside the waiting writes is `SeenFacts`, and what a step of
  `DataServiceManager` can add to the queue and the server is `Grown`.
* `RestoredReported` (`RestoreSpec => []RestoredHasReport`). The cascade is proved for all
  shots but those of a set (`CInvBut`), here `stranded`. A shot that comes back either
  never came to the phone before, and then its report is in the cloud and nothing on its
  way deletes it (`LostInv`), or was on the phone, and then is gone from the cloud as it
  is from the phone. An empty database has nothing half done (`PresentInv`, `WholeInv`),
  and between the two transactions the reports are those of the answer (`HalfInv`).

`NetworkProofs`, for any number of link changes and failures: `NetworkTypes` and
`CatchUp` (`Spec => []ClosuresCatchUp`). The strengthening says that the handler that is
executing agrees with the flags, or that another closure is waiting.

`ShotStatisticsProofs`, for lists of any length and any balls: `StatisticsTypes`,
`CountersExact` and `StreaksExact`. The properties speak of sets of positions of the list:
a counter is the number of its set, a streak the length of the longest interval in its
set. The loop knows only the run it is in, so the invariant `LoopInv` says that the running
length is that of the longest run that ends at the last shot counted. The lemmas say what
one more position does to both (`RunGoesOn` and those after it).

`ShotFormProofs`, for any balls and any rows of mistakes: `LegalShots`, `BoxesAreTheDict`,
`ShownIsStored` and `EditIsIdentity`, the last two action properties, from an
invariant of all taps.

`ShotListProofs`, for any numbers of shots, instants and days: `TargetShown`,
`ListCurrent` and `DaysAreApart`. The invariant says that a list on the screen has each shot
once and by time (`Listed`, which a sort of a finite set establishes: `SetupLists`), that an
alert stands only over such a list and on one of its rows (`ScreenInv`), and that no shot
is being added, or can be, once a later report has been begun (`DaysInv`). `RowOfShot` relates rows and
shots under the offset of the description. `DaysStayApart` is about two screens: the
button is not looked at again while its screen is open, but a report of another day is
begun only when it is closed, and the next screen looks at the clock again.

`ReportListProofs`, for any numbers of reports, edits, deletions and days, from the
assumptions that a day has at least two ticks and the bounds are numbers:

* `SectionsShown` (`Spec => []SectionsAreDays`). `setupDatas` is a loop that opens a
  section wherever the day changes. `Sectioned` says what it makes of the reports it has
  placed so far: sections of one day each, no report twice, the days falling. One turn
  keeps this, in the open section (`SameSection`) or a new one (`NewSection`), because
  the reports come by falling time. `Placed` is a recursive function; that it has the
  values of its definition (`LoopStates`), and that every turn keeps `Sectioned`
  (`LoopSections`), is proved by the least place where it would fail, since the
  induction theorems of the library cannot be instantiated. `SectionIsDay` says that a
  section of such a list is all of its day.
* `NumbersCount` (`Spec => []NumbersInOrder`). The app takes the first section for that
  of today. It may be of an earlier day, then it counts nothing; and it is of a later day
  only if the clock was set back past that day: `ClockInv` says that with a report later
  than the clock all days from the clock's to the report's are irregular. `NumberCounts`
  joins the two, `DaysApart` and `AfterMidnight` are the arithmetic of days, and
  `NumberedFacts` says what a restored or first database is numbered like.
* `SwipedIsDeleted` and `EditedLives`. `ScreenInv` says that an alert stands only over
  the list, that a deletion is never confirmed while a report is edited, and that an edited
  report is in the database or was replaced by a restore.

Only model-checked: all liveness (`Converges`, `Settles`, `BackupEnds`), which is out of
the prover's reach. Every other property of a passing run is a theorem, among them the
safety the liveness rests on: no record is forgotten, the flag of the network is the last
one seen once no closure is left to run, and a ring is always awaited by something. What
fairness adds, that it comes at last, stays with TLC.

## 5. Plan

All components are modelled, the SDKs and the application shell only as far as the rest
depends on them (section 6), and all safety properties of the runs are proved. What is left
is upkeep: the proofs of `BackupProofs` are long, and some lemmas about queues and their
positions are there and in `DataServiceManagerProofs`, so a module of queue lemmas could
serve both. If the empty collection of `backup_hangs` is mended, `Stuck` loses its second
disjunct, and `RingAwaits` and its proof show whether the mended code hangs elsewhere.

## 6. What is not modelled

* Layout, formatting, wording and navigation, `PresentHandler`, the scene delegate and
  the constants. Keyboard notifications only move a view.
* Failures of Realm commits: `try?` swallows them, and nothing in the code reacts.
* Time zones and daylight saving: a day is a fixed number of ticks. The five readings of
  the clock within one tap (`ReportManagerViewController` 121-130) are one.
* `reachabilityChanged`, `stopMonitor`, `FirebaseDataService.getData` and the remote
  `getShotData`, which nothing calls.
* Other devices that write to the same collections.
* The size of the SDK's queue. Every change merges the whole outbox again
  (`DataServiceManager` 83), so while the app believes it is online and the server does
  not answer the queue grows with the square of the changes; nothing in the code bounds
  it, and no property could be stated that the code is meant to keep.
* The vendored code under `Pods/`: Firestore, gRPC, BoringSSL, Realm and Reachability are
  almost all of the repository's lines. `FirestoreClient`, `Network` and the fetches
  model what the app relies on of two of them; the rest is third-party code with its own
  tests, and no part of this app's logic.
