------------------------------- MODULE Restore -------------------------------
(***************************************************************************)
(* checkRestoreAbility beside everything DataServiceManager does: the list *)
(* of reports, when it is loaded over an empty database, fetches the two   *)
(* collections, asks the user, and replaces the two tables of the phone by *)
(* what it has fetched, one transaction each.  Meanwhile the user may have *)
(* added reports, and the process may be killed between any two steps.     *)
(*                                                                         *)
(* Documents the phone had never seen have version 1; the user's changes   *)
(* begin with version 2.                                                   *)
(***************************************************************************)
EXTENDS DataServiceManager

Collections == {Report, Shot}

VARIABLES
  asked,     \* the collections whose fetch is under way
  answers,   \* the answers of the fetches, on their way to the main thread
  found,     \* reportData and shotData: the answer a closure captured, or Nil
  alert,     \* "none", "shown", or "half": reports restored, shots not yet
  since,     \* history: the objects added since the database was found empty
  adrift,    \* history: documents of the cloud the phone never took over
  stranded   \* history: shots that may be back without their report

captured    == <<asked, answers, found>>
histories   == <<since, adrift, stranded>>
restoreVars == <<captured, alert, histories>>
allVars     == <<vars, restoreVars>>

NothingFound == [c \in Collections |-> Nil]

\* Mutant: the records of the outbox are not looked at.
IsDatabaseEmptyOfObjects == \A o \in Doc : local[o] = Absent

\* Realm counts the OfflineStorageModel records as well.
IsDatabaseEmpty == outbox = {} /\ \A o \in Doc : local[o] = Absent

\* viewDidLoad of the list of reports calls checkRestoreAbility, at launch.
CheckRestoreAbility ==
  /\ asked' = IF IsDatabaseEmpty THEN Collections ELSE {}
  /\ answers' = <<>> /\ found' = NothingFound /\ alert' = "none"
  /\ since' = {}

-----------------------------------------------------------------------------
(* The two fetches.  At the launch everything the queue still holds is on  *)
(* the disk, so a fetch sees it.                                           *)

\* told: the documents of which the answer speaks, but for those a write that
\* is still unanswered may change.
Answer(c, docs, known, ok) ==
  /\ c \in asked
  /\ asked' = asked \ {c}
  /\ answers' = Append(answers,
       [coll |-> c, docs |-> docs, ok |-> ok,
        told |-> {d \in known : \A i \in DOMAIN queue : queue[i].doc # d}])
  /\ UNCHANGED <<clientVars, localVars, mainVars, link, changes, kills, flips,
                 history, found, alert, histories>>

FetchFromServer(c) ==
  /\ link
  /\ Answer(c, [d \in c |-> Seen(server, d)], c, TRUE)
  /\ UNCHANGED refusals

\* Offline, the SDK answers with the documents it remembers.
FetchFromCache(c) ==
  /\ ~link
  /\ \E kept \in SUBSET c :
       LET cache == [d \in c |-> IF d \in kept THEN server[d] ELSE Absent]
       IN  Answer(c, [d \in c |-> Seen(cache, d)], kept, TRUE)
  /\ UNCHANGED refusals

FetchRefused(c) ==
  /\ link
  /\ refusals < MaxRefusals /\ refusals' = refusals + 1
  /\ Answer(c, [d \in c |-> Absent], c, FALSE)

Listed(a) == {d \in DOMAIN a.docs : a.docs[d] # Absent}

\* checkShowAlert.  The question is lost when the list cannot present it,
\* under another alert or another screen.
CheckShowAlert(f) ==
  IF /\ \A c \in Collections : f[c] # Nil
     /\ \E c \in Collections : Listed(f[c]) # {}
  THEN alert' \in {"shown", "none"}
  ELSE UNCHANGED alert

\* Mutant: a fetch that failed counts as an empty collection.
OnFetchedIgnoringError ==
  /\ Idle /\ alert # "half"
  /\ answers # <<>>
  /\ found' = [found EXCEPT ![Head(answers).coll] = Head(answers)]
  /\ CheckShowAlert(found')
  /\ answers' = Tail(answers)
  /\ UNCHANGED <<vars, asked, histories>>

\* reportClosure and shotClosure.
OnFetched ==
  /\ Idle /\ alert # "half"
  /\ answers # <<>>
  /\ LET a == Head(answers)
     IN  IF a.ok
         THEN /\ found' = [found EXCEPT ![a.coll] = a]
              /\ CheckShowAlert(found')
         ELSE UNCHANGED <<found, alert>>
  /\ answers' = Tail(answers)
  /\ UNCHANGED <<vars, asked, histories>>

-----------------------------------------------------------------------------
(* The user's answer.                                                      *)

Decline ==
  /\ alert = "shown"
  /\ alert' = "none"
  /\ UNCHANGED <<vars, captured, histories>>

\* RealmDataService.restoreData: one transaction empties the table and fills
\* it.  The outbox is left alone.
RestoreData(c) ==
  /\ local' = [o \in Doc |-> IF o \in c THEN found[c].docs[o] ELSE local[o]]
  /\ adrift' = (adrift \ found[c].told) \cup since
  /\ stranded' = stranded \cup
       {s \in Shot : s \in since \/ ReportOf[s] \notin found[Report].told}
  /\ UNCHANGED <<clientVars, outbox, used, mainVars, link, counters, history,
                 captured, since>>

RestoreReports ==
  /\ Idle /\ alert = "shown" /\ alert' = "half"
  /\ RestoreData(Report)

RestoreShots ==
  /\ alert = "half" /\ alert' = "none"
  /\ RestoreData(Shot)

-----------------------------------------------------------------------------
(* Everything else goes on, but for the user under an alert and the main   *)
(* thread between the two transactions.                                    *)

UserChange ==
  /\ alert = "none"
  /\ \E o \in Doc : AddObject(o) \/ UpdateObject(o) \/ DeleteObject(o)
  /\ since' = since \cup (used' \ used)
  /\ UNCHANGED <<captured, alert, adrift, stranded>>

\* A change recorded after the restore takes its object over.  A report that
\* is deleted leaves the shots behind that the phone does not have.
MainThread ==
  /\ alert # "half"
  /\ \/ /\ AddRecord
        /\ adrift' = adrift \ {handler.obj}
        /\ stranded' = stranded \cup
             {s \in Shot \cap adrift : handler.how = "delete" /\ ReportOf[s] = handler.obj}
     \/ DropRecord /\ UNCHANGED <<adrift, stranded>>
     \/ Erase /\ UNCHANGED <<adrift, stranded>>
     \/ OnWriteDone /\ UNCHANGED <<adrift, stranded>>
     \/ NetworkNotified /\ UNCHANGED <<adrift, stranded>>
     \/ NetworkMisreported /\ UNCHANGED <<adrift, stranded>>
  /\ UNCHANGED <<captured, alert, since>>

Surroundings ==
  /\ LinkChange \/ ClientPersist \/ ClientApply \/ ClientAck \/ ClientReject
  /\ UNCHANGED restoreVars

Relaunch == KillAndRelaunch /\ CheckRestoreAbility /\ UNCHANGED <<adrift, stranded>>

Fetch == \E c \in Collections :
           FetchFromServer(c) \/ FetchFromCache(c) \/ FetchRefused(c)

\* The app is started for the first time on this phone; the cloud holds what
\* an earlier installation backed up, and no shot without its report.
FirstStart ==
  /\ server \in [Doc -> {Absent, 1}]
  /\ \A s \in Shot : server[s] # Absent => server[ReportOf[s]] # Absent
  /\ queue = <<>> /\ persisted = 0 /\ applied = 0 /\ done = <<>>
  /\ local = [o \in Doc |-> Absent] /\ outbox = {}
  /\ used = {d \in Doc : server[d] # Absent}
  /\ handler = Nil /\ todo = {}
  /\ link \in BOOLEAN /\ available = link
  /\ torn = {} /\ refused = {}
  /\ asked = Collections /\ answers = <<>> /\ found = NothingFound
  /\ alert = "none" /\ since = {} /\ adrift = used /\ stranded = {}

RestoreInit ==
  FirstStart /\ changes = 1 /\ kills = 0 /\ flips = 0 /\ refusals = 0

RestoreNext ==
  \/ Fetch \/ OnFetched \/ Decline \/ RestoreReports \/ RestoreShots
  \/ UserChange \/ MainThread \/ Surroundings \/ Relaunch

RestoreSpec == RestoreInit /\ [][RestoreNext]_allVars

-----------------------------------------------------------------------------
(* Properties.                                                             *)

\* The restore never writes over an object the phone had when its database
\* was checked, nor over a change still waiting in its outbox: only objects
\* added after the check (250) are replaced by what was fetched (279-280).
NothingOldIsReplaced ==
  [][\A o \in Doc \ since :
       alert \in {"shown", "half"} /\ local'[o] # local[o] =>
         (local[o] = Absent /\ RecordsOf(o) = {})]_allVars

\* What a restore brings back agrees with the cloud, and stays so through
\* edits, kills and merges like everything else on the phone.  The exceptions
\* are the objects added between the check and the restore, and the documents
\* of the cloud that no restore has brought to the phone.
RestoredIsMirrored ==
  \A o \in Doc \ adrift : ~Dirty(o) =>
    /\ server[o] = local[o]
    /\ \A i \in DOMAIN queue : queue[i].doc = o => queue[i].val = local[o]

\* A restore leaves no shot without its report, though a kill may part its two
\* transactions (279-280).  Exceptions: shots added between the check and the
\* restore; shots whose report the phone knows nothing of, the link having been
\* lost between the two fetches; and shots whose report was deleted when only
\* the report had come back, so that the cloud has them alone.
RestoredHasReport ==
  \A s \in Shot \ stranded : local[s] # Absent => local[ReportOf[s]] # Absent
=============================================================================
