----------------------------- MODULE BackupEdits -----------------------------
(***************************************************************************)
(* backupData beside the user's edits.  After an error the ring is gone,   *)
(* and the user may change or delete objects while the callbacks of the    *)
(* failed backup still run.  Its additions read the Realm objects listed   *)
(* before the fetches: a changed one is sent as it is now, and reading a   *)
(* deleted one ends the process.  The outbox is merged beside all this.    *)
(*                                                                         *)
(* A change, its record and its merge are one step here, and the flag of   *)
(* the network agrees with the link: DataServiceManager parts them.        *)
(***************************************************************************)
EXTENDS Backup

CONSTANTS
  ReportOf,   \* the report of each shot
  MaxEdits    \* bound: changes and deletions made by the user

VARIABLES
  outbox,    \* the objects with an OfflineStorageModel record
  edits,     \* changes and deletions so far
  crashed    \* history: whether the process ended because of a deleted object

editVars == <<outbox, edits, crashed>>
allVars  == <<vars, editVars>>

\* checkAndMergeChangeInLocalDatabase: every record of the outbox is sent.  The
\* version tells its completion block whether the record is still the same.
Merged(online, db, objects) ==
  IF online
  THEN SetToSeqs({[doc |-> d, val |-> db[d],
                   cb |-> [run |-> 0, op |-> "record", doc |-> d, val |-> db[d]]] : d \in objects})
  ELSE {<<>>}

\* Mutant: the screen takes input under the ring of a backup.
UncoveredAlways == TRUE

\* The ring covers the whole navigation controller.
Uncovered == \A b \in DOMAIN backups : ~backups[b].covered

Change(objects, val) ==
  /\ Uncovered
  /\ edits < MaxEdits /\ edits' = edits + 1
  /\ local' = [d \in Doc |-> IF d \in objects THEN val ELSE local[d]]
  /\ outbox' = outbox \cup objects
  /\ \E writes \in Merged(link, local', outbox') : Issue(writes, backups)
  /\ UNCHANGED <<server, persisted, applied, done, cache, link, counters, crashed>>

UpdateObject(o) == local[o] # Absent /\ Change({o}, 3 + edits)

ShotsOf(r) == {s \in Shot : ReportOf[s] = r /\ local[s] # Absent}

\* A report takes its shots with it.
DeleteObject(o) == local[o] # Absent /\ Change({o} \cup ShotsOf(o), Absent)

\* The network comes back, and the outbox is merged.
LinkReturns ==
  /\ ~link /\ link' = TRUE
  /\ \E writes \in Merged(TRUE, local, outbox) : Issue(writes, backups)
  /\ UNCHANGED <<server, persisted, applied, done, local, cache, counters, editVars>>

\* The record is dropped unless another has taken its place.
OnRecordDone ==
  /\ done # <<>> /\ Head(done).cb.op = "record"
  /\ LET r == Head(done).cb
     IN  outbox' = IF Head(done).ok /\ local[r.doc] = r.val
                   THEN outbox \ {r.doc} ELSE outbox
  /\ done' = Tail(done)
  /\ UNCHANGED <<server, queue, persisted, applied, local, cache, link, backups,
                 counters, edits, crashed>>

\* The additions that the next answer starts: the objects they read.
Read ==
  IF done = <<>> \/ Head(done).cb.op # "delete" \/ ~Head(done).ok THEN {}
  ELSE LET b == backups[Head(done).cb.run]
           c == CollectionOf(Head(done).cb.doc)
       IN  IF b.deleted[c] + 1 = Cardinality(b.cloud[c]) THEN b.mine \cap c ELSE {}

OnBackupAnswer ==
  /\ done # <<>> /\ Head(done).cb.op # "record"
  /\ Read \subseteq Present(local)
  /\ OnAnswer /\ UNCHANGED editVars

\* The process ends and is started again: what the SDK has stored is still in
\* its queue, without completion blocks, and the outbox is merged.
Launch(stored) ==
  /\ \E writes \in Merged(link, local, outbox) : queue' = stored \o writes
  /\ persisted' = Len(stored)
  /\ StreamLost /\ done' = <<>> /\ backups' = <<>>
  /\ UNCHANGED <<server, local, cache, link, outbox, edits>>

\* getJSONData of a deleted object raises an exception.  The additions before
\* it may have reached the disk.
ReadDeleted ==
  /\ ~(Read \subseteq Present(local))
  /\ \E S \in SUBSET (Read \cap Present(local)) :
       /\ S # {} => persisted = Len(queue)
       /\ \E order \in SetToSeqs(S) :
            Launch(Restored \o [i \in DOMAIN order |->
                     [doc |-> order[i], val |-> local[order[i]], cb |-> Nil]])
  /\ crashed' = TRUE
  /\ UNCHANGED counters

Relaunch ==
  /\ kills < MaxKills /\ kills' = kills + 1
  /\ Launch(Restored)
  /\ UNCHANGED <<started, outages, refusals, crashed>>

MainThread  == OnRecordDone \/ OnBackupAnswer \/ ReadDeleted
Beside(A)   == A /\ UNCHANGED editVars

\* The objects with a record may be those of the phone, or deleted ones.
EditInit == Init /\ outbox \in SUBSET Doc /\ edits = 0 /\ crashed = FALSE

EditNext ==
  \/ \E o \in Doc : UpdateObject(o) \/ DeleteObject(o)
  \/ MainThread \/ LinkReturns \/ Relaunch
  \/ Beside(BackupData \/ Fetch \/ Told)
  \/ Beside(ClientPersist \/ ClientApply \/ ClientAck \/ ClientReject)
  \/ Beside(link /\ LinkChange)

EditFairness ==
  /\ WF_allVars(MainThread) /\ WF_allVars(Beside(Fetch)) /\ WF_allVars(Beside(Told))
  /\ WF_allVars(Beside(ClientPersist)) /\ WF_allVars(Beside(ClientApply))
  /\ WF_allVars(Beside(ClientAck))

EditSpec == EditInit /\ [][EditNext]_allVars /\ EditFairness

-----------------------------------------------------------------------------
(* Properties.                                                             *)

\* The additions read a deleted object (368) only beside a backup of which the
\* user was told that it failed: until then the ring keeps the objects alive
\* that the closures hold.
OnlyFailedBackupsCrash ==
  [][crashed' # crashed => \E b \in DOMAIN backups : backups[b].told = "error"]_allVars

\* "Every datum has been backed up", with edits: from the full progress of the
\* latest backup on, what the phone has is the last word of the server and of
\* its queue, or the outbox has a record of it, whatever a failed backup still
\* sends and the user still changes.
BackedUpOrRecorded ==
  backups # <<>> /\ Full(Last(backups)) =>
    \A d \in Present(local) \ outbox :
      /\ server[d] = local[d]
      /\ \A i \in DOMAIN queue : queue[i].doc = d => queue[i].val = local[d]
=============================================================================
