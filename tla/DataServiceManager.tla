------------------------- MODULE DataServiceManager -------------------------
(***************************************************************************)
(* DataServiceManager: every change of a report or a shot is written to    *)
(* the local Realm database first, then recorded as an                     *)
(* OfflineStorageModel (here: a record of the outbox), then merged into    *)
(* Firestore whenever the app believes it is online.                       *)
(*                                                                         *)
(* The methods run on the main thread and never suspend, so a completion   *)
(* block or a network notification runs only between two of them.  But     *)
(* each Realm write is a transaction of its own and the process may be     *)
(* killed between any two, so a method is one action per transaction.      *)
(***************************************************************************)
EXTENDS FirestoreClient, FiniteSets, SequencesExt

CONSTANTS
  Report,       \* the documents that are reports; the others are shots
  ReportOf,     \* the report a shot belongs to (ShotModel.reportID)
  MaxChanges,   \* bound: changes the user makes
  MaxKills,     \* bound: kills of the process
  MaxFlips,     \* bound: losses of the link and stale reports of it
  MaxRefusals   \* bound: writes the server refuses for good

Shot == Doc \ Report

ASSUME ReportAssumption == Report \subseteq Doc /\ ReportOf \in [Shot -> Report]
ASSUME BoundAssumption ==
  MaxChanges \in Nat /\ MaxKills \in Nat /\ MaxFlips \in Nat /\ MaxRefusals \in Nat

Methods == {"create", "update", "delete"}
Record  == [obj : Doc, how : Methods, id : Nat]
Steps   == {"begin", "dropped", "erase"}
Running == [step : Steps, obj : Doc, how : Methods]

ASSUME NilAssumption == Nil \notin Record \cup Running

VARIABLES
  local,        \* the Realm database: the version of each object, or Absent
  outbox,       \* the Realm database: the OfflineStorageModel records
  handler,      \* the method that is running and its next step, or Nil
  todo,         \* the objects a running deleteObject has still to delete
  available,    \* Network.isInternetAvailable = .Available
  link,         \* the server can be reached
  changes, kills, flips, refusals,  \* the bounded events so far
  used,         \* identifiers given out (UUIDs are never given out twice)
  torn,         \* history: objects whose change a kill left unrecorded
  refused       \* history: records whose write was refused since the last merge

localVars == <<local, outbox, used>>
mainVars  == <<handler, todo, available>>
counters  == <<changes, kills, flips, refusals>>
history   == <<torn, refused>>
vars == <<clientVars, localVars, mainVars, link, counters, history>>

Idle    == handler = Nil
Busy(o) == ~Idle /\ handler.obj = o

RecordsOf(o) == {r \in outbox : r.obj = o}

Init ==
  /\ ClientInit
  /\ local = [o \in Doc |-> Absent]
  /\ outbox = {}
  /\ used = {}
  /\ handler = Nil
  /\ todo = {}
  /\ link \in BOOLEAN
  /\ available = link
  /\ changes = 0 /\ kills = 0 /\ flips = 0 /\ refusals = 0
  /\ torn = {} /\ refused = {}

-----------------------------------------------------------------------------
(* Merging the outbox into Firestore.                                      *)

\* The write a record asks for: the object as it is now, or its deletion when
\* it is gone or was to be deleted.  The completion block holds the record.
Send(r) ==
  [doc |-> r.obj,
   val |-> IF r.how = "delete" THEN Absent ELSE local[r.obj],
   cb  |-> r]

\* checkAndMergeChangeInLocalDatabase, with Firestore's queue and the records
\* it finds.  Realm returns the records in no particular order.
CheckAndMerge(online, pending, records) ==
  IF online
  THEN /\ \E order \in SetToSeqs(records) :
            queue' = pending \o [i \in 1 .. Cardinality(records) |-> Send(order[i])]
       /\ refused' = {}
  ELSE queue' = pending /\ UNCHANGED refused

\* Mutant: a success deletes whatever record the object has by now.
OnWriteDoneByObject ==
  /\ Idle
  /\ done # <<>>
  /\ LET r == Head(done).cb
     IN  IF Head(done).ok
         THEN /\ outbox' = outbox \ RecordsOf(r.obj)
              /\ refused' = refused \ RecordsOf(r.obj)
         ELSE refused' = refused \cup ({r} \cap outbox) /\ UNCHANGED outbox
  /\ done' = Tail(done)
  /\ UNCHANGED <<server, queue, persisted, applied, local, used, mainVars,
                 link, counters, torn>>

\* Mutant: the error of the answer is not looked at.
OnWriteDoneIgnoringError ==
  /\ Idle
  /\ done # <<>>
  /\ outbox' = outbox \ {Head(done).cb}
  /\ refused' = refused \ {Head(done).cb}
  /\ done' = Tail(done)
  /\ UNCHANGED <<server, queue, persisted, applied, local, used, mainVars,
                 link, counters, torn>>

\* The completion block of a merged write: a success deletes the record that
\* was merged, and no other; an error leaves it for the next merge.
OnWriteDone ==
  /\ Idle
  /\ done # <<>>
  /\ LET r == Head(done).cb
     IN  IF Head(done).ok
         THEN outbox' = outbox \ {r} /\ refused' = refused \ {r}
         ELSE refused' = refused \cup ({r} \cap outbox) /\ UNCHANGED outbox
  /\ done' = Tail(done)
  /\ UNCHANGED <<server, queue, persisted, applied, local, used, mainVars,
                 link, counters, torn>>

-----------------------------------------------------------------------------
(* The methods the view controllers call.                                  *)

Call ==
  /\ Idle
  /\ changes < MaxChanges
  /\ changes' = changes + 1
  /\ UNCHANGED <<clientVars, outbox, available, link, kills, flips, refusals,
                 history>>

\* A shot is only created from the screen of its report.
AddObject(o) ==
  /\ Call
  /\ o \notin used
  /\ o \in Shot => local[ReportOf[o]] # Absent
  /\ used' = used \cup {o}
  /\ local' = [local EXCEPT ![o] = changes + 1]
  /\ handler' = [step |-> "begin", obj |-> o, how |-> "create"]
  /\ UNCHANGED todo

UpdateObject(o) ==
  /\ Call
  /\ local[o] # Absent
  /\ local' = [local EXCEPT ![o] = changes + 1]
  /\ handler' = [step |-> "begin", obj |-> o, how |-> "update"]
  /\ UNCHANGED <<todo, used>>

\* Mutant: the report is deleted before its shots.
NextVictimsReportFirst(S) == IF S \cap Report # {} THEN S \cap Report ELSE S

\* The shots of a report are deleted first, the report last.
NextVictims(S) == IF S \cap Shot # {} THEN S \cap Shot ELSE S

DeleteNext(S) ==
  \E o \in NextVictims(S) :
    /\ handler' = [step |-> "begin", obj |-> o, how |-> "delete"]
    /\ todo' = S \ {o}

ShotsOf(r) == {s \in Shot : ReportOf[s] = r /\ local[s] # Absent}

DeleteObject(o) ==
  /\ Call
  /\ local[o] # Absent
  /\ DeleteNext({o} \cup ShotsOf(o))
  /\ UNCHANGED <<local, used>>

-----------------------------------------------------------------------------
(* changeInLocalDatabase, one transaction at a time.                       *)

DropRecord ==
  /\ ~Idle /\ handler.step \in {"begin", "dropped"}
  /\ \E r \in RecordsOf(handler.obj) :
       outbox' = outbox \ {r} /\ refused' = refused \ {r}
  /\ handler' = [handler EXCEPT !.step = "dropped"]
  /\ UNCHANGED <<clientVars, local, used, todo, available, link, counters, torn>>

\* Mutant: the previous records of the object are left in place.
AddRecordBesideOld ==
  /\ ~Idle /\ handler.step \in {"begin", "dropped"}
  /\ outbox' = outbox \cup
       {[obj |-> handler.obj, how |-> handler.how, id |-> changes]}
  /\ CheckAndMerge(available, queue, outbox')
  /\ handler' = IF handler.how = "delete"
                THEN [handler EXCEPT !.step = "erase"]
                ELSE Nil
  /\ torn' = torn \ {handler.obj}
  /\ UNCHANGED <<server, persisted, applied, done, local, used, todo,
                 available, link, counters>>

\* The new record, then the merge.  A delete has its object still to erase.
AddRecord ==
  /\ ~Idle /\ handler.step \in {"begin", "dropped"}
  /\ RecordsOf(handler.obj) = {}
  /\ outbox' = outbox \cup
       {[obj |-> handler.obj, how |-> handler.how, id |-> changes]}
  /\ CheckAndMerge(available, queue, outbox')
  /\ handler' = IF handler.how = "delete"
                THEN [handler EXCEPT !.step = "erase"]
                ELSE Nil
  /\ torn' = torn \ {handler.obj}
  /\ UNCHANGED <<server, persisted, applied, done, local, used, todo,
                 available, link, counters>>

Erase ==
  /\ ~Idle /\ handler.step = "erase"
  /\ local' = [local EXCEPT ![handler.obj] = Absent]
  /\ IF todo = {}
     THEN handler' = Nil /\ UNCHANGED todo
     ELSE DeleteNext(todo)
  /\ UNCHANGED <<clientVars, outbox, used, available, link, counters, history>>

-----------------------------------------------------------------------------
(* The network, the server and the end of the process.                     *)

LinkChange ==
  /\ link' = ~link
  /\ IF link
     THEN flips < MaxFlips /\ flips' = flips + 1 /\ StreamLost
     ELSE UNCHANGED <<flips, applied>>
  /\ UNCHANGED <<server, queue, persisted, done, localVars, mainVars, changes,
                 kills, refusals, history>>

\* Mutant: the flag changes, but nothing is merged.
NotifiedWithoutMerge(online) ==
  /\ Idle
  /\ available # online
  /\ available' = online
  /\ UNCHANGED <<clientVars, localVars, handler, todo, link, changes, kills,
                 refusals, history>>

\* Network's closures on the main thread: the flag changes, and
\* changeInternetConnection merges.
Notified(online) ==
  /\ Idle
  /\ available # online
  /\ available' = online
  /\ CheckAndMerge(online, queue, outbox)
  /\ UNCHANGED <<server, persisted, applied, done, localVars, handler, todo,
                 link, changes, kills, refusals, torn>>

NetworkNotified == Notified(link) /\ UNCHANGED flips

\* A report of the link as it was: it changed again before the closure ran.
NetworkMisreported ==
  /\ flips < MaxFlips /\ flips' = flips + 1
  /\ Notified(~link)

\* The SDK's own steps run at any time, beside the main thread.
appVars == <<localVars, mainVars, link, changes, kills, flips, history>>

ClientPersist == Persist /\ UNCHANGED <<appVars, refusals>>
ClientApply   == link /\ Apply /\ UNCHANGED <<appVars, refusals>>
ClientAck     == link /\ Acknowledge /\ UNCHANGED <<appVars, refusals>>
ClientReject  ==
  /\ link /\ Reject
  /\ refusals < MaxRefusals
  /\ refusals' = refusals + 1
  /\ UNCHANGED appVars

\* The change of a running method that the outbox will not know of: it is
\* half done, and no record of it, or no longer one, will bring it to an end.
TornBy(h) ==
  IF h = Nil THEN {}
  ELSE IF \/ h.step = "erase"
          \/ RecordsOf(h.obj) = {} /\ (h.how # "delete" \/ h.step = "dropped")
       THEN {h.obj}
       ELSE {}

\* Mutant: nothing is merged at launch.
KillAndRelaunchWithoutMerge ==
  /\ kills < MaxKills
  /\ kills' = kills + 1
  /\ handler' = Nil /\ todo' = {}
  /\ torn' = torn \cup TornBy(handler)
  /\ available' = link
  /\ queue' = Restored /\ UNCHANGED refused
  /\ StreamLost /\ done' = <<>>
  /\ UNCHANGED <<server, persisted, localVars, link, changes, flips, refusals>>

\* The process is killed and started again: didFinishLaunching configures the
\* databases and the network, then merges.
KillAndRelaunch ==
  /\ kills < MaxKills
  /\ kills' = kills + 1
  /\ handler' = Nil /\ todo' = {}
  /\ torn' = torn \cup TornBy(handler)
  /\ available' = link
  /\ CheckAndMerge(link, Restored, outbox)
  /\ StreamLost /\ done' = <<>>
  /\ UNCHANGED <<server, persisted, localVars, link, changes, flips, refusals>>

-----------------------------------------------------------------------------
Handlers == DropRecord \/ AddRecord \/ Erase

Next ==
  \/ \E o \in Doc : AddObject(o) \/ UpdateObject(o) \/ DeleteObject(o)
  \/ Handlers
  \/ OnWriteDone
  \/ LinkChange
  \/ NetworkNotified \/ NetworkMisreported
  \/ ClientPersist \/ ClientApply \/ ClientAck \/ ClientReject
  \/ KillAndRelaunch

Spec == Init /\ [][Next]_vars

\* A method that has started runs to its end, the run loop serves completion
\* blocks and reachability changes, and the SDK keeps sending while it can.
\* Nothing is assumed of the user, the link, the server's refusals or kills.
Fairness ==
  /\ WF_vars(Handlers)
  /\ WF_vars(OnWriteDone)
  /\ WF_vars(NetworkNotified)
  /\ WF_vars(ClientPersist)
  /\ WF_vars(ClientApply)
  /\ WF_vars(ClientAck)

FairSpec == Spec /\ Fairness

-----------------------------------------------------------------------------
(* Properties.                                                             *)

Entry == [doc : Doc, val : Nat, cb : Record \cup {Nil}]

\* The types of the variables, and the SDK's two cursors into its queue.
TypeOK ==
  /\ server \in [Doc -> Nat]
  /\ queue \in Seq(Entry)
  /\ persisted \in 0 .. Len(queue)
  /\ applied \in 0 .. persisted
  /\ done \in Seq([cb : Record, ok : BOOLEAN])
  /\ local \in [Doc -> Nat]
  /\ outbox \subseteq Record
  /\ IsFiniteSet(outbox)
  /\ used \subseteq Doc
  /\ handler \in Running \cup {Nil}
  /\ todo \subseteq Doc
  /\ link \in BOOLEAN /\ available \in BOOLEAN
  /\ changes \in Nat /\ kills \in Nat /\ flips \in Nat /\ refusals \in Nat
  /\ torn \subseteq Doc
  /\ refused \subseteq Record

\* changeInLocalDatabase keeps one OfflineStorageModel per object (lines
\* 153-160), whatever was killed between dropping the old and adding the new.
OneRecordPerObject ==
  \A r1, r2 \in outbox : r1.obj = r2.obj => r1 = r2

\* deleteObject leaves no shot without its report (lines 229-236), not even
\* when the process is killed half-way through the shots.
NoOrphanShot ==
  \A s \in Shot : local[s] # Absent => local[ReportOf[s]] # Absent

\* An object is dirty while its change is being recorded, while a record of it
\* waits for an answer, or after a kill that left its change without a record.
Dirty(o) == Busy(o) \/ RecordsOf(o) # {} \/ o \in torn

\* A record disappears from the outbox only when the cloud has what the phone
\* has, and nothing still under way can change that: the completion blocks of
\* lines 91-139 never discard the record of a change that was not sent yet.
CleanIsMirrored ==
  \A o \in Doc : ~Dirty(o) =>
    /\ server[o] = local[o]
    /\ \A i \in DOMAIN queue : queue[i].doc = o => queue[i].val = local[o]

\* While the app believes it is online every record is on its way: a write for
\* it waits in the SDK's queue, or its answer waits for the main thread.  Only a
\* write that was refused leaves its record waiting for the next merge (123).
InQueue(r)  == \E i \in DOMAIN queue : queue[i].cb = r
Answered(r) == \E i \in DOMAIN done : done[i].cb = r
NoForgottenRecord ==
  available => \A r \in outbox \ refused : InQueue(r) \/ Answered(r)

\* The cloud copy of each object follows the promise of module Mirror.
Cloud == INSTANCE Mirror WITH
  Object <- Doc, Version <- 0 .. MaxChanges,
  local <- local, remote <- server, dirty <- {o \in Doc : Dirty(o)}

ImplementsMirror == Cloud!Spec

\* Once the link stays up, the cloud ends up with what the phone has and stays
\* there, but for the changes a kill left unrecorded and for the records the
\* server refused since the last merge: nothing retries either of them.
Converges ==
  <>[]link => <>[](\A o \in Doc \ torn :
                     RecordsOf(o) \cap refused = {} => server[o] = local[o])
=============================================================================
