---------------------- MODULE DataServiceManagerProofs ----------------------
(***************************************************************************)
(* Proofs about DataServiceManager, for any set of reports and shots and   *)
(* any bounds; and, from "The restore" on, about checkRestoreAbility       *)
(* beside it, for any contents of the cloud.                               *)
(***************************************************************************)
EXTENDS Restore, FiniteSetTheorems, SequenceTheorems, WellFoundedInduction, TLAPS

(***************************************************************************)
(* Merging and restoring.                                                  *)
(***************************************************************************)

\* A list of all elements of a finite set without repetition misses none.
LEMMA OrderCovers ==
  ASSUME NEW S, IsFiniteSet(S), NEW order \in SetToSeqs(S), NEW x \in S
  PROVE  \E i \in 1 .. Cardinality(S) : order[i] = x
<1> DEFINE n == Cardinality(S)
<1>1. n \in Nat
  BY FS_CardinalityType
<1>2. order \in [1 .. n -> S] /\ \A i, j \in 1 .. n : i # j => order[i] # order[j]
  BY DEF SetToSeqs
<1>3. Cardinality(1 .. n) = n
  BY <1>1, FS_Interval
<1>4. order \in Injection(1 .. n, S)
  BY <1>2 DEF Injection, IsInjective
<1>5. order \in Surjection(1 .. n, S)
  BY <1>3, <1>4, FS_Injection
<1> QED
  BY <1>5 DEF Surjection

\* What a record asks for is a write the SDK accepts.
LEMMA SendType ==
  ASSUME local \in [Doc -> Nat], NEW r \in Record
  PROVE  Send(r) \in Entry
BY DEF Send, Entry, Record, Absent

\* A merge leaves what is pending as it is and appends only what the records
\* ask for; when the app is online it appends it for every record.
LEMMA MergeFacts ==
  ASSUME local \in [Doc -> Nat],
         NEW online, NEW pending \in Seq(Entry),
         NEW records \in SUBSET Record, IsFiniteSet(records),
         CheckAndMerge(online, pending, records)
  PROVE  /\ queue' \in Seq(Entry)
         /\ Len(queue') >= Len(pending)
         /\ \A i \in 1 .. Len(pending) : queue'[i] = pending[i]
         /\ \A i \in 1 .. Len(queue') : i > Len(pending) =>
              \E r \in records : queue'[i] = Send(r)
         /\ refused' = refused \/ refused' = {}
         /\ online => /\ refused' = {}
                      /\ \A r \in records :
                           \E i \in 1 .. Len(queue') : queue'[i] = Send(r)
<1> DEFINE n == Cardinality(records)
<1>1. CASE ~online
  BY <1>1 DEF CheckAndMerge
<1>2. CASE online
  <2>1. PICK order \in SetToSeqs(records) :
           queue' = pending \o [i \in 1 .. n |-> Send(order[i])]
    BY <1>2 DEF CheckAndMerge
  <2> DEFINE new == [i \in 1 .. n |-> Send(order[i])]
  <2>2. n \in Nat
    BY FS_CardinalityType
  <2>3. order \in [1 .. n -> records]
    BY DEF SetToSeqs
  <2>4. \A i \in 1 .. n : Send(order[i]) \in Entry
    BY <2>3, SendType
  <2>5. new \in Seq(Entry) /\ Len(new) = n /\ \A i \in 1 .. n : new[i] = Send(order[i])
    BY <2>2, <2>4, IsASeq
  <2> HIDE DEF new, n
  <2>6. queue' = pending \o new
    BY <2>1 DEF new, n
  <2>7a. /\ pending \o new \in Seq(Entry)
         /\ Len(pending \o new) = Len(pending) + Len(new)
         /\ \A i \in 1 .. Len(pending) + Len(new) : (pending \o new)[i] =
              IF i <= Len(pending) THEN pending[i] ELSE new[i - Len(pending)]
    BY <2>5, ConcatProperties, Zenon
  <2>7. /\ queue' \in Seq(Entry)
        /\ Len(queue') = Len(pending) + n
        /\ \A i \in 1 .. Len(queue') :
             queue'[i] = IF i <= Len(pending) THEN pending[i] ELSE new[i - Len(pending)]
    BY <2>5, <2>6, <2>7a, Zenon
  <2>8. Len(pending) \in Nat
    BY LenProperties
  <2>9. ASSUME NEW i \in 1 .. Len(queue'), i > Len(pending)
        PROVE  \E r \in records : queue'[i] = Send(r)
    <3>1. i - Len(pending) \in 1 .. n
      BY <2>2, <2>7, <2>8, <2>9
    <3>2. queue'[i] = Send(order[i - Len(pending)])
      BY <2>5, <2>7, <2>9, <3>1, <2>8
    <3> QED
      BY <2>3, <3>1, <3>2
  <2>10. ASSUME NEW r \in records
         PROVE  \E i \in 1 .. Len(queue') : queue'[i] = Send(r)
    <3>1. PICK k \in 1 .. n : order[k] = r
      BY OrderCovers DEF n
    <3>2. Len(pending) + k \in 1 .. Len(queue') /\ Len(pending) + k > Len(pending)
      BY <2>2, <2>7, <2>8
    <3>3. queue'[Len(pending) + k] = new[k]
      BY <2>2, <2>7, <2>8, <3>2
    <3> QED
      BY <2>5, <3>1, <3>2, <3>3
  <2>11. refused' = {}
    BY <1>2 DEF CheckAndMerge
  <2> QED
    BY <2>2, <2>7, <2>8, <2>9, <2>10, <2>11
<1> QED
  BY <1>1, <1>2

\* The writes that survive a kill are the stored ones, without their blocks.
LEMMA RestoredFacts ==
  ASSUME queue \in Seq(Entry), persisted \in 0 .. Len(queue)
  PROVE  /\ Restored \in Seq(Entry)
         /\ Len(Restored) = persisted
         /\ \A i \in 1 .. persisted : /\ Restored[i].cb = Nil
                                      /\ Restored[i].doc = queue[i].doc
                                      /\ Restored[i].val = queue[i].val
<1> DEFINE stored(i) == [doc |-> queue[i].doc, val |-> queue[i].val, cb |-> Nil]
<1>1. Len(queue) \in Nat /\ \A i \in 1 .. Len(queue) : queue[i] \in Entry
  BY LenProperties, ElementOfSeq
<1>2. \A i \in 1 .. persisted : stored(i) \in Entry
  BY <1>1 DEF Entry
<1>3. Restored = [i \in 1 .. persisted |-> stored(i)]
  BY DEF Restored
<1> HIDE DEF stored
<1>4. Restored \in Seq(Entry) /\ Len(Restored) = persisted
  BY <1>1, <1>2, <1>3
<1>5. \A i \in 1 .. persisted : Restored[i] = stored(i)
  BY <1>3
<1> QED
  BY <1>4, <1>5 DEF stored

-----------------------------------------------------------------------------
(***************************************************************************)
(* Type correctness.                                                       *)
(***************************************************************************)

LEMMA NilIsNoRecord == Nil \notin Record /\ Nil \notin Running
BY NilAssumption

\* An answer pops the head of the queue.
LEMMA FinishFacts ==
  ASSUME TypeOK, NEW ok \in BOOLEAN, persisted > 0, Finish(ok)
  PROVE  /\ queue' \in Seq(Entry)
         /\ Len(queue') = Len(queue) - 1
         /\ \A i \in 1 .. Len(queue') : queue'[i] = queue[i + 1]
         /\ persisted' = persisted - 1
         /\ done' \in Seq([cb : Record, ok : BOOLEAN])
         /\ queue[1].cb = Nil => done' = done
         /\ queue[1].cb # Nil =>
              /\ Len(done') = Len(done) + 1
              /\ \A i \in 1 .. Len(done) : done'[i] = done[i]
              /\ done'[Len(done) + 1] = [cb |-> queue[1].cb, ok |-> ok]
<1>1. Len(queue) \in Nat /\ Len(queue) > 0 /\ queue # <<>>
  BY LenProperties, EmptySeq DEF TypeOK
<1>2. /\ Tail(queue) \in Seq(Entry)
      /\ Len(Tail(queue)) = Len(queue) - 1
      /\ \A i \in 1 .. Len(Tail(queue)) : Tail(queue)[i] = queue[i + 1]
  BY <1>1, HeadTailProperties DEF TypeOK
<1>3. Head(queue) = queue[1] /\ queue[1] \in Entry
  BY <1>1, ElementOfSeq DEF TypeOK
<1>4. queue' = Tail(queue) /\ persisted' = persisted - 1
  BY DEF Finish
<1>5. CASE queue[1].cb = Nil
  <2>1. done' = done
    BY <1>3, <1>5 DEF Finish
  <2> QED
    BY <1>2, <1>4, <1>5, <2>1 DEF TypeOK
<1>6. CASE queue[1].cb # Nil
  <2> DEFINE answer == [cb |-> queue[1].cb, ok |-> ok]
  <2>1. queue[1].cb \in Record
    BY <1>3, <1>6 DEF Entry
  <2>2. answer \in [cb : Record, ok : BOOLEAN]
    BY <2>1
  <2>3. done' = Append(done, answer)
    BY <1>3, <1>6 DEF Finish
  <2> HIDE DEF answer
  <2>4. /\ done' \in Seq([cb : Record, ok : BOOLEAN])
        /\ Len(done') = Len(done) + 1
        /\ \A i \in 1 .. Len(done) : done'[i] = done[i]
        /\ done'[Len(done) + 1] = answer
    BY <2>2, <2>3, AppendProperties DEF TypeOK
  <2> QED
    BY <1>2, <1>4, <1>6, <2>4 DEF answer
<1> QED
  BY <1>5, <1>6

LEMMA TypeInit == Init => TypeOK
BY FS_EmptySet DEF Init, ClientInit, TypeOK, Absent

LEMMA TypeNext ==
  ASSUME TypeOK, [Next]_vars
  PROVE  TypeOK'
<1> USE NilIsNoRecord
<1>1. ASSUME NEW o \in Doc, AddObject(o)
      PROVE  TypeOK'
  BY <1>1 DEF TypeOK, AddObject, Call, clientVars, history, Running, Steps, Methods
<1>2. ASSUME NEW o \in Doc, UpdateObject(o)
      PROVE  TypeOK'
  BY <1>2 DEF TypeOK, UpdateObject, Call, clientVars, history, Running, Steps, Methods
<1>3. ASSUME NEW S \in SUBSET Doc, DeleteNext(S)
      PROVE  handler' \in Running /\ todo' \subseteq Doc
  BY <1>3 DEF DeleteNext, NextVictims, Running, Steps, Methods
<1>4. ASSUME NEW o \in Doc, DeleteObject(o)
      PROVE  TypeOK'
  <2>1. {o} \cup ShotsOf(o) \in SUBSET Doc
    BY DEF ShotsOf, Shot
  <2>2. handler' \in Running /\ todo' \subseteq Doc
    BY <1>3, <1>4, <2>1 DEF DeleteObject
  <2> QED
    BY <1>4, <2>2 DEF TypeOK, DeleteObject, Call, clientVars, history
<1>5. CASE DropRecord
  <2>1. PICK r \in RecordsOf(handler.obj) :
          outbox' = outbox \ {r} /\ refused' = refused \ {r}
    BY <1>5 DEF DropRecord
  <2>2. IsFiniteSet(outbox')
    BY <2>1, FS_Subset DEF TypeOK
  <2>3. handler' \in Running
    BY <1>5 DEF DropRecord, TypeOK, Idle, Running, Steps
  <2> QED
    BY <1>5, <2>1, <2>2, <2>3 DEF TypeOK, DropRecord, clientVars, counters
<1>6. CASE AddRecord
  <2> DEFINE new == [obj |-> handler.obj, how |-> handler.how, id |-> changes]
  <2>1. handler \in Running
    BY <1>6 DEF AddRecord, TypeOK, Idle
  <2>2. new \in Record
    BY <2>1 DEF TypeOK, Running, Record
  <2>3. outbox' = outbox \cup {new}
    BY <1>6 DEF AddRecord
  <2>4. outbox' \subseteq Record /\ IsFiniteSet(outbox')
    BY <2>2, <2>3, FS_AddElement DEF TypeOK
  <2>5. /\ queue' \in Seq(Entry)
        /\ Len(queue') >= Len(queue)
        /\ refused' = refused \/ refused' = {}
    BY <1>6, <2>4, MergeFacts DEF AddRecord, TypeOK
  <2>6. handler' \in Running \cup {Nil}
    BY <1>6, <2>1 DEF AddRecord, Running, Steps
  <2>7. Len(queue) \in Nat /\ Len(queue') \in Nat
    BY <2>5, LenProperties DEF TypeOK
  <2> QED
    BY <1>6, <2>4, <2>5, <2>6, <2>7 DEF TypeOK, AddRecord, counters
<1>7. CASE Erase
  <2>1. handler' \in Running \cup {Nil} /\ todo' \subseteq Doc
    BY <1>3, <1>7 DEF Erase, TypeOK
  <2>2. local' \in [Doc -> Nat]
    BY <1>7 DEF Erase, TypeOK, Absent
  <2> QED
    BY <1>7, <2>1, <2>2 DEF TypeOK, Erase, clientVars, counters, history
<1>8. CASE OnWriteDone
  <2>0. done \in Seq([cb : Record, ok : BOOLEAN]) /\ done # <<>>
    BY <1>8 DEF OnWriteDone, TypeOK
  <2>0a. /\ Head(done) \in [cb : Record, ok : BOOLEAN]
         /\ Tail(done) \in Seq([cb : Record, ok : BOOLEAN])
    BY <2>0, HeadTailProperties
  <2>1. /\ Head(done).cb \in Record
        /\ Tail(done) \in Seq([cb : Record, ok : BOOLEAN])
    BY <2>0a
  <2>2. outbox' \subseteq outbox /\ refused' \subseteq Record
    BY <1>8, <2>1 DEF OnWriteDone, TypeOK
  <2>3. IsFiniteSet(outbox')
    BY <2>2, FS_Subset DEF TypeOK
  <2> QED
    BY <1>8, <2>1, <2>2, <2>3 DEF TypeOK, OnWriteDone, mainVars, counters
<1>9. CASE LinkChange
  BY <1>9 DEF TypeOK, LinkChange, StreamLost, localVars, mainVars, history
<1>10. ASSUME NEW online \in BOOLEAN, Notified(online),
              flips' \in Nat
       PROVE  TypeOK'
  <2>1. /\ queue' \in Seq(Entry)
        /\ Len(queue') >= Len(queue)
        /\ refused' = refused \/ refused' = {}
    BY <1>10, MergeFacts DEF Notified, TypeOK
  <2>2. Len(queue) \in Nat /\ Len(queue') \in Nat
    BY <2>1, LenProperties DEF TypeOK
  <2> QED
    BY <1>10, <2>1, <2>2 DEF TypeOK, Notified, localVars
<1>11. CASE NetworkNotified
  BY <1>10, <1>11 DEF NetworkNotified, TypeOK
<1>12. CASE NetworkMisreported
  <2>1. (~link) \in BOOLEAN
    OBVIOUS
  <2>2. flips' \in Nat
    BY <1>12 DEF NetworkMisreported, TypeOK
  <2>3. Notified(~link)
    BY <1>12, Zenon DEF NetworkMisreported
  <2> QED
    BY <1>10, <2>1, <2>2, <2>3, Zenon
<1>13. CASE ClientPersist
  <2>1. Len(queue) \in Nat
    BY LenProperties DEF TypeOK
  <2> QED
    BY <1>13, <2>1 DEF TypeOK, ClientPersist, Persist, appVars, localVars, mainVars, history
<1>14. CASE ClientApply
  <2>1. Len(queue) \in Nat
    BY LenProperties DEF TypeOK
  <2>2. queue[applied + 1] \in Entry
    BY <1>14, <2>1, ElementOfSeq DEF TypeOK, ClientApply, Apply
  <2>3. server' \in [Doc -> Nat]
    BY <1>14, <2>2 DEF TypeOK, ClientApply, Apply, Entry
  <2>4. applied' \in 0 .. persisted
    BY <1>14, <2>1 DEF TypeOK, ClientApply, Apply
  <2> QED
    BY <1>14, <2>3, <2>4 DEF TypeOK, ClientApply, Apply, appVars, localVars,
       mainVars, history
<1>15. CASE ClientAck
  <2>1. Len(queue) \in Nat
    BY LenProperties DEF TypeOK
  <2>2. applied > 0 /\ persisted > 0
    BY <1>15, <2>1 DEF ClientAck, Acknowledge, TypeOK
  <2>3. Finish(TRUE)
    BY <1>15, Zenon DEF ClientAck, Acknowledge
  <2>4. /\ queue' \in Seq(Entry)
        /\ Len(queue') = Len(queue) - 1
        /\ persisted' = persisted - 1
        /\ done' \in Seq([cb : Record, ok : BOOLEAN])
    BY <2>2, <2>3, FinishFacts, Zenon
  <2>5. /\ applied' = applied - 1
        /\ UNCHANGED <<server, local, outbox, used, handler, todo, available, link,
                       changes, kills, flips, refusals, torn, refused>>
    BY <1>15, Zenon DEF ClientAck, Acknowledge, appVars, localVars, mainVars, history
  <2> QED
    BY <2>1, <2>2, <2>4, <2>5 DEF TypeOK
<1>16. CASE ClientReject
  <2>1. Len(queue) \in Nat
    BY LenProperties DEF TypeOK
  <2>2. persisted > 0 /\ Finish(FALSE)
    BY <1>16, Zenon DEF ClientReject, Reject
  <2>4. /\ queue' \in Seq(Entry)
        /\ Len(queue') = Len(queue) - 1
        /\ persisted' = persisted - 1
        /\ done' \in Seq([cb : Record, ok : BOOLEAN])
    BY <2>2, FinishFacts, Zenon
  <2>5. /\ applied = 0 /\ applied' = applied
        /\ refusals' = refusals + 1
        /\ UNCHANGED <<server, local, outbox, used, handler, todo, available, link,
                       changes, kills, flips, torn, refused>>
    BY <1>16, Zenon DEF ClientReject, Reject, appVars, localVars, mainVars, history
  <2> QED
    BY <2>1, <2>2, <2>4, <2>5 DEF TypeOK
<1>17. CASE KillAndRelaunch
  <2>1. Restored \in Seq(Entry) /\ Len(Restored) = persisted
    BY RestoredFacts DEF TypeOK
  <2>2. /\ queue' \in Seq(Entry)
        /\ Len(queue') >= persisted
        /\ refused' = refused \/ refused' = {}
    BY <1>17, <2>1, MergeFacts DEF KillAndRelaunch, TypeOK
  <2>3. Len(queue') \in Nat /\ Len(queue) \in Nat
    BY <2>2, LenProperties DEF TypeOK
  <2>4. torn' \subseteq Doc
    BY <1>17 DEF KillAndRelaunch, TornBy, TypeOK, Running
  <2>5. done' \in Seq([cb : Record, ok : BOOLEAN])
    BY <1>17, EmptySeq DEF KillAndRelaunch
  <2> QED
    BY <1>17, <2>2, <2>3, <2>4, <2>5 DEF TypeOK, KillAndRelaunch, StreamLost, localVars
<1>18. CASE UNCHANGED vars
  BY <1>18 DEF TypeOK, vars, clientVars, localVars, mainVars, counters, history
<1> QED
  BY <1>1, <1>2, <1>4, <1>5, <1>6, <1>7, <1>8, <1>9, <1>11, <1>12, <1>13, <1>14,
     <1>15, <1>16, <1>17, <1>18 DEF Next, Handlers

\* Every variable keeps its type, whatever the reports, shots and bounds.
THEOREM TypeCorrect == Spec => []TypeOK
<1>1. Init => TypeOK
  BY TypeInit
<1>2. TypeOK /\ [Next]_vars => TypeOK'
  BY TypeNext
<1> QED
  BY <1>1, <1>2, PTL DEF Spec

-----------------------------------------------------------------------------
(***************************************************************************)
(* The inductive invariant.                                                *)
(***************************************************************************)

\* The running method has still to replace the records of the object.
Pending(o) == o \in todo \/ (Busy(o) /\ handler.step # "erase")

\* A record that the running method is not about to drop.
Current(r) == ~(Busy(r.obj) /\ handler.step # "erase")

\* What the cloud must have once the record is acknowledged.
Wanted(r) == IF r.how = "delete" THEN Absent ELSE local[r.obj]

\* Every write of the object in the list q carries v.
Heading(q, o, v) == \A i \in 1 .. Len(q) : q[i].doc = o => q[i].val = v

\* From the write of the record on, q carries what the record wants.
Ordered(q, r) ==
  \A i \in 1 .. Len(q) : q[i].cb = r =>
    \A j \in i .. Len(q) : q[j].doc = r.obj => q[j].val = Wanted(r)

\* The bookkeeping of the running method.
MethodInv ==
  /\ Idle => todo = {}
  /\ ~Idle => handler.obj \notin todo /\ handler.obj \in used
  /\ ~Idle /\ handler.how # "delete" => todo = {}
  /\ ~Idle /\ handler.step = "erase" =>
       \E r \in outbox : r.obj = handler.obj /\ r.how = "delete"
  /\ todo \subseteq used
  /\ \A r \in outbox : r.obj \in used
  /\ \A o \in Doc : local[o] # Absent => o \in used

\* The record a method is about to add is none that was seen before, and the
\* block of a write belongs to a record of the object written.
Old(r) == r.id <= changes /\ (Pending(r.obj) => r.id < changes)
FreshInv ==
  /\ \A r \in outbox : Old(r)
  /\ \A i \in 1 .. Len(queue) : queue[i].cb # Nil =>
       Old(queue[i].cb) /\ queue[i].doc = queue[i].cb.obj
  /\ \A i \in 1 .. Len(done) : Old(done[i].cb)

\* An object that waits for its deletion in the cloud is gone from the phone.
DeletedIsGone(A) ==
  \A r \in outbox :
    /\ r.how = "delete" /\ r.obj \notin A
    /\ r.obj \notin torn
    /\ ~(Busy(r.obj) /\ handler.step = "erase")
    => local[r.obj] = Absent

\* The server has what the last write it applied carried, as far as all
\* applied writes from some point on agree.
AppliedInv ==
  \A j \in 1 .. applied :
    (\A k \in j .. applied : queue[k].doc = queue[j].doc => queue[k].val = queue[j].val)
    => server[queue[j].doc] = queue[j].val

\* From the write of a record on, every write of its object carries what the
\* record wants: the queue is first in, first out, and a later change would
\* have replaced the record.
OrderInv(A) == \A r \in outbox : r.obj \notin A /\ Current(r) => Ordered(queue, r)

\* A success that waits for the main thread is the truth about its record.
AnswerInv(A) ==
  \A r \in outbox : r.obj \notin A /\ Current(r) =>
    \A i \in 1 .. Len(done) : done[i].cb = r /\ done[i].ok =>
      server[r.obj] = Wanted(r) /\ Heading(queue, r.obj, Wanted(r))

\* An object without a record, whole, and untouched so far by the running
\* method, is mirrored.
Untouched(o) ==
  /\ RecordsOf(o) = {}
  /\ o \notin torn
  /\ Busy(o) => handler.how = "delete" /\ handler.step = "begin"
UntouchedIsMirrored(A) ==
  \A o \in Doc \ A : Untouched(o) => server[o] = local[o] /\ Heading(queue, o, local[o])

\* What is said of an object beside its types is not said of those of A: they
\* are on one side only.
IInvBut(A) ==
  /\ TypeOK
  /\ OneRecordPerObject
  /\ MethodInv
  /\ FreshInv
  /\ DeletedIsGone(A)
  /\ AppliedInv
  /\ OrderInv(A)
  /\ AnswerInv(A)
  /\ UntouchedIsMirrored(A)

IInv == IInvBut({})

-----------------------------------------------------------------------------
(***************************************************************************)
(* Lemmas about merging and about the queue.                               *)
(***************************************************************************)

LEMMA SendFields ==
  ASSUME NEW r
  PROVE  Send(r).doc = r.obj /\ Send(r).val = Wanted(r) /\ Send(r).cb = r
BY DEF Send, Wanted

LEMMA QueueElements ==
  ASSUME TypeOK
  PROVE  /\ Len(queue) \in Nat
         /\ \A i \in 1 .. Len(queue) : queue[i] \in Entry
         /\ Len(done) \in Nat
         /\ \A i \in 1 .. Len(done) : done[i] \in [cb : Record, ok : BOOLEAN]
<1>1. /\ queue \in Seq(Entry)
      /\ done \in Seq([cb : Record, ok : BOOLEAN])
  BY DEF TypeOK
<1>2. Len(queue) \in Nat /\ \A i \in 1 .. Len(queue) : queue[i] \in Entry
  BY <1>1, LenProperties, ElementOfSeq
<1>3. Len(done) \in Nat /\ \A i \in 1 .. Len(done) : done[i] \in [cb : Record, ok : BOOLEAN]
  BY <1>1, LenProperties, ElementOfSeq
<1> QED
  BY <1>2, <1>3

\* Writes appended to the queue do not touch what the server has applied.
LEMMA AppendedKeepsAppliedInv ==
  ASSUME AppliedInv, Len(queue) \in Nat, applied \in 0 .. Len(queue),
         UNCHANGED <<server, applied>>,
         \A i \in 1 .. Len(queue) : queue'[i] = queue[i]
  PROVE  AppliedInv'
<1>1. \A i \in 1 .. applied : queue'[i] = queue[i]
  OBVIOUS
<1> SUFFICES ASSUME NEW j \in 1 .. applied,
                    \A k \in j .. applied :
                      queue'[k].doc = queue'[j].doc => queue'[k].val = queue'[j].val
             PROVE  server[queue'[j].doc] = queue'[j].val
  BY DEF AppliedInv
<1>2. queue'[j] = queue[j]
  BY <1>1
<1>3. \A k \in j .. applied : queue[k].doc = queue[j].doc => queue[k].val = queue[j].val
  BY <1>1, <1>2
<1>4. server[queue[j].doc] = queue[j].val
  BY <1>3 DEF AppliedInv
<1> QED
  BY <1>2, <1>4

\* A merge of records, one per object, keeps the writes of each in order.
LEMMA MergeOrdered ==
  ASSUME NEW pending, NEW merged, NEW records \in SUBSET Record,
         Len(pending) \in Nat, Len(merged) \in Nat, Len(merged) >= Len(pending),
         \A i \in 1 .. Len(pending) : merged[i] = pending[i],
         \A i \in 1 .. Len(merged) : i > Len(pending) =>
           \E x \in records : merged[i] = Send(x),
         \A x, y \in records : x.obj = y.obj => x = y,
         NEW r \in records, Ordered(pending, r)
  PROVE  Ordered(merged, r)
<1> SUFFICES ASSUME NEW i \in 1 .. Len(merged), merged[i].cb = r,
                    NEW j \in i .. Len(merged), merged[j].doc = r.obj
             PROVE  merged[j].val = Wanted(r)
  BY DEF Ordered
<1>1. CASE j <= Len(pending)
  BY <1>1 DEF Ordered
<1>2. CASE j > Len(pending)
  <2>1. PICK x \in records : merged[j] = Send(x)
    BY <1>2
  <2>2. x = r
    BY <2>1, SendFields
  <2> QED
    BY <2>1, <2>2, SendFields
<1> QED
  BY <1>1, <1>2

\* A merge of records that agree on v adds no other write of the object.
LEMMA MergeHeading ==
  ASSUME NEW pending, NEW merged, NEW records,
         Len(pending) \in Nat, Len(merged) \in Nat, Len(merged) >= Len(pending),
         \A i \in 1 .. Len(pending) : merged[i] = pending[i],
         \A i \in 1 .. Len(merged) : i > Len(pending) =>
           \E x \in records : merged[i] = Send(x),
         NEW o, NEW v, Heading(pending, o, v),
         \A x \in records : x.obj = o => Wanted(x) = v
  PROVE  Heading(merged, o, v)
<1> SUFFICES ASSUME NEW i \in 1 .. Len(merged), merged[i].doc = o
             PROVE  merged[i].val = v
  BY DEF Heading
<1>1. CASE i <= Len(pending)
  BY <1>1 DEF Heading
<1>2. CASE i > Len(pending)
  BY <1>2, SendFields
<1> QED
  BY <1>1, <1>2

-----------------------------------------------------------------------------
(***************************************************************************)
(* The invariant is kept by every action.  What a user's call does first.  *)
(***************************************************************************)

LEMMA IInvInit == Init => IInv
<1> SUFFICES ASSUME Init PROVE IInv
  OBVIOUS
<1>1. TypeOK
  BY TypeInit
<1>2. Len(queue) = 0 /\ Len(done) = 0
  BY EmptySeq DEF Init, ClientInit
<1> QED
  BY <1>1, <1>2 DEF Init, ClientInit, IInv, IInvBut, OneRecordPerObject, MethodInv, FreshInv,
     DeletedIsGone, AppliedInv, OrderInv, AnswerInv, UntouchedIsMirrored, Heading,
     Idle, Busy

\* addObject and updateObject: a new version of o, and its record to come.
LEMMA SaveKeepsIInv ==
  ASSUME NEW A, IInvBut(A), TypeOK', Call, NEW o \in Doc, NEW h \in {"create", "update"},
         handler' = [step |-> "begin", obj |-> o, how |-> h],
         local' = [local EXCEPT ![o] = changes + 1],
         o \in used', used \subseteq used',
         todo' = todo,
         \A r \in outbox : r.obj = o /\ r.how = "delete" => o \in torn \cup A
  PROVE  IInvBut(A)'
<1>1. /\ Idle /\ todo = {} /\ changes' = changes + 1 /\ changes \in Nat
      /\ UNCHANGED <<server, queue, persisted, applied, done, outbox, torn, todo>>
      /\ handler' # Nil
      /\ handler'.obj = o /\ handler'.step = "begin" /\ handler'.how = h
  BY NilIsNoRecord DEF Call, clientVars, history, IInvBut, MethodInv, TypeOK, Running,
     Steps, Methods
<1>2. \A p \in Doc : ~Busy(p) /\ (Busy(p)' <=> p = o)
  BY <1>1 DEF Busy, Idle
<1>3. \A p \in Doc : p # o => local'[p] = local[p]
  BY DEF IInvBut, TypeOK
<1>4. /\ outbox \subseteq Record /\ outbox' = outbox
      /\ \A r \in Record : r.obj \in Doc /\ r.id \in Nat
  BY <1>1 DEF IInvBut, TypeOK, Record
<1>5. OneRecordPerObject'
  BY <1>1 DEF IInvBut, OneRecordPerObject
<1>6. MethodInv'
  BY <1>1, <1>3 DEF IInvBut, MethodInv, Idle
<1>7. FreshInv'
  <2>1. \A r : Old(r) /\ r.id \in Nat => Old(r)'
    BY <1>1 DEF Old
  <2>2. \A i \in 1 .. Len(queue) : queue[i].cb # Nil => queue[i].cb.id \in Nat
    BY QueueElements DEF IInvBut, Entry, Record
  <2>3. \A i \in 1 .. Len(done) : done[i].cb.id \in Nat
    BY QueueElements DEF IInvBut, Record
  <2> QED
    BY <1>1, <1>4, <2>1, <2>2, <2>3 DEF IInvBut, FreshInv
<1>8. DeletedIsGone(A)'
  BY <1>1, <1>2, <1>3, <1>4 DEF IInvBut, DeletedIsGone
<1>9. AppliedInv'
  BY <1>1 DEF IInvBut, AppliedInv
<1>10. \A r \in outbox : Current(r)' => Current(r) /\ Wanted(r)' = Wanted(r)
  BY <1>1, <1>2, <1>3, <1>4 DEF Current, Wanted
<1>11. OrderInv(A)'
  BY <1>1, <1>10 DEF IInvBut, OrderInv, Ordered
<1>12. AnswerInv(A)'
  BY <1>1, <1>10 DEF IInvBut, AnswerInv, Heading
<1>13. UntouchedIsMirrored(A)'
  <2>1. ASSUME NEW p \in Doc \ A, Untouched(p)'
        PROVE  Untouched(p) /\ p # o
    BY <1>1, <1>2, <2>1 DEF Untouched, RecordsOf
  <2> QED
    BY <1>1, <1>3, <2>1 DEF IInvBut, UntouchedIsMirrored, Heading
<1> QED
  BY <1>5, <1>6, <1>7, <1>8, <1>9, <1>11, <1>12, <1>13 DEF IInvBut

LEMMA AddKeepsIInv ==
  ASSUME NEW A, IInvBut(A), TypeOK', NEW o \in Doc, AddObject(o)
  PROVE  IInvBut(A)'
<1>1. /\ Call /\ o \notin used /\ used' = used \cup {o}
      /\ local' = [local EXCEPT ![o] = changes + 1]
      /\ handler' = [step |-> "begin", obj |-> o, how |-> "create"]
      /\ todo' = todo
  BY DEF AddObject
<1>2. \A r \in outbox : r.obj # o
  BY <1>1 DEF IInvBut, MethodInv
<1> QED
  BY <1>1, <1>2, SaveKeepsIInv

LEMMA UpdateKeepsIInv ==
  ASSUME NEW A, IInvBut(A), TypeOK', NEW o \in Doc, UpdateObject(o)
  PROVE  IInvBut(A)'
<1>1. /\ Call /\ local[o] # Absent /\ used' = used
      /\ local' = [local EXCEPT ![o] = changes + 1]
      /\ handler' = [step |-> "begin", obj |-> o, how |-> "update"]
      /\ todo' = todo
  BY DEF UpdateObject
<1>2. o \in used
  BY <1>1 DEF IInvBut, MethodInv
<1>3. \A r \in outbox : r.obj = o /\ r.how = "delete" => o \in torn \cup A
  BY <1>1 DEF IInvBut, DeletedIsGone, Call, Idle, Busy
<1> QED
  BY <1>1, <1>2, <1>3, SaveKeepsIInv

LEMMA DeleteKeepsIInv ==
  ASSUME NEW A, IInvBut(A), TypeOK', NEW o \in Doc, DeleteObject(o)
  PROVE  IInvBut(A)'
<1> DEFINE S == {o} \cup ShotsOf(o)
<1>1. /\ Idle /\ todo = {} /\ changes' = changes + 1 /\ changes \in Nat
      /\ UNCHANGED <<server, queue, persisted, applied, done, outbox, torn, local, used>>
      /\ local[o] # Absent
  BY DEF DeleteObject, Call, clientVars, history, IInvBut, MethodInv, TypeOK
<1>2. S \subseteq used
  BY <1>1 DEF ShotsOf, Shot, IInvBut, MethodInv
<1>3. PICK v \in S : /\ handler' = [step |-> "begin", obj |-> v, how |-> "delete"]
                     /\ todo' = S \ {v}
  BY DEF DeleteObject, DeleteNext, NextVictims
<1>4. /\ handler' # Nil /\ handler'.obj = v
      /\ handler'.step = "begin" /\ handler'.how = "delete"
  BY <1>3, NilIsNoRecord DEF TypeOK, Running, IInvBut, Steps, Methods, ShotsOf, Shot
<1>5. \A p : ~Busy(p) /\ (Busy(p)' <=> p = v)
  BY <1>1, <1>4 DEF Busy, Idle
<1>6. OneRecordPerObject'
  BY <1>1 DEF IInvBut, OneRecordPerObject
<1>7. MethodInv'
  BY <1>1, <1>2, <1>3, <1>4 DEF IInvBut, MethodInv, Idle
<1>8. FreshInv'
  <2>1. \A r : Old(r) /\ r.id \in Nat => Old(r)'
    BY <1>1 DEF Old
  <2>2. \A i \in 1 .. Len(queue) : queue[i].cb # Nil => queue[i].cb.id \in Nat
    BY QueueElements DEF IInvBut, Entry, Record
  <2>3. \A i \in 1 .. Len(done) : done[i].cb.id \in Nat
    BY QueueElements DEF IInvBut, Record
  <2>4. \A r \in outbox : r.id \in Nat
    BY DEF IInvBut, TypeOK, Record
  <2> QED
    BY <1>1, <2>1, <2>2, <2>3, <2>4 DEF IInvBut, FreshInv
<1>9. DeletedIsGone(A)'
  BY <1>1, <1>4, <1>5 DEF IInvBut, DeletedIsGone
<1>10. AppliedInv'
  BY <1>1 DEF IInvBut, AppliedInv
<1>11. \A r \in outbox : Current(r) /\ Wanted(r)' = Wanted(r)
  BY <1>1, <1>5 DEF Current, Wanted
<1>12. OrderInv(A)'
  BY <1>1, <1>11 DEF IInvBut, OrderInv, Ordered
<1>13. AnswerInv(A)'
  BY <1>1, <1>11 DEF IInvBut, AnswerInv, Heading
<1>14. UntouchedIsMirrored(A)'
  <2>1. ASSUME NEW p \in Doc \ A, Untouched(p)'
        PROVE  Untouched(p)
    BY <1>1, <1>5, <2>1 DEF Untouched, RecordsOf
  <2> QED
    BY <1>1, <2>1 DEF IInvBut, UntouchedIsMirrored, Heading
<1> QED
  BY <1>6, <1>7, <1>8, <1>9, <1>10, <1>12, <1>13, <1>14 DEF IInvBut

-----------------------------------------------------------------------------
(***************************************************************************)
(* The steps of a running method.                                          *)
(***************************************************************************)

LEMMA DropKeepsIInv ==
  ASSUME NEW A, IInvBut(A), TypeOK', DropRecord
  PROVE  IInvBut(A)'
<1> DEFINE o == handler.obj
<1>1. /\ handler \in Running /\ handler.step \in {"begin", "dropped"}
      /\ handler # Nil
      /\ handler' = [handler EXCEPT !.step = "dropped"]
      /\ UNCHANGED <<server, queue, persisted, applied, done, local, used, todo,
                     changes, torn>>
  BY DEF DropRecord, Idle, IInvBut, TypeOK, clientVars, counters
<1>2. /\ handler' # Nil /\ handler'.obj = o /\ handler'.step = "dropped"
      /\ handler'.how = handler.how
  BY <1>1, NilIsNoRecord DEF Running, Steps
<1>3. PICK d \in outbox : d.obj = o /\ outbox' = outbox \ {d}
  BY DEF DropRecord, RecordsOf
<1>4. \A p : (Busy(p) <=> p = o) /\ (Busy(p)' <=> p = o)
  BY <1>1, <1>2 DEF Busy, Idle
<1>5. /\ \A p : Pending(p)' <=> Pending(p)
      /\ \A r : (Current(r)' <=> Current(r)) /\ Wanted(r)' = Wanted(r)
  BY <1>1, <1>2, <1>4 DEF Pending, Current, Wanted
<1>6. OneRecordPerObject'
  BY <1>3 DEF IInvBut, OneRecordPerObject
<1>7. MethodInv'
  BY <1>1, <1>2, <1>3 DEF IInvBut, MethodInv, Idle
<1>8. FreshInv'
  BY <1>1, <1>3, <1>5 DEF IInvBut, FreshInv, Old
<1>9. DeletedIsGone(A)'
  BY <1>1, <1>2, <1>3, <1>4 DEF IInvBut, DeletedIsGone
<1>10. AppliedInv'
  BY <1>1 DEF IInvBut, AppliedInv
<1>11. OrderInv(A)'
  BY <1>1, <1>3, <1>5 DEF IInvBut, OrderInv, Ordered
<1>12. AnswerInv(A)'
  BY <1>1, <1>3, <1>5 DEF IInvBut, AnswerInv, Heading
<1>13. UntouchedIsMirrored(A)'
  <2>1. ASSUME NEW p \in Doc \ A, Untouched(p)'
        PROVE  Untouched(p)
    <3>1. p # o
      BY <1>2, <1>4, <2>1 DEF Untouched
    <3> QED
      BY <1>1, <1>3, <1>4, <2>1, <3>1 DEF Untouched, RecordsOf
  <2> QED
    BY <1>1, <2>1 DEF IInvBut, UntouchedIsMirrored, Heading
<1> QED
  BY <1>6, <1>7, <1>8, <1>9, <1>10, <1>11, <1>12, <1>13 DEF IInvBut

\* The new record takes its object over.
LEMMA AddRecordKeepsIInv ==
  ASSUME NEW A, IInvBut(A), TypeOK', AddRecord,
         NEW B, A \subseteq B \cup {handler.obj}
  PROVE  IInvBut(B)'
<1>0. handler \in Running /\ changes \in Nat
  BY DEF AddRecord, Idle, IInvBut, TypeOK
<1>0a. PICK o \in Doc : o = handler.obj
  BY <1>0 DEF Running
<1>0b. PICK new \in Record : new = [obj |-> o, how |-> handler.how, id |-> changes]
  BY <1>0, <1>0a DEF Running, Record
<1>1. /\ handler.obj = o /\ handler \in Running /\ handler.step \in {"begin", "dropped"}
      /\ handler # Nil
      /\ outbox' = outbox \cup {new}
      /\ torn' = torn \ {o}
      /\ UNCHANGED <<server, persisted, applied, done, local, used, todo, changes>>
      /\ \A r \in outbox : r.obj # o
  BY <1>0, <1>0a, <1>0b DEF AddRecord, Idle, counters, RecordsOf
<1>2. new.obj = o /\ new.how = handler.how /\ new.id = changes
  BY <1>0b
<1>3. \/ handler' = Nil /\ handler.how # "delete"
      \/ /\ handler.how = "delete"
         /\ handler' # Nil /\ handler'.obj = o /\ handler'.step = "erase"
         /\ handler'.how = "delete"
  BY <1>1, NilIsNoRecord DEF AddRecord, Running, Steps
<1>4. \A p : (Busy(p) <=> p = o) /\ (Busy(p)' => p = o)
  BY <1>1, <1>3 DEF Busy, Idle
<1>5. /\ outbox' \in SUBSET Record /\ IsFiniteSet(outbox')
      /\ local \in [Doc -> Nat] /\ queue \in Seq(Entry)
  BY DEF IInvBut, TypeOK
<1>6. CheckAndMerge(available, queue, outbox')
  BY DEF AddRecord
<1>7. /\ queue' \in Seq(Entry)
      /\ Len(queue') >= Len(queue)
      /\ \A i \in 1 .. Len(queue) : queue'[i] = queue[i]
      /\ \A i \in 1 .. Len(queue') : i > Len(queue) =>
           \E r \in outbox' : queue'[i] = Send(r)
  BY <1>5, <1>6, MergeFacts
<1>8. Len(queue) \in Nat /\ Len(queue') \in Nat
  BY <1>5, <1>7, LenProperties
<1>9. OneRecordPerObject'
  BY <1>1, <1>2 DEF IInvBut, OneRecordPerObject
<1>10. MethodInv'
  BY <1>1, <1>2, <1>3 DEF IInvBut, MethodInv, Idle
<1>11. o \notin todo /\ Pending(o) /\ changes \in Nat
  BY <1>1, <1>4 DEF IInvBut, MethodInv, Idle, Pending, TypeOK
<1>12. /\ ~Pending(o)'
       /\ \A p : Pending(p)' => Pending(p)
       /\ \A r : Current(r)'
       /\ \A r : Wanted(r)' = Wanted(r)
  BY <1>1, <1>3, <1>4, <1>11 DEF Pending, Current, Wanted, Busy, Idle
<1>13. FreshInv'
  <2>1. \A r : Old(r) => Old(r)'
    BY <1>1, <1>12 DEF Old
  <2>2. Old(new)'
    BY <1>1, <1>2, <1>11, <1>12 DEF Old
  <2>3. \A r \in outbox' : Old(r)'
    BY <1>1, <2>1, <2>2 DEF IInvBut, FreshInv
  <2>4. ASSUME NEW i \in 1 .. Len(queue'), queue'[i].cb # Nil
        PROVE  (Old(queue[i].cb) /\ queue[i].doc = queue[i].cb.obj)'
    BY <1>7, <1>8, <2>1, <2>3, <2>4, SendFields DEF IInvBut, FreshInv
  <2> QED
    BY <1>1, <2>1, <2>3, <2>4 DEF IInvBut, FreshInv
<1>14. DeletedIsGone(B)'
  BY <1>1, <1>2, <1>3, <1>4 DEF IInvBut, DeletedIsGone, Busy, Idle
<1>15. AppliedInv'
  <2>1. applied \in 0 .. Len(queue)
    BY <1>8 DEF IInvBut, TypeOK
  <2> QED
    BY <1>1, <1>7, <1>8, <2>1, AppendedKeepsAppliedInv DEF IInvBut
<1>16. ASSUME NEW i \in 1 .. Len(queue)
       PROVE  queue[i].cb # new
  BY <1>2, <1>11, NilIsNoRecord DEF IInvBut, FreshInv, Old
<1>17. ASSUME NEW r \in outbox', r.obj \notin B
       PROVE  Ordered(queue', r)
  <2>1. Ordered(queue, r)
    <3>1. CASE r = new
      BY <1>16, <3>1 DEF Ordered
    <3>2. CASE r \in outbox
      BY <1>1, <1>4, <1>17, <3>2 DEF IInvBut, OrderInv, Current
    <3> QED
      BY <1>1, <3>1, <3>2
  <2>2. \A x, y \in outbox' : x.obj = y.obj => x = y
    BY <1>9 DEF OneRecordPerObject
  <2> QED
    BY <1>5, <1>7, <1>8, <2>1, <2>2, MergeOrdered
<1>18. OrderInv(B)'
  BY <1>12, <1>17 DEF OrderInv, Ordered
<1>19. AnswerInv(B)'
  <2> SUFFICES ASSUME NEW r \in outbox', r.obj \notin B, NEW i \in 1 .. Len(done),
                      done[i].cb = r, done[i].ok
               PROVE  server[r.obj] = Wanted(r) /\ Heading(queue', r.obj, Wanted(r))
    BY <1>1, <1>12 DEF AnswerInv, Heading
  <2>1. r # new
    BY <1>2, <1>11 DEF IInvBut, FreshInv, Old
  <2>2. r \in outbox /\ r.obj # o
    BY <1>1, <2>1
  <2>3. server[r.obj] = Wanted(r) /\ Heading(queue, r.obj, Wanted(r))
    BY <1>1, <1>4, <2>2 DEF IInvBut, AnswerInv, Current
  <2>4. \A x \in outbox' : x.obj = r.obj => Wanted(x) = Wanted(r)
    BY <1>9 DEF OneRecordPerObject
  <2> QED
    BY <1>7, <1>8, <2>3, <2>4, MergeHeading
<1>20. UntouchedIsMirrored(B)'
  <2> SUFFICES ASSUME NEW p \in Doc \ B, Untouched(p)'
               PROVE  server[p] = local[p] /\ Heading(queue', p, local[p])
    BY <1>1 DEF UntouchedIsMirrored, Heading
  <2>1. \A r \in outbox' : r.obj # p
    BY DEF Untouched, RecordsOf
  <2>2. p # o
    BY <1>1, <1>2, <2>1
  <2>3. Untouched(p)
    BY <1>1, <1>4, <2>1, <2>2 DEF Untouched, RecordsOf
  <2>4. server[p] = local[p] /\ Heading(queue, p, local[p])
    BY <1>1, <2>2, <2>3 DEF IInvBut, UntouchedIsMirrored
  <2> QED
    BY <1>7, <1>8, <2>1, <2>4, MergeHeading
<1> QED
  BY <1>9, <1>10, <1>13, <1>14, <1>15, <1>18, <1>19, <1>20 DEF IInvBut

LEMMA EraseKeepsIInv ==
  ASSUME NEW A, IInvBut(A), TypeOK', Erase
  PROVE  IInvBut(A)'
<1> DEFINE o == handler.obj
<1>1. /\ handler \in Running /\ handler.step = "erase" /\ handler # Nil /\ o \in Doc
      /\ local' = [local EXCEPT ![o] = Absent]
      /\ UNCHANGED <<server, queue, persisted, applied, done, outbox, used, changes,
                     torn>>
  BY DEF Erase, Idle, IInvBut, TypeOK, Running, clientVars, counters, history
<1>2. \/ handler' = Nil /\ todo = {} /\ todo' = {}
      \/ \E v \in todo : /\ handler' = [step |-> "begin", obj |-> v, how |-> "delete"]
                         /\ todo' = todo \ {v}
  BY DEF Erase, DeleteNext, NextVictims
<1>3. \/ handler' = Nil /\ todo = {} /\ todo' = {}
      \/ \E v \in todo : /\ handler' # Nil /\ handler'.obj = v
                         /\ handler'.step = "begin" /\ handler'.how = "delete"
                         /\ todo' = todo \ {v}
  <2>1. todo \subseteq Doc
    BY DEF IInvBut, TypeOK
  <2>2. ASSUME NEW v \in todo, handler' = [step |-> "begin", obj |-> v, how |-> "delete"]
        PROVE  handler' # Nil /\ handler'.obj = v /\ handler'.step = "begin"
               /\ handler'.how = "delete"
    <3>1. handler' \in Running
      BY <2>1, <2>2 DEF Running, Steps, Methods
    <3> QED
      BY <2>2, <3>1, NilIsNoRecord
  <2> QED
    BY <1>2, <2>2
<1>4. o \notin todo /\ (\A p \in Doc : local'[p] = IF p = o THEN Absent ELSE local[p])
  BY <1>1 DEF IInvBut, MethodInv, Idle, TypeOK
<1>5. /\ \A p : Busy(p) <=> p = o
      /\ \A p : Busy(p)' => p \in todo /\ p # o
  BY <1>1, <1>3, <1>4 DEF Busy, Idle
<1>6. PICK d \in outbox : d.obj = o /\ d.how = "delete"
  BY <1>1 DEF IInvBut, MethodInv, Idle
<1>7. \A r \in outbox : r.obj \in Doc /\ (r.obj = o => r.how = "delete")
  BY <1>6 DEF IInvBut, OneRecordPerObject, TypeOK, Record
<1>8. OneRecordPerObject'
  BY <1>1 DEF IInvBut, OneRecordPerObject
<1>9. MethodInv'
  BY <1>1, <1>3, <1>4 DEF IInvBut, MethodInv, Idle
<1>10. FreshInv'
  <2>1. \A p : Pending(p)' => Pending(p)
    BY <1>1, <1>3, <1>5 DEF Pending
  <2> QED
    BY <1>1, <2>1 DEF IInvBut, FreshInv, Old
<1>11. DeletedIsGone(A)'
  BY <1>1, <1>3, <1>4, <1>5, <1>7 DEF IInvBut, DeletedIsGone
<1>12. AppliedInv'
  BY <1>1 DEF IInvBut, AppliedInv
<1>13. \A r \in outbox : Current(r) /\ Wanted(r)' = Wanted(r)
  BY <1>1, <1>4, <1>5, <1>7 DEF Current, Wanted
<1>14. OrderInv(A)'
  BY <1>1, <1>13 DEF IInvBut, OrderInv, Ordered
<1>15. AnswerInv(A)'
  BY <1>1, <1>13 DEF IInvBut, AnswerInv, Heading
<1>16. UntouchedIsMirrored(A)'
  <2> SUFFICES ASSUME NEW p \in Doc \ A, Untouched(p)'
               PROVE  server[p] = local'[p] /\ Heading(queue, p, local'[p])
    BY <1>1 DEF UntouchedIsMirrored, Heading
  <2>1. p # o
    BY <1>1, <1>6 DEF Untouched, RecordsOf
  <2>2. Untouched(p)
    BY <1>1, <1>5, <2>1 DEF Untouched, RecordsOf
  <2> QED
    BY <1>4, <2>1, <2>2 DEF IInvBut, UntouchedIsMirrored
<1> QED
  BY <1>8, <1>9, <1>10, <1>11, <1>12, <1>14, <1>15, <1>16 DEF IInvBut

-----------------------------------------------------------------------------
(***************************************************************************)
(* Completion blocks, the network, the server and the end of the process.  *)
(***************************************************************************)

LEMMA OnWriteDoneKeepsIInv ==
  ASSUME NEW A, IInvBut(A), TypeOK', OnWriteDone
  PROVE  IInvBut(A)'
<1>1. /\ Idle /\ Len(done) \in Nat /\ Len(queue) \in Nat
      /\ UNCHANGED <<server, queue, persisted, applied, local, used, handler, todo,
                     changes, torn>>
  BY QueueElements DEF OnWriteDone, mainVars, counters, IInvBut
<1>2. /\ done # <<>> /\ done \in Seq([cb : Record, ok : BOOLEAN])
      /\ done' = Tail(done)
  BY DEF OnWriteDone, IInvBut, TypeOK
<1>3. /\ Len(done') = Len(done) - 1 /\ Len(done) > 0
      /\ \A i \in 1 .. Len(done') : done'[i] = done[i + 1]
  BY <1>1, <1>2, HeadTailProperties, EmptySeq
<1>4. Head(done) = done[1]
  BY <1>2
<1>5. PICK r : r = done[1].cb
  OBVIOUS
<1>6. \/ outbox' = outbox
      \/ done[1].ok /\ outbox' = outbox \ {r}
  BY <1>4, <1>5 DEF OnWriteDone
<1>7. outbox' \subseteq outbox /\ \A p : ~Busy(p) /\ ~Busy(p)'
  BY <1>1, <1>6 DEF Busy, Idle
<1>8. \A x : (Current(x) /\ Current(x)') /\ Wanted(x)' = Wanted(x)
  BY <1>1, <1>7 DEF Current, Wanted
<1>9. OneRecordPerObject'
  BY <1>7 DEF IInvBut, OneRecordPerObject
<1>10. MethodInv'
  BY <1>1, <1>7 DEF IInvBut, MethodInv, Idle
<1>11. FreshInv'
  <2>1. \A x : Old(x) => Old(x)'
    BY <1>1, <1>7 DEF Old, Pending
  <2> QED
    BY <1>1, <1>3, <1>7, <2>1 DEF IInvBut, FreshInv
<1>12. DeletedIsGone(A)'
  BY <1>1, <1>7 DEF IInvBut, DeletedIsGone
<1>13. AppliedInv'
  BY <1>1 DEF IInvBut, AppliedInv
<1>14. OrderInv(A)'
  BY <1>1, <1>7, <1>8 DEF IInvBut, OrderInv, Ordered
<1>15. AnswerInv(A)'
  <2> SUFFICES ASSUME NEW x \in outbox', x.obj \notin A, NEW i \in 1 .. Len(done'),
                      done'[i].cb = x, done'[i].ok
               PROVE  (server[x.obj] = Wanted(x) /\ Heading(queue, x.obj, Wanted(x)))'
    BY DEF AnswerInv
  <2>1. i + 1 \in 1 .. Len(done) /\ done'[i] = done[i + 1]
    BY <1>1, <1>3
  <2>2. x \in outbox /\ Current(x)
    BY <1>7, <1>8
  <2>3. server[x.obj] = Wanted(x) /\ Heading(queue, x.obj, Wanted(x))
    BY <2>1, <2>2 DEF IInvBut, AnswerInv
  <2> QED
    BY <1>1, <1>8, <2>3 DEF Heading
<1>16. UntouchedIsMirrored(A)'
  <2> SUFFICES ASSUME NEW p \in Doc \ A, Untouched(p)'
               PROVE  server[p] = local[p] /\ Heading(queue, p, local[p])
    BY <1>1 DEF UntouchedIsMirrored, Heading
  <2>1. CASE RecordsOf(p) = {}
    <3>1. Untouched(p)
      BY <1>1, <1>7, <2>1 DEF Untouched
    <3> QED
      BY <3>1 DEF IInvBut, UntouchedIsMirrored
  <2>2. CASE RecordsOf(p) # {}
    <3>1. r \in outbox /\ r.obj = p /\ done[1].ok
      BY <1>6, <2>2 DEF Untouched, RecordsOf
    <3>2. server[p] = Wanted(r) /\ Heading(queue, p, Wanted(r))
      BY <1>3, <1>5, <1>1, <1>8, <3>1 DEF IInvBut, AnswerInv
    <3>3. Wanted(r) = local[p]
      BY <1>1, <1>7, <3>1 DEF Wanted, IInvBut, DeletedIsGone, Untouched
    <3> QED
      BY <3>2, <3>3
  <2> QED
    BY <2>1, <2>2
<1> QED
  BY <1>9, <1>10, <1>11, <1>12, <1>13, <1>14, <1>15, <1>16 DEF IInvBut

\* Steps that change neither the queue's order nor the app's state.
LEMMA CursorKeepsIInv ==
  ASSUME NEW A, IInvBut(A), TypeOK',
         UNCHANGED <<server, queue, done, local, outbox, used, handler, todo,
                     changes, torn>>,
         applied' = applied \/ applied' = 0
  PROVE  IInvBut(A)'
<1>1. \A p : (Busy(p)' <=> Busy(p)) /\ (Pending(p)' <=> Pending(p))
  BY DEF Busy, Idle, Pending
<1>2. \A x : (Current(x)' <=> Current(x)) /\ Wanted(x)' = Wanted(x)
  BY <1>1 DEF Current, Wanted
<1>3. OneRecordPerObject' /\ MethodInv' /\ DeletedIsGone(A)'
  BY <1>1 DEF IInvBut, OneRecordPerObject, MethodInv, DeletedIsGone, Idle
<1>4. FreshInv'
  BY <1>1 DEF IInvBut, FreshInv, Old
<1>5. AppliedInv'
  BY DEF IInvBut, AppliedInv
<1>6. OrderInv(A)' /\ AnswerInv(A)'
  BY <1>2 DEF IInvBut, OrderInv, AnswerInv, Ordered, Heading
<1>7. UntouchedIsMirrored(A)'
  BY <1>1 DEF IInvBut, UntouchedIsMirrored, Untouched, RecordsOf, Heading
<1> QED
  BY <1>3, <1>4, <1>5, <1>6, <1>7 DEF IInvBut

LEMMA NotifiedKeepsIInv ==
  ASSUME NEW A, IInvBut(A), TypeOK', NEW online, Notified(online)
  PROVE  IInvBut(A)'
<1>1. /\ Idle
      /\ UNCHANGED <<server, persisted, applied, done, local, outbox, used, handler,
                     todo, changes, torn>>
      /\ CheckAndMerge(online, queue, outbox)
  BY DEF Notified, localVars
<1>2. /\ outbox \in SUBSET Record /\ IsFiniteSet(outbox)
      /\ local \in [Doc -> Nat] /\ queue \in Seq(Entry)
      /\ \A x, y \in outbox : x.obj = y.obj => x = y
  BY DEF IInvBut, TypeOK, OneRecordPerObject
<1>3. /\ queue' \in Seq(Entry)
      /\ Len(queue') >= Len(queue)
      /\ \A i \in 1 .. Len(queue) : queue'[i] = queue[i]
      /\ \A i \in 1 .. Len(queue') : i > Len(queue) =>
           \E r \in outbox : queue'[i] = Send(r)
  BY <1>1, <1>2, MergeFacts
<1>4. Len(queue) \in Nat /\ Len(queue') \in Nat
  BY <1>2, <1>3, LenProperties
<1>5. \A p : ~Busy(p) /\ ~Busy(p)' /\ (Pending(p)' <=> Pending(p))
  BY <1>1 DEF Busy, Idle, Pending
<1>6. \A x : Current(x) /\ Current(x)' /\ Wanted(x)' = Wanted(x)
  BY <1>1, <1>5 DEF Current, Wanted
<1>7. OneRecordPerObject' /\ MethodInv' /\ DeletedIsGone(A)'
  BY <1>1, <1>5 DEF IInvBut, OneRecordPerObject, MethodInv, DeletedIsGone, Idle
<1>8. FreshInv'
  <2>1. \A x : Old(x) => Old(x)'
    BY <1>1, <1>5 DEF Old
  <2>2. ASSUME NEW i \in 1 .. Len(queue'), queue'[i].cb # Nil
        PROVE  (Old(queue[i].cb) /\ queue[i].doc = queue[i].cb.obj)'
    <3>1. CASE i \in 1 .. Len(queue)
      <4>1. queue'[i] = queue[i] /\ queue[i].cb # Nil
        BY <1>3, <2>2, <3>1
      <4>2. Old(queue[i].cb) /\ queue[i].doc = queue[i].cb.obj
        BY <3>1, <4>1 DEF IInvBut, FreshInv
      <4> QED
        BY <2>1, <4>1, <4>2
    <3>2. CASE i > Len(queue)
      <4>1. PICK x \in outbox : queue'[i] = Send(x)
        BY <1>3, <3>2
      <4>2. Old(x)'
        BY <2>1 DEF IInvBut, FreshInv
      <4> QED
        BY <4>1, <4>2, SendFields
    <3> QED
      BY <1>4, <3>1, <3>2
  <2> QED
    BY <1>1, <2>1, <2>2 DEF IInvBut, FreshInv
<1>9. AppliedInv'
  <2>1. applied \in 0 .. Len(queue)
    BY <1>4 DEF IInvBut, TypeOK
  <2> QED
    BY <1>1, <1>3, <1>4, <2>1, AppendedKeepsAppliedInv DEF IInvBut
<1>10. ASSUME NEW r \in outbox, r.obj \notin A
       PROVE  Ordered(queue', r)
  <2>1. Ordered(queue, r)
    BY <1>6, <1>10 DEF IInvBut, OrderInv
  <2> QED
    BY <1>2, <1>3, <1>4, <2>1, MergeOrdered
<1>11. OrderInv(A)'
  BY <1>1, <1>6, <1>10 DEF OrderInv, Ordered
<1>12. AnswerInv(A)'
  <2> SUFFICES ASSUME NEW r \in outbox, r.obj \notin A, NEW i \in 1 .. Len(done),
                      done[i].cb = r, done[i].ok
               PROVE  server[r.obj] = Wanted(r) /\ Heading(queue', r.obj, Wanted(r))
    BY <1>1, <1>6 DEF AnswerInv, Heading
  <2>1. server[r.obj] = Wanted(r) /\ Heading(queue, r.obj, Wanted(r))
    BY <1>6 DEF IInvBut, AnswerInv
  <2>2. \A x \in outbox : x.obj = r.obj => Wanted(x) = Wanted(r)
    BY <1>2
  <2> QED
    BY <1>3, <1>4, <2>1, <2>2, MergeHeading
<1>13. UntouchedIsMirrored(A)'
  <2> SUFFICES ASSUME NEW p \in Doc \ A, Untouched(p)'
               PROVE  server[p] = local[p] /\ Heading(queue', p, local[p])
    BY <1>1 DEF UntouchedIsMirrored, Heading
  <2>1. Untouched(p) /\ \A x \in outbox : x.obj # p
    BY <1>1, <1>5 DEF Untouched, RecordsOf
  <2>2. server[p] = local[p] /\ Heading(queue, p, local[p])
    BY <2>1 DEF IInvBut, UntouchedIsMirrored
  <2> QED
    BY <1>3, <1>4, <2>1, <2>2, MergeHeading
<1> QED
  BY <1>7, <1>8, <1>9, <1>11, <1>12, <1>13 DEF IInvBut

LEMMA ApplyKeepsIInv ==
  ASSUME NEW A, IInvBut(A), TypeOK', ClientApply
  PROVE  IInvBut(A)'
<1>1. /\ applied < persisted /\ applied' = applied + 1
      /\ server' = [server EXCEPT ![queue[applied + 1].doc] = queue[applied + 1].val]
      /\ UNCHANGED <<queue, persisted, done, local, outbox, used, handler, todo,
                     changes, torn>>
  BY DEF ClientApply, Apply, appVars, localVars, mainVars, history
<1>2. /\ Len(queue) \in Nat /\ applied \in Nat /\ applied + 1 \in 1 .. Len(queue)
      /\ \A i \in 1 .. Len(queue) : queue[i] \in Entry
  <2>1. TypeOK
    BY Zenon DEF IInvBut
  <2>2. Len(queue) \in Nat /\ \A i \in 1 .. Len(queue) : queue[i] \in Entry
    BY <2>1, QueueElements, Zenon
  <2>3. persisted \in 0 .. Len(queue) /\ applied \in 0 .. persisted
    BY <2>1, Zenon DEF TypeOK
  <2>4. applied \in Nat /\ applied + 1 \in 1 .. Len(queue)
    BY <1>1, <2>2, <2>3
  <2> QED
    BY <2>2, <2>4
<1>3. PICK n \in 1 .. Len(queue) : n = applied + 1
  BY <1>2
<1>4. \A d \in Doc : server'[d] = IF d = queue[n].doc THEN queue[n].val ELSE server[d]
  BY <1>1, <1>3 DEF IInvBut, TypeOK
<1>5. /\ \A p : (Busy(p)' <=> Busy(p)) /\ (Pending(p)' <=> Pending(p))
      /\ \A x : (Current(x)' <=> Current(x)) /\ Wanted(x)' = Wanted(x)
  BY <1>1 DEF Busy, Idle, Pending, Current, Wanted
<1>6. OneRecordPerObject' /\ MethodInv' /\ DeletedIsGone(A)'
  BY <1>1, <1>5 DEF IInvBut, OneRecordPerObject, MethodInv, DeletedIsGone, Idle
<1>7. FreshInv'
  BY <1>1, <1>5 DEF IInvBut, FreshInv, Old
<1>8. AppliedInv'
  <2> SUFFICES ASSUME NEW j \in 1 .. n,
                      \A k \in j .. n :
                        queue[k].doc = queue[j].doc => queue[k].val = queue[j].val
               PROVE  server'[queue[j].doc] = queue[j].val
    BY <1>1, <1>3 DEF AppliedInv
  <2>1. queue[j].doc \in Doc
    BY <1>2 DEF Entry
  <2>2. CASE queue[n].doc = queue[j].doc
    BY <1>2, <1>4, <2>1, <2>2
  <2>3. CASE queue[n].doc # queue[j].doc
    <3>1. j \in 1 .. applied
      BY <1>2, <1>3, <2>3
    <3>2. \A k \in j .. applied : k \in j .. n
      BY <1>2, <1>3
    <3>3. server[queue[j].doc] = queue[j].val
      BY <3>1, <3>2 DEF IInvBut, AppliedInv
    <3> QED
      BY <1>4, <2>1, <2>3, <3>3
  <2> QED
    BY <2>2, <2>3
<1>9. OrderInv(A)'
  BY <1>1, <1>5 DEF IInvBut, OrderInv, Ordered
<1>10. ASSUME NEW p \in Doc, NEW v, server[p] = v, Heading(queue, p, v)
       PROVE  server'[p] = v
  BY <1>4, <1>10 DEF Heading
<1>11. AnswerInv(A)'
  <2> SUFFICES ASSUME NEW r \in outbox, r.obj \notin A, Current(r), NEW i \in 1 .. Len(done),
                      done[i].cb = r, done[i].ok
               PROVE  server'[r.obj] = Wanted(r) /\ Heading(queue, r.obj, Wanted(r))
    BY <1>1, <1>5 DEF AnswerInv, Heading
  <2>1. server[r.obj] = Wanted(r) /\ Heading(queue, r.obj, Wanted(r))
    BY DEF IInvBut, AnswerInv
  <2>2. r.obj \in Doc
    BY DEF IInvBut, TypeOK, Record
  <2> QED
    BY <1>10, <2>1, <2>2
<1>12. UntouchedIsMirrored(A)'
  <2> SUFFICES ASSUME NEW p \in Doc \ A, Untouched(p)'
               PROVE  server'[p] = local[p] /\ Heading(queue, p, local[p])
    BY <1>1 DEF UntouchedIsMirrored, Heading
  <2>1. Untouched(p)
    BY <1>1, <1>5 DEF Untouched, RecordsOf
  <2> QED
    BY <1>10, <2>1 DEF IInvBut, UntouchedIsMirrored
<1> QED
  BY <1>6, <1>7, <1>8, <1>9, <1>11, <1>12 DEF IInvBut

\* The head of the queue is answered; a success means the server applied it.
LEMMA PopKeepsIInv ==
  ASSUME NEW A, IInvBut(A), TypeOK', NEW ok \in BOOLEAN, persisted > 0, Finish(ok),
         UNCHANGED <<server, local, outbox, used, handler, todo, changes, torn>>,
         \/ ok /\ applied > 0 /\ applied' = applied - 1
         \/ ~ok /\ applied = 0 /\ applied' = 0
  PROVE  IInvBut(A)'
<1>1. /\ Len(queue) \in Nat /\ Len(done) \in Nat /\ Len(queue) > 0
      /\ applied \in 0 .. Len(queue)
      /\ \A i \in 1 .. Len(queue) : queue[i] \in Entry
  <2>1. TypeOK
    BY DEF IInvBut
  <2>2. /\ Len(queue) \in Nat /\ Len(done) \in Nat
        /\ \A i \in 1 .. Len(queue) : queue[i] \in Entry
    BY <2>1, QueueElements
  <2>3. persisted \in 0 .. Len(queue) /\ applied \in 0 .. persisted
    BY <2>1 DEF TypeOK
  <2>4. Len(queue) > 0 /\ applied \in 0 .. Len(queue)
    BY <2>2, <2>3
  <2> QED
    BY <2>2, <2>4
<1>2. /\ Len(queue') = Len(queue) - 1
      /\ \A i \in 1 .. Len(queue') : queue'[i] = queue[i + 1]
      /\ queue[1].cb = Nil => done' = done
      /\ queue[1].cb # Nil =>
           /\ Len(done') = Len(done) + 1
           /\ \A i \in 1 .. Len(done) : done'[i] = done[i]
           /\ done'[Len(done) + 1] = [cb |-> queue[1].cb, ok |-> ok]
  BY FinishFacts, Zenon DEF IInvBut
<1>3. /\ \A p : (Busy(p)' <=> Busy(p)) /\ (Pending(p)' <=> Pending(p))
      /\ \A x : (Current(x)' <=> Current(x)) /\ Wanted(x)' = Wanted(x)
  BY DEF Busy, Idle, Pending, Current, Wanted
<1>4. \A i \in 1 .. Len(done') :
        \/ i \in 1 .. Len(done) /\ done'[i] = done[i]
        \/ queue[1].cb # Nil /\ done'[i].cb = queue[1].cb /\ done'[i].ok = ok
  BY <1>1, <1>2
<1>5. OneRecordPerObject' /\ MethodInv' /\ DeletedIsGone(A)'
  BY <1>3 DEF IInvBut, OneRecordPerObject, MethodInv, DeletedIsGone, Idle
<1>6. FreshInv'
  <2>1. \A x : Old(x) => Old(x)'
    BY <1>3 DEF Old
  <2>2. ASSUME NEW i \in 1 .. Len(queue'), queue'[i].cb # Nil
        PROVE  (Old(queue[i].cb) /\ queue[i].doc = queue[i].cb.obj)'
    <3>1. i + 1 \in 1 .. Len(queue) /\ queue'[i] = queue[i + 1]
      BY <1>1, <1>2
    <3>2. PICK w : w = queue[i + 1]
      OBVIOUS
    <3>3. Old(w.cb) /\ w.doc = w.cb.obj
      BY <2>2, <3>1, <3>2 DEF IInvBut, FreshInv
    <3>4. Old(w.cb)'
      BY <2>1, <3>3
    <3> QED
      BY <3>1, <3>2, <3>3, <3>4 DEF Old
  <2>3. ASSUME NEW i \in 1 .. Len(done')
        PROVE  Old(done[i].cb)'
    BY <1>1, <1>4, <2>1 DEF IInvBut, FreshInv
  <2> QED
    BY <2>1, <2>2, <2>3 DEF IInvBut, FreshInv
<1>7. AppliedInv'
  <2> SUFFICES ASSUME NEW j \in 1 .. applied', applied' = applied - 1,
                      \A k \in j .. applied' :
                        queue'[k].doc = queue'[j].doc => queue'[k].val = queue'[j].val
               PROVE  server[queue'[j].doc] = queue'[j].val
    BY <1>1 DEF AppliedInv
  <2>1. j + 1 \in 1 .. applied /\ queue'[j] = queue[j + 1]
    BY <1>1, <1>2
  <2>2. ASSUME NEW k \in j + 1 .. applied, queue[k].doc = queue[j + 1].doc
        PROVE  queue[k].val = queue[j + 1].val
    <3>1. k - 1 \in j .. applied' /\ k - 1 \in 1 .. Len(queue') /\ (k - 1) + 1 = k
      BY <1>1, <1>2
    <3>2. queue'[k - 1] = queue[k]
      BY <1>2, <3>1
    <3> QED
      BY <2>1, <2>2, <3>1, <3>2
  <2> QED
    BY <2>1, <2>2 DEF IInvBut, AppliedInv
<1>8. ASSUME NEW p, NEW v, Heading(queue, p, v)
      PROVE  Heading(queue', p, v)
  BY <1>1, <1>2, <1>8 DEF Heading
<1>9. OrderInv(A)'
  <2> SUFFICES ASSUME NEW r \in outbox, Ordered(queue, r)
               PROVE  Ordered(queue', r)
    BY <1>3 DEF IInvBut, OrderInv, Ordered
  <2> SUFFICES ASSUME NEW i \in 1 .. Len(queue'), queue'[i].cb = r,
                      NEW j \in i .. Len(queue'), queue'[j].doc = r.obj
               PROVE  queue'[j].val = Wanted(r)
    BY DEF Ordered
  <2>1. i + 1 \in 1 .. Len(queue) /\ queue'[i] = queue[i + 1]
    <3>1. Len(queue) \in Nat /\ Len(queue') = Len(queue) - 1
      BY <1>1, <1>2, Zenon
    <3>2. i + 1 \in 1 .. Len(queue)
      BY <3>1
    <3> QED
      BY <1>2, <3>2, Zenon
  <2>2. j + 1 \in i + 1 .. Len(queue) /\ queue'[j] = queue[j + 1]
    <3>1. Len(queue) \in Nat /\ Len(queue') = Len(queue) - 1
      BY <1>1, <1>2, Zenon
    <3>2. j \in 1 .. Len(queue') /\ j + 1 \in i + 1 .. Len(queue)
      BY <3>1
    <3> QED
      BY <1>2, <3>2, Zenon
  <2> QED
    BY <2>1, <2>2 DEF Ordered
<1>10. AnswerInv(A)'
  <2> SUFFICES ASSUME NEW r \in outbox, r.obj \notin A, Current(r), NEW i \in 1 .. Len(done'),
                      done'[i].cb = r, done'[i].ok
               PROVE  server[r.obj] = Wanted(r) /\ Heading(queue', r.obj, Wanted(r))
    BY <1>3 DEF AnswerInv, Heading
  <2>1. CASE i \in 1 .. Len(done) /\ done'[i] = done[i]
    BY <1>8, <2>1 DEF IInvBut, AnswerInv
  <2>2. CASE queue[1].cb # Nil /\ done'[i].cb = queue[1].cb /\ done'[i].ok = ok
    <3>1. ok /\ applied > 0 /\ queue[1].cb = r /\ queue[1].doc = r.obj
      BY <1>1, <2>2 DEF IInvBut, FreshInv
    <3>2. \A j \in 1 .. Len(queue) : queue[j].doc = r.obj => queue[j].val = Wanted(r)
      BY <1>1, <3>1 DEF IInvBut, OrderInv, Ordered
    <3>3. Heading(queue, r.obj, Wanted(r))
      BY <3>2 DEF Heading
    <3>4. server[r.obj] = Wanted(r)
      <4>1. 1 \in 1 .. applied /\ 1 \in 1 .. Len(queue) /\ 1 .. applied \subseteq 1 .. Len(queue)
        BY <1>1, <3>1
      <4>2. \A k \in 1 .. applied :
              queue[k].doc = queue[1].doc => queue[k].val = queue[1].val
        BY <3>1, <3>2, <4>1
      <4>3. server[queue[1].doc] = queue[1].val
        BY <4>1, <4>2 DEF IInvBut, AppliedInv
      <4> QED
        BY <3>1, <3>2, <4>1, <4>3
    <3> QED
      BY <1>8, <3>3, <3>4
  <2> QED
    BY <1>4, <2>1, <2>2
<1>11. UntouchedIsMirrored(A)'
  <2> SUFFICES ASSUME NEW p \in Doc \ A, Untouched(p)'
               PROVE  server[p] = local[p] /\ Heading(queue', p, local[p])
    BY DEF UntouchedIsMirrored, Heading
  <2>1. Untouched(p)
    BY <1>3 DEF Untouched, RecordsOf
  <2> QED
    BY <1>8, <2>1 DEF IInvBut, UntouchedIsMirrored
<1> QED
  BY <1>5, <1>6, <1>7, <1>9, <1>10, <1>11 DEF IInvBut

LEMMA AckKeepsIInv ==
  ASSUME NEW A, IInvBut(A), TypeOK', ClientAck
  PROVE  IInvBut(A)'
<1>1. Len(queue) \in Nat
  BY QueueElements DEF IInvBut
<1>2. applied > 0 /\ applied' = applied - 1
  BY DEF ClientAck, Acknowledge
<1>3. persisted > 0
  BY <1>1, <1>2 DEF IInvBut, TypeOK
<1>4. Finish(TRUE)
  BY Zenon DEF ClientAck, Acknowledge
<1>5. UNCHANGED <<server, local, outbox, used, handler, todo, changes, torn>>
  BY DEF ClientAck, Acknowledge, appVars, localVars, mainVars, history
<1>6. TRUE \in BOOLEAN
  OBVIOUS
<1> QED
  BY <1>2, <1>3, <1>4, <1>5, <1>6, PopKeepsIInv, Zenon

LEMMA RejectKeepsIInv ==
  ASSUME NEW A, IInvBut(A), TypeOK', ClientReject
  PROVE  IInvBut(A)'
<1>1. applied = 0 /\ applied' = 0 /\ persisted > 0
  BY DEF ClientReject, Reject
<1>2. Finish(FALSE)
  BY Zenon DEF ClientReject, Reject
<1>3. UNCHANGED <<server, local, outbox, used, handler, todo, changes, torn>>
  BY DEF ClientReject, Reject, appVars, localVars, mainVars, history
<1>4. FALSE \in BOOLEAN /\ ~FALSE
  OBVIOUS
<1> QED
  BY <1>1, <1>2, <1>3, <1>4, PopKeepsIInv, Zenon

LEMMA KillKeepsIInv ==
  ASSUME NEW A, IInvBut(A), TypeOK', KillAndRelaunch
  PROVE  IInvBut(A)'
<1>1. /\ handler' = Nil /\ todo' = {} /\ applied' = 0 /\ Len(done') = 0
      /\ torn' = torn \cup TornBy(handler)
      /\ UNCHANGED <<server, persisted, local, outbox, used, changes>>
      /\ CheckAndMerge(link, Restored, outbox)
  BY EmptySeq DEF KillAndRelaunch, StreamLost, localVars
<1>2. /\ outbox \in SUBSET Record /\ IsFiniteSet(outbox)
      /\ local \in [Doc -> Nat] /\ queue \in Seq(Entry)
      /\ persisted \in 0 .. Len(queue) /\ Len(queue) \in Nat
      /\ \A x, y \in outbox : x.obj = y.obj => x = y
  BY LenProperties DEF IInvBut, TypeOK, OneRecordPerObject
<1>3. PICK kept : kept = Restored
  OBVIOUS
<1>4. /\ kept \in Seq(Entry) /\ Len(kept) = persisted
      /\ \A i \in 1 .. persisted : /\ kept[i].cb = Nil
                                   /\ kept[i].doc = queue[i].doc
                                   /\ kept[i].val = queue[i].val
  BY <1>2, <1>3, RestoredFacts
<1>5. /\ queue' \in Seq(Entry)
      /\ Len(queue') >= Len(kept)
      /\ \A i \in 1 .. Len(kept) : queue'[i] = kept[i]
      /\ \A i \in 1 .. Len(queue') : i > Len(kept) =>
           \E r \in outbox : queue'[i] = Send(r)
  <2>1. CheckAndMerge(link, kept, outbox)
    BY <1>1, <1>3, Zenon
  <2>2. /\ local \in [Doc -> Nat] /\ kept \in Seq(Entry)
        /\ outbox \in SUBSET Record /\ IsFiniteSet(outbox)
    BY <1>2, <1>4, Zenon
  <2> QED
    BY <2>1, <2>2, MergeFacts, Zenon
<1>6. Len(kept) \in Nat /\ Len(queue') \in Nat
  BY <1>4, <1>5, LenProperties
<1>7. /\ \A p : ~Busy(p)' /\ ~Pending(p)'
      /\ \A x : Current(x)' /\ Wanted(x)' = Wanted(x)
  BY <1>1 DEF Busy, Idle, Pending, Current, Wanted
<1>8. OneRecordPerObject'
  BY <1>1 DEF IInvBut, OneRecordPerObject
<1>9. MethodInv'
  BY <1>1 DEF IInvBut, MethodInv, Idle
<1>10. FreshInv'
  <2>1. \A x : Old(x) => Old(x)'
    BY <1>1, <1>7 DEF Old
  <2>2. ASSUME NEW i \in 1 .. Len(queue'), queue'[i].cb # Nil
        PROVE  (Old(queue[i].cb) /\ queue[i].doc = queue[i].cb.obj)'
    BY <1>4, <1>5, <1>6, <2>1, <2>2, SendFields DEF IInvBut, FreshInv
  <2> QED
    BY <1>1, <2>1, <2>2 DEF IInvBut, FreshInv
<1>11. DeletedIsGone(A)'
  <2> SUFFICES ASSUME NEW r \in outbox, r.how = "delete", r.obj \notin A,
                      r.obj \notin torn'
               PROVE  local[r.obj] = Absent
    BY <1>1 DEF DeletedIsGone
  <2>1. ~(Busy(r.obj) /\ handler.step = "erase")
    BY <1>1 DEF TornBy, Busy, Idle
  <2> QED
    BY <1>1, <2>1 DEF IInvBut, DeletedIsGone
<1>12. AppliedInv'
  BY <1>1 DEF AppliedInv
<1>13. ASSUME NEW r \in outbox, r.obj \notin A
       PROVE  Ordered(queue', r)
  <2>1. Ordered(kept, r)
    BY <1>2, <1>4, NilIsNoRecord DEF Ordered
  <2> QED
    BY <1>2, <1>5, <1>6, <2>1, MergeOrdered
<1>14. OrderInv(A)'
  BY <1>1, <1>7, <1>13 DEF OrderInv, Ordered
<1>15. AnswerInv(A)'
  BY <1>1 DEF AnswerInv
<1>16. UntouchedIsMirrored(A)'
  <2> SUFFICES ASSUME NEW p \in Doc \ A, Untouched(p)'
               PROVE  server[p] = local[p] /\ Heading(queue', p, local[p])
    BY <1>1 DEF UntouchedIsMirrored, Heading
  <2>1. /\ RecordsOf(p) = {} /\ p \notin torn /\ p \notin TornBy(handler)
        /\ \A x \in outbox : x.obj # p
    BY <1>1 DEF Untouched, RecordsOf
  <2>2. Busy(p) => handler.how = "delete" /\ handler.step = "begin"
    <3> SUFFICES ASSUME Busy(p)
                 PROVE  handler.how = "delete" /\ handler.step = "begin"
      OBVIOUS
    <3>1. handler # Nil /\ handler.obj = p /\ handler.step \in Steps
      BY DEF Busy, Idle, IInvBut, TypeOK, Running
    <3> QED
      BY <2>1, <3>1 DEF TornBy, Steps
  <2>3. server[p] = local[p] /\ Heading(queue, p, local[p])
    BY <2>1, <2>2 DEF IInvBut, UntouchedIsMirrored, Untouched
  <2>4. Heading(kept, p, local[p])
    BY <1>2, <1>4, <2>3 DEF Heading
  <2> QED
    BY <1>5, <1>6, <2>1, <2>3, <2>4, MergeHeading
<1> QED
  BY <1>8, <1>9, <1>10, <1>11, <1>12, <1>14, <1>15, <1>16 DEF IInvBut

-----------------------------------------------------------------------------
(***************************************************************************)
(* The theorems.                                                           *)
(***************************************************************************)

LEMMA IInvNextBut ==
  ASSUME NEW A, IInvBut(A), [Next]_vars
  PROVE  IInvBut(A)'
<1>1. TypeOK'
  BY TypeNext DEF IInvBut
<1>2. ASSUME NEW o \in Doc, AddObject(o) \/ UpdateObject(o) \/ DeleteObject(o)
      PROVE  IInvBut(A)'
  BY <1>1, <1>2, AddKeepsIInv, UpdateKeepsIInv, DeleteKeepsIInv
<1>3. CASE Handlers
  <2>1. A \subseteq A \cup {handler.obj}
    OBVIOUS
  <2> QED
    BY <1>1, <1>3, <2>1, DropKeepsIInv, AddRecordKeepsIInv, EraseKeepsIInv DEF Handlers
<1>4. CASE OnWriteDone
  BY <1>1, <1>4, OnWriteDoneKeepsIInv
<1>5. CASE LinkChange
  BY <1>1, <1>5, CursorKeepsIInv DEF LinkChange, StreamLost, localVars, mainVars, history
<1>6. CASE NetworkNotified \/ NetworkMisreported
  <2>1. Notified(link) \/ Notified(~link)
    BY <1>6, Zenon DEF NetworkNotified, NetworkMisreported
  <2> QED
    BY <1>1, <2>1, NotifiedKeepsIInv, Zenon
<1>7. CASE ClientPersist
  BY <1>1, <1>7, CursorKeepsIInv DEF ClientPersist, Persist, appVars, localVars,
     mainVars, history
<1>8. CASE ClientApply
  BY <1>1, <1>8, ApplyKeepsIInv
<1>9. CASE ClientAck
  BY <1>1, <1>9, AckKeepsIInv
<1>10. CASE ClientReject
  BY <1>1, <1>10, RejectKeepsIInv
<1>11. CASE KillAndRelaunch
  BY <1>1, <1>11, KillKeepsIInv
<1>12. CASE UNCHANGED vars
  BY <1>1, <1>12, CursorKeepsIInv DEF vars, clientVars, localVars, mainVars, counters,
     history
<1> QED
  BY <1>2, <1>3, <1>4, <1>5, <1>6, <1>7, <1>8, <1>9, <1>10, <1>11, <1>12 DEF Next

LEMMA IInvNext ==
  ASSUME IInv, [Next]_vars
  PROVE  IInv'
BY IInvNextBut DEF IInv

LEMMA Invariance == Spec => []IInv
<1>1. Init => IInv
  BY IInvInit
<1>2. IInv /\ [Next]_vars => IInv'
  BY IInvNext
<1> QED
  BY <1>1, <1>2, PTL DEF Spec

\* The outbox holds one record per object (changeInLocalDatabase, 153-160).
THEOREM OneRecord == Spec => []OneRecordPerObject
<1>1. IInv => OneRecordPerObject
  BY DEF IInv, IInvBut
<1> QED
  BY <1>1, Invariance, PTL

\* A record is discarded only once the cloud has, and will keep, the phone's
\* version of its object: the completion blocks of lines 91-139 lose nothing.
THEOREM CleanMirrored == Spec => []CleanIsMirrored
<1>1. IInv => CleanIsMirrored
  <2> SUFFICES ASSUME IInv, NEW o \in Doc, ~Dirty(o)
               PROVE  /\ server[o] = local[o]
                      /\ \A i \in DOMAIN queue :
                           queue[i].doc = o => queue[i].val = local[o]
    BY DEF CleanIsMirrored
  <2>1. Untouched(o)
    BY DEF Dirty, Untouched
  <2>2. server[o] = local[o] /\ Heading(queue, o, local[o])
    BY <2>1 DEF IInv, IInvBut, UntouchedIsMirrored
  <2>3. DOMAIN queue = 1 .. Len(queue)
    BY LenProperties DEF IInv, IInvBut, TypeOK
  <2> QED
    BY <2>2, <2>3 DEF Heading
<1> QED
  BY <1>1, Invariance, PTL

-----------------------------------------------------------------------------
(***************************************************************************)
(* deleteObject never leaves a shot without its report, wherever the       *)
(* process is killed.                                                      *)
(***************************************************************************)

\* What a running deletion still has before it.
Victims == todo \cup {handler.obj}
Deleting == ~Idle /\ handler.how = "delete"

\* The shots of a report that is to be deleted are to be deleted as well, and
\* before it.
CascadeInv ==
  Deleting =>
    /\ \A s \in Shot : local[s] # Absent /\ ReportOf[s] \in Victims => s \in Victims
    /\ handler.obj \in Report => todo \cap Shot = {}

\* Only a deletion has an object to erase.
EraserDeletes == ~Idle /\ handler.step = "erase" => handler.how = "delete"

\* Nothing is said of the shots of A.
NoOrphanBut(A) ==
  \A s \in Shot \ A : local[s] # Absent => local[ReportOf[s]] # Absent

CInvBut(A) == TypeOK /\ NoOrphanBut(A) /\ CascadeInv /\ EraserDeletes

\* A method that goes on without touching an object keeps all of it.
LEMMA SameCascade ==
  ASSUME NEW A, CInvBut(A), local' = local, todo' = todo,
         handler' = Nil \/ (~Idle /\ handler' = [handler EXCEPT !.step = handler'.step])
           \/ handler' = handler
  PROVE  NoOrphanBut(A)' /\ CascadeInv'
<1>1. NoOrphanBut(A)'
  BY DEF CInvBut, NoOrphanBut
<1>2. CASE handler' = Nil
  BY <1>1, <1>2 DEF CascadeInv, Deleting, Idle
<1>3. CASE ~Idle /\ handler' = [handler EXCEPT !.step = handler'.step]
  <2>1. handler \in Running
    BY <1>3 DEF CInvBut, TypeOK, Idle
  <2>2. handler'.obj = handler.obj /\ handler'.how = handler.how
    BY <1>3, <2>1 DEF Running
  <2> QED
    BY <1>1, <1>3, <2>2 DEF CInvBut, CascadeInv, Deleting, Victims, Idle
<1>4. CASE handler' = handler
  BY <1>1, <1>4 DEF CInvBut, CascadeInv, Deleting, Victims, Idle
<1> QED
  BY <1>2, <1>3, <1>4

\* The next victim of S is a shot as long as there is one.
LEMMA NextVictim ==
  ASSUME NEW S \in SUBSET Doc, DeleteNext(S),
         \A s \in Shot : local'[s] # Absent /\ ReportOf[s] \in S => s \in S
  PROVE  CascadeInv'
<1>1. PICK o \in NextVictims(S) :
        /\ handler' = [step |-> "begin", obj |-> o, how |-> "delete"]
        /\ todo' = S \ {o}
  BY DEF DeleteNext
<1>2. o \in S
  BY <1>1 DEF NextVictims
<1>3. handler'.obj = o
  BY <1>1
<1>4. Victims' = S
  BY <1>1, <1>2, <1>3 DEF Victims
<1>5. o \in Report => todo' \cap Shot = {}
  BY <1>1 DEF NextVictims, Shot
<1> QED
  BY <1>3, <1>4, <1>5 DEF CascadeInv

LEMMA EraserNext ==
  ASSUME TypeOK, EraserDeletes, [Next]_vars
  PROVE  EraserDeletes'
<1>1. ASSUME NEW o \in Doc, AddObject(o) \/ UpdateObject(o)
      PROVE  EraserDeletes'
  BY <1>1 DEF AddObject, UpdateObject, EraserDeletes
<1>2. ASSUME NEW S, DeleteNext(S)
      PROVE  EraserDeletes'
  BY <1>2 DEF DeleteNext, EraserDeletes
<1>3. CASE DropRecord
  <2>1. handler'.step = "dropped"
    BY <1>3 DEF DropRecord, TypeOK, Idle, Running
  <2> QED
    BY <2>1 DEF EraserDeletes
<1>4. CASE AddRecord
  <2>1. handler.how # "delete" => handler' = Nil
    BY <1>4 DEF AddRecord
  <2>2. handler.how = "delete" => handler'.how = "delete"
    BY <1>4 DEF AddRecord, TypeOK, Idle, Running
  <2> QED
    BY <2>1, <2>2 DEF EraserDeletes, Idle
<1>5. CASE Erase
  BY <1>2, <1>5 DEF Erase, EraserDeletes, Idle
<1>6. CASE KillAndRelaunch
  BY <1>6 DEF KillAndRelaunch, EraserDeletes, Idle
<1>7. CASE UNCHANGED handler
  BY <1>7 DEF EraserDeletes, Idle
<1>8. OnWriteDone \/ LinkChange \/ NetworkNotified \/ NetworkMisreported => UNCHANGED handler
  BY DEF OnWriteDone, LinkChange, NetworkNotified, NetworkMisreported, Notified, mainVars
<1>9. ClientPersist \/ ClientApply \/ ClientAck \/ ClientReject => UNCHANGED handler
  BY DEF ClientPersist, ClientApply, ClientAck, ClientReject, appVars, mainVars
<1>10. UNCHANGED vars => UNCHANGED handler
  BY DEF vars, mainVars
<1> QED
  BY <1>1, <1>2, <1>3, <1>4, <1>5, <1>6, <1>7, <1>8, <1>9, <1>10
     DEF Next, Handlers, DeleteObject

LEMMA CascadeNext ==
  ASSUME NEW A, CInvBut(A), [Next]_vars
  PROVE  CInvBut(A)'
<1>1. TypeOK'
  BY TypeNext DEF CInvBut
<1>1a. EraserDeletes'
  BY EraserNext DEF CInvBut
<1>2. SUFFICES NoOrphanBut(A)' /\ CascadeInv'
  BY <1>1, <1>1a DEF CInvBut
<1> USE ReportAssumption
<1>3. \A s \in Shot : s \in Doc /\ s \notin Report /\ ReportOf[s] \in Report /\ ReportOf[s] \in Doc
  BY DEF Shot
<1>4. ASSUME NEW o \in Doc, AddObject(o)
      PROVE  NoOrphanBut(A)' /\ CascadeInv'
  <2>1. handler' = [step |-> "begin", obj |-> o, how |-> "create"]
    BY <1>4 DEF AddObject
  <2>2. CascadeInv'
    BY <2>1 DEF CascadeInv, Deleting
  <2>3. local' = [local EXCEPT ![o] = changes + 1] /\ changes \in Nat /\ local \in [Doc -> Nat]
    BY <1>4 DEF AddObject, CInvBut, TypeOK
  <2>4. local'[o] # Absent /\ \A d \in Doc : d # o => local'[d] = local[d]
    BY <2>3 DEF Absent
  <2>5. o \in Shot => local[ReportOf[o]] # Absent
    BY <1>4 DEF AddObject
  <2>6. NoOrphanBut(A)'
    BY <1>3, <2>4, <2>5 DEF NoOrphanBut, CInvBut
  <2> QED
    BY <2>2, <2>6
<1>5. ASSUME NEW o \in Doc, UpdateObject(o)
      PROVE  NoOrphanBut(A)' /\ CascadeInv'
  <2>1. handler' = [step |-> "begin", obj |-> o, how |-> "update"]
    BY <1>5 DEF UpdateObject
  <2>2. CascadeInv'
    BY <2>1 DEF CascadeInv, Deleting
  <2>3. local' = [local EXCEPT ![o] = changes + 1] /\ changes \in Nat /\ local \in [Doc -> Nat]
    BY <1>5 DEF UpdateObject, CInvBut, TypeOK
  <2>4. local'[o] # Absent /\ \A d \in Doc : d # o => local'[d] = local[d]
    BY <2>3 DEF Absent
  <2>5. local[o] # Absent
    BY <1>5 DEF UpdateObject
  <2>6. NoOrphanBut(A)'
    BY <1>3, <2>4, <2>5 DEF NoOrphanBut, CInvBut
  <2> QED
    BY <2>2, <2>6
<1>6. ASSUME NEW o \in Doc, DeleteObject(o)
      PROVE  NoOrphanBut(A)' /\ CascadeInv'
  <2>1. local' = local /\ DeleteNext({o} \cup ShotsOf(o))
    BY <1>6 DEF DeleteObject
  <2>2. {o} \cup ShotsOf(o) \in SUBSET Doc
    BY DEF ShotsOf, Shot
  <2>3. \A s \in Shot : local'[s] # Absent /\ ReportOf[s] \in {o} \cup ShotsOf(o)
                          => s \in {o} \cup ShotsOf(o)
    BY <1>3, <2>1 DEF ShotsOf
  <2> QED
    BY <2>1, <2>2, <2>3, NextVictim DEF NoOrphanBut, CInvBut
<1>7. CASE DropRecord
  <2>1. ~Idle /\ handler' = [handler EXCEPT !.step = "dropped"]
    BY <1>7 DEF DropRecord
  <2>2. handler'.step = "dropped"
    BY <2>1 DEF CInvBut, TypeOK, Idle, Running
  <2> QED
    BY <1>7, <2>1, <2>2, SameCascade DEF DropRecord
<1>8. CASE AddRecord
  <2>1. ~Idle /\ (handler' = Nil \/ handler' = [handler EXCEPT !.step = "erase"])
    BY <1>8 DEF AddRecord
  <2>2. handler' # Nil => handler'.step = "erase"
    BY <2>1 DEF CInvBut, TypeOK, Idle, Running
  <2> QED
    BY <1>8, <2>1, <2>2, SameCascade DEF AddRecord
<1>9. CASE Erase
  <2>1. /\ ~Idle /\ handler.step = "erase"
        /\ local' = [local EXCEPT ![handler.obj] = Absent]
        /\ IF todo = {} THEN handler' = Nil /\ UNCHANGED todo ELSE DeleteNext(todo)
    BY <1>9 DEF Erase
  <2>2. handler.obj \in Doc /\ local \in [Doc -> Nat] /\ todo \in SUBSET Doc
    BY <2>1 DEF CInvBut, TypeOK, Idle, Running
  <2>3. local'[handler.obj] = Absent /\ \A d \in Doc : d # handler.obj => local'[d] = local[d]
    BY <2>1, <2>2
  <2>4. handler.how = "delete"
    BY <2>1 DEF CInvBut, EraserDeletes
  <2>5. Deleting
    BY <2>1, <2>4 DEF Deleting
  <2>6. /\ \A s \in Shot : local[s] # Absent /\ ReportOf[s] \in Victims => s \in Victims
        /\ handler.obj \in Report => todo \cap Shot = {}
    BY <2>5 DEF CInvBut, CascadeInv
  <2>7. NoOrphanBut(A)'
    <3> SUFFICES ASSUME NEW s \in Shot \ A, local'[s] # Absent
                 PROVE  local'[ReportOf[s]] # Absent
      BY DEF NoOrphanBut
    <3>1. s # handler.obj /\ local[s] # Absent
      BY <1>3, <2>3
    <3>2. local[ReportOf[s]] # Absent
      BY <3>1 DEF CInvBut, NoOrphanBut
    <3>3. ReportOf[s] # handler.obj
      BY <1>3, <2>6, <3>1 DEF Victims
    <3> QED
      BY <1>3, <2>3, <3>2, <3>3
  <2>8. CASE todo = {}
    BY <2>1, <2>7, <2>8 DEF CascadeInv, Deleting, Idle
  <2>9. CASE todo # {}
    <3>1. \A s \in Shot : local'[s] # Absent /\ ReportOf[s] \in todo => s \in todo
      BY <1>3, <2>3, <2>6 DEF Victims
    <3> QED
      BY <2>1, <2>2, <2>7, <2>9, <3>1, NextVictim
  <2> QED
    BY <2>8, <2>9
<1>10. CASE KillAndRelaunch
  <2>1. NoOrphanBut(A)'
    BY <1>10 DEF KillAndRelaunch, localVars, NoOrphanBut, CInvBut
  <2>2. CascadeInv'
    BY <1>10 DEF KillAndRelaunch, CascadeInv, Deleting, Idle
  <2> QED
    BY <2>1, <2>2
<1>11. CASE UNCHANGED <<local, handler, todo>>
  BY <1>11, SameCascade
<1>12. OnWriteDone \/ LinkChange => UNCHANGED <<local, handler, todo>>
  BY DEF OnWriteDone, LinkChange, localVars, mainVars
<1>13. NetworkNotified \/ NetworkMisreported => UNCHANGED <<local, handler, todo>>
  BY DEF NetworkNotified, NetworkMisreported, Notified, localVars
<1>14. ClientPersist \/ ClientApply \/ ClientAck \/ ClientReject
         => UNCHANGED <<local, handler, todo>>
  BY DEF ClientPersist, ClientApply, ClientAck, ClientReject, appVars, localVars, mainVars
<1>15. UNCHANGED vars => UNCHANGED <<local, handler, todo>>
  BY DEF vars, localVars, mainVars
<1> QED
  BY <1>4, <1>5, <1>6, <1>7, <1>8, <1>9, <1>10, <1>11, <1>12, <1>13, <1>14, <1>15
     DEF Next, Handlers

\* Deleting a report deletes its shots first (deleteObject, 229-236): no shot is
\* ever without its report, not even after a kill between two of them.
THEOREM NoOrphans == Spec => []NoOrphanShot
<1>1. Init => CInvBut({})
  BY TypeInit, ReportAssumption
     DEF Init, CInvBut, NoOrphanBut, CascadeInv, EraserDeletes, Deleting, Idle, Shot
<1>2. CInvBut({}) /\ [Next]_vars => CInvBut({})'
  BY CascadeNext
<1>3. CInvBut({}) => NoOrphanShot
  BY DEF CInvBut, NoOrphanBut, NoOrphanShot
<1> QED
  BY <1>1, <1>2, <1>3, PTL DEF Spec

-----------------------------------------------------------------------------
(***************************************************************************)
(* While the app believes it is online no record of the outbox is left     *)
(* behind.                                                                 *)
(***************************************************************************)

\* What keeps a record from being forgotten, as positions of the two lists.
Sent(q, r) == \E i \in 1 .. Len(q) : q[i].cb = r
Remembered == available => \A r \in outbox \ refused : Sent(queue, r) \/ Sent(done, r)

OInv == TypeOK /\ Remembered

\* A merge sends every record when the app is online.
LEMMA MergeRemembers ==
  ASSUME TypeOK, NEW pending \in Seq(Entry),
         NEW records \in SUBSET Record, IsFiniteSet(records),
         outbox' = records, CheckAndMerge(available', pending, records)
  PROVE  Remembered'
<1> SUFFICES ASSUME available', NEW r \in outbox'
             PROVE  Sent(queue, r)'
  BY DEF Remembered
<1>1. PICK i \in 1 .. Len(queue') : queue'[i] = Send(r)
  BY MergeFacts DEF TypeOK
<1>2. queue'[i].cb = r
  BY <1>1 DEF Send
<1> QED
  BY <1>2 DEF Sent

\* An answer moves a completion block from one list to the other.
LEMMA FinishRemembers ==
  ASSUME OInv, NEW ok \in BOOLEAN, persisted > 0, Finish(ok),
         UNCHANGED <<outbox, refused, available>>
  PROVE  Remembered'
<1>1. /\ Len(queue') = Len(queue) - 1
      /\ \A i \in 1 .. Len(queue') : queue'[i] = queue[i + 1]
      /\ queue[1].cb = Nil => done' = done
      /\ queue[1].cb # Nil =>
           /\ Len(done') = Len(done) + 1
           /\ \A i \in 1 .. Len(done) : done'[i] = done[i]
           /\ done'[Len(done) + 1] = [cb |-> queue[1].cb, ok |-> ok]
  BY FinishFacts DEF OInv
<1>2. Len(queue) \in Nat /\ Len(done) \in Nat
  BY LenProperties DEF OInv, TypeOK
<1> SUFFICES ASSUME available, NEW r \in outbox \ refused
             PROVE  Sent(queue, r)' \/ Sent(done, r)'
  BY DEF Remembered
<1>3. r # Nil
  BY NilIsNoRecord DEF OInv, TypeOK
<1>4. CASE Sent(done, r)
  <2>1. PICK i \in 1 .. Len(done) : done[i].cb = r
    BY <1>4 DEF Sent
  <2>2. i \in 1 .. Len(done') /\ done'[i] = done[i]
    BY <1>1, <1>2, <2>1
  <2> QED
    BY <2>1, <2>2 DEF Sent
<1>5. CASE Sent(queue, r)
  <2>1. PICK i \in 1 .. Len(queue) : queue[i].cb = r
    BY <1>5 DEF Sent
  <2>2. CASE i = 1
    <3>1. done'[Len(done) + 1].cb = r /\ Len(done) + 1 \in 1 .. Len(done')
      BY <1>1, <1>2, <1>3, <2>1, <2>2
    <3> QED
      BY <3>1 DEF Sent
  <2>3. CASE i # 1
    <3>1. i - 1 \in 1 .. Len(queue') /\ queue'[i - 1] = queue[i]
      BY <1>1, <1>2, <2>1, <2>3
    <3> QED
      BY <2>1, <3>1 DEF Sent
  <2> QED
    BY <2>2, <2>3
<1> QED
  BY <1>4, <1>5 DEF OInv, Remembered

\* The completion block that is called deletes its record, or leaves it refused.
LEMMA OnWriteDoneRemembers ==
  ASSUME OInv, OnWriteDone
  PROVE  Remembered'
<1>1. /\ done # <<>>
      /\ done' = Tail(done)
      /\ UNCHANGED <<queue, available>>
      /\ outbox' \subseteq outbox
      /\ IF Head(done).ok
         THEN outbox' = outbox \ {Head(done).cb} /\ refused' = refused \ {Head(done).cb}
         ELSE outbox' = outbox /\ refused' = refused \cup ({Head(done).cb} \cap outbox)
  BY DEF OnWriteDone, mainVars
<1>2. /\ Len(done) \in Nat /\ Head(done) = done[1]
      /\ Len(done') = Len(done) - 1
      /\ \A i \in 1 .. Len(done') : done'[i] = done[i + 1]
  BY <1>1, HeadTailProperties, LenProperties DEF OInv, TypeOK
<1> SUFFICES ASSUME available, NEW r \in outbox' \ refused'
             PROVE  Sent(queue, r) \/ Sent(done, r)'
  BY <1>1 DEF Remembered, Sent
<1>3. r \in outbox \ refused /\ r # done[1].cb
  BY <1>1, <1>2
<1>4. CASE Sent(done, r)
  <2>1. PICK i \in 1 .. Len(done) : done[i].cb = r
    BY <1>4 DEF Sent
  <2>2. i - 1 \in 1 .. Len(done') /\ done'[i - 1] = done[i]
    BY <1>2, <1>3, <2>1
  <2> QED
    BY <2>1, <2>2 DEF Sent
<1> QED
  BY <1>3, <1>4 DEF OInv, Remembered

LEMMA RememberedNext ==
  ASSUME OInv, [Next]_vars
  PROVE  OInv'
<1>1. TypeOK'
  BY TypeNext DEF OInv
<1> SUFFICES Remembered'
  BY <1>1 DEF OInv
<1> USE DEF OInv
<1>2. CASE UNCHANGED <<queue, done, outbox, refused, available>>
  BY <1>2 DEF Remembered, Sent
<1>3. ASSUME NEW o \in Doc, AddObject(o) \/ UpdateObject(o) \/ DeleteObject(o)
      PROVE  UNCHANGED <<queue, done, outbox, refused, available>>
  BY <1>3 DEF AddObject, UpdateObject, DeleteObject, Call, clientVars, history
<1>4. CASE DropRecord
  <2>1. PICK r \in RecordsOf(handler.obj) :
          outbox' = outbox \ {r} /\ refused' = refused \ {r}
    BY <1>4 DEF DropRecord
  <2>2. UNCHANGED <<queue, done, available>>
    BY <1>4 DEF DropRecord, clientVars
  <2> QED
    BY <2>1, <2>2 DEF Remembered, Sent
<1>5. CASE AddRecord
  <2>1. outbox' \in SUBSET Record /\ IsFiniteSet(outbox')
    BY <1>1 DEF TypeOK
  <2>2. CheckAndMerge(available', queue, outbox')
    BY <1>5 DEF AddRecord
  <2> QED
    BY <2>1, <2>2, MergeRemembers DEF TypeOK
<1>6. CASE Erase \/ LinkChange \/ ClientPersist \/ ClientApply
  BY <1>2, <1>6 DEF Erase, LinkChange, ClientPersist, ClientApply, Persist, Apply,
     clientVars, localVars, mainVars, history, appVars
<1>7. CASE OnWriteDone
  BY <1>7, OnWriteDoneRemembers
<1>8. ASSUME NEW online, Notified(online)
      PROVE  Remembered'
  <2>1. /\ available' = online /\ outbox' = outbox
        /\ CheckAndMerge(online, queue, outbox)
    BY <1>8 DEF Notified, localVars
  <2> QED
    BY <2>1, MergeRemembers DEF TypeOK
<1>9. CASE NetworkNotified \/ NetworkMisreported
  BY <1>8, <1>9, Zenon DEF NetworkNotified, NetworkMisreported
<1>10. CASE ClientAck
  <2>1. persisted > 0
    BY <1>10, LenProperties DEF ClientAck, Acknowledge, TypeOK
  <2>2. Finish(TRUE) /\ UNCHANGED <<outbox, refused, available>>
    BY <1>10, Zenon DEF ClientAck, Acknowledge, appVars, localVars, mainVars, history
  <2> QED
    BY <2>1, <2>2, FinishRemembers
<1>11. CASE ClientReject
  <2>1. persisted > 0 /\ Finish(FALSE) /\ UNCHANGED <<outbox, refused, available>>
    BY <1>11, Zenon DEF ClientReject, Reject, appVars, localVars, mainVars, history
  <2> QED
    BY <2>1, FinishRemembers
<1>12. CASE KillAndRelaunch
  <2>1. /\ available' = link /\ outbox' = outbox
        /\ CheckAndMerge(link, Restored, outbox)
    BY <1>12 DEF KillAndRelaunch, localVars
  <2>2. Restored \in Seq(Entry)
    BY RestoredFacts DEF TypeOK
  <2> QED
    BY <2>1, <2>2, MergeRemembers DEF TypeOK
<1>13. UNCHANGED vars => UNCHANGED <<queue, done, outbox, refused, available>>
  BY DEF vars, clientVars, localVars, mainVars, history
<1> QED
  BY <1>2, <1>3, <1>4, <1>5, <1>6, <1>7, <1>9, <1>10, <1>11, <1>12, <1>13 DEF Next, Handlers

\* While the app believes it is online, every record that was not refused is on
\* its way to the cloud (checkAndMergeChangeInLocalDatabase, 76-110): a kill, a
\* stale notification or a lost answer leaves none behind.
THEOREM NoneForgotten == Spec => []NoForgottenRecord
<1>1. Init => OInv
  BY TypeInit DEF Init, OInv, Remembered
<1>2. OInv /\ [Next]_vars => OInv'
  BY RememberedNext
<1>3. OInv => NoForgottenRecord
  <2> SUFFICES ASSUME OInv, available, NEW r \in outbox \ refused
               PROVE  InQueue(r) \/ Answered(r)
    BY DEF NoForgottenRecord
  <2>1. DOMAIN queue = 1 .. Len(queue) /\ DOMAIN done = 1 .. Len(done)
    BY LenProperties DEF OInv, TypeOK
  <2> QED
    BY <2>1 DEF OInv, Remembered, Sent, InQueue, Answered
<1> QED
  BY <1>1, <1>2, <1>3, PTL DEF Spec

-----------------------------------------------------------------------------
(***************************************************************************)
(* DataServiceManager implements Mirror: every step of the outbox, the SDK *)
(* and the network is a step of the promise, or changes nothing it speaks  *)
(* of.                                                                     *)
(***************************************************************************)

Versions == 0 .. MaxChanges
Unclean  == {o \in Doc : Dirty(o)}

\* All versions there are come from the bounded changes.
VersionInv ==
  /\ changes \in Versions
  /\ local \in [Doc -> Versions] /\ server \in [Doc -> Versions]
  /\ \A i \in 1 .. Len(queue) : queue[i].val \in Versions

MInv == IInv /\ VersionInv

\* What is clean is the same in both copies.
LEMMA CleanCopies ==
  IInv => \A o \in Doc \ Unclean : server[o] = local[o] /\ Heading(queue, o, local[o])
<1> SUFFICES ASSUME IInv, NEW o \in Doc \ Unclean
             PROVE  server[o] = local[o] /\ Heading(queue, o, local[o])
  OBVIOUS
<1>1. Untouched(o)
  BY DEF Unclean, Dirty, Untouched
<1> QED
  BY <1>1 DEF IInv, IInvBut, UntouchedIsMirrored

CopiesAgree == \A o \in Doc \ Unclean : server[o] = local[o]

LEMMA CleanCopiesNext == IInv' => CopiesAgree'
<1>1. IInv => CopiesAgree
  BY CleanCopies DEF CopiesAgree
<1> QED
  BY <1>1, PTL

-----------------------------------------------------------------------------
(* The versions.                                                           *)

\* A merge sends versions that the phone has.
LEMMA MergeVersions ==
  ASSUME MInv, NEW online, NEW pending \in Seq(Entry),
         \A i \in 1 .. Len(pending) : pending[i].val \in Versions,
         NEW records \in SUBSET Record, IsFiniteSet(records),
         CheckAndMerge(online, pending, records)
  PROVE  \A i \in 1 .. Len(queue') : queue'[i].val \in Versions
<1> SUFFICES ASSUME NEW i \in 1 .. Len(queue')
             PROVE  queue'[i].val \in Versions
  OBVIOUS
<1>1. Len(pending) \in Nat
  BY LenProperties
<1>a. /\ queue' \in Seq(Entry)
      /\ \A k \in 1 .. Len(pending) : queue'[k] = pending[k]
      /\ \A k \in 1 .. Len(queue') : k > Len(pending) =>
           \E r \in records : queue'[k] = Send(r)
  BY MergeFacts, Zenon DEF MInv, IInv, IInvBut, TypeOK
<1>b. i \in Nat /\ i >= 1
  BY <1>a, LenProperties
<1>2. CASE i <= Len(pending)
  <2>1. i \in 1 .. Len(pending)
    BY <1>1, <1>b, <1>2
  <2> QED
    BY <1>a, <2>1
<1>3. CASE i > Len(pending)
  <2>1. PICK r \in records : queue'[i] = Send(r)
    BY <1>a, <1>3
  <2>2. r.obj \in Doc /\ MaxChanges \in Nat
    BY BoundAssumption DEF Record
  <2>3. local[r.obj] \in Versions /\ Absent \in Versions
    BY <2>2 DEF MInv, VersionInv, Absent, Versions
  <2> QED
    BY <2>1, <2>3 DEF Send
<1> QED
  BY <1>1, <1>b, <1>2, <1>3

LEMMA FinishVersions ==
  ASSUME MInv, NEW ok \in BOOLEAN, persisted > 0, Finish(ok)
  PROVE  \A i \in 1 .. Len(queue') : queue'[i].val \in Versions
<1>1. /\ Len(queue') = Len(queue) - 1
      /\ \A i \in 1 .. Len(queue') : queue'[i] = queue[i + 1]
  BY FinishFacts DEF MInv, IInv, IInvBut
<1>2. Len(queue) \in Nat
  BY LenProperties DEF MInv, IInv, IInvBut, TypeOK
<1>3. \A i \in 1 .. Len(queue') : i + 1 \in 1 .. Len(queue)
  BY <1>1, <1>2
<1> QED
  BY <1>1, <1>3 DEF MInv, VersionInv

LEMMA VersionNext ==
  ASSUME MInv, IInv', [Next]_vars
  PROVE  VersionInv'
<1>0. MaxChanges \in Nat /\ TypeOK /\ TypeOK'
  BY BoundAssumption DEF MInv, IInv, IInvBut
<1>1. CASE UNCHANGED <<changes, local, server, queue>>
  BY <1>1 DEF MInv, VersionInv
<1>2. ASSUME NEW o \in Doc, AddObject(o) \/ UpdateObject(o)
      PROVE  VersionInv'
  <2>1. /\ local' = [local EXCEPT ![o] = changes + 1]
        /\ changes < MaxChanges /\ changes' = changes + 1
        /\ UNCHANGED <<server, queue>>
    BY <1>2 DEF AddObject, UpdateObject, Call, clientVars
  <2>2. changes + 1 \in Versions
    BY <1>0, <2>1 DEF MInv, VersionInv, Versions
  <2>3. local' \in [Doc -> Versions]
    BY <2>1, <2>2 DEF MInv, VersionInv
  <2> QED
    BY <2>1, <2>2, <2>3 DEF MInv, VersionInv
<1>3. ASSUME NEW o \in Doc, DeleteObject(o)
      PROVE  VersionInv'
  <2>1. /\ changes < MaxChanges /\ changes' = changes + 1
        /\ UNCHANGED <<local, server, queue>>
    BY <1>3 DEF DeleteObject, Call, clientVars
  <2>2. changes + 1 \in Versions
    BY <1>0, <2>1 DEF MInv, VersionInv, Versions
  <2> QED
    BY <2>1, <2>2 DEF MInv, VersionInv
<1>4. CASE AddRecord
  <2>1. CheckAndMerge(available, queue, outbox') /\ UNCHANGED <<changes, local, server>>
    BY <1>4 DEF AddRecord, counters
  <2>2. \A i \in 1 .. Len(queue') : queue'[i].val \in Versions
    BY <1>0, <2>1, MergeVersions DEF MInv, VersionInv, TypeOK
  <2> QED
    BY <2>1, <2>2 DEF MInv, VersionInv
<1>5. CASE Erase
  <2>1. local' = [local EXCEPT ![handler.obj] = Absent] /\ UNCHANGED <<changes, server, queue>>
    BY <1>5 DEF Erase, clientVars, counters
  <2>2. Absent \in Versions
    BY <1>0 DEF Versions, Absent
  <2>3. local' \in [Doc -> Versions]
    BY <2>1, <2>2 DEF MInv, VersionInv
  <2> QED
    BY <2>1, <2>3 DEF MInv, VersionInv
<1>6. ASSUME NEW online, Notified(online)
      PROVE  VersionInv'
  <2>1. CheckAndMerge(online, queue, outbox) /\ UNCHANGED <<changes, local, server>>
    BY <1>6 DEF Notified, localVars
  <2>2. \A i \in 1 .. Len(queue') : queue'[i].val \in Versions
    BY <1>0, <2>1, MergeVersions DEF MInv, VersionInv, TypeOK
  <2> QED
    BY <2>1, <2>2 DEF MInv, VersionInv
<1>7. CASE ClientApply
  <2>1. /\ applied < persisted
        /\ server' = [server EXCEPT ![queue[applied + 1].doc] = queue[applied + 1].val]
        /\ UNCHANGED <<changes, local, queue>>
    BY <1>7 DEF ClientApply, Apply, appVars, localVars
  <2>2. applied + 1 \in 1 .. Len(queue)
    BY <1>0, <2>1, LenProperties DEF TypeOK
  <2>3. server' \in [Doc -> Versions]
    BY <2>1, <2>2 DEF MInv, VersionInv
  <2> QED
    BY <2>1, <2>3 DEF MInv, VersionInv
<1>8. CASE ClientAck \/ ClientReject
  <2>1. PICK ok \in BOOLEAN : Finish(ok)
    BY <1>8, Zenon DEF ClientAck, Acknowledge, ClientReject, Reject
  <2>2. persisted > 0
    <3>1. applied > 0 \/ persisted > 0
      BY <1>8, Zenon DEF ClientAck, Acknowledge, ClientReject, Reject
    <3> QED
      BY <1>0, <3>1, LenProperties DEF TypeOK
  <2>3. \A i \in 1 .. Len(queue') : queue'[i].val \in Versions
    BY <2>1, <2>2, FinishVersions
  <2>4. UNCHANGED <<changes, local, server>>
    BY <1>8, Zenon DEF ClientAck, Acknowledge, ClientReject, Reject, appVars, localVars
  <2> QED
    BY <2>3, <2>4 DEF MInv, VersionInv
<1>9. CASE KillAndRelaunch
  <2>1. CheckAndMerge(link, Restored, outbox) /\ UNCHANGED <<changes, local, server>>
    BY <1>9 DEF KillAndRelaunch, localVars
  <2>2. /\ Restored \in Seq(Entry) /\ Len(Restored) = persisted
        /\ \A i \in 1 .. persisted : Restored[i].val = queue[i].val
    BY <1>0, RestoredFacts DEF TypeOK
  <2>3. \A i \in 1 .. persisted : i \in 1 .. Len(queue)
    BY <1>0, LenProperties DEF TypeOK
  <2>4. \A i \in 1 .. Len(queue') : queue'[i].val \in Versions
    BY <1>0, <2>1, <2>2, <2>3, MergeVersions DEF MInv, VersionInv, TypeOK
  <2> QED
    BY <2>1, <2>4 DEF MInv, VersionInv
<1>10. DropRecord \/ OnWriteDone \/ LinkChange \/ ClientPersist \/ UNCHANGED vars
         => UNCHANGED <<changes, local, server, queue>>
  BY DEF DropRecord, OnWriteDone, LinkChange, ClientPersist, Persist, vars, clientVars,
     localVars, counters, appVars
<1>11. NetworkNotified \/ NetworkMisreported => Notified(link) \/ Notified(~link)
  BY Zenon DEF NetworkNotified, NetworkMisreported
<1> QED
  BY <1>1, <1>2, <1>3, <1>4, <1>5, <1>6, <1>7, <1>8, <1>9, <1>10, <1>11 DEF Next, Handlers

-----------------------------------------------------------------------------
(* The steps of Mirror.                                                    *)

LEMMA EditStep ==
  ASSUME NEW S \in SUBSET Doc, S # {},
         local \in [Doc -> Versions], local' \in [Doc -> Versions],
         \A o \in Doc \ S : local'[o] = local[o],
         server' = server, Unclean' = Unclean \cup S
  PROVE  Cloud!Next
<1> DEFINE new == [o \in S |-> local'[o]]
<1>1. new \in [S -> Versions]
  OBVIOUS
<1>2. local' = [o \in Doc |-> IF o \in S THEN new[o] ELSE local[o]]
  OBVIOUS
<1> HIDE DEF new
<1>3. Cloud!Edit(S)
  BY <1>1, <1>2 DEF Cloud!Edit, Unclean, Versions
<1> QED
  BY <1>3 DEF Cloud!Next

\* At most one object becomes clean, and then the copies are the same.
LEMMA SettleStep ==
  ASSUME IInv', UNCHANGED <<local, server>>, NEW o,
         Unclean' = Unclean \/ (o \in Unclean /\ Unclean' = Unclean \ {o})
  PROVE  [Cloud!Next]_(Cloud!vars)
<1>1. CASE Unclean' = Unclean
  BY <1>1 DEF Cloud!vars, Unclean
<1>2. CASE o \in Unclean /\ Unclean' = Unclean \ {o}
  <2>1. o \in Doc /\ o \in Doc \ Unclean'
    BY <1>2 DEF Unclean
  <2>2. server[o] = local[o]
    BY <2>1, CleanCopiesNext DEF CopiesAgree
  <2>3. Cloud!Settle(o)
    BY <1>2, <2>1, <2>2 DEF Cloud!Settle, Unclean
  <2> QED
    BY <2>1, <2>3 DEF Cloud!Next
<1> QED
  BY <1>1, <1>2

\* A method writes the object, or intends to: it is unclean from then on.
LEMMA CallStep ==
  ASSUME MInv, MInv', NEW o \in Doc, AddObject(o) \/ UpdateObject(o) \/ DeleteObject(o)
  PROVE  Cloud!Next
<1>1. /\ Idle /\ ~Idle' /\ handler'.obj \in Doc
      /\ UNCHANGED <<server, outbox, torn>>
      /\ \A d \in Doc \ {handler'.obj} : local'[d] = local[d]
  <2>1. CASE AddObject(o) \/ UpdateObject(o)
    <3>1. /\ Idle /\ handler'.obj = o /\ handler' # Nil
          /\ local' = [local EXCEPT ![o] = changes + 1]
          /\ UNCHANGED <<server, outbox, torn>>
      BY <2>1, NilIsNoRecord DEF AddObject, UpdateObject, Call, clientVars, history,
         Running, Steps, Methods
    <3> QED
      BY <3>1 DEF Idle, MInv, VersionInv
  <2>2. CASE DeleteObject(o)
    <3>1. PICK v \in NextVictims({o} \cup ShotsOf(o)) :
            handler' = [step |-> "begin", obj |-> v, how |-> "delete"]
      BY <2>2 DEF DeleteObject, DeleteNext
    <3>2. v \in Doc
      BY <3>1 DEF NextVictims, ShotsOf, Shot
    <3>3. Idle /\ UNCHANGED <<server, outbox, torn, local>>
      BY <2>2 DEF DeleteObject, Call, clientVars, history
    <3>4. handler' # Nil
      BY <3>1, <3>2, NilIsNoRecord DEF Running, Steps, Methods
    <3> QED
      BY <3>1, <3>2, <3>3, <3>4 DEF Idle
  <2> QED
    BY <2>1, <2>2
<1>2. Unclean' = Unclean \cup {handler'.obj}
  BY <1>1 DEF Unclean, Dirty, Busy, RecordsOf
<1>3. PICK S \in SUBSET Doc : S = {handler'.obj}
  BY <1>1
<1>4. local \in [Doc -> Versions] /\ local' \in [Doc -> Versions]
  BY DEF MInv, VersionInv
<1>5. /\ S # {} /\ Unclean' = Unclean \cup S /\ server' = server
      /\ \A d \in Doc \ S : local'[d] = local[d]
  BY <1>1, <1>2, <1>3
<1> QED
  BY <1>4, <1>5, EditStep

\* The object is gone from the phone, and the next one's turn comes.  Both have
\* been unclean since, or are from now on.
LEMMA EraseStep ==
  ASSUME MInv, MInv', Erase
  PROVE  Cloud!Next
<1>1. /\ ~Idle /\ handler.step = "erase"
      /\ local' = [local EXCEPT ![handler.obj] = Absent]
      /\ UNCHANGED <<server, outbox, torn>>
      /\ IF todo = {} THEN handler' = Nil ELSE DeleteNext(todo)
  BY DEF Erase, clientVars, history
<1>2. handler.obj \in Doc /\ RecordsOf(handler.obj) # {}
  BY <1>1 DEF MInv, IInv, IInvBut, TypeOK, MethodInv, Idle, Running, RecordsOf
<1>3. \A d \in Doc \ {handler.obj} : local'[d] = local[d]
  BY <1>1 DEF MInv, VersionInv
<1>4. local \in [Doc -> Versions] /\ local' \in [Doc -> Versions]
  BY DEF MInv, VersionInv
<1>5. CASE todo = {}
  <2>1. Unclean' = Unclean \cup {handler.obj}
    BY <1>1, <1>2, <1>5 DEF Unclean, Dirty, Busy, Idle, RecordsOf
  <2>2. PICK S \in SUBSET Doc : S = {handler.obj}
    BY <1>2
  <2>3. /\ S # {} /\ Unclean' = Unclean \cup S /\ server' = server
        /\ \A d \in Doc \ S : local'[d] = local[d]
    BY <1>1, <1>3, <2>1, <2>2
  <2> QED
    BY <1>4, <2>3, EditStep
<1>6. CASE todo # {}
  <2>1. PICK v \in NextVictims(todo) :
          handler' = [step |-> "begin", obj |-> v, how |-> "delete"]
    BY <1>1, <1>6 DEF DeleteNext
  <2>2. v \in Doc
    BY <2>1 DEF NextVictims, MInv, IInv, IInvBut, TypeOK
  <2>3. handler' # Nil /\ handler'.obj = v
    BY <2>1, <2>2, NilIsNoRecord DEF Running, Steps, Methods
  <2>4. Unclean' = Unclean \cup {handler.obj, v}
    BY <1>1, <1>2, <2>2, <2>3 DEF Unclean, Dirty, Busy, Idle, RecordsOf
  <2>5. PICK S \in SUBSET Doc : S = {handler.obj, v}
    BY <1>2, <2>2
  <2>6. /\ S # {} /\ Unclean' = Unclean \cup S /\ server' = server
        /\ \A d \in Doc \ S : local'[d] = local[d]
    BY <1>1, <1>3, <2>4, <2>5
  <2> QED
    BY <1>4, <2>6, EditStep
<1> QED
  BY <1>5, <1>6

\* Recording a change, old records first, leaves its object unclean.
LEMMA RecordStep ==
  ASSUME MInv, MInv', DropRecord \/ AddRecord
  PROVE  [Cloud!Next]_(Cloud!vars)
<1>1. ~Idle /\ handler.obj \in Doc /\ UNCHANGED <<server, local>>
  BY DEF DropRecord, AddRecord, clientVars, MInv, IInv, IInvBut, TypeOK, Idle, Running
<1>2. handler.obj \in Unclean
  BY <1>1 DEF Unclean, Dirty, Busy
<1>3. CASE DropRecord
  <2>1. PICK r \in RecordsOf(handler.obj) : outbox' = outbox \ {r}
    BY <1>3 DEF DropRecord
  <2>2. handler' = [handler EXCEPT !.step = "dropped"] /\ torn' = torn
    BY <1>3 DEF DropRecord
  <2>3. handler' # Nil /\ handler'.obj = handler.obj
    BY <1>1, <2>2, NilIsNoRecord DEF MInv, IInv, IInvBut, TypeOK, Idle, Running, Steps
  <2>4. \A d \in Doc \ {handler.obj} : RecordsOf(d)' = RecordsOf(d)
    BY <2>1 DEF RecordsOf
  <2>5. Unclean' = Unclean
    BY <1>1, <1>2, <2>2, <2>3, <2>4 DEF Unclean, Dirty, Busy, Idle
  <2> QED
    BY <1>1, <2>5 DEF Cloud!vars, Unclean
<1>4. CASE AddRecord
  <2>1. PICK new : /\ new.obj = handler.obj
                  /\ outbox' = outbox \cup {new}
                  /\ torn' = torn \ {handler.obj}
                  /\ \/ handler' = Nil
                     \/ handler' = [handler EXCEPT !.step = "erase"]
    <3> WITNESS [obj |-> handler.obj, how |-> handler.how, id |-> changes]
    <3> QED
      BY <1>4 DEF AddRecord
  <2>2. handler' # Nil => handler'.obj = handler.obj
    BY <1>1, <2>1 DEF MInv, IInv, IInvBut, TypeOK, Idle, Running
  <2>3. \A d \in Doc \ {handler.obj} :
          {r \in outbox' : r.obj = d} = {r \in outbox : r.obj = d}
    BY <2>1
  <2>4. \A d \in Doc \ {handler.obj} : Dirty(d)' <=> Dirty(d)
    BY <1>1, <2>1, <2>2, <2>3 DEF Dirty, Busy, Idle, RecordsOf
  <2>5. {r \in outbox' : r.obj = handler.obj} # {}
    BY <2>1
  <2>6. \A d \in Doc : (d \in Unclean') <=> (d \in Unclean)
    BY <1>1, <1>2, <2>4, <2>5 DEF Unclean, Dirty, RecordsOf
  <2>7. Unclean' = Unclean
    BY <2>6 DEF Unclean
  <2> QED
    BY <1>1, <2>7 DEF Cloud!vars, Unclean
<1> QED
  BY <1>3, <1>4

\* The completion block that deletes a record is the only one to make an object
\* clean, and by then the cloud has its version.
LEMMA OnWriteDoneStep ==
  ASSUME MInv, MInv', OnWriteDone
  PROVE  [Cloud!Next]_(Cloud!vars)
<1>1. PICK r : /\ outbox' = outbox \/ outbox' = outbox \ {r}
               /\ UNCHANGED <<server, local, handler, torn>>
  BY Zenon DEF OnWriteDone, mainVars
<1>2. \A d : d # r.obj =>
        {q \in outbox' : q.obj = d} = {q \in outbox : q.obj = d}
  BY <1>1
<1>3. {q \in outbox' : q.obj = r.obj} \subseteq {q \in outbox : q.obj = r.obj}
  BY <1>1
<1>4. \A d \in Doc : d # r.obj => (d \in Unclean' <=> d \in Unclean)
  BY <1>1, <1>2 DEF Unclean, Dirty, Busy, Idle, RecordsOf
<1>5. r.obj \in Unclean' => r.obj \in Unclean
  BY <1>1, <1>3 DEF Unclean, Dirty, Busy, Idle, RecordsOf
<1>6. PICK o : o = r.obj
  OBVIOUS
<1>7. Unclean \subseteq Doc /\ Unclean' \subseteq Doc
  BY DEF Unclean
<1>8. Unclean' = Unclean \/ (o \in Unclean /\ Unclean' = Unclean \ {o})
  BY <1>4, <1>5, <1>6, <1>7
<1> QED
  BY <1>1, <1>8, SettleStep DEF MInv

\* A write that the server applies changes an unclean object, or nothing.
LEMMA ApplyStep ==
  ASSUME MInv, MInv', ClientApply
  PROVE  [Cloud!Next]_(Cloud!vars)
<1> DEFINE w == queue[applied + 1]
<1>1. /\ applied < persisted
      /\ server' = [server EXCEPT ![w.doc] = w.val]
      /\ UNCHANGED <<local, outbox, handler, torn>>
  BY DEF ClientApply, Apply, appVars, localVars, mainVars, history
<1>2. Unclean' = Unclean
  BY <1>1 DEF Unclean, Dirty, Busy, Idle, RecordsOf
<1>3. applied + 1 \in 1 .. Len(queue)
  BY <1>1, LenProperties DEF MInv, IInv, IInvBut, TypeOK
<1>4. w.doc \in Doc /\ w.val \in Versions
  BY <1>3, QueueElements DEF MInv, IInv, IInvBut, TypeOK, VersionInv, Entry
<1>5. CASE w.doc \in Unclean
  <2>1. Cloud!Push(w.doc)
    BY <1>1, <1>2, <1>4, <1>5 DEF Cloud!Push, Unclean, Versions
  <2> QED
    BY <1>4, <2>1 DEF Cloud!Next
<1>6. CASE w.doc \notin Unclean
  <2>1. server[w.doc] = local[w.doc] /\ w.val = local[w.doc]
    BY <1>3, <1>4, <1>6, CleanCopies DEF MInv, Heading
  <2>2. server' = server
    BY <1>1, <2>1 DEF MInv, VersionInv
  <2> QED
    BY <1>1, <1>2, <2>2 DEF Cloud!vars, Unclean
<1> QED
  BY <1>5, <1>6

\* A kill forgets a method that has not begun to delete: its object is clean
\* again, and the copies are still the same.  Everything else it leaves dirty.
LEMMA KillStep ==
  ASSUME MInv, MInv', KillAndRelaunch
  PROVE  [Cloud!Next]_(Cloud!vars)
<1>1. /\ handler' = Nil /\ torn' = torn \cup TornBy(handler)
      /\ UNCHANGED <<server, local, outbox>>
  BY DEF KillAndRelaunch, localVars
<1>2. TornBy(handler) \subseteq IF Idle THEN {} ELSE {handler.obj}
  BY DEF TornBy, Idle
<1>3. CASE Idle
  <2>1. Unclean' = Unclean
    BY <1>1, <1>2, <1>3 DEF Unclean, Dirty, Busy, Idle, RecordsOf
  <2> QED
    BY <1>1, <2>1 DEF Cloud!vars, Unclean
<1>4. CASE ~Idle
  <2>1. handler.obj \in Doc
    BY <1>4 DEF MInv, IInv, IInvBut, TypeOK, Idle, Running
  <2>2. handler.obj \in Unclean
    BY <1>4, <2>1 DEF Unclean, Dirty, Busy
  <2>3. \A d \in Doc \ {handler.obj} : Dirty(d)' <=> Dirty(d)
    BY <1>1, <1>2, <1>4 DEF Dirty, Busy, Idle, RecordsOf
  <2>4. Unclean' = Unclean \/ Unclean' = Unclean \ {handler.obj}
    BY <2>1, <2>2, <2>3 DEF Unclean
  <2> QED
    BY <1>1, <2>2, <2>4, SettleStep DEF MInv
<1> QED
  BY <1>3, <1>4

\* The network and the SDK's bookkeeping change nothing the promise speaks of.
LEMMA SilentStep ==
  ASSUME UNCHANGED <<server, local, outbox, handler, torn>>
  PROVE  UNCHANGED Cloud!vars
BY DEF Cloud!vars, Dirty, Busy, Idle, RecordsOf

LEMMA Simulation ==
  ASSUME MInv, MInv', [Next]_vars
  PROVE  [Cloud!Next]_(Cloud!vars)
<1>1. ASSUME NEW o \in Doc, AddObject(o) \/ UpdateObject(o) \/ DeleteObject(o)
      PROVE  [Cloud!Next]_(Cloud!vars)
  BY <1>1, CallStep
<1>2. CASE Handlers
  BY <1>2, RecordStep, EraseStep DEF Handlers
<1>3. CASE LinkChange \/ NetworkNotified \/ NetworkMisreported
  <2>1. UNCHANGED <<server, local, outbox, handler, torn>>
    BY <1>3 DEF LinkChange, NetworkNotified, NetworkMisreported, Notified, localVars,
       mainVars, history
  <2> QED
    BY <2>1, SilentStep
<1>4. CASE ClientPersist \/ ClientAck \/ ClientReject
  <2>1. UNCHANGED <<server, local, outbox, handler, torn>>
    BY <1>4, Zenon DEF ClientPersist, Persist, ClientAck, Acknowledge, ClientReject, Reject,
       appVars, localVars, mainVars, history
  <2> QED
    BY <2>1, SilentStep
<1>5. CASE UNCHANGED vars
  BY <1>5, SilentStep DEF vars, clientVars, localVars, mainVars, history
<1> QED
  BY <1>1, <1>2, <1>3, <1>4, <1>5, OnWriteDoneStep, ApplyStep, KillStep DEF Next

\* DataServiceManager implements Mirror: what the user is promised of the cloud
\* copy is kept by every interleaving of the methods, the completion blocks, the
\* network's closures and the kills.
THEOREM Implements == Spec => ImplementsMirror
<1>1. Init => Cloud!Init
  <2> SUFFICES ASSUME Init
               PROVE  Cloud!Init
    OBVIOUS
  <2>1. local = [o \in Doc |-> Absent] /\ server = local
    BY DEF Init, ClientInit
  <2>2. Unclean = {}
    BY DEF Init, Unclean, Dirty, Busy, Idle, RecordsOf
  <2>3. Absent \in 0 .. MaxChanges
    BY BoundAssumption DEF Absent
  <2> QED
    BY <2>1, <2>2, <2>3 DEF Cloud!Init, Unclean
<1>2. Init => VersionInv
  BY BoundAssumption DEF Init, ClientInit, VersionInv, Versions, Absent
<1>3. VersionInv /\ IInv /\ IInv' /\ [Next]_vars => VersionInv'
  BY VersionNext DEF MInv
<1>4. IInv /\ IInv' /\ VersionInv /\ VersionInv' /\ [Next]_vars
        => [Cloud!Next]_(Cloud!vars)
  <2>1. IInv' /\ VersionInv' => MInv'
    BY DEF MInv
  <2> QED
    BY <2>1, Simulation DEF MInv
<1> QED
  BY <1>1, <1>2, <1>3, <1>4, Invariance, PTL DEF Spec, ImplementsMirror, Cloud!Spec

-----------------------------------------------------------------------------
(***************************************************************************)
(* The restore.  The parts of the inductive invariant.                     *)
(***************************************************************************)

\* The answer of a fetch of c.
AnswerOf(c) == [coll : {c}, docs : [c -> Nat], ok : BOOLEAN, told : SUBSET c]
FetchAnswer == UNION {AnswerOf(c) : c \in Collections}

\* A restore may still come.
Fetching == asked # {} \/ answers # <<>> \/ alert \in {"shown", "half"}

\* A collection is asked for, then answered, then found, one after the other;
\* the question comes when both are found.
AskedInv ==
  /\ asked \in SUBSET Collections /\ answers \in Seq(FetchAnswer)
  /\ since \in SUBSET Doc /\ adrift \in SUBSET Doc
  /\ alert \in {"none", "shown", "half"}
  /\ \A c \in Collections :
       /\ found[c] # Nil => found[c] \in AnswerOf(c) /\ c \notin asked
       /\ \A i \in 1 .. Len(answers) : answers[i].coll = c =>
            c \notin asked /\ found[c] = Nil
  /\ found \in [Collections -> FetchAnswer \cup {Nil}]
  /\ \A i, j \in 1 .. Len(answers) : answers[i].coll = answers[j].coll => i = j
  /\ alert \in {"shown", "half"} =>
       asked = {} /\ answers = <<>> /\ \A c \in Collections : found[c] # Nil
  /\ alert = "half" => Idle

\* Until then the phone has nothing but what was added since the check, and the
\* first half of the restore.
EmptyInv ==
  Fetching => \A o \in Doc \ since :
    /\ RecordsOf(o) = {} /\ ~Busy(o) /\ o \notin todo
    /\ local[o] = Absent \/ (alert = "half" /\ o \in Report)

\* An answer is still true of the documents it was told of, but for those added
\* since; of the others it has none that the phone ever had.
Quiet(d) == \A i \in 1 .. Len(queue) : queue[i].doc # d
Truth(a) ==
  \A d \in a.coll \ since :
    /\ d \in a.told => server[d] = a.docs[d] /\ Quiet(d)
    /\ d \notin a.told \cup adrift \cup torn => a.docs[d] = Absent
TruthInv ==
  Fetching =>
    /\ \A i \in 1 .. Len(answers) : answers[i].ok => Truth(answers[i])
    /\ \A c \in Collections : found[c] # Nil => Truth(found[c])

\* Whatever exists anywhere has an identifier that was given out.
Known(a) == \A d \in a.coll : a.docs[d] # Absent => d \in used
UsedInv ==
  /\ \A d \in Doc : server[d] # Absent => d \in used
  /\ \A i \in 1 .. Len(queue) : queue[i].val # Absent => queue[i].doc \in used
  /\ \A i \in 1 .. Len(answers) : Known(answers[i])
  /\ \A c \in Collections : found[c] # Nil => Known(found[c])

RestoreInv == IInvBut(adrift) /\ AskedInv /\ EmptyInv /\ TruthInv /\ UsedInv

-----------------------------------------------------------------------------
(***************************************************************************)
(* What a query sees, and what a step of DataServiceManager can write.     *)
(***************************************************************************)

LEMMA CollectionFacts ==
  /\ \A c \in Collections : c \subseteq Doc
  /\ \A d \in Doc : \E c \in Collections : d \in c
  /\ Report \cap Shot = {} /\ Report \in Collections /\ Shot \in Collections
BY ReportAssumption DEF Collections, Shot

\* A set of positions has a last one.
LEMMA LastOfSome ==
  ASSUME NEW n \in Nat, NEW T \in SUBSET (1 .. n), T # {}
  PROVE  \E i \in T : \A j \in T : j <= i
<1> DEFINE R == OpToRel(<, Nat)
           D == {n - i : i \in T}
<1>1. IsWellFoundedOn(R, Nat)
  BY NatLessThanWellFounded
<1>2. \A x, y \in Nat : y < x => <<y, x>> \in R
  BY DEF OpToRel
<1> HIDE DEF R
<1>3. D \subseteq Nat /\ D # {}
  <2>1. PICK i \in T : TRUE
    OBVIOUS
  <2>2. n - i \in D
    BY <2>1
  <2>3. \A j \in T : n - j \in Nat
    OBVIOUS
  <2> QED
    BY <2>2, <2>3
<1> HIDE DEF D
<1>4. PICK x \in D : \A y \in D : <<y, x>> \notin R
  BY <1>1, <1>3, WFMin
<1> USE DEF D
<1>5. PICK i \in T : x = n - i
  OBVIOUS
<1>6. ASSUME NEW j \in T
      PROVE  j <= i
  <2>1. n - j \in D /\ n - j \in Nat /\ x \in Nat
    OBVIOUS
  <2>2. ~(n - j < x)
    BY <1>2, <1>4, <2>1
  <2> QED
    BY <1>5, <2>2
<1> QED
  BY <1>6

\* A query sees what its source has, or a write that waits.
LEMMA SeenFacts ==
  ASSUME TypeOK, NEW source, NEW d \in Doc
  PROVE  \/ Seen(source, d) = source[d]
         \/ \E i \in 1 .. Len(queue) : queue[i].doc = d /\ Seen(source, d) = queue[i].val
<1> DEFINE mine == {i \in 1 .. persisted : queue[i].doc = d}
           last == CHOOSE i \in mine : \A j \in mine : j <= i
<1>1. Seen(source, d) = IF mine = {} THEN source[d] ELSE queue[last].val
  BY DEF Seen
<1>2. persisted \in Nat /\ persisted <= Len(queue) /\ Len(queue) \in Nat
  BY QueueElements DEF TypeOK
<1>3. CASE mine # {}
  <2>1. \E i \in mine : \A j \in mine : j <= i
    BY <1>2, <1>3, LastOfSome
  <2>2. last \in mine
    BY <2>1
  <2>3. last \in 1 .. Len(queue) /\ queue[last].doc = d
    BY <1>2, <2>2
  <2> HIDE DEF last, mine
  <2> QED
    BY <1>1, <1>3, <2>3
<1> QED
  BY <1>1, <1>3

\* A write that waits after a step waited before, or is of a record; the server
\* takes nothing but what waits.
Grown ==
  /\ \A i \in 1 .. Len(queue') :
       \/ \E k \in 1 .. Len(queue) :
            queue'[i].doc = queue[k].doc /\ queue'[i].val = queue[k].val
       \/ \E r \in outbox' :
            queue'[i].doc = r.obj /\ queue'[i].val = Wanted(r)'
  /\ \A d \in Doc :
       \/ server'[d] = server[d]
       \/ \E k \in 1 .. Len(queue) : queue[k].doc = d /\ server'[d] = queue[k].val

LEMMA MergeGrows ==
  ASSUME TypeOK, NEW online, NEW records, records = outbox', IsFiniteSet(records),
         records \subseteq Record, NEW pending \in Seq(Entry),
         Len(pending) <= Len(queue),
         \A i \in 1 .. Len(pending) :
           pending[i].doc = queue[i].doc /\ pending[i].val = queue[i].val,
         CheckAndMerge(online, pending, records), UNCHANGED <<server, local>>
  PROVE  Grown
<1>1. local \in [Doc -> Nat] /\ records \in SUBSET Record /\ Len(queue) \in Nat
  BY QueueElements DEF TypeOK
<1>2. /\ queue' \in Seq(Entry) /\ Len(queue') >= Len(pending)
      /\ \A i \in 1 .. Len(pending) : queue'[i] = pending[i]
      /\ \A i \in 1 .. Len(queue') : i > Len(pending) =>
           \E r \in records : queue'[i] = Send(r)
  BY <1>1, MergeFacts, Zenon
<1>3. Len(queue') \in Nat /\ Len(pending) \in Nat
  BY <1>2, LenProperties
<1>4. ASSUME NEW i \in 1 .. Len(queue')
      PROVE  \/ \E k \in 1 .. Len(queue) :
                  queue'[i].doc = queue[k].doc /\ queue'[i].val = queue[k].val
             \/ \E r \in outbox' :
                  queue'[i].doc = r.obj /\ queue'[i].val = Wanted(r)'
  <2>1. CASE i <= Len(pending)
    BY <1>1, <1>2, <1>3, <2>1
  <2>2. CASE i > Len(pending)
    <3>1. PICK r \in records : queue'[i] = Send(r)
      BY <1>2, <2>2
    <3> QED
      BY <3>1, SendFields DEF Wanted
  <2> QED
    BY <1>1, <1>3, <2>1, <2>2
<1> QED
  BY <1>4 DEF Grown

LEMMA StepGrows ==
  ASSUME TypeOK, TypeOK', [Next]_vars
  PROVE  Grown
<1>1. /\ Len(queue) \in Nat /\ queue \in Seq(Entry) /\ outbox' \subseteq Record
      /\ IsFiniteSet(outbox') /\ outbox \subseteq Record
      /\ IsFiniteSet(outbox) /\ persisted \in 0 .. Len(queue) /\ applied \in 0 .. persisted
      /\ server \in [Doc -> Nat] /\ \A i \in 1 .. Len(queue) : queue[i] \in Entry
  BY QueueElements DEF TypeOK
<1>2. ASSUME UNCHANGED <<server, queue>>
      PROVE  Grown
  BY <1>2 DEF Grown
<1>3. CASE AddRecord
  <2>1. CheckAndMerge(available, queue, outbox') /\ UNCHANGED <<server, local>>
    BY <1>3 DEF AddRecord
  <2> QED
    BY <1>1, <2>1, MergeGrows
<1>4. CASE NetworkNotified \/ NetworkMisreported
  <2>1. PICK online : Notified(online)
    BY <1>4, Zenon DEF NetworkNotified, NetworkMisreported
  <2>2. /\ CheckAndMerge(online, queue, outbox) /\ outbox' = outbox
        /\ UNCHANGED <<server, local>>
    BY <2>1 DEF Notified, localVars
  <2> QED
    BY <1>1, <2>2, MergeGrows
<1>5. CASE KillAndRelaunch
  <2>1. /\ CheckAndMerge(link, Restored, outbox) /\ outbox' = outbox
        /\ UNCHANGED <<server, local>>
    BY <1>5 DEF KillAndRelaunch, localVars
  <2>2. PICK pending : pending = Restored
    OBVIOUS
  <2>3. /\ pending \in Seq(Entry) /\ Len(pending) = persisted
        /\ \A i \in 1 .. persisted : /\ pending[i].doc = queue[i].doc
                                     /\ pending[i].val = queue[i].val
    BY <1>1, <2>2, RestoredFacts
  <2>4. Len(pending) <= Len(queue)
    BY <1>1, <2>3
  <2> QED
    BY <1>1, <2>1, <2>2, <2>3, <2>4, MergeGrows
<1>6. CASE ClientApply
  <2>1. /\ applied < persisted /\ queue' = queue
        /\ server' = [server EXCEPT ![queue[applied + 1].doc] = queue[applied + 1].val]
    BY <1>6 DEF ClientApply, Apply
  <2>2. applied + 1 \in 1 .. Len(queue)
    BY <1>1, <2>1
  <2>3. \A d \in Doc : server'[d] = server[d]
          \/ (queue[applied + 1].doc = d /\ server'[d] = queue[applied + 1].val)
    BY <1>1, <2>1
  <2> QED
    BY <2>1, <2>2, <2>3 DEF Grown
<1>7. CASE ClientAck \/ ClientReject
  <2>1. /\ server' = server /\ persisted > 0
        /\ \E ok \in BOOLEAN : Finish(ok)
    <3>1. CASE ClientAck
      <4>1. Finish(TRUE) /\ TRUE \in BOOLEAN
        BY <3>1, Zenon DEF ClientAck, Acknowledge
      <4>2. applied > 0 /\ server' = server
        BY <3>1 DEF ClientAck, Acknowledge
      <4>3. persisted > 0
        BY <1>1, <4>2
      <4> QED
        BY <4>1, <4>2, <4>3, Zenon
    <3>2. CASE ClientReject
      BY <1>1, <3>2 DEF ClientReject, Reject
    <3> QED
      BY <1>7, <3>1, <3>2
  <2>2. /\ Len(queue') = Len(queue) - 1
        /\ \A i \in 1 .. Len(queue') : queue'[i] = queue[i + 1]
    BY <2>1, FinishFacts, Zenon
  <2>3. \A i \in 1 .. Len(queue') : i + 1 \in 1 .. Len(queue)
    BY <1>1, <2>2
  <2> QED
    BY <2>1, <2>2, <2>3 DEF Grown
<1>8. CASE \E o \in Doc : AddObject(o) \/ UpdateObject(o) \/ DeleteObject(o)
  BY <1>2, <1>8 DEF AddObject, UpdateObject, DeleteObject, Call, clientVars
<1>9. CASE DropRecord \/ Erase \/ OnWriteDone \/ LinkChange \/ ClientPersist
  BY <1>2, <1>9 DEF DropRecord, Erase, OnWriteDone, LinkChange, ClientPersist, Persist,
     clientVars
<1>10. CASE UNCHANGED vars
  BY <1>2, <1>10 DEF vars, clientVars
<1> QED
  BY <1>3, <1>4, <1>5, <1>6, <1>7, <1>8, <1>9, <1>10 DEF Next, Handlers

-----------------------------------------------------------------------------
(***************************************************************************)
(* What a step of DataServiceManager does to an answer.                    *)
(***************************************************************************)

\* What waits or is applied beside an answer is of objects added since.
LEMMA TruthKept ==
  ASSUME Grown, since \subseteq since',
         \A r \in outbox' : r.obj \in since',
         \A d \in Doc \ since' : /\ d \in adrift' <=> d \in adrift
                                 /\ d \in torn' <=> d \in torn,
         NEW a, a.coll \subseteq Doc, Truth(a)
  PROVE  Truth(a)'
<1> SUFFICES ASSUME NEW d \in a.coll \ since'
             PROVE  /\ d \in a.told => server'[d] = a.docs[d] /\ Quiet(d)'
                    /\ d \notin a.told \cup adrift' \cup torn' => a.docs[d] = Absent
  BY DEF Truth
<1>1. d \in Doc \ since' /\ d \in a.coll \ since
  OBVIOUS
<1>2. Quiet(d) => Quiet(d)' /\ server'[d] = server[d]
  BY <1>1 DEF Quiet, Grown
<1>3. /\ d \in a.told => server[d] = a.docs[d] /\ Quiet(d)
      /\ d \notin a.told \cup adrift \cup torn => a.docs[d] = Absent
  BY <1>1 DEF Truth
<1> QED
  BY <1>1, <1>2, <1>3

\* What is written was on the phone.
LEMMA UsedKept ==
  ASSUME TypeOK, UsedInv, Grown, used \subseteq used',
         \A r \in outbox' : r.obj \in used',
         \A d \in Doc : local'[d] # Absent => d \in used',
         answers' = answers \/ answers' = <<>>,
         \A c \in Collections : found'[c] = found[c] \/ found'[c] = Nil
  PROVE  UsedInv'
<1>1. \A d \in Doc : server'[d] # Absent => d \in used'
  BY DEF UsedInv, Grown
<1>2. ASSUME NEW i \in 1 .. Len(queue'), queue'[i].val # Absent
      PROVE  queue'[i].doc \in used'
  BY <1>2 DEF UsedInv, Grown, Wanted
<1>3. ASSUME NEW i \in 1 .. Len(answers'), NEW d \in answers'[i].coll,
             answers'[i].docs[d] # Absent
      PROVE  d \in used'
  <2>1. answers' = answers
    BY EmptySeq
  <2> QED
    BY <1>3, <2>1 DEF UsedInv, Known
<1>4. ASSUME NEW c \in Collections, found'[c] # Nil, NEW d \in found'[c].coll,
             found'[c].docs[d] # Absent
      PROVE  d \in used'
  BY <1>4 DEF UsedInv, Known
<1> QED
  BY <1>1, <1>2, <1>3, <1>4 DEF UsedInv, Known

\* The collections of the answers.
LEMMA AnswerFacts ==
  ASSUME AskedInv
  PROVE  /\ Len(answers) \in Nat /\ DOMAIN answers = 1 .. Len(answers)
         /\ \A i \in 1 .. Len(answers) :
              /\ answers[i] \in FetchAnswer /\ answers[i].coll \in Collections
              /\ answers[i] \in AnswerOf(answers[i].coll)
         /\ \A c \in Collections : found[c] # Nil =>
              found[c].coll = c /\ found[c].docs \in [c -> Nat] /\ found[c].told \subseteq c
<1>1. answers \in Seq(FetchAnswer)
  BY DEF AskedInv
<1>2. /\ Len(answers) \in Nat /\ DOMAIN answers = 1 .. Len(answers)
      /\ \A i \in 1 .. Len(answers) : answers[i] \in FetchAnswer
  BY <1>1, LenProperties, ElementOfSeq
<1>3. \A a \in FetchAnswer : a.coll \in Collections /\ a \in AnswerOf(a.coll)
  BY DEF FetchAnswer, AnswerOf
<1>4. \A c \in Collections : found[c] # Nil =>
        found[c].coll = c /\ found[c].docs \in [c -> Nat] /\ found[c].told \subseteq c
  BY DEF AskedInv, AnswerOf
<1> QED
  BY <1>2, <1>3, <1>4

\* A step of DataServiceManager while the app runs: what is left to show is that
\* only objects added since the check are touched.
LEMMA RunningKept ==
  ASSUME RestoreInv, [Next]_vars, UNCHANGED <<captured, alert>>,
         since \subseteq since', since' \in SUBSET Doc, adrift' \in SUBSET Doc,
         IInvBut(adrift)', EmptyInv', used \subseteq used',
         Fetching => \A d \in Doc \ since' : /\ d \in adrift' <=> d \in adrift
                                             /\ d \in torn' <=> d \in torn,
         alert = "half" => handler' = Nil
  PROVE  RestoreInv'
<1>1. /\ TypeOK /\ TypeOK' /\ MethodInv' /\ AskedInv /\ EmptyInv /\ TruthInv /\ UsedInv
  BY DEF RestoreInv, IInvBut
<1>2. Grown
  BY <1>1, StepGrows
<1>3. AskedInv'
  BY <1>1 DEF AskedInv, captured, Idle
<1>4. UsedInv'
  BY <1>1, <1>2, UsedKept DEF MethodInv, captured
<1>5. Fetching' <=> Fetching
  BY DEF Fetching, captured
<1>6. TruthInv'
  <2> SUFFICES ASSUME Fetching
               PROVE  /\ \A i \in 1 .. Len(answers) : answers[i].ok => Truth(answers[i])'
                      /\ \A c \in Collections : found[c] # Nil => Truth(found[c])'
    BY <1>5 DEF TruthInv, captured, Truth, Quiet
  <2>1. ASSUME NEW r \in outbox'
        PROVE  r.obj \in since'
    <3>1. r \in Record /\ r.obj \in Doc
      BY <1>1 DEF TypeOK, Record
    <3>2. r \in RecordsOf(r.obj)'
      BY DEF RecordsOf
    <3> QED
      BY <1>5, <3>1, <3>2 DEF EmptyInv
  <2>2. ASSUME NEW i \in 1 .. Len(answers), answers[i].ok
        PROVE  Truth(answers[i])'
    <3>1. PICK a : a = answers[i]
      OBVIOUS
    <3>2. a.coll \subseteq Doc /\ Truth(a)
      BY <1>1, <2>2, <3>1, AnswerFacts, CollectionFacts DEF TruthInv
    <3>3. Truth(a)'
      BY <1>2, <2>1, <3>2, TruthKept
    <3> QED
      BY <3>1, <3>3 DEF captured, Truth, Quiet
  <2>3. ASSUME NEW c \in Collections, found[c] # Nil
        PROVE  Truth(found[c])'
    <3>1. PICK a : a = found[c]
      OBVIOUS
    <3>2. a.coll \subseteq Doc /\ Truth(a)
      BY <1>1, <2>3, <3>1, AnswerFacts, CollectionFacts DEF TruthInv
    <3>3. Truth(a)'
      BY <1>2, <2>1, <3>2, TruthKept
    <3> QED
      BY <3>1, <3>3 DEF captured, Truth, Quiet
  <2> QED
    BY <2>2, <2>3
<1> QED
  BY <1>3, <1>4, <1>6 DEF RestoreInv

-----------------------------------------------------------------------------
(***************************************************************************)
(* The fetches, their answers and the question.                            *)
(***************************************************************************)

\* Nothing of DataServiceManager's moves.
LEMMA StillKeepsIInv ==
  ASSUME IInvBut(adrift), TypeOK', adrift' = adrift,
         UNCHANGED <<clientVars, localVars, mainVars, link, changes, history>>
  PROVE  IInvBut(adrift)'
<1>1. PICK A : A = adrift
  OBVIOUS
<1>2. IInvBut(A)'
  BY <1>1, CursorKeepsIInv DEF clientVars, localVars, mainVars, history
<1> QED
  BY <1>1, <1>2 DEF IInvBut, DeletedIsGone, OrderInv, AnswerInv, UntouchedIsMirrored

\* While it is asked for, the phone has none of it, and what the phone may ever
\* have had of it the server does not have.
LEMMA AskedIsAbsent ==
  ASSUME RestoreInv, asked # {}, NEW d \in Doc \ since, d \notin adrift \cup torn
  PROVE  server[d] = Absent /\ Heading(queue, d, Absent)
<1>1. alert # "half" /\ Fetching
  BY DEF RestoreInv, AskedInv, Fetching
<1>2. RecordsOf(d) = {} /\ ~Busy(d) /\ local[d] = Absent
  BY <1>1 DEF RestoreInv, EmptyInv
<1>3. Untouched(d)
  BY <1>2 DEF Untouched
<1> QED
  BY <1>2, <1>3 DEF RestoreInv, IInvBut, UntouchedIsMirrored

\* What a fetch was told, of the documents that no write waits for, and of
\* those that are gone.
AnswerIsSound(c, docs, known) ==
  \A d \in c :
    /\ d \in known /\ Quiet(d) => docs[d] = server[d]
    /\ server[d] = Absent /\ Heading(queue, d, Absent) => docs[d] = Absent

LEMMA AnswerKeeps ==
  ASSUME RestoreInv, TypeOK', NEW c \in Collections, NEW docs \in [c -> Nat],
         NEW known \in SUBSET c, NEW ok \in BOOLEAN, Answer(c, docs, known, ok),
         \A d \in c : docs[d] # Absent => d \in used,
         ok => AnswerIsSound(c, docs, known)
  PROVE  RestoreInv'
<1> USE DEF AnswerIsSound
<1> DEFINE told == {d \in known : \A i \in DOMAIN queue : queue[i].doc # d}
           new == [coll |-> c, docs |-> docs, ok |-> ok, told |-> told]
<1>1. /\ TypeOK /\ IInvBut(adrift) /\ AskedInv /\ EmptyInv /\ TruthInv /\ UsedInv
      /\ answers \in Seq(FetchAnswer)
  BY DEF RestoreInv, IInvBut, AskedInv
<1>2. /\ c \in asked /\ asked' = asked \ {c} /\ answers' = Append(answers, new)
      /\ UNCHANGED <<clientVars, localVars, mainVars, link, changes, history, found,
                     alert, adrift, since>>
  BY DEF Answer, histories
<1>3. UNCHANGED <<server, queue, local, outbox, used, handler, todo, torn>>
  BY <1>2 DEF clientVars, localVars, mainVars, history
<1>4. new \in FetchAnswer /\ new.coll = c
  BY DEF FetchAnswer, AnswerOf
<1>5. told \subseteq c /\ \A d \in told : Quiet(d)
  <2>1. DOMAIN queue = 1 .. Len(queue)
    BY <1>1, LenProperties DEF TypeOK
  <2> QED
    BY <2>1 DEF Quiet
<1>6. /\ new.docs = docs /\ new.ok = ok /\ new.told = told
  OBVIOUS
<1> HIDE DEF told, new
<1>7. /\ answers' \in Seq(FetchAnswer) /\ Len(answers') = Len(answers) + 1
      /\ \A i \in 1 .. Len(answers) : answers'[i] = answers[i]
      /\ answers'[Len(answers) + 1] = new
  <2>1. /\ Append(answers, new) \in Seq(FetchAnswer)
        /\ Len(Append(answers, new)) = Len(answers) + 1
        /\ \A i \in 1 .. Len(answers) : Append(answers, new)[i] = answers[i]
        /\ Append(answers, new)[Len(answers) + 1] = new
    BY <1>1, <1>4, AppendProperties
  <2> QED
    BY <1>2, <2>1
<1>8. Len(answers) \in Nat
  BY <1>1, AnswerFacts
<1>9. \A i \in 1 .. Len(answers') :
        \/ i \in 1 .. Len(answers) /\ answers'[i] = answers[i]
        \/ i = Len(answers) + 1 /\ answers'[i] = new
  BY <1>7, <1>8
<1>10. IInvBut(adrift)'
  BY <1>1, <1>2, StillKeepsIInv
<1>11. AskedInv'
  <2>1. found[c] = Nil /\ \A i \in 1 .. Len(answers) : answers[i].coll # c
    BY <1>1, <1>2 DEF AskedInv
  <2>2. alert = "none"
    BY <1>1, <1>2 DEF AskedInv
  <2> QED
    BY <1>1, <1>2, <1>4, <1>7, <1>9, <2>1, <2>2 DEF AskedInv
<1>12. EmptyInv'
  BY <1>1, <1>2, <1>3 DEF EmptyInv, Fetching, RecordsOf, Busy, Idle
<1>13. TruthInv'
  <2>1. Fetching
    BY <1>2 DEF Fetching
  <2>2. Truth(new) \/ ~ok
    <3> SUFFICES ASSUME ok, NEW d \in c \ since
                 PROVE  /\ d \in told => server[d] = docs[d] /\ Quiet(d)
                        /\ d \notin told \cup adrift \cup torn => docs[d] = Absent
      BY <1>4, <1>6 DEF Truth
    <3>1. d \in told => server[d] = docs[d] /\ Quiet(d)
      BY <1>5 DEF told
    <3>2. d \notin adrift \cup torn => docs[d] = Absent
      BY <1>2, AskedIsAbsent, CollectionFacts
    <3> QED
      BY <3>1, <3>2
  <2> QED
    BY <1>1, <1>2, <1>3, <1>6, <1>9, <2>1, <2>2 DEF TruthInv, Truth, Quiet
<1>14. UsedInv'
  BY <1>1, <1>2, <1>3, <1>4, <1>6, <1>9 DEF UsedInv, Known
<1> QED
  BY <1>10, <1>11, <1>12, <1>13, <1>14 DEF RestoreInv

\* A query of a source that has nothing but what the server has.
LEMMA QueryKeeps ==
  ASSUME RestoreInv, TypeOK', NEW c \in Collections, NEW source, NEW known \in SUBSET c,
         \A d \in c : source[d] = server[d] \/ (d \notin known /\ source[d] = Absent),
         NEW docs, docs = [d \in c |-> Seen(source, d)], Answer(c, docs, known, TRUE)
  PROVE  RestoreInv'
<1>1. /\ TypeOK /\ UsedInv /\ c \subseteq Doc /\ server \in [Doc -> Nat]
      /\ \A i \in 1 .. Len(queue) : queue[i].val \in Nat
  BY CollectionFacts, QueueElements DEF RestoreInv, IInvBut, TypeOK, Entry
<1>3. ASSUME NEW d \in c
      PROVE  /\ docs[d] \in Nat /\ (docs[d] # Absent => d \in used)
             /\ d \in known /\ Quiet(d) => docs[d] = server[d]
             /\ server[d] = Absent /\ Heading(queue, d, Absent) => docs[d] = Absent
  <2>1. docs[d] = Seen(source, d) /\ d \in Doc
    BY <1>1
  <2>2. CASE docs[d] = source[d]
    BY <1>1, <2>1, <2>2 DEF UsedInv, Absent
  <2>3. CASE \E i \in 1 .. Len(queue) : queue[i].doc = d /\ docs[d] = queue[i].val
    BY <1>1, <2>1, <2>3 DEF UsedInv, Quiet, Heading
  <2> QED
    BY <1>1, <2>1, <2>2, <2>3, SeenFacts
<1>4. docs \in [c -> Nat]
  BY <1>3
<1>5. \A d \in c : docs[d] # Absent => d \in used
  BY <1>3
<1>6. AnswerIsSound(c, docs, known)
  BY <1>3 DEF AnswerIsSound
<1>7. PICK ok \in BOOLEAN : ok = TRUE
  OBVIOUS
<1>8. Answer(c, docs, known, ok)
  BY <1>7
<1> QED
  BY <1>4, <1>5, <1>6, <1>8, AnswerKeeps

LEMMA FetchKeeps ==
  ASSUME RestoreInv, Fetch
  PROVE  RestoreInv'
<1>1. /\ UNCHANGED <<clientVars, localVars, mainVars, link, changes, kills, flips, history>>
      /\ refusals' = refusals \/ refusals' = refusals + 1
  BY DEF Fetch, FetchFromServer, FetchFromCache, FetchRefused, Answer
<1>2. TypeOK'
  BY <1>1 DEF RestoreInv, IInvBut, TypeOK, clientVars, localVars, mainVars, history
<1>3. PICK c \in Collections : FetchFromServer(c) \/ FetchFromCache(c) \/ FetchRefused(c)
  BY DEF Fetch
<1>4. CASE FetchFromServer(c)
  <2>1. PICK docs : docs = [d \in c |-> Seen(server, d)]
    OBVIOUS
  <2>2. Answer(c, docs, c, TRUE) /\ c \in SUBSET c
    BY <1>4, <2>1 DEF FetchFromServer
  <2> QED
    BY <1>2, <2>1, <2>2, QueryKeeps
<1>5. CASE FetchFromCache(c)
  <2>1. PICK kept \in SUBSET c :
          LET cache == [d \in c |-> IF d \in kept THEN server[d] ELSE Absent]
          IN  Answer(c, [d \in c |-> Seen(cache, d)], kept, TRUE)
    BY <1>5 DEF FetchFromCache
  <2>2. PICK cache : cache = [d \in c |-> IF d \in kept THEN server[d] ELSE Absent]
    OBVIOUS
  <2>3. PICK docs : docs = [d \in c |-> Seen(cache, d)]
    OBVIOUS
  <2>4. Answer(c, docs, kept, TRUE)
    BY <2>1, <2>2, <2>3
  <2>5. \A d \in c : cache[d] = server[d] \/ (d \notin kept /\ cache[d] = Absent)
    BY <2>2
  <2> QED
    BY <1>2, <2>3, <2>4, <2>5, QueryKeeps
<1>6. CASE FetchRefused(c)
  <2>1. PICK docs : docs = [d \in c |-> Absent]
    OBVIOUS
  <2>2. docs \in [c -> Nat] /\ \A d \in c : docs[d] = Absent
    BY <2>1 DEF Absent
  <2>3. Answer(c, docs, c, FALSE) /\ FALSE \in BOOLEAN /\ c \in SUBSET c
    BY <1>6, <2>1 DEF FetchRefused
  <2> QED
    BY <1>2, <2>2, <2>3, AnswerKeeps
<1> QED
  BY <1>3, <1>4, <1>5, <1>6

LEMMA OnFetchedKeeps ==
  ASSUME RestoreInv, OnFetched
  PROVE  RestoreInv'
<1>1. /\ TypeOK /\ IInvBut(adrift) /\ AskedInv /\ EmptyInv /\ TruthInv /\ UsedInv
      /\ answers \in Seq(FetchAnswer) /\ answers # <<>>
  BY DEF RestoreInv, IInvBut, AskedInv, OnFetched
<1>2. /\ UNCHANGED <<clientVars, localVars, mainVars, link, changes, history,
                     kills, flips, refusals, asked, since, adrift>>
      /\ UNCHANGED <<server, queue, local, outbox, used, handler, todo, torn>>
  BY DEF OnFetched, vars, counters, histories, clientVars, localVars, mainVars, history
<1>3. alert = "none" /\ Fetching
  BY <1>1 DEF AskedInv, Fetching
<1>4. PICK a : a = Head(answers)
  OBVIOUS
<1>5. /\ Len(answers) \in Nat /\ 1 \in 1 .. Len(answers) /\ a = answers[1]
      /\ answers' = Tail(answers) /\ answers' \in Seq(FetchAnswer)
      /\ Len(answers') = Len(answers) - 1
      /\ \A i \in 1 .. Len(answers') :
           answers'[i] = answers[i + 1] /\ i + 1 \in 1 .. Len(answers)
  <2>1. /\ Len(answers) \in Nat /\ Len(answers) # 0 /\ Head(answers) = answers[1]
        /\ Tail(answers) \in Seq(FetchAnswer) /\ Len(Tail(answers)) = Len(answers) - 1
        /\ \A i \in 1 .. Len(Tail(answers)) : Tail(answers)[i] = answers[i + 1]
    BY <1>1, EmptySeq, LenProperties, HeadTailProperties
  <2>2. answers' = Tail(answers)
    BY DEF OnFetched
  <2> QED
    BY <1>4, <2>1, <2>2
<1>6. a.coll \in Collections /\ a \in AnswerOf(a.coll) /\ a \in FetchAnswer
  BY <1>1, <1>5, AnswerFacts
<1>7. /\ \A c \in Collections : found'[c] = found[c] \/ (c = a.coll /\ a.ok /\ found'[c] = a)
      /\ found' \in [Collections -> FetchAnswer \cup {Nil}]
      /\ alert' = "none" \/ (alert' = "shown" /\ \A c \in Collections : found'[c] # Nil)
  <2>1. CASE a.ok
    <3>1. found' = [found EXCEPT ![a.coll] = a] /\ CheckShowAlert(found')
      BY <1>4, <2>1 DEF OnFetched
    <3> QED
      BY <1>1, <1>3, <1>6, <2>1, <3>1 DEF AskedInv, CheckShowAlert
  <2>2. CASE ~a.ok
    BY <1>1, <1>3, <1>4, <2>2 DEF AskedInv, OnFetched
  <2> QED
    BY <2>1, <2>2
<1>8. \A c \in Collections :
        /\ \A i \in 1 .. Len(answers') : answers'[i].coll = c => c # a.coll /\ found'[c] = Nil
        /\ found'[c] # Nil => found'[c] \in AnswerOf(c) /\ c \notin asked
  <2>1. ASSUME NEW i \in 1 .. Len(answers')
        PROVE  answers'[i].coll # a.coll
    <3>1. i + 1 # 1
      BY <1>5
    <3> QED
      BY <1>1, <1>5, <3>1 DEF AskedInv
  <2> QED
    BY <1>1, <1>5, <1>6, <1>7, <2>1 DEF AskedInv
<1>9. IInvBut(adrift)'
  <2>1. TypeOK'
    BY <1>1, <1>2 DEF TypeOK, clientVars, localVars, mainVars, history
  <2> QED
    BY <1>1, <1>2, <2>1, StillKeepsIInv
<1>10. AskedInv'
  <2>1. alert' = "shown" => asked' = {} /\ answers' = <<>>
    <3> SUFFICES ASSUME alert' = "shown"
                 PROVE  asked' = {} /\ answers' = <<>>
      OBVIOUS
    <3>1. asked' = {}
      BY <1>1, <1>2, <1>7, <1>8 DEF AskedInv
    <3>2. ASSUME Len(answers') # 0
          PROVE  FALSE
      <4>1. 1 \in 1 .. Len(answers')
        BY <1>5, <3>2
      <4>2. answers'[1].coll \in Collections
        BY <1>1, <1>5, <4>1, AnswerFacts
      <4> QED
        BY <1>7, <1>8, <4>1, <4>2
    <3> QED
      BY <1>5, <3>1, <3>2, EmptySeq
  <2>2. \A i, j \in 1 .. Len(answers') : answers'[i].coll = answers'[j].coll => i = j
    <3> SUFFICES ASSUME NEW i \in 1 .. Len(answers'), NEW j \in 1 .. Len(answers'),
                        answers'[i].coll = answers'[j].coll
                 PROVE  i = j
      OBVIOUS
    <3>1. i + 1 = j + 1
      BY <1>1, <1>5 DEF AskedInv
    <3> QED
      BY <1>5, <3>1
  <2>3. \A c \in Collections :
          /\ found'[c] # Nil => found'[c] \in AnswerOf(c) /\ c \notin asked'
          /\ \A i \in 1 .. Len(answers') : answers'[i].coll = c =>
               c \notin asked' /\ found'[c] = Nil
    BY <1>1, <1>2, <1>5, <1>8 DEF AskedInv
  <2> QED
    BY <1>1, <1>2, <1>5, <1>7, <2>1, <2>2, <2>3 DEF AskedInv
<1>11. EmptyInv'
  BY <1>1, <1>2, <1>3, <1>7 DEF EmptyInv, RecordsOf, Busy, Idle
<1>12. TruthInv'
  BY <1>1, <1>2, <1>3, <1>5, <1>7 DEF TruthInv, Truth, Quiet
<1>13. UsedInv'
  BY <1>1, <1>2, <1>5, <1>7 DEF UsedInv, Known
<1> QED
  BY <1>9, <1>10, <1>11, <1>12, <1>13 DEF RestoreInv

LEMMA DeclineKeeps ==
  ASSUME RestoreInv, Decline
  PROVE  RestoreInv'
<1>1. /\ TypeOK /\ IInvBut(adrift) /\ AskedInv /\ EmptyInv /\ TruthInv /\ UsedInv
  BY DEF RestoreInv, IInvBut
<1>2. /\ alert = "shown" /\ alert' = "none"
      /\ UNCHANGED <<clientVars, localVars, mainVars, link, changes, history,
                     kills, flips, refusals, asked, answers, found, since, adrift>>
      /\ UNCHANGED <<server, queue, local, outbox, used, handler, todo, torn>>
  BY DEF Decline, vars, counters, captured, histories, clientVars, localVars, mainVars,
     history
<1>3. ~Fetching'
  BY <1>1, <1>2 DEF AskedInv, Fetching
<1>4. IInvBut(adrift)'
  <2>1. TypeOK'
    BY <1>1, <1>2 DEF TypeOK, clientVars, localVars, mainVars, history
  <2> QED
    BY <1>1, <1>2, <2>1, StillKeepsIInv
<1>5. AskedInv'
  BY <1>1, <1>2 DEF AskedInv
<1>6. UsedInv'
  BY <1>1, <1>2 DEF UsedInv, Known
<1> QED
  BY <1>3, <1>4, <1>5, <1>6 DEF RestoreInv, EmptyInv, TruthInv

-----------------------------------------------------------------------------
(***************************************************************************)
(* The restore itself.                                                     *)
(***************************************************************************)

\* A table is written: what was added since the check drifts, and what the
\* answer tells of agrees with the server.
LEMMA RestoreDataKeepsIInv ==
  ASSUME RestoreInv, NEW c \in Collections, RestoreData(c),
         (alert = "shown" /\ Idle) \/ (alert = "half" /\ c = Shot)
  PROVE  IInvBut(adrift)' /\ adrift' \in SUBSET Doc
<1> DEFINE a == found[c]
<1>1. /\ TypeOK /\ IInvBut(adrift) /\ AskedInv /\ EmptyInv /\ TruthInv /\ UsedInv
      /\ Idle /\ Fetching /\ a # Nil
  BY DEF RestoreInv, IInvBut, AskedInv, Fetching
<1>2. /\ UNCHANGED <<server, queue, persisted, applied, done, outbox, used, handler, todo,
                     available, link, changes, kills, flips, refusals, torn, refused, since>>
      /\ local' = [o \in Doc |-> IF o \in c THEN a.docs[o] ELSE local[o]]
      /\ adrift' = (adrift \ a.told) \cup since
  BY DEF RestoreData, clientVars, mainVars, counters, history, captured
<1>3. /\ a.coll = c /\ a.docs \in [c -> Nat] /\ a.told \subseteq c /\ c \subseteq Doc
      /\ Truth(a) /\ Known(a)
  BY <1>1, AnswerFacts, CollectionFacts DEF TruthInv, UsedInv
<1>4. adrift' \in SUBSET Doc
  BY <1>1, <1>2 DEF AskedInv
<1> HIDE DEF a
<1>5. TypeOK'
  BY <1>1, <1>2, <1>3 DEF TypeOK
<1>6. OneRecordPerObject' /\ FreshInv' /\ AppliedInv'
  BY <1>1, <1>2 DEF IInvBut, OneRecordPerObject, FreshInv, AppliedInv, Old, Pending, Busy, Idle
<1>7. MethodInv'
  <2>1. \A o \in Doc : local'[o] # Absent => o \in used
    BY <1>1, <1>2, <1>3 DEF Known, IInvBut, MethodInv
  <2> QED
    BY <1>1, <1>2, <2>1 DEF IInvBut, MethodInv, Idle
<1>8. \A r \in outbox : r.obj \in adrift'
  <2> SUFFICES ASSUME NEW r \in outbox PROVE r.obj \in since
    BY <1>2
  <2>1. r.obj \in Doc /\ r \in RecordsOf(r.obj)
    BY <1>1 DEF TypeOK, Record, RecordsOf
  <2> QED
    BY <1>1, <2>1 DEF EmptyInv
<1>9. /\ \A r \in outbox : r.obj \notin adrift' => FALSE
      /\ outbox' = outbox
  BY <1>2, <1>8
<1>10. DeletedIsGone(adrift)' /\ OrderInv(adrift)' /\ AnswerInv(adrift)'
  BY <1>9 DEF DeletedIsGone, OrderInv, AnswerInv
<1>11. UntouchedIsMirrored(adrift)'
  <2> SUFFICES ASSUME NEW o \in Doc \ adrift', Untouched(o)'
               PROVE  server[o] = local'[o] /\ Heading(queue, o, local'[o])
    BY <1>2 DEF UntouchedIsMirrored, Heading
  <2>1. /\ o \notin since /\ (o \notin adrift \/ o \in a.told) /\ Untouched(o)
        /\ o \notin torn
    BY <1>2 DEF Untouched, RecordsOf, Busy, Idle
  <2>2. o \notin adrift => server[o] = local[o] /\ Heading(queue, o, local[o])
    BY <1>1, <2>1 DEF IInvBut, UntouchedIsMirrored
  <2>3. CASE o \notin c
    BY <1>2, <1>3, <2>1, <2>2, <2>3
  <2>4. CASE o \in a.told
    BY <1>2, <1>3, <2>1, <2>4 DEF Truth, Quiet, Heading
  <2>5. CASE o \in c /\ o \notin a.told
    <3>1. o \notin adrift /\ local'[o] = a.docs[o]
      BY <1>2, <2>1, <2>5
    <3>2. a.docs[o] = Absent
      BY <1>3, <2>1, <2>5, <3>1 DEF Truth
    <3>3. local[o] = Absent
      BY <1>1, <2>1, <2>5 DEF EmptyInv, Shot
    <3> QED
      BY <2>2, <3>1, <3>2, <3>3
  <2> QED
    BY <2>3, <2>4, <2>5
<1> QED
  BY <1>4, <1>5, <1>6, <1>7, <1>10, <1>11 DEF IInvBut

LEMMA RestoreReportsKeeps ==
  ASSUME RestoreInv, RestoreReports
  PROVE  RestoreInv'
<1>1. /\ TypeOK /\ AskedInv /\ EmptyInv /\ TruthInv /\ UsedInv
      /\ alert = "shown" /\ alert' = "half" /\ Idle /\ RestoreData(Report)
      /\ Report \in Collections /\ Fetching
  BY CollectionFacts DEF RestoreInv, IInvBut, RestoreReports, Fetching
<1>2. /\ UNCHANGED <<server, queue, outbox, used, handler, todo, torn, since,
                     asked, answers, found>>
      /\ local' = [o \in Doc |-> IF o \in Report THEN found[Report].docs[o] ELSE local[o]]
      /\ adrift' = (adrift \ found[Report].told) \cup since
  BY <1>1 DEF RestoreData, clientVars, mainVars, history, captured
<1>3. IInvBut(adrift)' /\ adrift' \in SUBSET Doc
  BY <1>1, RestoreDataKeepsIInv
<1>4. AskedInv'
  BY <1>1, <1>2, <1>3 DEF AskedInv, Idle
<1>5. EmptyInv'
  BY <1>1, <1>2 DEF EmptyInv, RecordsOf, Busy, Idle
<1>6. TruthInv'
  <2>1. Len(answers) = 0 /\ \A c \in Collections : found[c] # Nil
    BY <1>1, EmptySeq DEF AskedInv
  <2> SUFFICES ASSUME NEW c \in Collections, NEW d \in found[c].coll \ since
               PROVE  /\ d \in found[c].told => server[d] = found[c].docs[d] /\ Quiet(d)
                      /\ d \notin found[c].told \cup adrift' \cup torn =>
                           found[c].docs[d] = Absent
    BY <1>2, <2>1 DEF TruthInv, Truth, Quiet
  <2>2. Truth(found[c]) /\ found[c].coll = c /\ found[Report].told \subseteq Report
    BY <1>1, <2>1, AnswerFacts DEF TruthInv
  <2>3. ASSUME d \notin found[c].told, d \notin adrift'
        PROVE  d \notin adrift
    <3>1. d \in Report => c = Report
      BY <2>2, CollectionFacts DEF Collections
    <3> QED
      BY <1>2, <2>2, <2>3, <3>1
  <2> QED
    BY <2>2, <2>3 DEF Truth
<1>7. UsedInv'
  BY <1>1, <1>2 DEF UsedInv, Known
<1> QED
  BY <1>3, <1>4, <1>5, <1>6, <1>7 DEF RestoreInv

LEMMA RestoreShotsKeeps ==
  ASSUME RestoreInv, RestoreShots
  PROVE  RestoreInv'
<1>1. /\ TypeOK /\ AskedInv /\ UsedInv /\ Shot \in Collections
      /\ alert = "half" /\ alert' = "none" /\ RestoreData(Shot)
  BY CollectionFacts DEF RestoreInv, IInvBut, RestoreShots
<1>2. UNCHANGED <<server, queue, used, handler, since, asked, answers, found>>
  BY <1>1 DEF RestoreData, clientVars, mainVars, captured
<1>3. IInvBut(adrift)' /\ adrift' \in SUBSET Doc
  BY <1>1, RestoreDataKeepsIInv
<1>4. ~Fetching'
  BY <1>1, <1>2 DEF AskedInv, Fetching
<1>5. AskedInv'
  BY <1>1, <1>2, <1>3 DEF AskedInv
<1>6. UsedInv'
  BY <1>1, <1>2 DEF UsedInv, Known
<1> QED
  BY <1>3, <1>4, <1>5, <1>6 DEF RestoreInv, EmptyInv, TruthInv

-----------------------------------------------------------------------------
(***************************************************************************)
(* Everything else.                                                        *)
(***************************************************************************)

\* While the same objects drift, DataServiceManager keeps its invariant.
LEMMA StepKeepsIInv ==
  ASSUME RestoreInv, [Next]_vars, adrift' = adrift
  PROVE  IInvBut(adrift)'
<1>1. PICK A : A = adrift
  OBVIOUS
<1>2. IInvBut(A)
  BY <1>1 DEF RestoreInv
<1>3. IInvBut(A)'
  BY <1>2, IInvNextBut
<1> QED
  BY <1>1, <1>3 DEF IInvBut, DeletedIsGone, OrderInv, AnswerInv, UntouchedIsMirrored

\* The user changes what was added since the check, or adds.
LEMMA UserChangeKeeps ==
  ASSUME RestoreInv, UserChange
  PROVE  RestoreInv'
<1>1. /\ TypeOK /\ EmptyInv /\ AskedInv /\ alert = "none"
      /\ UNCHANGED <<captured, alert, adrift>>
      /\ since' = since \cup (used' \ used)
  BY DEF RestoreInv, IInvBut, UserChange
<1>2. PICK p \in Doc : AddObject(p) \/ UpdateObject(p) \/ DeleteObject(p)
  BY DEF UserChange
<1>3. [Next]_vars /\ UNCHANGED <<outbox, torn>>
  BY <1>2 DEF Next, AddObject, UpdateObject, DeleteObject, Call, history
<1>4. TypeOK' /\ used \subseteq used'
  <2>1. used \subseteq used'
    BY <1>2 DEF AddObject, UpdateObject, DeleteObject
  <2> QED
    BY <1>1, <1>3, <2>1, TypeNext
<1>5. since' \in SUBSET Doc /\ since \subseteq since'
  BY <1>1, <1>4 DEF AskedInv, TypeOK
<1>6. EmptyInv'
  <2> SUFFICES ASSUME Fetching, NEW o \in Doc \ since'
               PROVE  ~Busy(o)' /\ o \notin todo' /\ local'[o] = Absent
    BY <1>1, <1>3, <1>5 DEF EmptyInv, Fetching, captured, RecordsOf
  <2>1. o \notin since /\ (o \in used' => o \in used)
    BY <1>1
  <2>2. local[o] = Absent /\ o \notin todo
    BY <1>1, <2>1 DEF EmptyInv
  <2>3. ASSUME NEW q \in Doc, local[q] # Absent
        PROVE  q \in since
    BY <1>1, <2>3 DEF EmptyInv
  <2>4. CASE AddObject(p)
    <3>1. /\ p # o /\ local' = [local EXCEPT ![p] = changes + 1] /\ todo' = todo
          /\ handler' = [step |-> "begin", obj |-> p, how |-> "create"]
      BY <2>1, <2>4 DEF AddObject
    <3> QED
      BY <1>1, <2>2, <3>1 DEF TypeOK, Busy
  <2>5. CASE UpdateObject(p)
    <3>1. /\ p # o /\ local' = [local EXCEPT ![p] = changes + 1] /\ todo' = todo
          /\ handler' = [step |-> "begin", obj |-> p, how |-> "update"]
      BY <2>1, <2>3, <2>5 DEF UpdateObject
    <3> QED
      BY <1>1, <2>2, <3>1 DEF TypeOK, Busy
  <2>6. CASE DeleteObject(p)
    <3> DEFINE S == {p} \cup ShotsOf(p)
    <3>1. S \subseteq since
      BY <2>3, <2>6 DEF DeleteObject, ShotsOf, Shot
    <3>2. PICK v \in S : /\ handler' = [step |-> "begin", obj |-> v, how |-> "delete"]
                         /\ todo' = S \ {v}
      BY <2>6 DEF DeleteObject, DeleteNext, NextVictims
    <3>3. local' = local
      BY <2>6 DEF DeleteObject
    <3> HIDE DEF S
    <3> QED
      BY <2>1, <2>2, <3>1, <3>2, <3>3 DEF Busy
  <2> QED
    BY <1>2, <2>4, <2>5, <2>6
<1>7. IInvBut(adrift)'
  BY <1>1, <1>3, StepKeepsIInv
<1>8. adrift' \in SUBSET Doc
  BY <1>1 DEF AskedInv
<1> QED
  BY <1>1, <1>3, <1>4, <1>5, <1>6, <1>7, <1>8, RunningKept

\* A running method, which is of an object added since the check.
LEMMA HandlersKeep ==
  ASSUME RestoreInv, Handlers, alert # "half", UNCHANGED <<captured, alert, since>>,
         \/ AddRecord /\ adrift' = adrift \ {handler.obj}
         \/ (DropRecord \/ Erase) /\ adrift' = adrift
  PROVE  RestoreInv'
<1>1. /\ TypeOK /\ EmptyInv /\ AskedInv /\ [Next]_vars /\ ~Idle
      /\ handler \in Running /\ handler.obj \in Doc
  BY DEF RestoreInv, IInvBut, Next, Handlers, DropRecord, AddRecord, Erase, TypeOK, Idle,
     Running
<1>2. used' = used
  BY DEF Handlers, DropRecord, AddRecord, Erase
<1>3. IInvBut(adrift)'
  <2>1. CASE AddRecord /\ adrift' = adrift \ {handler.obj}
    <3>1. PICK A, B : A = adrift /\ B = adrift'
      OBVIOUS
    <3>2. A \subseteq B \cup {handler.obj} /\ IInvBut(A) /\ TypeOK'
      BY <1>1, <2>1, <3>1, TypeNext DEF RestoreInv
    <3>3. IInvBut(B)'
      BY <2>1, <3>2, AddRecordKeepsIInv
    <3> QED
      BY <3>1, <3>3 DEF IInvBut, DeletedIsGone, OrderInv, AnswerInv, UntouchedIsMirrored
  <2>2. CASE adrift' = adrift
    BY <1>1, <2>2, StepKeepsIInv
  <2> QED
    BY <2>1, <2>2
<1>4. ASSUME Fetching
      PROVE  /\ handler.obj \in since
             /\ \A d \in Doc \ since : /\ d \in adrift' <=> d \in adrift
                                       /\ d \in torn' <=> d \in torn
  <2>1. handler.obj \in since
    BY <1>1, <1>4 DEF EmptyInv, Busy
  <2>2. torn' = torn \/ torn' = torn \ {handler.obj}
    BY DEF Handlers, DropRecord, AddRecord, Erase, history
  <2> QED
    BY <2>1, <2>2
<1>5. EmptyInv'
  <2> SUFFICES ASSUME Fetching, NEW o \in Doc \ since
               PROVE  /\ RecordsOf(o)' = {} /\ ~Busy(o)' /\ o \notin todo'
                      /\ local'[o] = Absent
    BY DEF EmptyInv, Fetching, captured
  <2>1. /\ o # handler.obj /\ RecordsOf(o) = {} /\ o \notin todo /\ local[o] = Absent
    BY <1>1, <1>4 DEF EmptyInv
  <2>2. \A r \in outbox' : r \in outbox \/ r.obj = handler.obj
    BY DEF Handlers, DropRecord, AddRecord, Erase
  <2>3. local' = local \/ local' = [local EXCEPT ![handler.obj] = Absent]
    BY DEF Handlers, DropRecord, AddRecord, Erase
  <2>4. \/ todo' = todo /\ (handler' = Nil \/ handler'.obj = handler.obj)
        \/ \E v \in todo : handler'.obj = v /\ todo' = todo \ {v}
    <3>1. CASE DropRecord \/ AddRecord
      BY <1>1, <3>1 DEF DropRecord, AddRecord, Running
    <3>2. CASE Erase
      BY <3>2 DEF Erase, DeleteNext, NextVictims
    <3> QED
      BY <3>1, <3>2 DEF Handlers
  <2>5. ~Busy(o)' /\ o \notin todo'
    BY <2>1, <2>4 DEF Busy, Idle
  <2> QED
    BY <1>1, <2>1, <2>2, <2>3, <2>5 DEF RecordsOf, TypeOK
<1>6. since' \in SUBSET Doc /\ since \subseteq since' /\ adrift' \in SUBSET Doc
  BY <1>1 DEF AskedInv
<1> QED
  BY <1>1, <1>2, <1>3, <1>4, <1>5, <1>6, RunningKept

\* An answer, a change of the link, a step of the SDK, or none.
LEMMA QuietKeeps ==
  ASSUME RestoreInv, [Next]_vars, UNCHANGED <<captured, alert, since, adrift>>,
         UNCHANGED <<local, used, handler, todo, torn>>, outbox' \subseteq outbox
  PROVE  RestoreInv'
<1>1. TypeOK /\ AskedInv /\ EmptyInv
  BY DEF RestoreInv, IInvBut
<1>2. IInvBut(adrift)'
  BY StepKeepsIInv
<1>3. EmptyInv'
  BY <1>1 DEF EmptyInv, Fetching, captured, RecordsOf, Busy, Idle
<1>4. since' \in SUBSET Doc /\ since \subseteq since' /\ adrift' \in SUBSET Doc
  BY <1>1 DEF AskedInv
<1>5. alert = "half" => handler' = Nil
  BY <1>1 DEF AskedInv, Idle
<1> QED
  BY <1>2, <1>3, <1>4, <1>5, RunningKept

LEMMA MainThreadKeeps ==
  ASSUME RestoreInv, MainThread
  PROVE  RestoreInv'
<1>1. alert # "half" /\ UNCHANGED <<captured, alert, since>>
  BY DEF MainThread
<1>2. CASE AddRecord /\ adrift' = adrift \ {handler.obj}
  BY <1>1, <1>2, HandlersKeep DEF Handlers
<1>3. CASE (DropRecord \/ Erase) /\ adrift' = adrift
  BY <1>1, <1>3, HandlersKeep DEF Handlers
<1>4. CASE OnWriteDone /\ adrift' = adrift
  BY <1>1, <1>4, QuietKeeps DEF Next, OnWriteDone, mainVars
<1>5. CASE (NetworkNotified \/ NetworkMisreported) /\ adrift' = adrift
  <2>1. PICK online : Notified(online)
    BY <1>5, Zenon DEF NetworkNotified, NetworkMisreported
  <2>2. UNCHANGED <<local, used, handler, todo, torn, outbox>>
    BY <2>1 DEF Notified, localVars
  <2>3. [Next]_vars
    BY <1>5 DEF Next
  <2> QED
    BY <1>1, <1>5, <2>2, <2>3, QuietKeeps
<1> QED
  BY <1>2, <1>3, <1>4, <1>5 DEF MainThread

LEMMA SurroundingsKeep ==
  ASSUME RestoreInv, Surroundings \/ UNCHANGED allVars
  PROVE  RestoreInv'
<1>1. [Next]_vars /\ UNCHANGED <<captured, alert, since, adrift>>
  BY DEF Surroundings, Next, allVars, restoreVars, histories
<1>2. UNCHANGED <<local, used, handler, todo, torn, outbox>>
  BY DEF Surroundings, allVars, vars, LinkChange, ClientPersist, ClientApply, ClientAck,
     ClientReject, appVars, localVars, mainVars, history
<1> QED
  BY <1>1, <1>2, QuietKeeps

\* The database is looked at anew.
LEMMA RelaunchKeeps ==
  ASSUME RestoreInv, Relaunch
  PROVE  RestoreInv'
<1>1. /\ TypeOK /\ AskedInv /\ UsedInv /\ [Next]_vars /\ adrift' = adrift
      /\ asked' = (IF IsDatabaseEmpty THEN Collections ELSE {})
      /\ answers' = <<>> /\ found' = NothingFound /\ alert' = "none" /\ since' = {}
  BY DEF RestoreInv, IInvBut, Relaunch, CheckRestoreAbility, Next
<1>2. handler' = Nil /\ todo' = {} /\ UNCHANGED <<local, outbox, used>>
  BY DEF Relaunch, KillAndRelaunch, localVars
<1>3. TypeOK' /\ MethodInv' /\ IInvBut(adrift)'
  <2>1. IInvBut(adrift)'
    BY <1>1, StepKeepsIInv
  <2> QED
    BY <2>1 DEF IInvBut
<1>4. Len(answers') = 0 /\ answers' \in Seq(FetchAnswer)
  BY <1>1, EmptySeq
<1>5. \A c \in Collections : found'[c] = Nil
  BY <1>1 DEF NothingFound
<1>6. AskedInv'
  BY <1>1, <1>4, <1>5 DEF AskedInv, NothingFound
<1>7. EmptyInv'
  <2> SUFFICES ASSUME Fetching', NEW o \in Doc
               PROVE  RecordsOf(o)' = {} /\ ~Busy(o)' /\ o \notin todo' /\ local'[o] = Absent
    BY DEF EmptyInv
  <2>1. IsDatabaseEmpty
    BY <1>1 DEF Fetching
  <2> QED
    BY <1>2, <2>1 DEF IsDatabaseEmpty, RecordsOf, Busy, Idle
<1>8. TruthInv'
  BY <1>4, <1>5 DEF TruthInv
<1>9. UsedInv'
  <2>1. Grown
    BY <1>1, <1>3, StepGrows
  <2> QED
    BY <1>1, <1>2, <1>3, <1>5, <2>1, UsedKept DEF MethodInv
<1> QED
  BY <1>3, <1>6, <1>7, <1>8, <1>9 DEF RestoreInv

-----------------------------------------------------------------------------
(***************************************************************************)
(* The theorems.                                                           *)
(***************************************************************************)

LEMMA RestoreInvInit == RestoreInit => RestoreInv
<1> SUFFICES ASSUME RestoreInit PROVE RestoreInv
  OBVIOUS
<1>1. /\ server \in [Doc -> {Absent, 1}] /\ Len(queue) = 0 /\ queue \in Seq(Entry)
      /\ persisted = 0 /\ applied = 0 /\ Len(done) = 0
      /\ done \in Seq([cb : Record, ok : BOOLEAN])
      /\ local = [o \in Doc |-> Absent] /\ outbox = {}
      /\ used = {d \in Doc : server[d] # Absent} /\ handler = Nil /\ todo = {}
      /\ link \in BOOLEAN /\ available = link /\ torn = {} /\ refused = {}
      /\ asked = Collections /\ Len(answers) = 0 /\ answers \in Seq(FetchAnswer)
      /\ found = [c \in Collections |-> Nil]
      /\ alert = "none" /\ since = {} /\ adrift = used
      /\ changes = 1 /\ kills = 0 /\ flips = 0 /\ refusals = 0
  BY EmptySeq DEF RestoreInit, FirstStart, NothingFound
<1>2. TypeOK
  BY <1>1, FS_EmptySet DEF TypeOK, Absent
<1>3. IInvBut(adrift)
  BY <1>1, <1>2 DEF IInvBut, OneRecordPerObject, MethodInv, FreshInv, DeletedIsGone,
     AppliedInv, OrderInv, AnswerInv, UntouchedIsMirrored, Heading, Idle, Busy
<1>4. AskedInv
  BY <1>1 DEF AskedInv
<1>5. EmptyInv /\ TruthInv /\ UsedInv
  BY <1>1 DEF EmptyInv, TruthInv, UsedInv, RecordsOf, Busy, Idle
<1> QED
  BY <1>3, <1>4, <1>5 DEF RestoreInv

LEMMA RestoreInvNext ==
  ASSUME RestoreInv, [RestoreNext]_allVars
  PROVE  RestoreInv'
BY FetchKeeps, OnFetchedKeeps, DeclineKeeps, RestoreReportsKeeps, RestoreShotsKeeps,
   UserChangeKeeps, MainThreadKeeps, SurroundingsKeep, RelaunchKeeps DEF RestoreNext

LEMMA RestoreInvariance == RestoreSpec => []RestoreInv
<1>1. RestoreInit => RestoreInv
  BY RestoreInvInit
<1>2. RestoreInv /\ [RestoreNext]_allVars => RestoreInv'
  BY RestoreInvNext
<1> QED
  BY <1>1, <1>2, PTL DEF RestoreSpec

\* What checkRestoreAbility brings back (279-280) agrees with the cloud and
\* stays so, but for what was added between the check (250) and the restore and
\* for the documents that never came to the phone.
THEOREM RestoredMirrored == RestoreSpec => []RestoredIsMirrored
<1>1. RestoreInv => RestoredIsMirrored
  <2> SUFFICES ASSUME RestoreInv, NEW o \in Doc \ adrift, ~Dirty(o)
               PROVE  /\ server[o] = local[o]
                      /\ \A i \in DOMAIN queue :
                           queue[i].doc = o => queue[i].val = local[o]
    BY DEF RestoredIsMirrored
  <2>1. Untouched(o)
    BY DEF Dirty, Untouched
  <2>2. server[o] = local[o] /\ Heading(queue, o, local[o])
    BY <2>1 DEF RestoreInv, IInvBut, UntouchedIsMirrored
  <2>3. DOMAIN queue = 1 .. Len(queue)
    BY LenProperties DEF RestoreInv, IInvBut, TypeOK
  <2> QED
    BY <2>2, <2>3 DEF Heading
<1> QED
  BY <1>1, RestoreInvariance, PTL

\* Whatever was there when the database was checked (250), or waits in the
\* outbox, is not written over by a restore (279-280): between the question and
\* its answer the phone has nothing but what was added since.
THEOREM OnlyNewIsReplaced == RestoreSpec => NothingOldIsReplaced
<1> DEFINE Kept == \A o \in Doc \ since :
              alert \in {"shown", "half"} /\ local'[o] # local[o] =>
                (local[o] = Absent /\ RecordsOf(o) = {})
<1>1. ASSUME RestoreInv, [RestoreNext]_allVars
      PROVE  Kept
  <2> SUFFICES ASSUME NEW o \in Doc \ since, alert \in {"shown", "half"},
                      local'[o] # local[o]
               PROVE  local[o] = Absent /\ RecordsOf(o) = {}
    OBVIOUS
  <2>1. RecordsOf(o) = {} /\ (local[o] = Absent \/ (alert = "half" /\ o \in Report))
    BY <1>1 DEF RestoreInv, EmptyInv, Fetching
  <2>2. CASE alert = "half" /\ o \in Report
    <3>1. RestoreShots
      <4>1. CASE Fetch \/ OnFetched \/ Decline \/ Surroundings \/ Relaunch
                   \/ UNCHANGED allVars
        BY <4>1 DEF Fetch, FetchFromServer, FetchFromCache, FetchRefused, Answer,
           OnFetched, Decline, Surroundings, LinkChange, ClientPersist, ClientApply,
           ClientAck, ClientReject, Relaunch, KillAndRelaunch, allVars, vars, appVars,
           localVars
      <4> QED
        BY <1>1, <2>2, <4>1 DEF RestoreNext, RestoreReports, UserChange, MainThread
    <3>2. local' = [p \in Doc |-> IF p \in Shot THEN found[Shot].docs[p] ELSE local[p]]
      BY <3>1 DEF RestoreShots, RestoreData
    <3> QED
      BY <2>2, <3>2 DEF Shot
  <2> QED
    BY <2>1, <2>2
<1>2. RestoreInv /\ [RestoreNext]_allVars => Kept
  BY <1>1
<1>3. RestoreInv /\ [RestoreNext]_allVars => [Kept]_allVars
  BY <1>2
<1> QED
  BY <1>3, RestoreInvariance, PTL DEF RestoreSpec, NothingOldIsReplaced

-----------------------------------------------------------------------------
(***************************************************************************)
(* A restore brings no shot back without its report.                       *)
(***************************************************************************)

\* What a method is working on, or a kill left half done, is on the phone.
PresentInv ==
  /\ \A o \in torn \cup todo : local[o] # Absent
  /\ ~Idle => local[handler.obj] # Absent /\ (handler.step = "erase" => handler.obj \notin torn)

\* So an empty phone has nothing half done.
WholeInv == Fetching => torn = {}

\* The cloud has r, and nothing under way deletes it there.
Alive(r) ==
  /\ server[r] # Absent
  /\ \A i \in 1 .. Len(queue) : queue[i].doc = r => queue[i].val # Absent
  /\ \A x \in outbox : x.obj = r => x.how # "delete" /\ local[r] # Absent

\* The report of a shot that never came to the phone is in the cloud.
LostInv ==
  \A s \in (Shot \cap adrift) \ stranded : ReportOf[s] \notin since /\ Alive(ReportOf[s])

\* Between the two transactions the reports are those of the answer.
HalfInv == alert = "half" => \A r \in Report : local[r] = found[Report].docs[r]

HomeInv ==
  RestoreInv /\ CInvBut(stranded) /\ PresentInv /\ WholeInv /\ LostInv /\ HalfInv

LEMMA PresentNext ==
  ASSUME TypeOK, MethodInv, PresentInv, [Next]_vars
  PROVE  PresentInv'
<1>1. /\ local \in [Doc -> Nat] /\ changes \in Nat /\ todo \subseteq Doc /\ torn \subseteq Doc
      /\ handler # Nil => handler \in Running /\ handler.obj \in Doc
  BY DEF TypeOK, Running
<1>2. ASSUME NEW o \in Doc, NEW h, AddObject(o) \/ UpdateObject(o),
             handler' = [step |-> "begin", obj |-> o, how |-> h]
      PROVE  PresentInv'
  <2>1. local' = [local EXCEPT ![o] = changes + 1] /\ UNCHANGED <<torn, todo>>
    BY <1>2 DEF AddObject, UpdateObject, Call, history
  <2>2. handler'.obj = o /\ handler'.step = "begin"
    BY <1>2
  <2>3. local'[o] # Absent /\ \A p \in Doc : local[p] # Absent => local'[p] # Absent
    BY <1>1, <2>1 DEF Absent
  <2> QED
    BY <1>1, <2>1, <2>2, <2>3 DEF PresentInv
<1>3. ASSUME NEW S, DeleteNext(S), \A o \in S : local'[o] # Absent,
             \A o \in torn' : local'[o] # Absent
      PROVE  PresentInv'
  <2>1. PICK v \in S : /\ handler' = [step |-> "begin", obj |-> v, how |-> "delete"]
                       /\ todo' = S \ {v}
    BY <1>3 DEF DeleteNext, NextVictims
  <2>2. handler'.obj = v /\ handler'.step = "begin"
    BY <2>1
  <2> QED
    BY <1>3, <2>1, <2>2 DEF PresentInv
<1>4. ASSUME NEW o \in Doc, DeleteObject(o)
      PROVE  PresentInv'
  <2>1. local' = local /\ torn' = torn /\ DeleteNext({o} \cup ShotsOf(o)) /\ local[o] # Absent
    BY <1>4 DEF DeleteObject, Call, history
  <2> QED
    BY <1>3, <2>1 DEF PresentInv, ShotsOf
<1>5. CASE DropRecord
  <2>1. /\ handler' = [handler EXCEPT !.step = "dropped"] /\ handler # Nil
        /\ UNCHANGED <<local, torn, todo>>
    BY <1>5 DEF DropRecord, Idle
  <2>2. handler'.obj = handler.obj /\ handler'.step = "dropped"
    BY <1>1, <2>1 DEF Running
  <2> QED
    BY <2>1, <2>2 DEF PresentInv, Idle
<1>6. CASE AddRecord
  <2>1. /\ handler' = Nil \/ handler' = [handler EXCEPT !.step = "erase"]
        /\ handler # Nil /\ UNCHANGED <<local, todo>> /\ torn' = torn \ {handler.obj}
    BY <1>6 DEF AddRecord, Idle
  <2>2. handler' = Nil \/ handler'.obj = handler.obj
    BY <1>1, <2>1 DEF Running
  <2> QED
    BY <2>1, <2>2 DEF PresentInv, Idle
<1>7. CASE Erase
  <2>1. /\ handler # Nil /\ handler.step = "erase" /\ torn' = torn
        /\ local' = [local EXCEPT ![handler.obj] = Absent]
        /\ IF todo = {} THEN handler' = Nil /\ UNCHANGED todo ELSE DeleteNext(todo)
    BY <1>7 DEF Erase, Idle, history
  <2>2. handler.obj \notin torn \cup todo
    BY <2>1 DEF PresentInv, MethodInv, Idle
  <2>3. \A o \in torn \cup todo : local'[o] # Absent
    BY <1>1, <2>1, <2>2 DEF PresentInv
  <2>4. CASE todo = {}
    BY <2>1, <2>3, <2>4 DEF PresentInv, Idle
  <2>5. CASE todo # {}
    BY <1>3, <2>1, <2>3, <2>5
  <2> QED
    BY <2>4, <2>5
<1>8. CASE KillAndRelaunch
  <2>1. /\ handler' = Nil /\ todo' = {} /\ local' = local
        /\ torn' = torn \cup TornBy(handler)
    BY <1>8 DEF KillAndRelaunch, localVars
  <2> QED
    BY <2>1 DEF PresentInv, Idle, TornBy
<1>9. CASE UNCHANGED <<local, torn, todo, handler>>
  BY <1>9 DEF PresentInv, Idle
<1>10. OnWriteDone \/ LinkChange \/ UNCHANGED vars => UNCHANGED <<local, torn, todo, handler>>
  BY DEF OnWriteDone, LinkChange, localVars, mainVars, vars, history
<1>11. NetworkNotified \/ NetworkMisreported => UNCHANGED <<local, torn, todo, handler>>
  BY DEF NetworkNotified, NetworkMisreported, Notified, localVars
<1>12. ClientPersist \/ ClientApply \/ ClientAck \/ ClientReject
         => UNCHANGED <<local, torn, todo, handler>>
  BY DEF ClientPersist, ClientApply, ClientAck, ClientReject, appVars, localVars, mainVars,
     history
<1> QED
  BY <1>2, <1>4, <1>5, <1>6, <1>7, <1>8, <1>9, <1>10, <1>11, <1>12
     DEF Next, Handlers, AddObject, UpdateObject

\* A report stays in the cloud until its deletion is recorded.
LEMMA AliveKept ==
  ASSUME TypeOK, MethodInv, PresentInv, [Next]_vars, Grown, NEW r \in Doc, Alive(r),
         \A x \in outbox' \ outbox : x.obj = r => x.how # "delete"
  PROVE  Alive(r)'
<1>1. /\ local \in [Doc -> Nat] /\ changes \in Nat
      /\ handler # Nil => handler \in Running /\ handler.obj \in Doc
  BY DEF TypeOK, Running
<1>2. ASSUME NEW x \in outbox', x.obj = r
      PROVE  x.how # "delete" /\ local'[r] # Absent
  <2>1. CASE AddRecord
    <3>1. /\ handler # Nil /\ local' = local
          /\ outbox' = outbox \cup
               {[obj |-> handler.obj, how |-> handler.how, id |-> changes]}
      BY <2>1 DEF AddRecord, Idle
    <3>2. CASE x \in outbox
      BY <1>2, <3>1, <3>2 DEF Alive
    <3>3. CASE x \notin outbox
      <4>1. x.obj = handler.obj
        BY <3>1, <3>3
      <4> QED
        BY <1>2, <3>1, <3>3, <4>1 DEF PresentInv, Idle
    <3> QED
      BY <3>2, <3>3
  <2>2. CASE Erase
    <3>1. /\ handler # Nil /\ handler.step = "erase" /\ outbox' = outbox
          /\ local' = [local EXCEPT ![handler.obj] = Absent]
      BY <2>2 DEF Erase, Idle
    <3>2. handler.obj # r
      BY <3>1 DEF MethodInv, Idle, Alive
    <3> QED
      BY <1>1, <1>2, <3>1, <3>2 DEF Alive
  <2>3. ASSUME NEW o \in Doc, AddObject(o) \/ UpdateObject(o) \/ DeleteObject(o)
        PROVE  x \in outbox /\ (local[r] # Absent => local'[r] # Absent)
    <3>1. outbox' = outbox /\ (local' = local \/ local' = [local EXCEPT ![o] = changes + 1])
      BY <2>3 DEF AddObject, UpdateObject, DeleteObject, Call
    <3> QED
      BY <1>1, <1>2, <3>1 DEF Absent
  <2>4. CASE outbox' \subseteq outbox /\ local' = local
    BY <1>2, <2>4 DEF Alive
  <2>5. DropRecord \/ OnWriteDone \/ LinkChange \/ KillAndRelaunch \/ UNCHANGED vars
          => outbox' \subseteq outbox /\ local' = local
    BY DEF DropRecord, OnWriteDone, LinkChange, KillAndRelaunch, localVars, vars
  <2>6. NetworkNotified \/ NetworkMisreported => outbox' \subseteq outbox /\ local' = local
    BY DEF NetworkNotified, NetworkMisreported, Notified, localVars
  <2>7. ClientPersist \/ ClientApply \/ ClientAck \/ ClientReject
          => outbox' \subseteq outbox /\ local' = local
    BY DEF ClientPersist, ClientApply, ClientAck, ClientReject, appVars, localVars
  <2> QED
    BY <1>2, <2>1, <2>2, <2>3, <2>4, <2>5, <2>6, <2>7 DEF Next, Handlers, Alive
<1>3. server'[r] # Absent
  BY DEF Alive, Grown
<1>4. ASSUME NEW i \in 1 .. Len(queue'), queue'[i].doc = r
      PROVE  queue'[i].val # Absent
  <2>1. CASE \E x \in outbox' : queue'[i].doc = x.obj /\ queue'[i].val = Wanted(x)'
    BY <1>2, <1>4, <2>1 DEF Wanted
  <2>2. CASE \E k \in 1 .. Len(queue) :
               queue'[i].doc = queue[k].doc /\ queue'[i].val = queue[k].val
    BY <1>4, <2>2 DEF Alive
  <2> QED
    BY <2>1, <2>2 DEF Grown
<1> QED
  BY <1>2, <1>3, <1>4 DEF Alive

LEMMA LostStep ==
  ASSUME HomeInv, [Next]_vars, adrift' \subseteq adrift, stranded \subseteq stranded',
         since' \subseteq since \cup (used' \ used),
         \A x \in outbox' \ outbox : x.how = "delete" =>
           \A s \in Shot \cap adrift' : ReportOf[s] = x.obj => s \in stranded'
  PROVE  LostInv'
<1>1. /\ TypeOK /\ TypeOK' /\ MethodInv /\ PresentInv /\ UsedInv /\ LostInv
  BY TypeNext DEF HomeInv, RestoreInv, IInvBut
<1>2. Grown
  BY <1>1, StepGrows
<1> SUFFICES ASSUME NEW s \in (Shot \cap adrift') \ stranded'
             PROVE  ReportOf[s] \notin since' /\ Alive(ReportOf[s])'
  BY DEF LostInv
<1>3. PICK r : r = ReportOf[s]
  OBVIOUS
<1>4. r \in Doc /\ r \notin since /\ Alive(r)
  BY <1>1, <1>3, ReportAssumption DEF LostInv
<1>5. r \in used
  BY <1>1, <1>4 DEF UsedInv, Alive
<1>6. \A x \in outbox' \ outbox : x.obj = r => x.how # "delete"
  BY <1>3
<1>7. Alive(r)'
  BY <1>1, <1>2, <1>4, <1>6, AliveKept
<1> QED
  BY <1>3, <1>4, <1>5, <1>7 DEF Alive

LEMMA StepKeepsCInv ==
  ASSUME CInvBut(stranded), [Next]_vars, stranded \subseteq stranded'
  PROVE  CInvBut(stranded)'
<1>1. PICK A : A = stranded
  OBVIOUS
<1>2. CInvBut(A)'
  BY <1>1, CascadeNext
<1> QED
  BY <1>1, <1>2 DEF CInvBut, NoOrphanBut

\* The fetches, their answers and a refusal of the restore.
LEMMA StillHome ==
  ASSUME HomeInv, RestoreInv', UNCHANGED <<clientVars, localVars, mainVars, history, histories>>,
         Fetching' => Fetching, alert' = "half" => alert = "half" /\ found' = found
  PROVE  HomeInv'
<1>1. UNCHANGED <<server, queue, local, outbox, used, handler, todo, torn, since, adrift, stranded>>
  BY DEF clientVars, localVars, mainVars, history, histories
<1>2. /\ TypeOK' /\ CInvBut(stranded) /\ PresentInv /\ WholeInv /\ LostInv /\ HalfInv
  BY DEF HomeInv, RestoreInv, IInvBut
<1>3. CInvBut(stranded)'
  BY <1>1, <1>2 DEF CInvBut, NoOrphanBut, CascadeInv, EraserDeletes, Deleting, Victims, Idle
<1>4. PresentInv' /\ WholeInv' /\ HalfInv'
  BY <1>1, <1>2 DEF PresentInv, WholeInv, HalfInv, Idle
<1>5. LostInv'
  BY <1>1, <1>2 DEF LostInv, Alive
<1> QED
  BY <1>3, <1>4, <1>5 DEF HomeInv

\* A step of DataServiceManager while the app runs.
LEMMA RunningHome ==
  ASSUME HomeInv, RestoreInv', [Next]_vars, UNCHANGED <<captured, alert>>,
         adrift' \subseteq adrift, stranded \subseteq stranded',
         since' \subseteq since \cup (used' \ used), torn' \subseteq torn,
         alert = "half" => local' = local,
         \A x \in outbox' \ outbox : x.how = "delete" =>
           \A s \in Shot \cap adrift' : ReportOf[s] = x.obj => s \in stranded'
  PROVE  HomeInv'
<1>1. /\ TypeOK /\ MethodInv /\ CInvBut(stranded) /\ PresentInv /\ WholeInv /\ HalfInv
  BY DEF HomeInv, RestoreInv, IInvBut
<1>2. CInvBut(stranded)'
  BY <1>1, StepKeepsCInv
<1>3. PresentInv'
  BY <1>1, PresentNext
<1>4. LostInv'
  BY LostStep
<1>5. WholeInv' /\ HalfInv'
  BY <1>1 DEF WholeInv, HalfInv, Fetching, captured
<1> QED
  BY <1>2, <1>3, <1>4, <1>5 DEF HomeInv

\* What both transactions of a restore leave as it is.
LEMMA RestoreDataHome ==
  ASSUME HomeInv, RestoreInv', NEW c \in Collections, RestoreData(c), Idle, Fetching
  PROVE  /\ PresentInv' /\ WholeInv' /\ LostInv' /\ CascadeInv' /\ EraserDeletes'
         /\ UNCHANGED <<server, since, found>> /\ stranded \subseteq stranded'
         /\ \A s \in Shot \ stranded' :
              s \notin stranded \cup since /\ ReportOf[s] \in found[Report].told
<1>1. /\ TypeOK /\ MethodInv /\ AskedInv /\ EmptyInv /\ PresentInv /\ WholeInv /\ LostInv
      /\ torn = {} /\ todo = {}
  BY DEF HomeInv, RestoreInv, IInvBut, WholeInv, MethodInv
<1>2. /\ UNCHANGED <<server, queue, outbox, handler, todo, torn, since, found>>
      /\ adrift' = (adrift \ found[c].told) \cup since
      /\ stranded' = stranded \cup
           {s \in Shot : s \in since \/ ReportOf[s] \notin found[Report].told}
  BY DEF RestoreData, clientVars, mainVars, history, captured
<1>3. PresentInv' /\ WholeInv' /\ CascadeInv' /\ EraserDeletes'
  BY <1>1, <1>2 DEF PresentInv, WholeInv, CascadeInv, EraserDeletes, Deleting, Idle
<1>4. LostInv'
  <2> SUFFICES ASSUME NEW s \in (Shot \cap adrift') \ stranded'
               PROVE  ReportOf[s] \notin since /\ Alive(ReportOf[s])'
    BY <1>2 DEF LostInv
  <2>1. PICK r : r = ReportOf[s]
    OBVIOUS
  <2>2. r \notin since /\ Alive(r) /\ r \in Doc
    BY <1>1, <1>2, <2>1, ReportAssumption DEF LostInv
  <2>3. \A x \in outbox : x.obj # r
    BY <1>1, <2>2 DEF EmptyInv, RecordsOf
  <2>4. Alive(r)'
    BY <1>2, <2>2, <2>3 DEF Alive
  <2> QED
    BY <2>1, <2>2, <2>4
<1> QED
  BY <1>2, <1>3, <1>4

LEMMA RestoreReportsHome ==
  ASSUME HomeInv, RestoreReports
  PROVE  HomeInv'
<1>1. /\ RestoreInv /\ Idle /\ alert = "shown" /\ Fetching /\ EmptyInv /\ TypeOK
      /\ RestoreData(Report) /\ Report \in Collections
  BY CollectionFacts DEF HomeInv, RestoreInv, IInvBut, RestoreReports, Fetching
<1>2. RestoreInv' /\ TypeOK'
  <2>1. RestoreInv'
    BY <1>1, RestoreReportsKeeps
  <2> QED
    BY <2>1 DEF RestoreInv, IInvBut
<1>3. local' = [o \in Doc |-> IF o \in Report THEN found[Report].docs[o] ELSE local[o]]
  BY <1>1 DEF RestoreData
<1>4. /\ PresentInv' /\ WholeInv' /\ LostInv' /\ CascadeInv' /\ EraserDeletes'
      /\ UNCHANGED found
      /\ \A s \in Shot \ stranded' : s \notin since
  BY <1>1, <1>2, RestoreDataHome
<1>5. NoOrphanBut(stranded)'
  <2> SUFFICES ASSUME NEW s \in Shot \ stranded'
               PROVE  local'[s] = Absent
    BY DEF NoOrphanBut
  <2> QED
    BY <1>1, <1>3, <1>4 DEF EmptyInv, Shot
<1>6. HalfInv'
  BY <1>3, <1>4, ReportAssumption DEF HalfInv
<1> QED
  BY <1>2, <1>4, <1>5, <1>6 DEF HomeInv, CInvBut

\* A shot that comes back was in the cloud when its report was, which came back
\* before it.
LEMMA RestoreShotsHome ==
  ASSUME HomeInv, RestoreShots
  PROVE  HomeInv'
<1>1. /\ RestoreInv /\ IInvBut(adrift) /\ AskedInv /\ EmptyInv /\ TruthInv /\ LostInv
      /\ WholeInv /\ HalfInv /\ TypeOK /\ Idle /\ Fetching
      /\ alert = "half" /\ alert' = "none" /\ RestoreData(Shot)
      /\ Shot \in Collections /\ Report \in Collections
  BY CollectionFacts DEF HomeInv, RestoreInv, IInvBut, AskedInv, RestoreShots, Fetching
<1>2. RestoreInv' /\ TypeOK'
  <2>1. RestoreInv'
    BY <1>1, RestoreShotsKeeps
  <2> QED
    BY <2>1 DEF RestoreInv, IInvBut
<1>3. local' = [o \in Doc |-> IF o \in Shot THEN found[Shot].docs[o] ELSE local[o]]
  BY <1>1 DEF RestoreData
<1>4. /\ PresentInv' /\ WholeInv' /\ LostInv' /\ CascadeInv' /\ EraserDeletes'
      /\ \A s \in Shot \ stranded' :
           s \notin stranded \cup since /\ ReportOf[s] \in found[Report].told
  BY <1>1, <1>2, RestoreDataHome
<1>5. /\ found[Shot] # Nil /\ found[Report] # Nil
      /\ found[Shot].coll = Shot /\ found[Report].coll = Report
      /\ Truth(found[Shot]) /\ Truth(found[Report])
  BY <1>1, AnswerFacts DEF AskedInv, TruthInv
<1>6. NoOrphanBut(stranded)'
  <2> SUFFICES ASSUME NEW s \in Shot \ stranded', local'[s] # Absent
               PROVE  local'[ReportOf[s]] # Absent
    BY DEF NoOrphanBut
  <2>1. PICK r : r = ReportOf[s]
    OBVIOUS
  <2>2. /\ r \in Report /\ r \in Doc /\ s \in Doc /\ r \notin Shot
        /\ local'[r] = local[r] /\ local'[s] = found[Shot].docs[s]
    BY <1>3, <2>1, ReportAssumption DEF Shot
  <2>3. CASE s \in adrift
    <3>1. r \notin since /\ server[r] # Absent
      BY <1>1, <1>4, <2>1, <2>3 DEF LostInv, Alive
    <3>2. server[r] = found[Report].docs[r]
      BY <1>4, <1>5, <2>1, <2>2, <3>1 DEF Truth
    <3> QED
      BY <1>1, <2>1, <2>2, <3>1, <3>2 DEF HalfInv
  <2>4. CASE s \notin adrift
    <3>1. local[s] = Absent /\ RecordsOf(s) = {} /\ torn = {}
      BY <1>1, <1>4, <2>2 DEF EmptyInv, WholeInv, Shot
    <3>2. server[s] = Absent
      BY <1>1, <2>2, <2>4, <3>1 DEF IInvBut, UntouchedIsMirrored, Untouched, Busy
    <3>3. found[Shot].docs[s] = Absent
      BY <1>4, <1>5, <2>2, <2>4, <3>1, <3>2 DEF Truth
    <3> QED
      BY <2>2, <3>3
  <2> QED
    BY <2>3, <2>4
<1>7. HalfInv'
  BY <1>1 DEF HalfInv
<1> QED
  BY <1>2, <1>4, <1>6, <1>7 DEF HomeInv, CInvBut

\* The database is found empty only when nothing is half done.
LEMMA RelaunchHome ==
  ASSUME HomeInv, Relaunch
  PROVE  HomeInv'
<1>1. /\ RestoreInv /\ TypeOK /\ MethodInv /\ CInvBut(stranded) /\ PresentInv /\ [Next]_vars
      /\ UNCHANGED <<adrift, stranded>> /\ alert' = "none" /\ since' = {}
      /\ answers' = <<>> /\ asked' = (IF IsDatabaseEmpty THEN Collections ELSE {})
  BY DEF HomeInv, RestoreInv, IInvBut, Relaunch, CheckRestoreAbility, Next
<1>2. UNCHANGED <<local, outbox>>
  BY DEF Relaunch, KillAndRelaunch, localVars
<1>3. RestoreInv' /\ TypeOK'
  <2>1. RestoreInv'
    BY <1>1, RelaunchKeeps
  <2> QED
    BY <2>1 DEF RestoreInv, IInvBut
<1>4. CInvBut(stranded)'
  BY <1>1, StepKeepsCInv
<1>5. PresentInv'
  BY <1>1, PresentNext
<1>6. LostInv'
  BY <1>1, <1>2, LostStep
<1>7. WholeInv'
  <2> SUFFICES ASSUME Fetching' PROVE torn' = {}
    BY DEF WholeInv
  <2>1. \A o \in Doc : local[o] = Absent
    BY <1>1 DEF Fetching, IsDatabaseEmpty
  <2>2. torn' \subseteq Doc /\ \A o \in torn' : local'[o] # Absent
    BY <1>3, <1>5 DEF TypeOK, PresentInv
  <2> QED
    BY <1>2, <2>1, <2>2
<1>8. HalfInv'
  BY <1>1 DEF HalfInv
<1> QED
  BY <1>3, <1>4, <1>5, <1>6, <1>7, <1>8 DEF HomeInv

LEMMA MainThreadHome ==
  ASSUME HomeInv, MainThread
  PROVE  HomeInv'
<1>1. RestoreInv /\ RestoreInv' /\ TypeOK
  BY MainThreadKeeps DEF HomeInv, RestoreInv, IInvBut
<1>2. alert # "half" /\ UNCHANGED <<captured, alert, since>>
  BY DEF MainThread
<1>3. CASE AddRecord /\ adrift' = adrift \ {handler.obj}
             /\ stranded' = stranded \cup
                  {s \in Shot \cap adrift : handler.how = "delete" /\ ReportOf[s] = handler.obj}
  <2>1. /\ outbox' = outbox \cup
             {[obj |-> handler.obj, how |-> handler.how, id |-> changes]}
        /\ torn' = torn \ {handler.obj} /\ [Next]_vars
    BY <1>3 DEF AddRecord, Next, Handlers
  <2>2. ASSUME NEW x \in outbox' \ outbox, x.how = "delete",
               NEW s \in Shot \cap adrift', ReportOf[s] = x.obj
        PROVE  s \in stranded'
    <3>1. x.obj = handler.obj /\ x.how = handler.how
      BY <2>1, <2>2
    <3> QED
      BY <1>3, <2>2, <3>1
  <2> QED
    BY <1>1, <1>2, <1>3, <2>1, <2>2, RunningHome
<1>4. CASE (DropRecord \/ Erase \/ OnWriteDone) /\ UNCHANGED <<adrift, stranded>>
  <2>1. outbox' \subseteq outbox /\ torn' = torn /\ [Next]_vars
    BY <1>4 DEF DropRecord, Erase, OnWriteDone, Next, Handlers, history
  <2> QED
    BY <1>1, <1>2, <1>4, <2>1, RunningHome
<1>5. CASE (NetworkNotified \/ NetworkMisreported) /\ UNCHANGED <<adrift, stranded>>
  <2>1. outbox' \subseteq outbox /\ torn' = torn /\ [Next]_vars
    BY <1>5 DEF NetworkNotified, NetworkMisreported, Notified, localVars, Next
  <2> QED
    BY <1>1, <1>2, <1>5, <2>1, RunningHome
<1> QED
  BY <1>3, <1>4, <1>5 DEF MainThread

LEMMA HomeNext ==
  ASSUME HomeInv, [RestoreNext]_allVars
  PROVE  HomeInv'
<1>1. RestoreInv /\ RestoreInv' /\ AskedInv
  BY RestoreInvNext DEF HomeInv, RestoreInv
<1>2. CASE Fetch
  BY <1>1, <1>2, StillHome DEF Fetch, FetchFromServer, FetchFromCache, FetchRefused, Answer,
     Fetching
<1>3. CASE OnFetched
  <2>1. Fetching /\ alert # "half" /\ UNCHANGED <<vars, histories>>
    BY <1>3 DEF OnFetched, Fetching
  <2>2. alert' # "half"
    BY <1>3, <2>1 DEF OnFetched, CheckShowAlert
  <2> QED
    BY <1>1, <2>1, <2>2, StillHome DEF vars
<1>4. CASE Decline
  BY <1>1, <1>4, StillHome DEF Decline, Fetching, vars
<1>5. CASE UserChange
  <2>1. /\ [Next]_vars /\ UNCHANGED <<outbox, torn, captured, alert, adrift, stranded>>
        /\ alert = "none" /\ since' = since \cup (used' \ used)
    BY <1>5 DEF UserChange, Next, AddObject, UpdateObject, DeleteObject, Call, history
  <2> QED
    BY <1>1, <2>1, RunningHome
<1>6. CASE Surroundings \/ UNCHANGED allVars
  <2>1. /\ [Next]_vars /\ UNCHANGED <<captured, alert, since, adrift, stranded>>
    BY <1>6 DEF Surroundings, Next, allVars, restoreVars, histories
  <2>2. UNCHANGED <<local, outbox, torn>>
    BY <1>6 DEF Surroundings, allVars, vars, LinkChange, ClientPersist, ClientApply,
       ClientAck, ClientReject, appVars, localVars, history
  <2> QED
    BY <1>1, <2>1, <2>2, RunningHome
<1> QED
  BY <1>2, <1>3, <1>4, <1>5, <1>6, RestoreReportsHome, RestoreShotsHome, MainThreadHome,
     RelaunchHome DEF RestoreNext

LEMMA HomeInit == RestoreInit => HomeInv
<1> SUFFICES ASSUME RestoreInit PROVE HomeInv
  OBVIOUS
<1>1. RestoreInv /\ TypeOK
  BY RestoreInvInit DEF RestoreInv, IInvBut
<1>2. /\ Len(queue) = 0 /\ local = [o \in Doc |-> Absent] /\ outbox = {} /\ handler = Nil
      /\ todo = {} /\ torn = {} /\ alert = "none" /\ since = {}
      /\ adrift = {d \in Doc : server[d] # Absent}
      /\ \A s \in Shot : server[s] # Absent => server[ReportOf[s]] # Absent
  BY EmptySeq DEF RestoreInit, FirstStart
<1>3. CInvBut(stranded)
  BY <1>1, <1>2 DEF CInvBut, NoOrphanBut, CascadeInv, EraserDeletes, Deleting, Idle, Shot
<1>4. PresentInv /\ WholeInv /\ HalfInv
  BY <1>2 DEF PresentInv, WholeInv, HalfInv, Idle
<1>5. LostInv
  BY <1>2 DEF LostInv, Alive
<1> QED
  BY <1>1, <1>3, <1>4, <1>5 DEF HomeInv

\* The two transactions of a restore (279-280) leave no shot without its report,
\* also when the process is killed between them, but for the shots added since
\* the check, for those whose report the answers did not tell of, and for those
\* whose report was deleted after it alone had come back.
THEOREM RestoredReported == RestoreSpec => []RestoredHasReport
<1>1. RestoreInit => HomeInv
  BY HomeInit
<1>2. HomeInv /\ [RestoreNext]_allVars => HomeInv'
  BY HomeNext
<1>3. HomeInv => RestoredHasReport
  BY DEF HomeInv, CInvBut, NoOrphanBut, RestoredHasReport
<1> QED
  BY <1>1, <1>2, <1>3, PTL DEF RestoreSpec

=============================================================================
