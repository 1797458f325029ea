---------------------------- MODULE BackupProofs -----------------------------
(***************************************************************************)
(* Proofs about backupData beside the user's edits, for any finite set of  *)
(* documents and any bounds.                                               *)
(***************************************************************************)
EXTENDS BackupEdits, FiniteSetTheorems, SequenceTheorems, TLAPS

-----------------------------------------------------------------------------
(***************************************************************************)
(* The parts of the inductive invariant.                                   *)
(***************************************************************************)

Write == [doc : Doc, val : Nat, cb : Callback \cup {Nil}]
Reply == [cb : Callback, ok : BOOLEAN]
Call  ==
  [asked : SUBSET Collections, since : Nat,
   cloud : [Collections -> (SUBSET Doc) \cup {Nil}], mine : SUBSET Doc,
   deleted : [Collections -> Nat], progress : Nat,
   covered : BOOLEAN, told : {"nothing", "error", "success"}]

Writes(cb) == cb # Nil /\ cb.op \in {"delete", "add"}

\* A callback of a backup is one of the n that were started.
Served(cb, n) == IF cb.op = "record" THEN cb.run = 0 ELSE cb.run \in 1 .. n

TypeInv ==
  /\ server \in [Doc -> Nat] /\ local \in [Doc -> Nat] /\ cache \in [Doc -> Nat]
  /\ queue \in Seq(Write) /\ done \in Seq(Reply) /\ backups \in Seq(Call)
  /\ persisted \in 0 .. Len(queue) /\ applied \in 0 .. persisted
  /\ outbox \in SUBSET Doc /\ edits \in Nat /\ link \in BOOLEAN
  /\ \A i \in 1 .. Len(queue) : queue[i].cb # Nil =>
       queue[i].cb.op # "fetch" /\ Served(queue[i].cb, Len(backups))
  /\ \A i \in 1 .. Len(done) : Served(done[i].cb, Len(backups))
  /\ \A i \in 1 .. Len(done) : done[i].cb.op = "fetch" =>
       done[i].cb.docs \subseteq done[i].cb.coll
  /\ \A b \in 1 .. Len(backups) : \A c \in Collections :
       backups[b].cloud[c] # Nil => backups[b].cloud[c] \subseteq c

Del(b, d) == [run |-> b, op |-> "delete", doc |-> d]
Add(b, d) == [run |-> b, op |-> "add", doc |-> d]

\* A callback of a backup's write waits once: in the queue, or on the main thread.
Holds(s, cb) == \E i \in 1 .. Len(s) : s[i].cb = cb
Once(s) ==
  \A i, j \in 1 .. Len(s) : Writes(s[i].cb) /\ s[i].cb = s[j].cb => i = j
Apart(s, t) ==
  \A i \in 1 .. Len(s) : \A j \in 1 .. Len(t) : Writes(s[i].cb) => s[i].cb # t[j].cb

Waiting(cb) == Holds(queue, cb) \/ Holds(done, cb)

FetchOf(r, b, c) == r.cb.op = "fetch" /\ r.cb.run = b /\ r.cb.coll = c
Fetched(s, b, c) == \E i \in 1 .. Len(s) : FetchOf(s[i], b, c)
FetchedOnce(s) ==
  \A i, j \in 1 .. Len(s) :
    s[i].cb.op = "fetch" /\ FetchOf(s[j], s[i].cb.run, s[i].cb.coll) => i = j

OnceInv == Once(queue) /\ Once(done) /\ Apart(queue, done) /\ FetchedOnce(done)

\* A collection is asked for, then answered, then found, one after the other.
FetchInv(b) ==
  \A c \in Collections :
    /\ c \in backups[b].asked => ~Fetched(done, b, c) /\ backups[b].cloud[c] = Nil
    /\ Fetched(done, b, c) => backups[b].cloud[c] = Nil

\* All documents found were deleted, and the objects were added.
Issued(b, c) ==
  /\ backups[b].cloud[c] # Nil /\ backups[b].cloud[c] # {}
  /\ backups[b].deleted[c] = Cardinality(backups[b].cloud[c])

WriteInv(b) ==
  \A d \in Doc :
    /\ Waiting(Del(b, d)) =>
         Loaded(backups[b]) /\ d \in backups[b].cloud[CollectionOf(d)]
    /\ Waiting(Add(b, d)) =>
         Loaded(backups[b]) /\ d \in backups[b].mine /\ Issued(b, CollectionOf(d))

\* Before both collections are found nothing is written.  After an error one
\* of them is never found.
Lost(b) ==
  \E c \in Collections : /\ backups[b].cloud[c] = Nil /\ c \notin backups[b].asked
                         /\ ~Fetched(done, b, c)
UnloadedInv(b) ==
  ~Loaded(backups[b]) =>
    /\ backups[b].progress = 0 /\ \A c \in Collections : backups[b].deleted[c] = 0
    /\ backups[b].told = "error" => Lost(b)

\* The tasks of a backup, and those that still have an answer to come.
DelTasks(b, x) == {Del(b, d) : d \in x.cloud[Report] \cup x.cloud[Shot]}
AddTasks(b, x) == {Add(b, d) : d \in x.mine}
Tasks(b, x) == DelTasks(b, x) \cup AddTasks(b, x)
Todo(b) ==
  {cb \in Tasks(b, backups[b]) :
     Waiting(cb) \/ (cb.op = "add" /\ ~Issued(b, CollectionOf(cb.doc)))}
Deleting(b, c) == {d \in c : Waiting(Del(b, d))}
Errors(b) == IF backups[b].told = "error" THEN 1 ELSE 0

\* Every task counts once, and the one that failed not at all.
BudgetInv(b) ==
  Loaded(backups[b]) =>
    /\ \A c \in Collections :
         backups[b].deleted[c] + Cardinality(Deleting(b, c))
           <= Cardinality(backups[b].cloud[c])
    /\ backups[b].progress + Cardinality(Todo(b)) + Errors(b) <= Total(backups[b])

\* Until the user is told how it ended, the ring keeps the objects of a backup.
CoverInv(b) ==
  /\ backups[b].covered <=> backups[b].told = "nothing"
  /\ backups[b].covered => backups[b].mine \subseteq Present(local)
  /\ backups[b].told = "success" => Full(backups[b])

CallInv(b) ==
  FetchInv(b) /\ WriteInv(b) /\ UnloadedInv(b) /\ BudgetInv(b)

CallsInv == \A b \in 1 .. Len(backups) : CallInv(b)
CoversInv == \A b \in 1 .. Len(backups) : CoverInv(b)

\* The versions of an object grow, so that its writes wait in their order and
\* none is ahead of the phone; what is not in the outbox was sent as it is.  The
\* outbox deletes only what the phone deleted.
OfRecord(cb) == cb # Nil /\ cb.op = "record"
Fit(w, db, box) ==
  /\ w.cb # Nil => w.cb.doc = w.doc
  /\ OfRecord(w.cb) => w.cb.val = w.val /\ (w.val = Absent => db[w.doc] = Absent)
  /\ db[w.doc] # Absent /\ w.val # Absent =>
       w.val <= db[w.doc] /\ (w.doc \in box \/ w.val = db[w.doc])
Sound(q, db, box) ==
  /\ \A i \in 1 .. Len(q) : Fit(q[i], db, box)
  /\ \A i, j \in 1 .. Len(q) :
       i <= j /\ q[i].doc = q[j].doc /\ q[j].val # Absent => q[i].val <= q[j].val

\* A record that was answered is not ahead of what still waits.
Behind(cb, q, db) ==
  /\ db[cb.doc] # Absent => cb.val <= db[cb.doc]
  /\ \A i \in 1 .. Len(q) : q[i].doc = cb.doc /\ q[i].val # Absent => cb.val <= q[i].val

VersionInv ==
  /\ \A d \in Doc : local[d] < 3 + edits
  /\ Sound(queue, local, outbox)
  /\ \A i \in 1 .. Len(done) : OfRecord(done[i].cb) => Behind(done[i].cb, queue, local)

\* What the server has of a document is the last of the writes it applied.
AppliedInv ==
  \A j \in 1 .. applied :
    (\A k \in j .. applied : queue[k].doc = queue[j].doc => queue[k].val = queue[j].val)
      => server[queue[j].doc] = queue[j].val

\* Objects do not come back, and only the last backup is without its alert.
MineInv == \A b \in 1 .. Len(backups) : Present(local) \subseteq backups[b].mine
ToldInv == \A b \in 1 .. Len(backups) : b < Len(backups) => backups[b].told # "nothing"

\* The n-th backup is the last one: the deletions of the others, of objects the
\* phone has, are all before its own.
Own(cb, n) == cb # Nil /\ cb.op = "delete" /\ cb.run = n
Foreign(w, db, n) == w.val = Absent /\ db[w.doc] # Absent /\ ~Own(w.cb, n)
Before(q, db, n) ==
  \A i, j \in 1 .. Len(q) : i <= j /\ Own(q[i].cb, n) => ~Foreign(q[j], db, n)
Gone(q, db, n) == \A i \in 1 .. Len(q) : ~Foreign(q[i], db, n)
Begun(x, s, n) ==
  \/ \E c \in Collections : x.deleted[c] > 0
  \/ \E i \in 1 .. Len(s) : Own(s[i].cb, n)

DeletionInv ==
  \A n \in 1 .. Len(backups) : n = Len(backups) =>
    /\ Before(queue, local, n)
    /\ Begun(backups[n], done, n) => Gone(queue, local, n)

\* An object that was added is on the server, unless it changed since or its
\* record is not answered.
Failed(x, s, n) ==
  \/ x.told = "error"
  \/ \E i \in 1 .. Len(s) : ~s[i].ok /\ s[i].cb.op # "record" /\ s[i].cb.run = n
Recorded(d, s, db) ==
  \E i \in 1 .. Len(s) :
    s[i].ok /\ s[i].cb.op = "record" /\ s[i].cb.doc = d /\ s[i].cb.val = db[d]
Settled(d, s, db, box) == d \notin box \/ Recorded(d, s, db)

AddedInv ==
  \A n \in 1 .. Len(backups) : n = Len(backups) /\ ~Failed(backups[n], done, n) =>
    \A d \in Present(local) :
      Issued(n, CollectionOf(d)) /\ ~Holds(queue, Add(n, d)) /\ Settled(d, done, local, outbox)
        => server[d] = local[d]

-----------------------------------------------------------------------------
(***************************************************************************)
(* Sequences, and what waits in them.                                      *)
(***************************************************************************)

LEMMA SeqFacts ==
  ASSUME NEW T, NEW s \in Seq(T)
  PROVE  Len(s) \in Nat /\ DOMAIN s = 1 .. Len(s) /\ \A i \in 1 .. Len(s) : s[i] \in T
<1>1. Len(s) \in Nat /\ DOMAIN s = 1 .. Len(s)
  BY LenProperties
<1>2. \A i \in 1 .. Len(s) : s[i] \in T
  BY ElementOfSeq
<1> QED
  BY <1>1, <1>2

LEMMA ConcatFacts ==
  ASSUME NEW T, NEW s \in Seq(T), NEW t \in Seq(T)
  PROVE  /\ s \o t \in Seq(T) /\ Len(s \o t) = Len(s) + Len(t)
         /\ \A i \in 1 .. Len(s) : (s \o t)[i] = s[i]
         /\ \A i \in 1 .. Len(t) : (s \o t)[Len(s) + i] = t[i]
         /\ \A i \in 1 .. Len(s \o t) : i > Len(s) =>
              i - Len(s) \in 1 .. Len(t) /\ (s \o t)[i] = t[i - Len(s)]
<1>1. Len(s) \in Nat /\ Len(t) \in Nat
  BY SeqFacts
<1>2. /\ s \o t \in Seq(T) /\ Len(s \o t) = Len(s) + Len(t)
      /\ \A i \in 1 .. Len(s) + Len(t) : (s \o t)[i] =
            IF i <= Len(s) THEN s[i] ELSE t[i - Len(s)]
  BY ConcatProperties
<1>3. \A i \in 1 .. Len(s) : (s \o t)[i] = s[i]
  BY <1>1, <1>2
<1>4. ASSUME NEW i \in 1 .. Len(t)
      PROVE  (s \o t)[Len(s) + i] = t[i]
  <2>1. Len(s) + i \in 1 .. Len(s) + Len(t) /\ ~(Len(s) + i <= Len(s))
        /\ (Len(s) + i) - Len(s) = i
    BY <1>1
  <2> QED
    BY <1>2, <2>1
<1>5. \A i \in 1 .. Len(s \o t) : i > Len(s) =>
         i - Len(s) \in 1 .. Len(t) /\ (s \o t)[i] = t[i - Len(s)]
  BY <1>1, <1>2
<1> QED
  BY <1>2, <1>3, <1>4, <1>5

\* What the concatenation holds, and that it holds it once.
LEMMA ConcatHolds ==
  ASSUME NEW T, NEW s \in Seq(T), NEW t \in Seq(T)
  PROVE  /\ \A cb : Holds(s \o t, cb) <=> Holds(s, cb) \/ Holds(t, cb)
         /\ Once(s) /\ Once(t) /\ Apart(s, t) => Once(s \o t)
<1> DEFINE u == s \o t
<1>0. Len(s) \in Nat /\ Len(t) \in Nat
  BY SeqFacts
<1>1. /\ u \in Seq(T) /\ Len(u) = Len(s) + Len(t)
      /\ \A i \in 1 .. Len(s) : u[i] = s[i]
      /\ \A i \in 1 .. Len(t) : u[Len(s) + i] = t[i]
      /\ \A i \in 1 .. Len(u) : i > Len(s) =>
            i - Len(s) \in 1 .. Len(t) /\ u[i] = t[i - Len(s)]
  BY ConcatFacts
<1> HIDE DEF u
<1>2. ASSUME NEW cb
      PROVE  Holds(u, cb) <=> Holds(s, cb) \/ Holds(t, cb)
  <2>1. ASSUME Holds(u, cb)
        PROVE  Holds(s, cb) \/ Holds(t, cb)
    <3>1. PICK i \in 1 .. Len(u) : u[i].cb = cb
      BY <2>1 DEF Holds
    <3>2. CASE i > Len(s)
      <4>1. i - Len(s) \in 1 .. Len(t) /\ t[i - Len(s)].cb = cb
        BY <1>1, <3>1, <3>2
      <4> QED
        BY <4>1 DEF Holds
    <3>3. CASE ~(i > Len(s))
      <4>1. i \in 1 .. Len(s) /\ s[i].cb = cb
        BY <1>0, <1>1, <3>1, <3>3
      <4> QED
        BY <4>1 DEF Holds
    <3> QED
      BY <3>2, <3>3
  <2>2. ASSUME Holds(s, cb)
        PROVE  Holds(u, cb)
    <3>1. PICK i \in 1 .. Len(s) : s[i].cb = cb
      BY <2>2 DEF Holds
    <3>2. i \in 1 .. Len(u) /\ u[i].cb = cb
      BY <1>0, <1>1, <3>1
    <3> QED
      BY <3>2 DEF Holds
  <2>3. ASSUME Holds(t, cb)
        PROVE  Holds(u, cb)
    <3>1. PICK i \in 1 .. Len(t) : t[i].cb = cb
      BY <2>3 DEF Holds
    <3>2. Len(s) + i \in 1 .. Len(u) /\ u[Len(s) + i].cb = cb
      BY <1>0, <1>1, <3>1
    <3> QED
      BY <3>2 DEF Holds
  <2> QED
    BY <2>1, <2>2, <2>3
<1>3. ASSUME Once(s), Once(t), Apart(s, t)
      PROVE  Once(u)
  <2> SUFFICES ASSUME NEW i \in 1 .. Len(u), NEW j \in 1 .. Len(u),
                      Writes(u[i].cb), u[i].cb = u[j].cb
               PROVE  i = j
    BY DEF Once
  <2>1. i \in Nat /\ j \in Nat
    OBVIOUS
  <2>2. CASE i <= Len(s) /\ j <= Len(s)
    <3>1. i \in 1 .. Len(s) /\ j \in 1 .. Len(s)
      BY <1>0, <2>2
    <3> QED
      BY <1>1, <1>3, <3>1, Zenon DEF Once
  <2>3. CASE i > Len(s) /\ j > Len(s)
    <3> DEFINE k == i - Len(s)
               l == j - Len(s)
    <3>1. k \in 1 .. Len(t) /\ l \in 1 .. Len(t) /\ u[i] = t[k] /\ u[j] = t[l]
      BY <1>1, <2>3
    <3>2. k = l
      BY <1>3, <3>1, Zenon DEF Once
    <3> QED
      BY <1>0, <2>1, <3>2
  <2>4. CASE i <= Len(s) /\ j > Len(s)
    <3> DEFINE l == j - Len(s)
    <3>1. i \in 1 .. Len(s) /\ l \in 1 .. Len(t) /\ u[i] = s[i] /\ u[j] = t[l]
      BY <1>0, <1>1, <2>4
    <3> HIDE DEF l
    <3> QED
      BY <1>3, <3>1 DEF Apart
  <2>5. CASE i > Len(s) /\ j <= Len(s)
    <3> DEFINE k == i - Len(s)
    <3>1. k \in 1 .. Len(t) /\ j \in 1 .. Len(s) /\ u[i] = t[k] /\ u[j] = s[j]
      BY <1>0, <1>1, <2>5
    <3> HIDE DEF k
    <3> QED
      BY <1>3, <3>1 DEF Apart
  <2> QED
    BY <1>0, <2>1, <2>2, <2>3, <2>4, <2>5
<1> QED
  BY <1>2, <1>3 DEF u

LEMMA AppendFacts ==
  ASSUME NEW T, NEW s \in Seq(T), NEW e \in T
  PROVE  /\ Append(s, e) \in Seq(T) /\ Len(Append(s, e)) = Len(s) + 1
         /\ \A i \in 1 .. Len(s) : Append(s, e)[i] = s[i]
         /\ Append(s, e)[Len(s) + 1] = e
         /\ \A cb : Holds(Append(s, e), cb) <=> Holds(s, cb) \/ e.cb = cb
         /\ Once(s) /\ (Writes(e.cb) => ~Holds(s, e.cb)) => Once(Append(s, e))
<1> DEFINE u == Append(s, e)
<1>0. Len(s) \in Nat
  BY SeqFacts
<1>1. /\ u \in Seq(T) /\ Len(u) = Len(s) + 1
      /\ \A i \in 1 .. Len(s) : u[i] = s[i]
      /\ u[Len(s) + 1] = e
  BY AppendProperties
<1> HIDE DEF u
<1>2. ASSUME NEW cb
      PROVE  Holds(u, cb) <=> Holds(s, cb) \/ e.cb = cb
  <2>1. \A i \in 1 .. Len(u) : i \in 1 .. Len(s) \/ i = Len(s) + 1
    BY <1>0, <1>1
  <2>2. 1 .. Len(s) \subseteq 1 .. Len(u) /\ Len(s) + 1 \in 1 .. Len(u)
    BY <1>0, <1>1
  <2> QED
    BY <1>1, <2>1, <2>2 DEF Holds
<1>3. ASSUME Once(s), Writes(e.cb) => ~Holds(s, e.cb)
      PROVE  Once(u)
  <2> SUFFICES ASSUME NEW i \in 1 .. Len(u), NEW j \in 1 .. Len(u),
                      Writes(u[i].cb), u[i].cb = u[j].cb
               PROVE  i = j
    BY DEF Once
  <2>1. \A k \in 1 .. Len(u) : k \in 1 .. Len(s) \/ k = Len(s) + 1
    BY <1>0, <1>1
  <2>2. CASE i \in 1 .. Len(s) /\ j \in 1 .. Len(s)
    BY <1>1, <1>3, <2>2 DEF Once
  <2>3. CASE i \in 1 .. Len(s) /\ j = Len(s) + 1
    <3>1. s[i].cb = e.cb /\ Writes(e.cb)
      BY <1>1, <2>3
    <3> QED
      BY <1>3, <2>3, <3>1 DEF Holds
  <2>4. CASE i = Len(s) + 1 /\ j \in 1 .. Len(s)
    <3>1. s[j].cb = e.cb /\ Writes(e.cb)
      BY <1>1, <2>4
    <3> QED
      BY <1>3, <2>4, <3>1 DEF Holds
  <2> QED
    BY <2>1, <2>2, <2>3, <2>4
<1> QED
  BY <1>1, <1>2, <1>3 DEF u

LEMMA ApartHolds ==
  ASSUME NEW s, NEW t
  PROVE  Apart(s, t) <=> \A cb : Writes(cb) /\ Holds(s, cb) => ~Holds(t, cb)
BY Zenon DEF Apart, Holds

\* The head of a sequence, and what is left without it.
LEMMA TailFacts ==
  ASSUME NEW T, NEW s \in Seq(T), s # <<>>
  PROVE  /\ Tail(s) \in Seq(T) /\ Len(Tail(s)) = Len(s) - 1 /\ Len(s) \in Nat \ {0}
         /\ \A i \in 1 .. Len(Tail(s)) : i + 1 \in 2 .. Len(s) /\ Tail(s)[i] = s[i + 1]
         /\ \A i \in 2 .. Len(s) : i - 1 \in 1 .. Len(Tail(s)) /\ Tail(s)[i - 1] = s[i]
         /\ Head(s) = s[1] /\ Head(s) \in T /\ 1 \in 1 .. Len(s)
<1>1. /\ Tail(s) \in Seq(T) /\ Len(Tail(s)) = Len(s) - 1 /\ Head(s) \in T
      /\ \A i \in 1 .. Len(Tail(s)) : Tail(s)[i] = s[i + 1]
  BY HeadTailProperties
<1>2. Len(s) \in Nat \ {0}
  BY EmptySeq
<1>3. Head(s) = s[1]
  OBVIOUS
<1> DEFINE u == Tail(s)
<1>4. u = Tail(s)
  OBVIOUS
<1> HIDE DEF u
<1>5. \A i \in 1 .. Len(u) : i + 1 \in 2 .. Len(s) /\ u[i] = s[i + 1]
  BY <1>1, <1>2, <1>4
<1>6. ASSUME NEW i \in 2 .. Len(s)
      PROVE  i - 1 \in 1 .. Len(u) /\ u[i - 1] = s[i]
  <2>1. i - 1 \in 1 .. Len(u) /\ (i - 1) + 1 = i
    BY <1>1, <1>2, <1>4
  <2> QED
    BY <1>5, <2>1
<1> QED
  BY <1>1, <1>2, <1>3, <1>4, <1>5, <1>6

LEMMA TailHolds ==
  ASSUME NEW T, NEW s \in Seq(T), s # <<>>
  PROVE  /\ \A cb : Holds(s, cb) <=> Head(s).cb = cb \/ Holds(Tail(s), cb)
         /\ Once(s) => Once(Tail(s))
         /\ Once(s) /\ Writes(Head(s).cb) => ~Holds(Tail(s), Head(s).cb)
<1> DEFINE u == Tail(s)
<1>1. /\ Len(u) = Len(s) - 1 /\ Len(s) \in Nat \ {0}
      /\ \A i \in 1 .. Len(u) : i + 1 \in 2 .. Len(s) /\ u[i] = s[i + 1]
      /\ \A i \in 2 .. Len(s) : i - 1 \in 1 .. Len(u) /\ u[i - 1] = s[i]
      /\ Head(s) = s[1] /\ 1 \in 1 .. Len(s)
  BY TailFacts
<1> HIDE DEF u
<1>2. \A i \in 1 .. Len(s) : i = 1 \/ i \in 2 .. Len(s)
  BY <1>1
<1>3. 2 .. Len(s) \subseteq 1 .. Len(s) /\ 1 \notin 2 .. Len(s)
  BY <1>1
<1>4. ASSUME NEW cb
      PROVE  Holds(s, cb) <=> Head(s).cb = cb \/ Holds(u, cb)
  BY <1>1, <1>2, <1>3 DEF Holds
<1>5. ASSUME Once(s)
      PROVE  Once(u)
  <2> SUFFICES ASSUME NEW i \in 1 .. Len(u), NEW j \in 1 .. Len(u),
                      Writes(u[i].cb), u[i].cb = u[j].cb
               PROVE  i = j
    BY DEF Once
  <2>1. i + 1 \in 1 .. Len(s) /\ j + 1 \in 1 .. Len(s) /\ u[i] = s[i + 1] /\ u[j] = s[j + 1]
    BY <1>1, <1>3
  <2>2. i + 1 = j + 1
    BY <1>5, <2>1 DEF Once
  <2> QED
    BY <2>2
<1>6. ASSUME Once(s), Writes(Head(s).cb), Holds(u, Head(s).cb)
      PROVE  FALSE
  <2>1. PICK i \in 1 .. Len(u) : u[i].cb = Head(s).cb
    BY <1>6 DEF Holds
  <2>2. i + 1 \in 2 .. Len(s) /\ s[i + 1].cb = s[1].cb
    BY <1>1, <2>1
  <2>3. 1 = i + 1
    BY <1>1, <1>3, <1>6, <2>2 DEF Once
  <2> QED
    BY <1>3, <2>2, <2>3
<1> QED
  BY <1>4, <1>5, <1>6 DEF u

-----------------------------------------------------------------------------
(***************************************************************************)
(* The writes a step issues.                                               *)
(***************************************************************************)

\* A list of all elements of a finite set without repetition misses none.
LEMMA OrderCovers ==
  ASSUME NEW S, IsFiniteSet(S), NEW order \in SetToSeqs(S), NEW x \in S
  PROVE  \E i \in 1 .. Cardinality(S) : order[i] = x
<1> DEFINE n == Cardinality(S)
<1>1. n \in Nat
  BY FS_CardinalityType
<1>2. order \in [1 .. n -> S] /\ \A i, j \in 1 .. n : i # j => order[i] # order[j]
  BY DEF SetToSeqs
<1>3. Cardinality(1 .. n) = n
  BY <1>1, FS_Interval
<1>4. order \in Injection(1 .. n, S)
  BY <1>2 DEF Injection, IsInjective
<1>5. order \in Surjection(1 .. n, S)
  BY <1>3, <1>4, FS_Injection
<1> QED
  BY <1>5 DEF Surjection

LEMMA SetToSeqFacts ==
  ASSUME NEW S, IsFiniteSet(S)
  PROVE  SetToSeq(S) \in SetToSeqs(S)
<1> DEFINE n == Cardinality(S)
<1>1. PICK f \in Bijection(1 .. n, S) : TRUE
  BY FS_CardinalityType DEF ExistsBijection
<1>2. f \in [1 .. n -> S] /\ IsInjective(f)
  BY <1>1 DEF Bijection, Injection
<1>3. SetToSeq(S) \in [1 .. n -> S] /\ IsInjective(SetToSeq(S))
  BY <1>2 DEF SetToSeq
<1> HIDE DEF n
<1>4. \A i, j \in 1 .. n : i # j => SetToSeq(S)[i] # SetToSeq(S)[j]
  BY <1>3 DEF IsInjective
<1> QED
  BY <1>3, <1>4 DEF SetToSeqs, n

LEMMA DocSets ==
  ASSUME NEW S \in SUBSET Doc
  PROVE  IsFiniteSet(S) /\ Cardinality(S) \in Nat
<1>1. IsFiniteSet(S)
  BY DocAssumption, FS_Subset
<1> QED
  BY <1>1, FS_CardinalityType

LEMMA CollectionFacts ==
  /\ Report \in Collections /\ Shot \in Collections
  /\ \A c \in Collections : c = Report \/ c = Shot
  /\ \A c \in Collections : c \subseteq Doc
  /\ \A d \in Doc : CollectionOf(d) \in Collections /\ d \in CollectionOf(d)
  /\ \A c \in Collections : \A d \in c : CollectionOf(d) = c
  /\ Report \cap Shot = {} /\ Report # Shot
BY CollectionAssumption DEF Collections, CollectionOf, Shot

\* The callbacks of deletions and additions.
LEMMA TaskFacts ==
  /\ \A b \in Nat, d \in Doc :
       /\ Del(b, d) \in Callback /\ Del(b, d) # Nil /\ Writes(Del(b, d))
       /\ Add(b, d) \in Callback /\ Add(b, d) # Nil /\ Writes(Add(b, d))
  /\ \A b, d : /\ Del(b, d).run = b /\ Del(b, d).op = "delete" /\ Del(b, d).doc = d
               /\ Add(b, d).run = b /\ Add(b, d).op = "add" /\ Add(b, d).doc = d
<1>1. \A b, d : /\ Del(b, d).run = b /\ Del(b, d).op = "delete" /\ Del(b, d).doc = d
               /\ Add(b, d).run = b /\ Add(b, d).op = "add" /\ Add(b, d).doc = d
  BY DEF Del, Add
<1>2. ASSUME NEW b \in Nat, NEW d \in Doc
      PROVE  Del(b, d) \in Callback /\ Add(b, d) \in Callback
  BY DEF Del, Add, Callback
<1>3. Nil \notin Callback
  BY NilAssumption
<1> QED
  BY <1>1, <1>2, <1>3 DEF Writes

\* A write callback of a backup is the deletion or the addition of a document.
LEMMA WriteTask ==
  ASSUME NEW cb \in Callback, Writes(cb)
  PROVE  cb.doc \in Doc /\ cb.run \in Nat
         /\ cb = (IF cb.op = "delete" THEN Del(cb.run, cb.doc) ELSE Add(cb.run, cb.doc))
<1>1. cb \in [run : Nat, op : {"delete", "add"}, doc : Doc]
  BY DEF Callback, Writes
<1>2. cb = [run |-> cb.run, op |-> cb.op, doc |-> cb.doc]
  BY <1>1
<1>3. cb.op = "delete" \/ cb.op = "add"
  BY <1>1
<1> QED
  BY <1>1, <1>2, <1>3 DEF Del, Add

LEMMA DelFacts ==
  ASSUME NEW b \in Nat, NEW d \in Doc
  PROVE  /\ Del(b, d) # Nil /\ Del(b, d).op = "delete" /\ Del(b, d).doc = d
         /\ Del(b, d).run = b
BY TaskFacts, Zenon

LEMMA DeletionsFacts ==
  ASSUME NEW b \in Nat, NEW docs \in SUBSET Doc
  PROVE  /\ Deletions(b, docs) \in Seq(Write)
         /\ \A i \in 1 .. Len(Deletions(b, docs)) : \E d \in docs :
              Deletions(b, docs)[i] = [doc |-> d, val |-> Absent, cb |-> Del(b, d)]
         /\ Once(Deletions(b, docs))
<1> DEFINE order == SetToSeq(docs)
           n == Cardinality(docs)
           w(i) == [doc |-> order[i], val |-> Absent, cb |-> Del(b, order[i])]
<1>1. n \in Nat /\ IsFiniteSet(docs)
  BY DocSets
<1>2. order \in [1 .. n -> docs] /\ \A i, j \in 1 .. n : i # j => order[i] # order[j]
  BY <1>1, SetToSeqFacts DEF SetToSeqs
<1>3. Deletions(b, docs) = [i \in 1 .. n |-> w(i)]
  BY <1>2 DEF Deletions, Del
<1>4. \A i \in 1 .. n : w(i) \in Write
  BY <1>2, TaskFacts DEF Write, Absent
<1> HIDE DEF order, n
<1> HIDE DEF w
<1>5. Deletions(b, docs) \in Seq(Write) /\ Len(Deletions(b, docs)) = n
  BY <1>1, <1>3, <1>4, IsASeq
<1>6. \A i \in 1 .. n : Deletions(b, docs)[i] = w(i)
  BY <1>3
<1>7. \A i \in 1 .. n : order[i] \in docs /\ w(i).cb = Del(b, order[i])
  BY <1>2 DEF w
<1>8. ASSUME NEW i \in 1 .. n, NEW j \in 1 .. n, w(i).cb = w(j).cb
      PROVE  i = j
  <2>1. order[i] = order[j]
    BY <1>7, <1>8, TaskFacts
  <2> QED
    BY <1>2, <2>1
<1> QED
  BY <1>5, <1>6, <1>7, <1>8 DEF w, Once

LEMMA AdditionsFacts ==
  ASSUME NEW b \in Nat, NEW docs \in SUBSET Doc, NEW order \in SetToSeqs(docs),
         local \in [Doc -> Nat]
  PROVE  /\ Additions(b, order) \in Seq(Write)
         /\ \A i \in 1 .. Len(Additions(b, order)) : \E d \in docs :
              Additions(b, order)[i] = [doc |-> d, val |-> local[d], cb |-> Add(b, d)]
         /\ \A d \in docs : Holds(Additions(b, order), Add(b, d))
         /\ Once(Additions(b, order))
<1> DEFINE n == Cardinality(docs)
           w(i) == [doc |-> order[i], val |-> local[order[i]], cb |-> Add(b, order[i])]
<1>1. n \in Nat /\ IsFiniteSet(docs)
  BY DocSets
<1>2. order \in [1 .. n -> docs] /\ \A i, j \in 1 .. n : i # j => order[i] # order[j]
  BY <1>1 DEF SetToSeqs
<1>3. Additions(b, order) = [i \in 1 .. n |-> w(i)]
  BY <1>2 DEF Additions, Add
<1>4. \A i \in 1 .. n : w(i) \in Write
  BY <1>2, TaskFacts DEF Write
<1>9. \A d \in docs : \E i \in 1 .. n : order[i] = d
  BY <1>1, OrderCovers
<1> HIDE DEF n
<1> HIDE DEF w
<1>5. Additions(b, order) \in Seq(Write) /\ Len(Additions(b, order)) = n
  BY <1>1, <1>3, <1>4, IsASeq
<1>6. \A i \in 1 .. n : Additions(b, order)[i] = w(i)
  BY <1>3
<1>7. \A i \in 1 .. n : order[i] \in docs /\ w(i).cb = Add(b, order[i])
  BY <1>2 DEF w
<1>8. ASSUME NEW i \in 1 .. n, NEW j \in 1 .. n, w(i).cb = w(j).cb
      PROVE  i = j
  <2>1. order[i] = order[j]
    BY <1>7, <1>8, TaskFacts
  <2> QED
    BY <1>2, <2>1
<1>10. \A d \in docs : Holds(Additions(b, order), Add(b, d))
  BY <1>5, <1>6, <1>7, <1>9 DEF Holds
<1> QED
  BY <1>5, <1>6, <1>7, <1>8, <1>10 DEF w, Once

\* A merge sends records, and nothing of a backup.
RecordWrite(w, objects, db) ==
  \E d \in objects :
    w = [doc |-> d, val |-> db[d], cb |-> [run |-> 0, op |-> "record", doc |-> d, val |-> db[d]]]

LEMMA MergedFacts ==
  ASSUME NEW online, NEW db \in [Doc -> Nat], NEW objects \in SUBSET Doc,
         NEW writes \in Merged(online, db, objects)
  PROVE  /\ writes \in Seq(Write)
         /\ \A i \in 1 .. Len(writes) : RecordWrite(writes[i], objects, db)
<1> DEFINE w(d) == [doc |-> d, val |-> db[d],
                    cb |-> [run |-> 0, op |-> "record", doc |-> d, val |-> db[d]]]
           S == {w(d) : d \in objects}
<1>1. \A d \in objects : w(d) \in Write
  BY DEF Write, Callback
<1>2. CASE online
  <2>1. IsFiniteSet(objects)
    BY DocSets
  <2>2. IsFiniteSet(S)
    <3> DEFINE f == [d \in objects |-> w(d)]
    <3>1. f \in Surjection(objects, S)
      BY Zenon DEF Surjection
    <3> HIDE DEF f, S, w
    <3> QED
      BY <2>1, <3>1, FS_Surjection
  <2>3. Cardinality(S) \in Nat
    BY <2>2, FS_CardinalityType
  <2>4. writes \in [1 .. Cardinality(S) -> S]
    BY <1>2, Zenon DEF Merged, SetToSeqs
  <2>5. S \subseteq Write
    BY <1>1, Zenon
  <2> HIDE DEF S
  <2>6. writes \in Seq(S) /\ Len(writes) = Cardinality(S)
    BY <2>3, <2>4
  <2>7. writes \in Seq(Write)
    BY <2>5, <2>6, SeqMonotonic
  <2>8. \A i \in 1 .. Len(writes) : writes[i] \in S
    BY <2>4, <2>6
  <2> QED
    BY <2>7, <2>8, Zenon DEF S, RecordWrite
<1>3. CASE ~online
  <2>1. writes = <<>>
    BY <1>3 DEF Merged
  <2> QED
    BY <2>1, EmptySeq
<1> QED
  BY <1>2, <1>3

-----------------------------------------------------------------------------
(***************************************************************************)
(* What waits, when writes are issued, answered and served.                *)
(***************************************************************************)

LEMMA FetchedTail ==
  ASSUME NEW T, NEW s \in Seq(T), s # <<>>, FetchedOnce(s)
  PROVE  /\ FetchedOnce(Tail(s))
         /\ \A b, c : Fetched(s, b, c) <=> FetchOf(Head(s), b, c) \/ Fetched(Tail(s), b, c)
         /\ \A b, c : FetchOf(Head(s), b, c) => ~Fetched(Tail(s), b, c)
<1> DEFINE u == Tail(s)
<1>1. /\ Len(u) = Len(s) - 1 /\ Len(s) \in Nat \ {0}
      /\ \A i \in 1 .. Len(u) : i + 1 \in 2 .. Len(s) /\ u[i] = s[i + 1]
      /\ \A i \in 2 .. Len(s) : i - 1 \in 1 .. Len(u) /\ u[i - 1] = s[i]
      /\ Head(s) = s[1] /\ 1 \in 1 .. Len(s)
  BY TailFacts
<1> HIDE DEF u
<1>2. /\ \A i \in 1 .. Len(s) : i = 1 \/ i \in 2 .. Len(s)
      /\ 2 .. Len(s) \subseteq 1 .. Len(s) /\ 1 \notin 2 .. Len(s)
  BY <1>1
<1>3. FetchedOnce(u)
  <2> SUFFICES ASSUME NEW i \in 1 .. Len(u), NEW j \in 1 .. Len(u), u[i].cb.op = "fetch",
                      FetchOf(u[j], u[i].cb.run, u[i].cb.coll)
               PROVE  i = j
    BY DEF FetchedOnce
  <2>1. i + 1 \in 1 .. Len(s) /\ j + 1 \in 1 .. Len(s) /\ u[i] = s[i + 1] /\ u[j] = s[j + 1]
    BY <1>1, <1>2
  <2>2. i + 1 = j + 1
    BY <2>1 DEF FetchedOnce
  <2> QED
    BY <2>2
<1>4. ASSUME NEW b, NEW c
      PROVE  Fetched(s, b, c) <=> FetchOf(Head(s), b, c) \/ Fetched(u, b, c)
  BY <1>1, <1>2 DEF Fetched
<1>5. ASSUME NEW b, NEW c, FetchOf(Head(s), b, c), Fetched(u, b, c)
      PROVE  FALSE
  <2>1. PICK i \in 1 .. Len(u) : FetchOf(u[i], b, c)
    BY <1>5 DEF Fetched
  <2>2. i + 1 \in 2 .. Len(s) /\ FetchOf(s[i + 1], b, c) /\ FetchOf(s[1], b, c)
    BY <1>1, <1>5, <2>1
  <2>3. 1 = i + 1
    BY <1>1, <1>2, <2>2 DEF FetchedOnce, FetchOf
  <2> QED
    BY <1>2, <2>2, <2>3
<1> QED
  BY <1>3, <1>4, <1>5 DEF u

LEMMA FetchedAppend ==
  ASSUME NEW T, NEW s \in Seq(T), NEW e \in T, FetchedOnce(s),
         e.cb.op = "fetch" => ~Fetched(s, e.cb.run, e.cb.coll)
  PROVE  /\ FetchedOnce(Append(s, e))
         /\ \A b, c : Fetched(Append(s, e), b, c) <=> Fetched(s, b, c) \/ FetchOf(e, b, c)
<1> DEFINE u == Append(s, e)
<1>0. Len(s) \in Nat
  BY SeqFacts
<1>1. /\ Len(u) = Len(s) + 1 /\ u[Len(s) + 1] = e
      /\ \A i \in 1 .. Len(s) : u[i] = s[i]
  BY AppendFacts
<1> HIDE DEF u
<1>2. /\ \A k \in 1 .. Len(u) : k \in 1 .. Len(s) \/ k = Len(s) + 1
      /\ 1 .. Len(s) \subseteq 1 .. Len(u) /\ Len(s) + 1 \in 1 .. Len(u)
  BY <1>0, <1>1
<1>3. \A b, c : Fetched(u, b, c) <=> Fetched(s, b, c) \/ FetchOf(e, b, c)
  BY <1>1, <1>2 DEF Fetched
<1>4. FetchedOnce(u)
  <2> SUFFICES ASSUME NEW i \in 1 .. Len(u), NEW j \in 1 .. Len(u), u[i].cb.op = "fetch",
                      FetchOf(u[j], u[i].cb.run, u[i].cb.coll)
               PROVE  i = j
    BY DEF FetchedOnce
  <2>1. CASE i \in 1 .. Len(s) /\ j \in 1 .. Len(s)
    BY <1>1, <2>1 DEF FetchedOnce
  <2>2. CASE i \in 1 .. Len(s) /\ j = Len(s) + 1
    <3>1. e.cb.op = "fetch" /\ FetchOf(s[i], e.cb.run, e.cb.coll)
      BY <1>1, <2>2 DEF FetchOf
    <3> QED
      BY <2>2, <3>1 DEF Fetched
  <2>3. CASE i = Len(s) + 1 /\ j \in 1 .. Len(s)
    <3>1. e.cb.op = "fetch" /\ FetchOf(s[j], e.cb.run, e.cb.coll)
      BY <1>1, <2>3
    <3> QED
      BY <2>3, <3>1 DEF Fetched
  <2> QED
    BY <1>2, <2>1, <2>2, <2>3
<1> QED
  BY <1>3, <1>4 DEF u

\* The fields of a call that the properties speak of.
Same(x, y) ==
  /\ x.asked = y.asked /\ x.cloud = y.cloud /\ x.mine = y.mine /\ x.deleted = y.deleted
  /\ x.progress = y.progress /\ x.covered = y.covered /\ x.told = y.told

LEMMA IssueFacts ==
  ASSUME NEW bs \in Seq(Call), NEW writes \in Seq(Write), Issue(writes, bs)
  PROVE  /\ queue' = queue \o writes
         /\ backups' \in Seq(Call) /\ Len(backups') = Len(bs)
         /\ \A b \in 1 .. Len(bs) : Same(backups'[b], bs[b])
<1> DEFINE f(b) == IF bs[b].asked = {} THEN bs[b]
                   ELSE [bs[b] EXCEPT !.since = @ + Len(writes)]
           n == Len(bs)
<1>1. Len(writes) \in Nat
  BY SeqFacts
<1>2. n \in Nat /\ DOMAIN bs = 1 .. n /\ \A b \in 1 .. n : bs[b] \in Call
  BY SeqFacts
<1>3. backups' = [b \in 1 .. n |-> f(b)] /\ queue' = queue \o writes
  BY <1>2 DEF Issue
<1>4. ASSUME NEW b \in 1 .. n
      PROVE  f(b) \in Call /\ Same(f(b), bs[b])
  <2>1. bs[b] \in Call
    BY <1>2
  <2>2. bs[b].since + Len(writes) \in Nat
    BY <1>1, <2>1 DEF Call
  <2> QED
    BY <2>1, <2>2, Zenon DEF Call, Same
<1> HIDE DEF f, n
<1>5. backups' \in Seq(Call) /\ Len(backups') = n
  BY <1>2, <1>3, <1>4, IsASeq
<1>6. \A b \in 1 .. n : backups'[b] = f(b)
  BY <1>3
<1> QED
  BY <1>3, <1>4, <1>5, <1>6 DEF n

\* The writes that are answered stay with the main thread.
LEMMA FinishFacts ==
  ASSUME TypeInv, OnceInv, NEW ok \in BOOLEAN, Finish(ok), queue # <<>>
  PROVE  /\ queue' \in Seq(Write) /\ done' \in Seq(Reply)
         /\ Len(queue') = Len(queue) - 1 /\ Len(queue) \in Nat \ {0}
         /\ \A i \in 1 .. Len(queue') : i + 1 \in 2 .. Len(queue) /\ queue'[i] = queue[i + 1]
         /\ queue[1].cb = Nil => done' = done
         /\ queue[1].cb # Nil => /\ Len(done') = Len(done) + 1
                                 /\ done'[Len(done) + 1] = [cb |-> queue[1].cb, ok |-> ok]
         /\ \A i \in 1 .. Len(done) : done'[i] = done[i]
         /\ OnceInv'
         /\ \A cb : Writes(cb) => (Waiting(cb)' <=> Waiting(cb))
         /\ \A b, c : Fetched(done', b, c) <=> Fetched(done, b, c)
<1> DEFINE e == [cb |-> queue[1].cb, ok |-> ok]
<1>1. queue \in Seq(Write) /\ done \in Seq(Reply)
  BY DEF TypeInv
<1>2. /\ Tail(queue) \in Seq(Write) /\ Len(Tail(queue)) = Len(queue) - 1
      /\ Len(queue) \in Nat \ {0} /\ 1 \in 1 .. Len(queue)
      /\ \A i \in 1 .. Len(Tail(queue)) : i + 1 \in 2 .. Len(queue) /\ Tail(queue)[i] = queue[i + 1]
      /\ Head(queue) = queue[1] /\ queue[1] \in Write
  BY <1>1, TailFacts
<1>3. /\ \A cb : Holds(queue, cb) <=> queue[1].cb = cb \/ Holds(Tail(queue), cb)
      /\ Once(Tail(queue))
      /\ Writes(queue[1].cb) => ~Holds(Tail(queue), queue[1].cb)
  BY <1>1, <1>2, TailHolds DEF OnceInv
<1>4. queue' = Tail(queue)
  BY DEF Finish
<1>5. \A cb : Writes(cb) /\ Holds(queue, cb) => ~Holds(done, cb)
  BY ApartHolds DEF OnceInv
<1>6. CASE queue[1].cb = Nil
  <2>1. done' = done
    BY <1>2, <1>6 DEF Finish
  <2>2. \A cb : Writes(cb) => cb # queue[1].cb
    BY <1>6 DEF Writes
  <2>3. \A cb : Writes(cb) => (Waiting(cb)' <=> Waiting(cb))
    BY <1>3, <1>4, <2>1, <2>2 DEF Waiting
  <2>4. \A cb : Writes(cb) /\ Holds(queue', cb) => ~Holds(done', cb)
    BY <1>3, <1>4, <1>5, <2>1
  <2>5. Apart(queue', done')
    BY <2>4, ApartHolds
  <2> QED
    BY <1>1, <1>2, <1>3, <1>4, <1>6, <2>1, <2>3, <2>5 DEF OnceInv
<1>7. CASE queue[1].cb # Nil
  <2>1. done' = Append(done, e)
    BY <1>2, <1>7 DEF Finish
  <2>2. e \in Reply /\ e.cb = queue[1].cb /\ e.cb.op # "fetch"
    BY <1>2, <1>7 DEF Write, Reply, TypeInv
  <2> HIDE DEF e
  <2>3. /\ done' \in Seq(Reply) /\ Len(done') = Len(done) + 1
        /\ \A i \in 1 .. Len(done) : done'[i] = done[i]
        /\ done'[Len(done) + 1] = e
        /\ \A cb : Holds(done', cb) <=> Holds(done, cb) \/ e.cb = cb
        /\ Once(done) /\ (Writes(e.cb) => ~Holds(done, e.cb)) => Once(done')
    BY <1>1, <2>1, <2>2, AppendFacts
  <2>4. Once(done')
    BY <1>3, <1>5, <2>2, <2>3 DEF OnceInv
  <2>5. \A cb : Writes(cb) => (Waiting(cb)' <=> Waiting(cb))
    BY <1>3, <1>4, <2>2, <2>3 DEF Waiting
  <2>6. \A cb : Writes(cb) /\ Holds(queue', cb) => ~Holds(done', cb)
    BY <1>3, <1>4, <1>5, <2>2, <2>3
  <2>7. Apart(queue', done')
    BY <2>6, ApartHolds
  <2>8. /\ FetchedOnce(done')
        /\ \A b, c : Fetched(done', b, c) <=> Fetched(done, b, c) \/ FetchOf(e, b, c)
    BY <1>1, <2>1, <2>2, FetchedAppend DEF OnceInv
  <2>9. \A b, c : Fetched(done', b, c) <=> Fetched(done, b, c)
    BY <2>2, <2>8 DEF FetchOf
  <2> QED
    BY <1>2, <1>3, <1>4, <1>7, <2>3, <2>4, <2>5, <2>7, <2>8, <2>9 DEF OnceInv, e
<1> QED
  BY <1>6, <1>7

\* Writes are appended to the queue.
LEMMA AppendedWaits ==
  ASSUME TypeInv, OnceInv, NEW writes \in Seq(Write), queue' = queue \o writes,
         done' = done, Once(writes),
         \A cb : Writes(cb) /\ Holds(writes, cb) => ~Waiting(cb)
  PROVE  /\ queue' \in Seq(Write) /\ OnceInv'
         /\ \A cb : Writes(cb) => (Waiting(cb)' <=> Waiting(cb) \/ Holds(writes, cb))
<1>1. queue \in Seq(Write)
  BY DEF TypeInv
<1>2. Apart(queue, writes)
  BY ApartHolds DEF Waiting
<1>3. /\ \A cb : Holds(queue', cb) <=> Holds(queue, cb) \/ Holds(writes, cb)
      /\ Once(queue')
  BY <1>1, <1>2, ConcatHolds DEF OnceInv
<1>4. \A cb : Writes(cb) /\ Holds(queue', cb) => ~Holds(done', cb)
  BY <1>3, ApartHolds DEF OnceInv, Waiting
<1>5. Apart(queue', done')
  BY <1>4, ApartHolds
<1>6. queue' \in Seq(Write)
  BY <1>1, ConcatFacts
<1> QED
  BY <1>3, <1>5, <1>6 DEF OnceInv, Waiting

\* The main thread serves an answer.
LEMMA ServedWaits ==
  ASSUME TypeInv, OnceInv, done # <<>>, done' = Tail(done),
         NEW writes \in Seq(Write), queue' = queue \o writes, Once(writes),
         \A cb : Writes(cb) /\ Holds(writes, cb) => ~Waiting(cb)
  PROVE  /\ queue' \in Seq(Write) /\ done' \in Seq(Reply) /\ OnceInv'
         /\ \A cb : Writes(cb) =>
              (Waiting(cb)' <=> (Waiting(cb) /\ cb # done[1].cb) \/ Holds(writes, cb))
         /\ \A b, c : Fetched(done', b, c) <=> Fetched(done, b, c) /\ ~FetchOf(done[1], b, c)
         /\ Waiting(done[1].cb)
<1>1. queue \in Seq(Write) /\ done \in Seq(Reply)
  BY DEF TypeInv
<1>2. Apart(queue, writes)
  BY ApartHolds DEF Waiting
<1>3. /\ \A cb : Holds(queue', cb) <=> Holds(queue, cb) \/ Holds(writes, cb)
      /\ Once(queue') /\ queue' \in Seq(Write)
  BY <1>1, <1>2, ConcatHolds, ConcatFacts DEF OnceInv
<1>4. /\ \A cb : Holds(done, cb) <=> done[1].cb = cb \/ Holds(done', cb)
      /\ Once(done')
      /\ Writes(done[1].cb) => ~Holds(done', done[1].cb)
      /\ done' \in Seq(Reply)
  BY <1>1, TailFacts, TailHolds DEF OnceInv
<1>5. \A cb : Writes(cb) /\ Holds(queue, cb) => ~Holds(done, cb)
  BY ApartHolds DEF OnceInv
<1>6. \A cb : Writes(cb) /\ Holds(queue', cb) => ~Holds(done', cb)
  BY <1>3, <1>4, <1>5 DEF Waiting
<1>7. Apart(queue', done')
  BY <1>6, ApartHolds
<1>8. /\ FetchedOnce(done')
      /\ \A b, c : Fetched(done, b, c) <=> FetchOf(done[1], b, c) \/ Fetched(done', b, c)
      /\ \A b, c : FetchOf(done[1], b, c) => ~Fetched(done', b, c)
  BY <1>1, TailFacts, FetchedTail DEF OnceInv
<1>9. \A cb : Writes(cb) =>
        (Waiting(cb)' <=> (Waiting(cb) /\ cb # done[1].cb) \/ Holds(writes, cb))
  BY <1>3, <1>4, <1>5 DEF Waiting
<1> QED
  BY <1>3, <1>4, <1>7, <1>8, <1>9 DEF OnceInv, Waiting

-----------------------------------------------------------------------------
(***************************************************************************)
(* Steps that do not concern a call of backupData.                         *)
(***************************************************************************)

CoreInv == TypeInv /\ OnceInv /\ CallsInv

LEMMA CallFacts ==
  ASSUME TypeInv, NEW b \in 1 .. Len(backups)
  PROVE  /\ backups[b] \in Call /\ b \in Nat /\ DOMAIN backups = 1 .. Len(backups)
         /\ backups[b].mine \subseteq Doc /\ backups[b].asked \subseteq Collections
         /\ backups[b].deleted \in [Collections -> Nat] /\ backups[b].progress \in Nat
         /\ \A c \in Collections : backups[b].cloud[c] # Nil =>
              /\ backups[b].cloud[c] \subseteq c /\ backups[b].cloud[c] \in SUBSET Doc
              /\ Cardinality(backups[b].cloud[c]) \in Nat
<1>1. backups \in Seq(Call)
  BY DEF TypeInv
<1>2. backups[b] \in Call /\ b \in Nat /\ DOMAIN backups = 1 .. Len(backups)
  BY <1>1, SeqFacts
<1>3. ASSUME NEW c \in Collections, backups[b].cloud[c] # Nil
      PROVE  /\ backups[b].cloud[c] \subseteq c /\ backups[b].cloud[c] \in SUBSET Doc
             /\ Cardinality(backups[b].cloud[c]) \in Nat
  <2>1. backups[b].cloud[c] \subseteq c
    BY <1>3 DEF TypeInv
  <2>2. backups[b].cloud[c] \in SUBSET Doc
    BY <2>1, CollectionFacts
  <2> QED
    BY <2>1, <2>2, DocSets
<1> QED
  BY <1>2, <1>3 DEF Call

\* The tasks of a call that has found both collections.
LEMMA TasksOf ==
  ASSUME NEW b \in Nat, NEW x \in Call, Loaded(x),
         \A c \in Collections : x.cloud[c] # Nil => x.cloud[c] \subseteq c
  PROVE  /\ \A cb \in Tasks(b, x) : \E d \in Doc :
              \/ cb = Del(b, d) /\ d \in x.cloud[CollectionOf(d)]
              \/ cb = Add(b, d) /\ d \in x.mine
         /\ \A d \in Doc : d \in x.cloud[CollectionOf(d)] => Del(b, d) \in Tasks(b, x)
         /\ \A d \in x.mine : Add(b, d) \in Tasks(b, x)
         /\ IsFiniteSet(Tasks(b, x)) /\ Cardinality(Tasks(b, x)) = Total(x)
         /\ Total(x) \in Nat
<1> DEFINE C == x.cloud[Report] \cup x.cloud[Shot]
           M == x.mine
<1>1. /\ x.cloud[Report] # Nil /\ x.cloud[Shot] # Nil
      /\ Report \in Collections /\ Shot \in Collections
  BY CollectionFacts DEF Loaded
<1>2. /\ x.cloud[Report] \subseteq Report /\ x.cloud[Shot] \subseteq Shot
      /\ x.cloud[Report] \in SUBSET Doc /\ x.cloud[Shot] \in SUBSET Doc
      /\ M \in SUBSET Doc
  BY <1>1, CollectionFacts DEF Call
<1>3. \A d \in Doc : d \in C <=> d \in x.cloud[CollectionOf(d)]
  BY <1>2, CollectionFacts, Zenon DEF CollectionOf
<1>4. C \in SUBSET Doc
  BY <1>2
<1>5. IsFiniteSet(C) /\ IsFiniteSet(M) /\ Cardinality(C) \in Nat /\ Cardinality(M) \in Nat
  BY <1>2, <1>4, DocSets
<1>6. Cardinality(C) = Cardinality(x.cloud[Report]) + Cardinality(x.cloud[Shot])
  <2>1. x.cloud[Report] \cap x.cloud[Shot] = {}
    BY <1>2, CollectionFacts
  <2>2. Cardinality(x.cloud[Report] \cap x.cloud[Shot]) = 0
    BY <2>1, FS_EmptySet, Zenon
  <2>3. /\ IsFiniteSet(x.cloud[Report]) /\ Cardinality(x.cloud[Report]) \in Nat
        /\ IsFiniteSet(x.cloud[Shot]) /\ Cardinality(x.cloud[Shot]) \in Nat
    BY <1>2, DocSets
  <2>4. Cardinality(C) = Cardinality(x.cloud[Report]) + Cardinality(x.cloud[Shot])
          - Cardinality(x.cloud[Report] \cap x.cloud[Shot])
    BY <2>3, FS_Union
  <2> QED
    BY <2>2, <2>3, <2>4
<1> HIDE DEF C, M
<1>7. IsFiniteSet(DelTasks(b, x)) /\ Cardinality(DelTasks(b, x)) = Cardinality(C)
  <2> DEFINE f == [d \in C |-> Del(b, d)]
  <2>1. DelTasks(b, x) = {Del(b, d) : d \in C}
    BY DEF DelTasks, C
  <2>2. f \in Surjection(C, DelTasks(b, x))
    BY <2>1 DEF Surjection
  <2>3. f \in Injection(C, DelTasks(b, x))
    BY <2>1, TaskFacts DEF Injection, IsInjective
  <2> HIDE DEF f
  <2> QED
    BY <1>5, <2>2, <2>3, FS_Surjection
<1>8. IsFiniteSet(AddTasks(b, x)) /\ Cardinality(AddTasks(b, x)) = Cardinality(M)
  <2> DEFINE f == [d \in M |-> Add(b, d)]
  <2>1. AddTasks(b, x) = {Add(b, d) : d \in M}
    BY DEF AddTasks, M
  <2>2. f \in Surjection(M, AddTasks(b, x))
    BY <2>1 DEF Surjection
  <2>3. f \in Injection(M, AddTasks(b, x))
    BY <2>1, TaskFacts DEF Injection, IsInjective
  <2> HIDE DEF f
  <2> QED
    BY <1>5, <2>2, <2>3, FS_Surjection
<1>9. DelTasks(b, x) \cap AddTasks(b, x) = {}
  BY TaskFacts DEF DelTasks, AddTasks
<1>10. IsFiniteSet(Tasks(b, x)) /\ Cardinality(Tasks(b, x)) = Cardinality(C) + Cardinality(M)
  <2>1. Cardinality(DelTasks(b, x) \cap AddTasks(b, x)) = 0
    BY <1>9, FS_EmptySet, Zenon
  <2>2. /\ IsFiniteSet(Tasks(b, x))
        /\ Cardinality(Tasks(b, x)) = Cardinality(DelTasks(b, x)) + Cardinality(AddTasks(b, x))
             - Cardinality(DelTasks(b, x) \cap AddTasks(b, x))
    BY <1>7, <1>8, FS_Union DEF Tasks
  <2> QED
    BY <1>5, <1>7, <1>8, <2>1, <2>2
<1>11. Total(x) = Cardinality(C) + Cardinality(M)
  BY <1>6 DEF Total, M
<1>12. \A cb \in Tasks(b, x) : \E d \in Doc :
         \/ cb = Del(b, d) /\ d \in x.cloud[CollectionOf(d)]
         \/ cb = Add(b, d) /\ d \in x.mine
  BY <1>2, <1>3, <1>4 DEF Tasks, DelTasks, AddTasks, C, M
<1>13. \A d \in Doc : d \in x.cloud[CollectionOf(d)] => Del(b, d) \in Tasks(b, x)
  BY <1>3 DEF Tasks, DelTasks, C
<1>14. \A d \in x.mine : Add(b, d) \in Tasks(b, x)
  BY DEF Tasks, AddTasks
<1> QED
  BY <1>5, <1>10, <1>11, <1>12, <1>13, <1>14

\* The tasks of a call that no step has touched.
LEMMA WorkUnaffected ==
  ASSUME TypeInv, NEW b \in 1 .. Len(backups),
         backups'[b].cloud = backups[b].cloud, backups'[b].mine = backups[b].mine,
         backups'[b].deleted = backups[b].deleted,
         backups'[b].progress = backups[b].progress, Errors(b)' = Errors(b),
         \A d \in Doc : (Waiting(Del(b, d))' <=> Waiting(Del(b, d)))
                       /\ (Waiting(Add(b, d))' <=> Waiting(Add(b, d))),
         CallInv(b)
  PROVE  WriteInv(b)' /\ BudgetInv(b)'
<1>1. /\ Loaded(backups'[b]) <=> Loaded(backups[b])
      /\ Total(backups'[b]) = Total(backups[b])
      /\ \A c \in Collections : Issued(b, c)' <=> Issued(b, c)
  BY DEF Loaded, Total, Issued
<1>2. WriteInv(b)'
  <2>1. \A d \in Doc : Issued(b, CollectionOf(d))' <=> Issued(b, CollectionOf(d))
    BY <1>1, CollectionFacts
  <2> QED
    BY <1>1, <2>1 DEF CallInv, WriteInv
<1>3. BudgetInv(b)'
  <2> SUFFICES ASSUME Loaded(backups[b])
               PROVE  BudgetInv(b)'
    BY <1>1 DEF BudgetInv
  <2>1. \A c \in Collections : Deleting(b, c)' = Deleting(b, c)
    BY CollectionFacts DEF Deleting
  <2>2. Tasks(b, backups'[b]) = Tasks(b, backups[b])
    BY DEF Tasks, DelTasks, AddTasks
  <2>3. ASSUME NEW cb \in Tasks(b, backups[b])
        PROVE  /\ Waiting(cb)' <=> Waiting(cb)
               /\ cb.op = "add" =>
                    (Issued(b, CollectionOf(cb.doc))' <=> Issued(b, CollectionOf(cb.doc)))
    <3>0. /\ b \in Nat /\ backups[b] \in Call
          /\ \A c \in Collections : backups[b].cloud[c] # Nil => backups[b].cloud[c] \subseteq c
      BY CallFacts, Zenon
    <3>1. PICK d \in Doc : cb = Del(b, d) \/ cb = Add(b, d)
      BY <3>0, TasksOf
    <3>2. cb.doc = d
      BY <3>1, TaskFacts
    <3> QED
      BY <1>1, <3>1, <3>2, CollectionFacts
  <2>4. Todo(b)' = Todo(b)
    BY <2>2, <2>3 DEF Todo
  <2> QED
    BY <1>1, <2>1, <2>4 DEF CallInv, BudgetInv
<1> QED
  BY <1>2, <1>3

LEMMA Unaffected ==
  ASSUME TypeInv, NEW b \in 1 .. Len(backups), Same(backups'[b], backups[b]),
         \A d \in Doc : (Waiting(Del(b, d))' <=> Waiting(Del(b, d)))
                       /\ (Waiting(Add(b, d))' <=> Waiting(Add(b, d))),
         \A c \in Collections : Fetched(done', b, c) <=> Fetched(done, b, c),
         CallInv(b)
  PROVE  CallInv(b)'
<1>1. Loaded(backups'[b]) <=> Loaded(backups[b])
  BY DEF Same, Loaded
<1>2. FetchInv(b)'
  BY DEF CallInv, FetchInv, Same
<1>3. WriteInv(b)' /\ BudgetInv(b)'
  BY WorkUnaffected DEF Same, Errors
<1>4. UnloadedInv(b)'
  <2>1. Lost(b)' <=> Lost(b)
    BY DEF Lost, Same
  <2> QED
    BY <1>1, <2>1 DEF CallInv, UnloadedInv, Same
<1> QED
  BY <1>2, <1>3, <1>4 DEF CallInv

LEMMA NoneAffected ==
  ASSUME TypeInv, CallsInv, Len(backups') = Len(backups),
         \A b \in 1 .. Len(backups) : Same(backups'[b], backups[b]),
         \A cb : Writes(cb) => (Waiting(cb)' <=> Waiting(cb)),
         \A b, c : Fetched(done', b, c) <=> Fetched(done, b, c)
  PROVE  CallsInv'
<1> SUFFICES ASSUME NEW b \in 1 .. Len(backups)
             PROVE  CallInv(b)'
  BY DEF CallsInv
<1>1. b \in Nat
  BY CallFacts
<1>2. \A d \in Doc : Writes(Del(b, d)) /\ Writes(Add(b, d))
  BY <1>1, TaskFacts
<1>3. \A d \in Doc : (Waiting(Del(b, d))' <=> Waiting(Del(b, d)))
                    /\ (Waiting(Add(b, d))' <=> Waiting(Add(b, d)))
  BY <1>2
<1>4. CallInv(b)
  BY DEF CallsInv
<1> QED
  BY <1>3, <1>4, Unaffected

LEMMA ListFacts ==
  ASSUME TypeInv
  PROVE  /\ Len(queue) \in Nat /\ Len(done) \in Nat /\ Len(backups) \in Nat
         /\ \A i \in 1 .. Len(queue) : queue[i] \in Write
         /\ \A i \in 1 .. Len(done) : done[i] \in Reply
         /\ persisted \in Nat /\ applied \in Nat
         /\ persisted <= Len(queue) /\ applied <= persisted
<1>1. queue \in Seq(Write) /\ done \in Seq(Reply) /\ backups \in Seq(Call)
  BY DEF TypeInv
<1>2. /\ Len(queue) \in Nat /\ \A i \in 1 .. Len(queue) : queue[i] \in Write
      /\ Len(done) \in Nat /\ \A i \in 1 .. Len(done) : done[i] \in Reply
      /\ Len(backups) \in Nat
  BY <1>1, SeqFacts
<1> QED
  BY <1>2 DEF TypeInv

\* An answer leaves the queue.
LEMMA FinishKeeps ==
  ASSUME CoreInv, NEW ok \in BOOLEAN, Finish(ok), 0 < persisted,
         UNCHANGED <<backups, local, outbox, edits, link>>,
         server' \in [Doc -> Nat], cache' \in [Doc -> Nat],
         applied' \in 0 .. persisted'
  PROVE  CoreInv'
<1>0. TypeInv /\ OnceInv /\ CallsInv
  BY DEF CoreInv
<1>1. /\ Len(queue) \in Nat /\ Len(done) \in Nat
      /\ persisted \in Nat /\ persisted <= Len(queue)
      /\ \A i \in 1 .. Len(queue) : queue[i] \in Write
  BY <1>0, ListFacts
<1>2. queue # <<>>
  BY <1>1
<1>3. /\ queue' \in Seq(Write) /\ done' \in Seq(Reply)
      /\ Len(queue') = Len(queue) - 1 /\ Len(queue) \in Nat \ {0}
      /\ \A i \in 1 .. Len(queue') : i + 1 \in 2 .. Len(queue) /\ queue'[i] = queue[i + 1]
      /\ queue[1].cb = Nil => done' = done
      /\ queue[1].cb # Nil => /\ Len(done') = Len(done) + 1
                              /\ done'[Len(done) + 1] = [cb |-> queue[1].cb, ok |-> ok]
      /\ \A i \in 1 .. Len(done) : done'[i] = done[i]
      /\ OnceInv'
      /\ \A cb : Writes(cb) => (Waiting(cb)' <=> Waiting(cb))
      /\ \A b, c : Fetched(done', b, c) <=> Fetched(done, b, c)
  BY <1>0, <1>2, FinishFacts, Zenon
<1>4. persisted' \in 0 .. Len(queue')
  BY <1>1, <1>3 DEF Finish
<1>5. \A i \in 1 .. Len(queue') : queue'[i].cb # Nil =>
        queue'[i].cb.op # "fetch" /\ Served(queue'[i].cb, Len(backups))
  <2>1. \A i \in 1 .. Len(queue) : queue[i].cb # Nil =>
          queue[i].cb.op # "fetch" /\ Served(queue[i].cb, Len(backups))
    BY <1>0 DEF TypeInv
  <2>2. \A i \in 2 .. Len(queue) : i \in 1 .. Len(queue)
    BY <1>1
  <2>3. \A i \in 1 .. Len(queue') : i + 1 \in 1 .. Len(queue) /\ queue'[i] = queue[i + 1]
    BY <1>3, <2>2
  <2> QED
    BY <2>1, <2>3
<1>6. \A i \in 1 .. Len(done') : i \in 1 .. Len(done)
        \/ (i = Len(done) + 1 /\ queue[1].cb # Nil)
  BY <1>1, <1>3
<1>7. queue[1].cb # Nil => queue[1].cb.op # "fetch" /\ Served(queue[1].cb, Len(backups))
  <2>1. 1 \in 1 .. Len(queue)
    BY <1>1, <1>3
  <2> QED
    BY <1>0, <2>1, Zenon DEF TypeInv
<1>8. \A i \in 1 .. Len(done') : Served(done'[i].cb, Len(backups))
  <2> SUFFICES ASSUME NEW i \in 1 .. Len(done')
               PROVE  Served(done'[i].cb, Len(backups))
    OBVIOUS
  <2>1. CASE i \in 1 .. Len(done)
    BY <1>0, <1>3, <2>1 DEF TypeInv
  <2>2. CASE i = Len(done) + 1 /\ queue[1].cb # Nil
    BY <1>3, <1>7, <2>2
  <2> QED
    BY <1>6, <2>1, <2>2
<1>9. \A i \in 1 .. Len(done') : done'[i].cb.op = "fetch" =>
        done'[i].cb.docs \subseteq done'[i].cb.coll
  <2> SUFFICES ASSUME NEW i \in 1 .. Len(done'), done'[i].cb.op = "fetch"
               PROVE  done'[i].cb.docs \subseteq done'[i].cb.coll
    OBVIOUS
  <2>1. CASE i \in 1 .. Len(done)
    BY <1>0, <1>3, <2>1, Zenon DEF TypeInv
  <2>2. CASE i = Len(done) + 1 /\ queue[1].cb # Nil
    BY <1>3, <1>7, <2>2
  <2> QED
    BY <1>6, <2>1, <2>2
<1>10. TypeInv'
  BY <1>0, <1>3, <1>4, <1>5, <1>8, <1>9, Zenon DEF TypeInv
<1>11. \A b \in 1 .. Len(backups) : Same(backups'[b], backups[b])
  BY DEF Same
<1>12. CallsInv'
  BY <1>0, <1>3, <1>11, NoneAffected, Zenon
<1> QED
  BY <1>3, <1>10, <1>12 DEF CoreInv

\* The outbox is merged.
LEMMA MergeKeeps ==
  ASSUME CoreInv, NEW online, NEW db \in [Doc -> Nat], NEW objects \in SUBSET Doc,
         NEW writes \in Merged(online, db, objects), Issue(writes, backups),
         UNCHANGED <<server, persisted, applied, done, cache>>,
         local' \in [Doc -> Nat], outbox' \in SUBSET Doc, edits' \in Nat, link' \in BOOLEAN
  PROVE  CoreInv'
<1>0. TypeInv /\ OnceInv /\ CallsInv
  BY DEF CoreInv
<1>1. /\ writes \in Seq(Write)
      /\ \A i \in 1 .. Len(writes) : RecordWrite(writes[i], objects, db)
  BY MergedFacts
<1>2. ASSUME NEW i \in 1 .. Len(writes)
      PROVE  writes[i].cb.op = "record" /\ writes[i].cb.run = 0
  <2>1. PICK d \in objects : writes[i] =
          [doc |-> d, val |-> db[d],
           cb |-> [run |-> 0, op |-> "record", doc |-> d, val |-> db[d]]]
    BY <1>1, Zenon DEF RecordWrite
  <2> QED
    BY <2>1
<1>3. \A i \in 1 .. Len(writes) : ~Writes(writes[i].cb)
  BY <1>2 DEF Writes
<1>4. Once(writes) /\ \A cb : Writes(cb) => ~Holds(writes, cb)
  BY <1>3 DEF Once, Holds
<1>5. backups \in Seq(Call)
  BY <1>0 DEF TypeInv
<1>6. /\ queue' = queue \o writes
      /\ backups' \in Seq(Call) /\ Len(backups') = Len(backups)
      /\ \A b \in 1 .. Len(backups) : Same(backups'[b], backups[b])
  BY <1>1, <1>5, IssueFacts
<1>7. /\ queue' \in Seq(Write) /\ OnceInv'
      /\ \A cb : Writes(cb) => (Waiting(cb)' <=> Waiting(cb) \/ Holds(writes, cb))
  BY <1>0, <1>1, <1>4, <1>6, AppendedWaits, Zenon
<1>8. CallsInv'
  BY <1>0, <1>4, <1>6, <1>7, NoneAffected
<1>9. TypeInv'
  <2>1. queue \in Seq(Write)
    BY <1>0 DEF TypeInv
  <2>2. /\ Len(queue') = Len(queue) + Len(writes) /\ Len(queue) \in Nat /\ Len(writes) \in Nat
        /\ \A i \in 1 .. Len(queue) : queue'[i] = queue[i]
        /\ \A i \in 1 .. Len(queue') : i > Len(queue) =>
             i - Len(queue) \in 1 .. Len(writes) /\ queue'[i] = writes[i - Len(queue)]
    BY <1>1, <1>6, <2>1, ConcatFacts, SeqFacts
  <2>3. ASSUME NEW i \in 1 .. Len(queue'), queue'[i].cb # Nil
        PROVE  queue'[i].cb.op # "fetch" /\ Served(queue'[i].cb, Len(backups'))
    <3>1. CASE i > Len(queue)
      BY <1>2, <2>2, <3>1 DEF Served
    <3>2. CASE ~(i > Len(queue))
      <4>1. i \in 1 .. Len(queue)
        BY <2>2, <3>2
      <4> QED
        BY <1>0, <1>6, <2>2, <2>3, <4>1 DEF TypeInv
    <3> QED
      BY <3>1, <3>2
  <2>4. persisted \in 0 .. Len(queue')
    BY <1>0, <2>2, ListFacts
  <2>5. ASSUME NEW b \in 1 .. Len(backups'), NEW c \in Collections, backups'[b].cloud[c] # Nil
        PROVE  backups'[b].cloud[c] \subseteq c
    <3>1. b \in 1 .. Len(backups) /\ backups'[b].cloud = backups[b].cloud
      BY <1>6 DEF Same
    <3> QED
      BY <1>0, <2>5, <3>1 DEF TypeInv
  <2> QED
    BY <1>0, <1>6, <1>7, <2>3, <2>4, <2>5, Zenon DEF TypeInv
<1> QED
  BY <1>7, <1>8, <1>9 DEF CoreInv

\* Neither the queue nor the callbacks change.
LEMMA QuietKeeps ==
  ASSUME CoreInv, UNCHANGED <<queue, done, backups, local, outbox, edits>>,
         server' \in [Doc -> Nat], cache' \in [Doc -> Nat], link' \in BOOLEAN,
         persisted' \in 0 .. Len(queue), applied' \in 0 .. persisted'
  PROVE  CoreInv'
<1>1. TypeInv'
  BY Zenon DEF CoreInv, TypeInv
<1>2. OnceInv'
  BY DEF CoreInv, OnceInv
<1>3. \A b \in 1 .. Len(backups) : Same(backups'[b], backups[b])
  BY DEF Same
<1>4. \A cb : Waiting(cb)' <=> Waiting(cb)
  BY DEF Waiting
<1>5. CallsInv'
  BY <1>3, <1>4, NoneAffected DEF CoreInv
<1> QED
  BY <1>1, <1>2, <1>5 DEF CoreInv

LEMMA ClientKeeps ==
  ASSUME CoreInv, Beside(ClientPersist \/ ClientApply \/ ClientAck \/ ClientReject)
  PROVE  CoreInv'
<1>0. TypeInv /\ UNCHANGED <<outbox, edits, crashed>>
  BY DEF CoreInv, Beside, editVars
<1>1. /\ Len(queue) \in Nat /\ \A i \in 1 .. Len(queue) : queue[i] \in Write
      /\ persisted \in Nat /\ applied \in Nat
      /\ persisted <= Len(queue) /\ applied <= persisted
      /\ server \in [Doc -> Nat] /\ cache \in [Doc -> Nat] /\ link \in BOOLEAN
  BY <1>0, ListFacts, Zenon DEF TypeInv
<1>2. CASE ClientPersist
  <2>1. /\ persisted < Len(queue) /\ persisted' = persisted + 1
        /\ UNCHANGED <<server, queue, applied, done, local, cache, link, backups>>
    BY <1>2 DEF ClientPersist, Persist
  <2> QED
    BY <1>0, <1>1, <2>1, QuietKeeps
<1>3. CASE ClientApply
  <2>1. /\ applied < persisted /\ applied' = applied + 1
        /\ server' = [server EXCEPT ![queue[applied + 1].doc] = queue[applied + 1].val]
        /\ UNCHANGED <<queue, persisted, done, local, cache, link, backups>>
    BY <1>3 DEF ClientApply, Apply
  <2>2. queue[applied + 1] \in Write
    BY <1>1, <2>1
  <2>3. server' \in [Doc -> Nat]
    BY <1>1, <2>1, <2>2 DEF Write
  <2> QED
    BY <1>0, <1>1, <2>1, <2>3, QuietKeeps
<1>4. CASE ClientAck
  <2>1. /\ applied > 0 /\ applied' = applied - 1 /\ Finish(TRUE)
        /\ cache' = [cache EXCEPT ![Head(queue).doc] = Head(queue).val]
        /\ UNCHANGED <<server, local, link, backups>>
    BY <1>4, Zenon DEF ClientAck, Acknowledge
  <2>2. Head(queue) \in Write
    <3>1. queue # <<>> /\ queue \in Seq(Write)
      BY <1>0, <1>1, <2>1 DEF TypeInv
    <3> QED
      BY <3>1, TailFacts
  <2>3. cache' \in [Doc -> Nat]
    BY <1>1, <2>1, <2>2 DEF Write
  <2>4. persisted' = persisted - 1
    BY <2>1 DEF Finish
  <2>5. 0 < persisted /\ applied' \in 0 .. persisted' /\ server' \in [Doc -> Nat]
    BY <1>1, <2>1, <2>4
  <2> QED
    BY <1>0, <2>1, <2>3, <2>5, FinishKeeps, Zenon
<1>5. CASE ClientReject
  <2>1. /\ applied = 0 /\ persisted > 0 /\ Finish(FALSE)
        /\ UNCHANGED <<server, applied, local, cache, link, backups>>
    BY <1>5, Zenon DEF ClientReject, Reject
  <2>2. persisted' = persisted - 1
    BY <2>1 DEF Finish
  <2>3. 0 < persisted /\ applied' \in 0 .. persisted'
        /\ server' \in [Doc -> Nat] /\ cache' \in [Doc -> Nat]
    BY <1>1, <2>1, <2>2
  <2> QED
    BY <1>0, <2>1, <2>3, FinishKeeps, Zenon
<1> QED
  BY <1>2, <1>3, <1>4, <1>5 DEF Beside

LEMMA LinkKeeps ==
  ASSUME CoreInv, Beside(link /\ LinkChange)
  PROVE  CoreInv'
<1>1. /\ link' = ~link /\ applied' = 0
      /\ UNCHANGED <<server, queue, persisted, done, local, cache, backups, outbox, edits>>
  BY DEF Beside, LinkChange, StreamLost, editVars
<1>2. /\ server' \in [Doc -> Nat] /\ cache' \in [Doc -> Nat] /\ link' \in BOOLEAN
      /\ persisted' \in 0 .. Len(queue) /\ applied' \in 0 .. persisted'
  BY <1>1, ListFacts DEF CoreInv, TypeInv
<1> QED
  BY <1>1, <1>2, QuietKeeps

LEMMA LinkReturnsKeeps ==
  ASSUME CoreInv, LinkReturns
  PROVE  CoreInv'
<1>1. PICK writes \in Merged(TRUE, local, outbox) : Issue(writes, backups)
  BY Zenon DEF LinkReturns
<1>2. /\ link' = TRUE
      /\ UNCHANGED <<server, persisted, applied, done, local, cache, outbox, edits>>
  BY DEF LinkReturns, editVars
<1>3. /\ local \in [Doc -> Nat] /\ outbox \in SUBSET Doc /\ edits \in Nat
      /\ local' \in [Doc -> Nat] /\ outbox' \in SUBSET Doc /\ edits' \in Nat /\ link' \in BOOLEAN
  BY <1>2 DEF CoreInv, TypeInv
<1> QED
  BY <1>1, <1>2, <1>3, MergeKeeps, Zenon

\* The user's changes.
LEMMA ChangeFacts ==
  ASSUME TypeInv, NEW o \in Doc, UpdateObject(o) \/ DeleteObject(o)
  PROVE  \E objects \in SUBSET Doc : \E val \in {Absent, 3 + edits} :
           Change(objects, val)
<1>1. CASE UpdateObject(o)
  BY <1>1 DEF UpdateObject
<1>2. CASE DeleteObject(o)
  <2>1. {o} \cup ShotsOf(o) \in SUBSET Doc
    BY DEF ShotsOf, Shot
  <2> QED
    BY <1>2, <2>1 DEF DeleteObject
<1> QED
  BY <1>1, <1>2

LEMMA ChangeKeeps ==
  ASSUME CoreInv, NEW objects \in SUBSET Doc, NEW val \in {Absent, 3 + edits},
         Change(objects, val)
  PROVE  CoreInv'
<1>1. /\ local \in [Doc -> Nat] /\ outbox \in SUBSET Doc /\ edits \in Nat /\ link \in BOOLEAN
  BY DEF CoreInv, TypeInv
<1>2. /\ edits' = edits + 1 /\ outbox' = outbox \cup objects
      /\ local' = [d \in Doc |-> IF d \in objects THEN val ELSE local[d]]
      /\ UNCHANGED <<server, persisted, applied, done, cache, link>>
  BY DEF Change
<1>3. PICK writes \in Merged(link, local', outbox') : Issue(writes, backups)
  BY DEF Change
<1>4. local' \in [Doc -> Nat] /\ outbox' \in SUBSET Doc /\ edits' \in Nat /\ link' \in BOOLEAN
  BY <1>1, <1>2 DEF Absent
<1> QED
  BY <1>2, <1>3, <1>4, MergeKeeps

-----------------------------------------------------------------------------
(***************************************************************************)
(* The main thread serves an answer.                                       *)
(***************************************************************************)

\* What is left of the answers is typed as before.
LEMMA ServedType ==
  ASSUME TypeInv, done # <<>>, done' = Tail(done), Len(backups') = Len(backups)
  PROVE  /\ done[1] \in Reply /\ Head(done) = done[1] /\ Served(done[1].cb, Len(backups))
         /\ done[1].cb.op = "fetch" => done[1].cb.docs \subseteq done[1].cb.coll
         /\ done' \in Seq(Reply)
         /\ \A i \in 1 .. Len(done') : Served(done'[i].cb, Len(backups'))
         /\ \A i \in 1 .. Len(done') : done'[i].cb.op = "fetch" =>
              done'[i].cb.docs \subseteq done'[i].cb.coll
<1>1. done \in Seq(Reply)
  BY DEF TypeInv
<1>2. /\ done' \in Seq(Reply) /\ Len(done) \in Nat \ {0} /\ 1 \in 1 .. Len(done)
      /\ \A i \in 1 .. Len(done') : i + 1 \in 2 .. Len(done) /\ done'[i] = done[i + 1]
      /\ Head(done) = done[1] /\ done[1] \in Reply
  BY <1>1, TailFacts
<1>3. \A i \in 1 .. Len(done) : Served(done[i].cb, Len(backups))
        /\ (done[i].cb.op = "fetch" => done[i].cb.docs \subseteq done[i].cb.coll)
  BY DEF TypeInv
<1>4. \A i \in 1 .. Len(done') : i + 1 \in 1 .. Len(done) /\ done'[i] = done[i + 1]
  BY <1>2
<1>5. Served(done[1].cb, Len(backups))
        /\ (done[1].cb.op = "fetch" => done[1].cb.docs \subseteq done[1].cb.coll)
  BY <1>2, <1>3
<1>6. ASSUME NEW i \in 1 .. Len(done')
      PROVE  Served(done'[i].cb, Len(backups'))
        /\ (done'[i].cb.op = "fetch" => done'[i].cb.docs \subseteq done'[i].cb.coll)
  <2>1. i + 1 \in 1 .. Len(done) /\ done'[i] = done[i + 1]
    BY <1>4
  <2> QED
    BY <1>3, <2>1
<1> QED
  BY <1>2, <1>5, <1>6

\* The answer of a record's write concerns no backup.
LEMMA RecordDoneKeeps ==
  ASSUME CoreInv, OnRecordDone
  PROVE  CoreInv'
<1>0. TypeInv /\ OnceInv /\ CallsInv
  BY DEF CoreInv
<1>1. /\ done # <<>> /\ done' = Tail(done) /\ Head(done).cb.op = "record"
      /\ UNCHANGED <<server, queue, persisted, applied, local, cache, link, backups, edits>>
      /\ outbox' \in SUBSET Doc
  BY <1>0 DEF OnRecordDone, TypeInv
<1>2. queue' = queue \o <<>> /\ <<>> \in Seq(Write)
  BY <1>0, <1>1, EmptySeq, ConcatEmptySeq DEF TypeInv
<1>3. Once(<<>>) /\ \A cb : ~Holds(<<>>, cb)
  BY EmptySeq DEF Once, Holds
<1>4. /\ queue' \in Seq(Write) /\ done' \in Seq(Reply) /\ OnceInv'
      /\ \A cb : Writes(cb) =>
           (Waiting(cb)' <=> (Waiting(cb) /\ cb # done[1].cb) \/ Holds(<<>>, cb))
      /\ \A b, c : Fetched(done', b, c) <=> Fetched(done, b, c) /\ ~FetchOf(done[1], b, c)
  BY <1>0, <1>1, <1>2, <1>3, ServedWaits, Zenon
<1>5. /\ Head(done) = done[1] /\ done' \in Seq(Reply)
      /\ \A i \in 1 .. Len(done') : Served(done'[i].cb, Len(backups'))
      /\ \A i \in 1 .. Len(done') : done'[i].cb.op = "fetch" =>
           done'[i].cb.docs \subseteq done'[i].cb.coll
  BY <1>0, <1>1, ServedType, Zenon
<1>6. /\ \A cb : Writes(cb) => (Waiting(cb)' <=> Waiting(cb))
      /\ \A b, c : Fetched(done', b, c) <=> Fetched(done, b, c)
  BY <1>1, <1>3, <1>4, <1>5 DEF Writes, FetchOf
<1>7. \A b \in 1 .. Len(backups) : Same(backups'[b], backups[b])
  BY <1>1 DEF Same
<1>8. CallsInv'
  BY <1>0, <1>1, <1>6, <1>7, NoneAffected
<1>9. TypeInv'
  BY <1>0, <1>1, <1>5 DEF TypeInv
<1> QED
  BY <1>4, <1>8, <1>9 DEF CoreInv

\* Serving the answer of a backup's callback: no other backup is concerned.
LEMMA ServeKeeps ==
  ASSUME CoreInv, done # <<>>, done' = Tail(done), done[1].cb.op # "record",
         NEW b, b = done[1].cb.run,
         NEW writes \in Seq(Write), queue' = queue \o writes, Once(writes),
         \A i \in 1 .. Len(writes) : Writes(writes[i].cb) /\ writes[i].cb.run = b,
         \A cb : Holds(writes, cb) => ~Waiting(cb),
         UNCHANGED <<server, persisted, applied, local, cache, link, outbox, edits>>,
         backups' \in Seq(Call), Len(backups') = Len(backups),
         \A x \in 1 .. Len(backups) : x # b => Same(backups'[x], backups[x]),
         \A c \in Collections : backups'[b].cloud[c] # Nil => backups'[b].cloud[c] \subseteq c,
         CallInv(b)'
  PROVE  CoreInv'
<1>0. TypeInv /\ OnceInv /\ CallsInv
  BY DEF CoreInv
<1>1. /\ queue' \in Seq(Write) /\ done' \in Seq(Reply) /\ OnceInv'
      /\ \A cb : Writes(cb) =>
           (Waiting(cb)' <=> (Waiting(cb) /\ cb # done[1].cb) \/ Holds(writes, cb))
      /\ \A x, c : Fetched(done', x, c) <=> Fetched(done, x, c) /\ ~FetchOf(done[1], x, c)
  BY <1>0, ServedWaits, Zenon
<1>2. /\ done[1] \in Reply /\ Served(done[1].cb, Len(backups))
      /\ \A i \in 1 .. Len(done') : Served(done'[i].cb, Len(backups'))
      /\ \A i \in 1 .. Len(done') : done'[i].cb.op = "fetch" =>
           done'[i].cb.docs \subseteq done'[i].cb.coll
  BY <1>0, ServedType
<1>3. b \in 1 .. Len(backups)
  BY <1>2 DEF Served
<1>4. ASSUME NEW x \in 1 .. Len(backups)
      PROVE  CallInv(x)'
  <2>1. CASE x = b
    BY <2>1
  <2>2. CASE x # b
    <3>1. x \in Nat
      BY <1>0, CallFacts
    <3>2. ASSUME NEW d \in Doc, NEW cb \in {Del(x, d), Add(x, d)}
          PROVE  Waiting(cb)' <=> Waiting(cb)
      <4>1. Writes(cb) /\ cb.run = x
        BY <3>1, TaskFacts
      <4>2. cb # done[1].cb /\ ~Holds(writes, cb)
        BY <2>2, <4>1, Zenon DEF Holds
      <4> QED
        BY <1>1, <4>1, <4>2
    <3>3. \A c \in Collections : Fetched(done', x, c) <=> Fetched(done, x, c)
      BY <1>1, <2>2 DEF FetchOf
    <3>4. \A d \in Doc : (Waiting(Del(x, d))' <=> Waiting(Del(x, d)))
                        /\ (Waiting(Add(x, d))' <=> Waiting(Add(x, d)))
      BY <3>2
    <3>5. Same(backups'[x], backups[x]) /\ CallInv(x)
      BY <1>0, <2>2 DEF CallsInv
    <3> QED
      BY <1>0, <3>3, <3>4, <3>5, Unaffected
  <2> QED
    BY <2>1, <2>2
<1>5. CallsInv'
  BY <1>4 DEF CallsInv
<1>6. ASSUME NEW i \in 1 .. Len(queue'), queue'[i].cb # Nil
      PROVE  queue'[i].cb.op # "fetch" /\ Served(queue'[i].cb, Len(backups'))
  <2>1. queue \in Seq(Write)
    BY <1>0 DEF TypeInv
  <2>2. /\ Len(queue') = Len(queue) + Len(writes) /\ Len(queue) \in Nat /\ Len(writes) \in Nat
        /\ \A k \in 1 .. Len(queue) : queue'[k] = queue[k]
        /\ \A k \in 1 .. Len(queue') : k > Len(queue) =>
             k - Len(queue) \in 1 .. Len(writes) /\ queue'[k] = writes[k - Len(queue)]
    BY <2>1, ConcatFacts, SeqFacts
  <2>3. CASE i > Len(queue)
    <3>1. i - Len(queue) \in 1 .. Len(writes) /\ queue'[i] = writes[i - Len(queue)]
      BY <2>2, <2>3
    <3>2. Writes(queue'[i].cb) /\ queue'[i].cb.run = b
      BY <3>1
    <3> QED
      BY <1>3, <3>2, Zenon DEF Served, Writes
  <2>4. CASE ~(i > Len(queue))
    <3>1. i \in 1 .. Len(queue)
      BY <2>2, <2>4
    <3> QED
      BY <1>0, <1>6, <2>2, <3>1 DEF TypeInv
  <2> QED
    BY <2>3, <2>4
<1>7. persisted \in 0 .. Len(queue')
  <2>1. queue \in Seq(Write)
    BY <1>0 DEF TypeInv
  <2>2. Len(queue') = Len(queue) + Len(writes) /\ Len(queue) \in Nat /\ Len(writes) \in Nat
    BY <2>1, ConcatFacts, SeqFacts
  <2> QED
    BY <1>0, <2>2, ListFacts
<1>8. \A x \in 1 .. Len(backups') : \A c \in Collections :
        backups'[x].cloud[c] # Nil => backups'[x].cloud[c] \subseteq c
  <2> SUFFICES ASSUME NEW x \in 1 .. Len(backups), NEW c \in Collections,
                      backups'[x].cloud[c] # Nil
               PROVE  backups'[x].cloud[c] \subseteq c
    OBVIOUS
  <2>1. CASE x = b
    BY <2>1
  <2>2. CASE x # b
    <3>1. backups'[x].cloud = backups[x].cloud
      BY <2>2 DEF Same
    <3> QED
      BY <1>0, <3>1 DEF TypeInv
  <2> QED
    BY <2>1, <2>2
<1>9. TypeInv'
  BY <1>0, <1>1, <1>2, <1>6, <1>7, <1>8, Zenon DEF TypeInv
<1> QED
  BY <1>1, <1>5, <1>9 DEF CoreInv

\* The task whose answer is served: it is still to do, and once.
LEMMA HeadTask ==
  ASSUME CoreInv, done # <<>>, done[1].cb.op # "record",
         NEW b, b = done[1].cb.run
  PROVE  /\ b \in 1 .. Len(backups) /\ b \in Nat /\ done[1].cb \in Callback
         /\ Loaded(backups[b]) => Writes(done[1].cb)
         /\ Writes(done[1].cb) =>
              /\ Loaded(backups[b])
              /\ \E d \in Doc :
                   \/ done[1].cb = Del(b, d) /\ d \in backups[b].cloud[CollectionOf(d)]
                   \/ /\ done[1].cb = Add(b, d) /\ d \in backups[b].mine
                      /\ Issued(b, CollectionOf(d))
              /\ done[1].cb \in Todo(b)
              /\ IsFiniteSet(Todo(b)) /\ Cardinality(Todo(b)) \in Nat
              /\ \A S \in SUBSET (Todo(b) \ {done[1].cb}) :
                   Cardinality(S) \in Nat /\ Cardinality(S) + 1 <= Cardinality(Todo(b))
<1>0. TypeInv /\ OnceInv /\ CallsInv
  BY DEF CoreInv
<1>1. done[1] \in Reply /\ Served(done[1].cb, Len(backups)) /\ 1 \in 1 .. Len(done)
  <2>1. done \in Seq(Reply)
    BY <1>0 DEF TypeInv
  <2>2. 1 \in 1 .. Len(done) /\ done[1] \in Reply
    BY <2>1, TailFacts
  <2> QED
    BY <1>0, <2>2, Zenon DEF TypeInv
<1> DEFINE cb == done[1].cb
<1>2. b \in 1 .. Len(backups) /\ cb \in Callback /\ Waiting(cb)
  BY <1>1 DEF Served, Reply, Waiting, Holds
<1>3. b \in Nat /\ CallInv(b)
  BY <1>0, <1>2, CallFacts DEF CallsInv
<1>4. Loaded(backups[b]) => Writes(cb)
  <2> SUFFICES ASSUME Loaded(backups[b]), ~Writes(cb)
               PROVE  FALSE
    OBVIOUS
  <2>1. cb \in [run : Nat, op : {"fetch"}, coll : Collections, docs : SUBSET Doc]
    BY <1>2, NilAssumption DEF Callback, Writes
  <2>2. Fetched(done, b, cb.coll) /\ cb.coll \in Collections
    BY <1>1, <2>1 DEF Fetched, FetchOf
  <2> QED
    BY <1>3, <2>2 DEF CallInv, FetchInv, Loaded
<1>5. ASSUME Writes(cb)
      PROVE  /\ Loaded(backups[b])
             /\ \E d \in Doc :
                  \/ cb = Del(b, d) /\ d \in backups[b].cloud[CollectionOf(d)]
                  \/ /\ cb = Add(b, d) /\ d \in backups[b].mine
                     /\ Issued(b, CollectionOf(d))
             /\ cb \in Todo(b)
             /\ IsFiniteSet(Todo(b)) /\ Cardinality(Todo(b)) \in Nat
             /\ \A S \in SUBSET (Todo(b) \ {cb}) :
                  Cardinality(S) \in Nat /\ Cardinality(S) + 1 <= Cardinality(Todo(b))
  <2> HIDE DEF cb
  <2>1. b = cb.run
    BY DEF cb
  <2>2. PICK d \in Doc : cb = Del(b, d) \/ cb = Add(b, d)
    BY <1>2, <1>5, <2>1, WriteTask
  <2>3. ASSUME cb = Del(b, d)
        PROVE  /\ Loaded(backups[b]) /\ cb \in Tasks(b, backups[b])
               /\ d \in backups[b].cloud[CollectionOf(d)]
    <3>1. Loaded(backups[b]) /\ d \in backups[b].cloud[CollectionOf(d)]
      BY <1>2, <1>3, <2>3 DEF CallInv, WriteInv
    <3>2. cb \in Tasks(b, backups[b])
      BY <1>0, <1>2, <1>3, <2>3, <3>1, CallFacts, TasksOf
    <3> QED
      BY <3>1, <3>2
  <2>4. ASSUME cb = Add(b, d)
        PROVE  /\ Loaded(backups[b]) /\ cb \in Tasks(b, backups[b])
               /\ d \in backups[b].mine /\ Issued(b, CollectionOf(d))
    <3>1. Loaded(backups[b]) /\ d \in backups[b].mine /\ Issued(b, CollectionOf(d))
      BY <1>2, <1>3, <2>4 DEF CallInv, WriteInv
    <3>2. cb \in Tasks(b, backups[b])
      BY <1>0, <1>2, <1>3, <2>4, <3>1, CallFacts, TasksOf
    <3> QED
      BY <3>1, <3>2
  <2>5. /\ Loaded(backups[b]) /\ cb \in Tasks(b, backups[b])
        /\ \/ cb = Del(b, d) /\ d \in backups[b].cloud[CollectionOf(d)]
           \/ cb = Add(b, d) /\ d \in backups[b].mine /\ Issued(b, CollectionOf(d))
    BY <2>2, <2>3, <2>4
  <2>6. cb \in Todo(b)
    BY <1>2, <2>5 DEF Todo
  <2>7. IsFiniteSet(Tasks(b, backups[b]))
    BY <1>0, <1>2, <1>3, <2>5, CallFacts, TasksOf
  <2>8. Todo(b) \subseteq Tasks(b, backups[b])
    BY DEF Todo
  <2>9. IsFiniteSet(Todo(b)) /\ Cardinality(Todo(b)) \in Nat
    BY <2>7, <2>8, FS_Subset, FS_CardinalityType
  <2>10. ASSUME NEW S \in SUBSET (Todo(b) \ {cb})
         PROVE  Cardinality(S) \in Nat /\ Cardinality(S) + 1 <= Cardinality(Todo(b))
    <3>1. /\ IsFiniteSet(Todo(b) \ {cb})
          /\ Cardinality(Todo(b) \ {cb}) = Cardinality(Todo(b)) - 1
      BY <2>6, <2>9, FS_RemoveElement
    <3>2. /\ IsFiniteSet(S) /\ Cardinality(S) <= Cardinality(Todo(b) \ {cb})
      BY <3>1, FS_Subset
    <3>3. Cardinality(S) \in Nat
      BY <3>2, FS_CardinalityType
    <3> QED
      BY <2>9, <3>1, <3>2, <3>3
  <2> QED
    BY <2>5, <2>6, <2>9, <2>10
<1> QED
  BY <1>2, <1>3, <1>4, <1>5

\* An answer is served, and nothing is written for it.
LEMMA QuietServed ==
  ASSUME TypeInv, OnceInv, done # <<>>, done' = Tail(done), queue' = queue
  PROVE  /\ <<>> \in Seq(Write) /\ queue' = queue \o <<>> /\ Once(<<>>)
         /\ \A i \in 1 .. Len(<<>>) : FALSE
         /\ \A cb : ~Holds(<<>>, cb)
         /\ \A cb : Writes(cb) => (Waiting(cb)' <=> Waiting(cb) /\ cb # done[1].cb)
         /\ \A b, c : Fetched(done', b, c) <=> Fetched(done, b, c) /\ ~FetchOf(done[1], b, c)
<1>1. <<>> \in Seq(Write) /\ queue' = queue \o <<>>
  BY EmptySeq, ConcatEmptySeq DEF TypeInv
<1>2. Once(<<>>) /\ (\A cb : ~Holds(<<>>, cb)) /\ (\A i \in 1 .. Len(<<>>) : FALSE)
  BY EmptySeq DEF Once, Holds
<1>3. /\ \A cb : Writes(cb) =>
           (Waiting(cb)' <=> (Waiting(cb) /\ cb # done[1].cb) \/ Holds(<<>>, cb))
      /\ \A b, c : Fetched(done', b, c) <=> Fetched(done, b, c) /\ ~FetchOf(done[1], b, c)
  BY <1>1, <1>2, ServedWaits, Zenon
<1> QED
  BY <1>1, <1>2, <1>3

LEMMA ExceptFacts ==
  ASSUME TypeInv, NEW b \in 1 .. Len(backups), NEW x \in Call,
         backups' = [backups EXCEPT ![b] = x]
  PROVE  /\ backups' \in Seq(Call) /\ Len(backups') = Len(backups)
         /\ backups'[b] = x
         /\ \A i \in 1 .. Len(backups) : i # b => Same(backups'[i], backups[i])
<1>1. backups \in Seq(Call)
  BY DEF TypeInv
<1>2. /\ backups' \in Seq(Call) /\ Len(backups') = Len(backups)
      /\ \A i \in 1 .. Len(backups) : backups'[i] = IF i = b THEN x ELSE backups[i]
  BY <1>1, ExceptSeq
<1> QED
  BY <1>2 DEF Same

\* What a step may do to a call that has already found both collections: one
\* task fewer to do, and it counts as progress or as an error.
TaskServed(b) ==
  /\ backups'[b] \in Call
  /\ backups'[b].asked = backups[b].asked /\ backups'[b].cloud = backups[b].cloud
  /\ backups'[b].mine = backups[b].mine
  /\ \A c, x : Fetched(done', x, c) => Fetched(done, x, c)
  /\ \A d \in Doc : Waiting(Del(b, d))' => Waiting(Del(b, d)) /\ Del(b, d) # done[1].cb
  /\ \A d \in Doc : Waiting(Add(b, d))' =>
       /\ d \in backups[b].mine /\ Issued(b, CollectionOf(d))'
       /\ Add(b, d) # done[1].cb
       /\ Waiting(Add(b, d)) \/ ~Issued(b, CollectionOf(d))
  /\ \A c \in Collections : Issued(b, c) => Issued(b, c)'
  /\ \A c \in Collections :
       backups'[b].deleted[c] + Cardinality(Deleting(b, c)')
         <= Cardinality(backups[b].cloud[c])
  /\ backups'[b].progress + Errors(b)' <= backups[b].progress + Errors(b) + 1
  /\ backups'[b].progress \in Nat

LEMMA TaskDone ==
  ASSUME CoreInv, done # <<>>, done[1].cb.op # "record",
         NEW b, b = done[1].cb.run, Writes(done[1].cb), TaskServed(b)
  PROVE  CallInv(b)'
<1> DEFINE cb == done[1].cb
<1>0. TypeInv /\ OnceInv /\ CallsInv
  BY DEF CoreInv
<1>a. /\ backups'[b].asked = backups[b].asked /\ backups'[b].cloud = backups[b].cloud
      /\ backups'[b].mine = backups[b].mine
  BY Zenon DEF TaskServed
<1>b. \A c, x : Fetched(done', x, c) => Fetched(done, x, c)
  BY Zenon DEF TaskServed
<1>c. \A d \in Doc : Waiting(Del(b, d))' => Waiting(Del(b, d)) /\ Del(b, d) # done[1].cb
  BY Zenon DEF TaskServed
<1>d. \A d \in Doc : Waiting(Add(b, d))' =>
        /\ d \in backups[b].mine /\ Issued(b, CollectionOf(d))'
        /\ Add(b, d) # done[1].cb
        /\ Waiting(Add(b, d)) \/ ~Issued(b, CollectionOf(d))
  BY Zenon DEF TaskServed
<1>e. \A c \in Collections : Issued(b, c) => Issued(b, c)'
  BY Zenon DEF TaskServed
<1>f. \A c \in Collections :
        backups'[b].deleted[c] + Cardinality(Deleting(b, c)')
          <= Cardinality(backups[b].cloud[c])
  BY Zenon DEF TaskServed
<1>g. /\ backups'[b].progress + Errors(b)' <= backups[b].progress + Errors(b) + 1
      /\ backups'[b].progress \in Nat
  BY Zenon DEF TaskServed
<1>h. backups'[b] \in Call
  BY Zenon DEF TaskServed
<1>1. /\ b \in 1 .. Len(backups) /\ b \in Nat /\ Loaded(backups[b])
      /\ \E d \in Doc :
           \/ cb = Del(b, d) /\ d \in backups[b].cloud[CollectionOf(d)]
           \/ cb = Add(b, d) /\ d \in backups[b].mine /\ Issued(b, CollectionOf(d))
      /\ Cardinality(Todo(b)) \in Nat
      /\ \A S \in SUBSET (Todo(b) \ {cb}) :
           Cardinality(S) \in Nat /\ Cardinality(S) + 1 <= Cardinality(Todo(b))
  BY HeadTask, ZenonT(40)
<1>2. CallInv(b) /\ Loaded(backups'[b]) /\ Total(backups'[b]) = Total(backups[b])
  BY <1>0, <1>1, <1>a DEF CallsInv, Loaded, Total
<1>3. FetchInv(b)'
  <2>1. FetchInv(b)
    BY <1>2, Zenon DEF CallInv
  <2> QED
    BY <1>a, <1>b, <2>1, Zenon DEF FetchInv
<1>4. WriteInv(b)'
  <2>1. ASSUME NEW d \in Doc
        PROVE  /\ Waiting(Del(b, d))' => d \in backups'[b].cloud[CollectionOf(d)]
               /\ Waiting(Add(b, d))' => d \in backups'[b].mine /\ Issued(b, CollectionOf(d))'
    BY <1>2, <1>a, <1>c, <1>d DEF CallInv, WriteInv
  <2> QED
    BY <1>2, <2>1, Zenon DEF WriteInv
<1>5. UnloadedInv(b)'
  BY <1>2 DEF UnloadedInv
<1>6. Todo(b)' \subseteq Todo(b) \ {cb}
  <2> SUFFICES ASSUME NEW t \in Todo(b)'
               PROVE  t \in Todo(b) /\ t # cb
    OBVIOUS
  <2>1. Tasks(b, backups'[b]) = Tasks(b, backups[b])
    BY <1>a DEF Tasks, DelTasks, AddTasks
  <2>2. /\ t \in Tasks(b, backups[b])
        /\ Waiting(t)' \/ (t.op = "add" /\ ~Issued(b, CollectionOf(t.doc))')
    BY <2>1 DEF Todo
  <2>3. PICK d \in Doc : t = Del(b, d) \/ t = Add(b, d)
    BY <1>0, <1>1, <2>2, CallFacts, TasksOf
  <2>4. CASE t = Del(b, d)
    <3>1. Waiting(t)'
      BY <2>2, <2>4, TaskFacts
    <3> QED
      BY <1>c, <2>2, <2>4, <3>1 DEF Todo
  <2>5. CASE t = Add(b, d)
    <3>1. t.op = "add" /\ t.doc = d
      BY <2>5, TaskFacts
    <3>2. CASE Waiting(t)'
      BY <1>d, <2>2, <2>5, <3>1, <3>2 DEF Todo
    <3>3. CASE ~Issued(b, CollectionOf(d))'
      <4>0. CollectionOf(d) \in Collections
        BY CollectionFacts
      <4>1. ~Issued(b, CollectionOf(d))
        BY <1>e, <3>3, <4>0, Zenon
      <4>2. t # cb
        <5> SUFFICES ASSUME t = cb
                     PROVE  FALSE
          BY Zenon
        <5>1. PICK e \in Doc :
                \/ cb = Del(b, e) /\ e \in backups[b].cloud[CollectionOf(e)]
                \/ cb = Add(b, e) /\ e \in backups[b].mine /\ Issued(b, CollectionOf(e))
          BY <1>1
        <5>2. cb = Add(b, e) /\ Issued(b, CollectionOf(e))
          BY <3>1, <5>1, TaskFacts
        <5>3. Add(b, e) = Add(b, d)
          BY <2>5, <5>2, Zenon
        <5>4. Add(b, e).doc = e /\ Add(b, d).doc = d
          BY TaskFacts
        <5>5. e = d
          BY <5>3, <5>4, Zenon
        <5> QED
          BY <4>1, <5>2, <5>5, Zenon
      <4> QED
        BY <2>2, <3>1, <4>1, <4>2 DEF Todo
    <3> QED
      BY <2>2, <3>1, <3>2, <3>3
  <2> QED
    BY <2>3, <2>4, <2>5
<1>7. BudgetInv(b)'
  <2>1. Cardinality(Todo(b)') \in Nat /\ Cardinality(Todo(b)') + 1 <= Cardinality(Todo(b))
    BY <1>1, <1>6
  <2>2. backups[b].progress + Cardinality(Todo(b)) + Errors(b) <= Total(backups[b])
    BY <1>1, <1>2, Zenon DEF CallInv, BudgetInv
  <2>3. backups[b].progress \in Nat /\ Errors(b) \in {0, 1} /\ Errors(b)' \in {0, 1}
        /\ Total(backups[b]) \in Nat
    BY <1>0, <1>1, CallFacts, TasksOf DEF Errors
  <2> DEFINE p == backups[b].progress
             q == backups'[b].progress
             t == Cardinality(Todo(b))
             u == Cardinality(Todo(b)')
             e == Errors(b)
             f == Errors(b)'
             n == Total(backups[b])
  <2>4. /\ p \in Nat /\ q \in Nat /\ t \in Nat /\ u \in Nat /\ n \in Nat
        /\ e \in {0, 1} /\ f \in {0, 1}
        /\ p + t + e <= n /\ u + 1 <= t /\ q + f <= p + e + 1
    BY <1>1, <1>g, <2>1, <2>2, <2>3
  <2>5. q + u + f <= n
    <3> HIDE DEF p, q, t, u, e, f, n
    <3> QED
      BY <2>4
  <2>6. backups'[b].progress + Cardinality(Todo(b)') + Errors(b)' <= Total(backups[b])
    BY <2>5
  <2> HIDE DEF p, q, t, u, e, f, n
  <2> QED
    BY <1>2, <1>a, <1>f, <2>6, Zenon DEF BudgetInv
<1> QED
  BY <1>3, <1>4, <1>5, <1>7 DEF CallInv

\* The main thread takes the first answer, which is not that of a record.
Serving(b) ==
  /\ done # <<>> /\ done' = Tail(done) /\ done[1].cb.op # "record"
  /\ b = done[1].cb.run
  /\ UNCHANGED <<server, persisted, applied, local, cache, link, outbox, edits>>

\* The answer of a fetch: its collection has not been found before.
LEMMA HeadFetch ==
  ASSUME CoreInv, NEW b, Serving(b), ~Writes(done[1].cb)
  PROVE  /\ done[1].cb.op = "fetch" /\ done[1].cb.coll \in Collections
         /\ Fetched(done, b, done[1].cb.coll)
         /\ ~Fetched(done', b, done[1].cb.coll)
         /\ done[1].cb.docs \subseteq done[1].cb.coll
         /\ backups[b].cloud[done[1].cb.coll] = Nil
         /\ done[1].cb.coll \notin backups[b].asked
<1>0. TypeInv /\ OnceInv /\ CallsInv
  BY DEF CoreInv
<1>1. done \in Seq(Reply) /\ done # <<>> /\ done' = Tail(done) /\ b = done[1].cb.run
  BY <1>0 DEF TypeInv, Serving
<1>2. Head(done) = done[1] /\ 1 \in 1 .. Len(done) /\ done[1] \in Reply
  BY <1>1, TailFacts
<1>3. b \in 1 .. Len(backups) /\ done[1].cb \in Callback
  BY HeadTask DEF Serving
<1>4. done[1].cb \in [run : Nat, op : {"fetch"}, coll : Collections, docs : SUBSET Doc]
  BY <1>3, NilAssumption DEF Callback, Writes, Serving
<1>5. done[1].cb.docs \subseteq done[1].cb.coll
  BY <1>0, <1>2, <1>4, Zenon DEF TypeInv
<1>6. FetchOf(done[1], b, done[1].cb.coll)
  BY <1>1, <1>4 DEF FetchOf
<1>7. Fetched(done, b, done[1].cb.coll) /\ ~Fetched(done', b, done[1].cb.coll)
  <2>1. FetchedOnce(done)
    BY <1>0 DEF OnceInv
  <2>2. /\ \A x, c : Fetched(done, x, c) <=> FetchOf(Head(done), x, c) \/ Fetched(Tail(done), x, c)
        /\ \A x, c : FetchOf(Head(done), x, c) => ~Fetched(Tail(done), x, c)
    BY <1>1, <2>1, FetchedTail
  <2> QED
    BY <1>1, <1>2, <1>6, <2>2
<1>8. FetchInv(b)
  BY <1>0, <1>3 DEF CallsInv, CallInv
<1> QED
  BY <1>4, <1>5, <1>6, <1>7, <1>8 DEF FetchInv

\* Fewer deletions wait.
LEMMA DeletingShrinks ==
  ASSUME NEW b, NEW c \in Collections,
         \A d \in Doc : Waiting(Del(b, d))' => Waiting(Del(b, d))
  PROVE  /\ Cardinality(Deleting(b, c)') <= Cardinality(Deleting(b, c))
         /\ Cardinality(Deleting(b, c)') \in Nat /\ Cardinality(Deleting(b, c)) \in Nat
<1>1. Deleting(b, c)' \subseteq Deleting(b, c) /\ Deleting(b, c) \in SUBSET Doc
  BY CollectionFacts DEF Deleting
<1>2. IsFiniteSet(Deleting(b, c)) /\ Cardinality(Deleting(b, c)) \in Nat
  BY <1>1, DocSets
<1> QED
  BY <1>1, <1>2, FS_Subset, FS_CardinalityType

LEMMA FailKeeps ==
  ASSUME CoreInv, NEW b, Serving(b), Fail(b)
  PROVE  CoreInv'
<1>0. TypeInv /\ OnceInv /\ CallsInv
  BY DEF CoreInv
<1>1. /\ done # <<>> /\ done' = Tail(done) /\ done[1].cb.op # "record" /\ b = done[1].cb.run
      /\ UNCHANGED <<server, queue, persisted, applied, local, cache, link, outbox, edits>>
      /\ backups' = [backups EXCEPT ![b].covered = FALSE, ![b].told = "error"]
  BY DEF Serving, Fail
<1>2. /\ b \in 1 .. Len(backups) /\ b \in Nat
      /\ Loaded(backups[b]) => Writes(done[1].cb)
      /\ Writes(done[1].cb) => Loaded(backups[b])
  BY <1>1, HeadTask
<1>3. /\ <<>> \in Seq(Write) /\ queue' = queue \o <<>> /\ Once(<<>>)
      /\ \A i \in 1 .. Len(<<>>) : FALSE
      /\ \A cb : ~Holds(<<>>, cb)
      /\ \A cb : Writes(cb) => (Waiting(cb)' <=> Waiting(cb) /\ cb # done[1].cb)
      /\ \A x, c : Fetched(done', x, c) <=> Fetched(done, x, c) /\ ~FetchOf(done[1], x, c)
  BY <1>0, <1>1, QuietServed
<1> DEFINE x == [backups[b] EXCEPT !.covered = FALSE, !.told = "error"]
<1>4. backups[b] \in Call /\ DOMAIN backups = 1 .. Len(backups) /\ CallInv(b)
  BY <1>0, <1>2, CallFacts DEF CallsInv
<1>5. /\ x \in Call /\ x.asked = backups[b].asked /\ x.cloud = backups[b].cloud
      /\ x.mine = backups[b].mine /\ x.deleted = backups[b].deleted
      /\ x.progress = backups[b].progress /\ x.told = "error"
  BY <1>4, Zenon DEF Call
<1>6. backups' = [backups EXCEPT ![b] = x]
  BY <1>1, <1>2, <1>4, Zenon
<1>7. /\ backups' \in Seq(Call) /\ Len(backups') = Len(backups) /\ backups'[b] = x
      /\ \A i \in 1 .. Len(backups) : i # b => Same(backups'[i], backups[i])
  BY <1>0, <1>2, <1>5, <1>6, ExceptFacts, Zenon
<1>8. \A c \in Collections : Issued(b, c)' <=> Issued(b, c)
  BY <1>5, <1>7 DEF Issued
<1>9. CallInv(b)'
  <2>1. \A d \in Doc :
          /\ Waiting(Del(b, d))' => Waiting(Del(b, d)) /\ Del(b, d) # done[1].cb
          /\ Waiting(Add(b, d))' => Waiting(Add(b, d)) /\ Add(b, d) # done[1].cb
    BY <1>2, <1>3, TaskFacts
  <2>2. \A c, y : Fetched(done', y, c) => Fetched(done, y, c)
    BY <1>3
  <2>3. CASE Loaded(backups[b])
    <3>1. \A d \in Doc : Waiting(Add(b, d)) =>
            d \in backups[b].mine /\ Issued(b, CollectionOf(d))
      BY <1>4 DEF CallInv, WriteInv
    <3>2. \A d \in Doc : CollectionOf(d) \in Collections
      BY CollectionFacts, Zenon
    <3>3. \A d \in Doc : Waiting(Add(b, d))' =>
            /\ d \in backups[b].mine /\ Issued(b, CollectionOf(d))'
            /\ Add(b, d) # done[1].cb
            /\ Waiting(Add(b, d)) \/ ~Issued(b, CollectionOf(d))
      BY <1>8, <2>1, <3>1, <3>2
    <3>4. ASSUME NEW c \in Collections
          PROVE  backups'[b].deleted[c] + Cardinality(Deleting(b, c)')
                   <= Cardinality(backups[b].cloud[c])
      <4>1. backups[b].deleted[c] + Cardinality(Deleting(b, c))
              <= Cardinality(backups[b].cloud[c])
        BY <1>4, <2>3 DEF CallInv, BudgetInv
      <4>2. /\ Cardinality(Deleting(b, c)') <= Cardinality(Deleting(b, c))
            /\ Cardinality(Deleting(b, c)') \in Nat /\ Cardinality(Deleting(b, c)) \in Nat
        BY <2>1, DeletingShrinks
      <4>3. backups[b].deleted[c] \in Nat /\ Cardinality(backups[b].cloud[c]) \in Nat
        BY <1>0, <1>2, <2>3, CallFacts DEF Loaded
      <4>4. backups'[b].deleted[c] = backups[b].deleted[c]
        BY <1>5, <1>7
      <4> QED
        BY <4>1, <4>2, <4>3, <4>4
    <3>5. backups'[b].progress \in Nat /\ backups[b].progress \in Nat
          /\ backups'[b].progress + Errors(b)' <= backups[b].progress + Errors(b) + 1
      <4>1. backups'[b].progress = backups[b].progress /\ backups[b].progress \in Nat
        BY <1>0, <1>2, <1>5, <1>7, CallFacts
      <4>2. Errors(b)' \in {0, 1} /\ Errors(b) \in {0, 1}
        BY DEF Errors
      <4> QED
        BY <4>1, <4>2
    <3>6. Writes(done[1].cb)
      BY <1>2, <2>3
    <3>7. /\ backups'[b] \in Call
          /\ backups'[b].asked = backups[b].asked /\ backups'[b].cloud = backups[b].cloud
          /\ backups'[b].mine = backups[b].mine
      BY <1>5, <1>7
    <3>8. TaskServed(b)
      BY <1>8, <2>1, <2>2, <3>3, <3>4, <3>5, <3>7, Zenon DEF TaskServed
    <3> QED
      BY <1>1, <3>6, <3>8, TaskDone, Zenon
  <2>4. CASE ~Loaded(backups[b])
    <3>1. ~Loaded(backups'[b])
      BY <1>5, <1>7, <2>4 DEF Loaded
    <3>2. FetchInv(b)'
      BY <1>4, <1>5, <1>7, <2>2 DEF CallInv, FetchInv
    <3>3. \A d \in Doc : ~Waiting(Del(b, d)) /\ ~Waiting(Add(b, d))
      BY <1>4, <2>4, Zenon DEF CallInv, WriteInv
    <3>4. WriteInv(b)'
      BY <2>1, <3>3 DEF WriteInv
    <3>5. Lost(b)'
      <4>1. /\ done[1].cb.coll \in Collections /\ ~Fetched(done', b, done[1].cb.coll)
            /\ backups[b].cloud[done[1].cb.coll] = Nil
            /\ done[1].cb.coll \notin backups[b].asked
        BY <1>2, <2>4, HeadFetch
      <4> QED
        BY <1>5, <1>7, <4>1 DEF Lost
    <3>6. UnloadedInv(b)'
      BY <1>4, <1>5, <1>7, <2>4, <3>5 DEF CallInv, UnloadedInv
    <3> QED
      BY <3>1, <3>2, <3>4, <3>6 DEF CallInv, BudgetInv
  <2> QED
    BY <2>3, <2>4
<1>10. \A c \in Collections : backups'[b].cloud[c] # Nil => backups'[b].cloud[c] \subseteq c
  BY <1>0, <1>2, <1>5, <1>7, CallFacts
<1> QED
  BY <1>1, <1>3, <1>7, <1>9, <1>10, ServeKeeps, Zenon

\* A task of call b that succeeded: it counts as progress, and may start the
\* additions of writes. x is the call afterwards.
TaskCounted(b, x, writes) ==
  /\ x.asked = backups[b].asked /\ x.cloud = backups[b].cloud
  /\ x.mine = backups[b].mine /\ x.told = backups[b].told
  /\ x.progress = backups[b].progress + 1
  /\ queue' = queue \o writes /\ Once(writes)
  /\ backups' \in Seq(Call) /\ Len(backups') = Len(backups) /\ Same(backups'[b], x)
  /\ \A i \in 1 .. Len(backups) : i # b => Same(backups'[i], backups[i])
  /\ \A i \in 1 .. Len(writes) : \E d \in backups[b].mine :
       /\ writes[i].cb = Add(b, d) /\ done[1].cb # Add(b, d)
       /\ ~Issued(b, CollectionOf(d)) /\ Issued(b, CollectionOf(d))'
  /\ \A c \in Collections : Issued(b, c) => Issued(b, c)'
  /\ \A c \in Collections :
       (\A d \in Doc : Waiting(Del(b, d))' => Waiting(Del(b, d)) /\ Del(b, d) # done[1].cb)
         => x.deleted[c] + Cardinality(Deleting(b, c)') <= Cardinality(backups[b].cloud[c])

LEMMA ServeTask ==
  ASSUME CoreInv, NEW b, Serving(b), Writes(done[1].cb), NEW x \in Call,
         NEW writes \in Seq(Write), TaskCounted(b, x, writes)
  PROVE  CoreInv'
<1>a. \A c \in Collections : Issued(b, c) => Issued(b, c)'
  BY Zenon DEF TaskCounted
<1>b. /\ x.asked = backups[b].asked /\ x.cloud = backups[b].cloud
      /\ x.mine = backups[b].mine /\ x.told = backups[b].told
      /\ x.progress = backups[b].progress + 1 /\ Same(backups'[b], x)
  BY Zenon DEF TaskCounted
<1>c. queue' = queue \o writes /\ Once(writes)
  BY Zenon DEF TaskCounted
<1>d. /\ backups' \in Seq(Call) /\ Len(backups') = Len(backups)
      /\ \A i \in 1 .. Len(backups) : i # b => Same(backups'[i], backups[i])
  BY Zenon DEF TaskCounted
<1>e. \A i \in 1 .. Len(writes) : \E d \in backups[b].mine :
        /\ writes[i].cb = Add(b, d) /\ done[1].cb # Add(b, d)
        /\ ~Issued(b, CollectionOf(d)) /\ Issued(b, CollectionOf(d))'
  BY Zenon DEF TaskCounted
<1>f. \A c \in Collections :
        (\A d \in Doc : Waiting(Del(b, d))' => Waiting(Del(b, d)) /\ Del(b, d) # done[1].cb)
          => x.deleted[c] + Cardinality(Deleting(b, c)') <= Cardinality(backups[b].cloud[c])
  BY Zenon DEF TaskCounted
<1>0. TypeInv /\ OnceInv /\ CallsInv
  BY DEF CoreInv
<1>1. /\ done # <<>> /\ done' = Tail(done) /\ done[1].cb.op # "record" /\ b = done[1].cb.run
      /\ UNCHANGED <<server, persisted, applied, local, cache, link, outbox, edits>>
  BY DEF Serving
<1>2. b \in 1 .. Len(backups) /\ b \in Nat /\ Loaded(backups[b])
  BY <1>1, HeadTask
<1>3. CallInv(b)
  BY <1>0, <1>2 DEF CallsInv
<1>6. backups'[b] \in Call
  BY <1>2, <1>d, SeqFacts
<1>7. ASSUME NEW cb, Holds(writes, cb)
      PROVE  \E d \in backups[b].mine : /\ cb = Add(b, d) /\ done[1].cb # Add(b, d)
                                        /\ ~Issued(b, CollectionOf(d))
                                        /\ Issued(b, CollectionOf(d))'
  BY <1>e, <1>7 DEF Holds
<1>8. backups[b].mine \subseteq Doc
  BY <1>0, <1>2, CallFacts
<1>9. ASSUME NEW cb, Holds(writes, cb)
      PROVE  ~Waiting(cb)
  BY <1>3, <1>7, <1>8, <1>9 DEF CallInv, WriteInv
<1>10. /\ \A cb : Writes(cb) =>
            (Waiting(cb)' <=> (Waiting(cb) /\ cb # done[1].cb) \/ Holds(writes, cb))
       /\ \A y, c : Fetched(done', y, c) => Fetched(done, y, c)
  BY <1>0, <1>1, <1>9, <1>c, ServedWaits, Zenon
<1>11. ASSUME NEW d \in Doc
       PROVE  Waiting(Del(b, d))' => Waiting(Del(b, d)) /\ Del(b, d) # done[1].cb
  <2>1. Writes(Del(b, d)) /\ Del(b, d).op = "delete"
    BY <1>2, TaskFacts
  <2>2. ~Holds(writes, Del(b, d))
    BY <1>7, <2>1, TaskFacts
  <2> QED
    BY <1>10, <2>1, <2>2
<1>12. ASSUME NEW d \in Doc, Waiting(Add(b, d))'
       PROVE  /\ d \in backups[b].mine /\ Issued(b, CollectionOf(d))'
              /\ Add(b, d) # done[1].cb
              /\ Waiting(Add(b, d)) \/ ~Issued(b, CollectionOf(d))
  <2>1. Writes(Add(b, d)) /\ Add(b, d).doc = d /\ CollectionOf(d) \in Collections
    BY <1>2, TaskFacts, CollectionFacts
  <2>2. CASE Waiting(Add(b, d)) /\ Add(b, d) # done[1].cb
    <3>1. d \in backups[b].mine /\ Issued(b, CollectionOf(d))
      BY <1>3, <2>2 DEF CallInv, WriteInv
    <3> QED
      BY <1>a, <2>1, <2>2, <3>1
  <2>3. CASE Holds(writes, Add(b, d))
    <3>1. PICK e \in backups[b].mine :
             /\ Add(b, d) = Add(b, e) /\ done[1].cb # Add(b, e)
             /\ ~Issued(b, CollectionOf(e)) /\ Issued(b, CollectionOf(e))'
      BY <1>7, <2>3
    <3>2. Add(b, e).doc = e
      BY TaskFacts
    <3>3. e = d
      BY <2>1, <3>1, <3>2, Zenon
    <3> QED
      BY <3>1, <3>3
  <2> QED
    BY <1>10, <1>12, <2>1, <2>2, <2>3
<1>13. ASSUME NEW c \in Collections
       PROVE  backups'[b].deleted[c] + Cardinality(Deleting(b, c)')
                <= Cardinality(backups[b].cloud[c])
  BY <1>b, <1>f, <1>11 DEF Same
<1>14. /\ backups'[b].asked = backups[b].asked /\ backups'[b].cloud = backups[b].cloud
       /\ backups'[b].mine = backups[b].mine
  BY <1>b DEF Same
<1>15. /\ backups'[b].progress \in Nat
       /\ backups'[b].progress + Errors(b)' <= backups[b].progress + Errors(b) + 1
  <2>1. backups'[b].progress = backups[b].progress + 1 /\ Errors(b)' = Errors(b)
    BY <1>b DEF Same, Errors
  <2>2. backups[b].progress \in Nat /\ Errors(b) \in {0, 1}
    BY <1>0, <1>2, CallFacts DEF Errors
  <2> QED
    BY <2>1, <2>2
<1>16. CallInv(b)'
  <2>1. TaskServed(b)
    BY <1>a, <1>6, <1>10, <1>11, <1>12, <1>13, <1>14, <1>15, Zenon DEF TaskServed
  <2> QED
    BY <1>1, <2>1, TaskDone, Zenon
<1>17. \A c \in Collections : backups'[b].cloud[c] # Nil => backups'[b].cloud[c] \subseteq c
  BY <1>0, <1>2, <1>14, CallFacts
<1>18. \A i \in 1 .. Len(writes) : Writes(writes[i].cb) /\ writes[i].cb.run = b
  BY <1>2, <1>8, <1>e, TaskFacts
<1> QED
  BY <1>1, <1>9, <1>16, <1>17, <1>18, <1>c, <1>d, ServeKeeps, Zenon

LEMMA AddedKeeps ==
  ASSUME CoreInv, NEW b, Serving(b), done[1].cb.op = "add", OnAdded(b)
  PROVE  CoreInv'
<1>0. TypeInv /\ OnceInv /\ CallsInv
  BY DEF CoreInv
<1>1. /\ done # <<>> /\ done' = Tail(done) /\ done[1].cb.op # "record" /\ b = done[1].cb.run
      /\ queue' = queue /\ backups' = [backups EXCEPT ![b].progress = @ + 1]
  BY DEF Serving, OnAdded
<1>2. b \in 1 .. Len(backups) /\ b \in Nat /\ done[1].cb \in Callback
  BY <1>1, HeadTask
<1>3. Writes(done[1].cb)
  BY <1>2, NilAssumption DEF Writes
<1>4. Loaded(backups[b]) /\ CallInv(b)
  BY <1>0, <1>1, <1>2, <1>3, HeadTask DEF CallsInv
<1> DEFINE x == [backups[b] EXCEPT !.progress = @ + 1]
<1>5. backups[b] \in Call /\ DOMAIN backups = 1 .. Len(backups)
  BY <1>0, <1>2, CallFacts
<1>6. /\ x \in Call /\ x.asked = backups[b].asked /\ x.cloud = backups[b].cloud
      /\ x.mine = backups[b].mine /\ x.told = backups[b].told
      /\ x.progress = backups[b].progress + 1 /\ x.deleted = backups[b].deleted
  <2>1. backups[b].progress + 1 \in Nat
    BY <1>5 DEF Call
  <2> QED
    BY <1>5, <2>1, Zenon DEF Call
<1>7. backups' = [backups EXCEPT ![b] = x]
  BY <1>1, <1>2, <1>5
<1> HIDE DEF x
<1>8. /\ backups' \in Seq(Call) /\ Len(backups') = Len(backups) /\ backups'[b] = x
  BY <1>0, <1>2, <1>6, <1>7, ExceptFacts, Zenon
<1>9. /\ <<>> \in Seq(Write) /\ queue' = queue \o <<>> /\ Once(<<>>)
      /\ \A i \in 1 .. Len(<<>>) : FALSE
  BY <1>0, <1>1, QuietServed
<1>10. \A c \in Collections : Issued(b, c) => Issued(b, c)'
  BY <1>6, <1>8 DEF Issued
<1>11. ASSUME NEW c \in Collections,
              \A d \in Doc : Waiting(Del(b, d))' => Waiting(Del(b, d)) /\ Del(b, d) # done[1].cb
       PROVE  x.deleted[c] + Cardinality(Deleting(b, c)') <= Cardinality(backups[b].cloud[c])
  <2>1. backups[b].deleted[c] + Cardinality(Deleting(b, c)) <= Cardinality(backups[b].cloud[c])
    BY <1>4 DEF CallInv, BudgetInv
  <2>2. /\ Cardinality(Deleting(b, c)') <= Cardinality(Deleting(b, c))
        /\ Cardinality(Deleting(b, c)') \in Nat /\ Cardinality(Deleting(b, c)) \in Nat
    BY <1>11, DeletingShrinks
  <2>3. backups[b].deleted[c] \in Nat /\ Cardinality(backups[b].cloud[c]) \in Nat
    BY <1>0, <1>2, <1>4, CallFacts DEF Loaded
  <2> QED
    BY <1>6, <2>1, <2>2, <2>3
<1>12. /\ Same(backups'[b], x)
       /\ \A i \in 1 .. Len(backups) : i # b => Same(backups'[i], backups[i])
  BY <1>0, <1>2, <1>6, <1>7, <1>8, ExceptFacts DEF Same
<1>13. TaskCounted(b, x, <<>>)
  BY <1>6, <1>8, <1>9, <1>10, <1>11, <1>12, Zenon DEF TaskCounted
<1> QED
  BY <1>3, <1>6, <1>9, <1>13, ServeTask, Zenon

\* What a deletion's answer leaves waiting.
LEMMA DeletingDone ==
  ASSUME CoreInv, NEW b, Serving(b), NEW d \in Doc, done[1].cb = Del(b, d),
         \A e \in Doc : Waiting(Del(b, e))' => Waiting(Del(b, e)) /\ Del(b, e) # done[1].cb
  PROVE  LET c == CollectionOf(d)
         IN  /\ Cardinality(Deleting(b, c)') \in Nat /\ Cardinality(Deleting(b, c)) \in Nat
             /\ Cardinality(Deleting(b, c)') + 1 <= Cardinality(Deleting(b, c))
<1> DEFINE c == CollectionOf(d)
<1>1. c \in Collections /\ c \subseteq Doc /\ d \in c
  BY CollectionFacts
<1>2. Waiting(Del(b, d))
  <2>1. done \in Seq(Reply) /\ done # <<>>
    BY DEF CoreInv, TypeInv, Serving
  <2>2. 1 \in 1 .. Len(done)
    BY <2>1, TailFacts
  <2> QED
    BY <2>2 DEF Waiting, Holds
<1>3. d \in Deleting(b, c) /\ Deleting(b, c) \in SUBSET Doc
  BY <1>1, <1>2 DEF Deleting
<1>4. Deleting(b, c)' \subseteq Deleting(b, c) \ {d}
  BY <1>1 DEF Deleting
<1>5. IsFiniteSet(Deleting(b, c)) /\ Cardinality(Deleting(b, c)) \in Nat
  BY <1>3, DocSets
<1>6. /\ IsFiniteSet(Deleting(b, c) \ {d})
      /\ Cardinality(Deleting(b, c) \ {d}) = Cardinality(Deleting(b, c)) - 1
  BY <1>3, <1>5, FS_RemoveElement
<1>7. /\ IsFiniteSet(Deleting(b, c)')
      /\ Cardinality(Deleting(b, c)') <= Cardinality(Deleting(b, c) \ {d})
  BY <1>4, <1>6, FS_Subset
<1>8. Cardinality(Deleting(b, c)') \in Nat
  BY <1>7, FS_CardinalityType
<1> QED
  BY <1>5, <1>6, <1>7, <1>8

\* The answer of a deletion: what it changes in its backup, and what it starts.
DeletedBy(b, d, x, writes) ==
  LET c == CollectionOf(d)
  IN  /\ done[1].cb = Del(b, d) /\ d \in backups[b].cloud[c]
      /\ x.asked = backups[b].asked /\ x.cloud = backups[b].cloud
      /\ x.mine = backups[b].mine /\ x.told = backups[b].told
      /\ x.covered = backups[b].covered
      /\ x.progress = backups[b].progress + 1
      /\ x.deleted = [backups[b].deleted EXCEPT ![c] = @ + 1]
      /\ queue' = queue \o writes /\ Once(writes)
      /\ backups' \in Seq(Call) /\ Len(backups') = Len(backups)
      /\ Same(backups'[b], x)
      /\ \A i \in 1 .. Len(backups) : i # b => Same(backups'[i], backups[i])
      /\ \A i \in 1 .. Len(writes) : \E e \in backups[b].mine \cap c :
           writes[i] = [doc |-> e, val |-> local[e], cb |-> Add(b, e)]
      /\ \/ x.deleted[c] # Cardinality(backups[b].cloud[c]) /\ writes = <<>>
         \/ /\ x.deleted[c] = Cardinality(backups[b].cloud[c])
            /\ \A e \in backups[b].mine \cap c : Holds(writes, Add(b, e))

LEMMA DeletedShape ==
  ASSUME CoreInv, NEW b, Serving(b), done[1].cb.op = "delete",
         OnDeleted(b, CollectionOf(done[1].cb.doc))
  PROVE  \E d \in Doc, x \in Call, writes \in Seq(Write) : DeletedBy(b, d, x, writes)
<1>0. TypeInv /\ OnceInv /\ CallsInv
  BY DEF CoreInv
<1>1. done # <<>> /\ done' = Tail(done) /\ done[1].cb.op # "record" /\ b = done[1].cb.run
  BY DEF Serving
<1>2. b \in 1 .. Len(backups) /\ b \in Nat /\ done[1].cb \in Callback
  BY <1>1, HeadTask
<1>3. Writes(done[1].cb)
  BY <1>2, NilAssumption DEF Writes
<1>4. PICK d \in Doc : done[1].cb = Del(b, d) /\ d \in backups[b].cloud[CollectionOf(d)]
  <2>1. PICK d \in Doc : \/ done[1].cb = Del(b, d) /\ d \in backups[b].cloud[CollectionOf(d)]
                         \/ done[1].cb = Add(b, d)
    BY <1>1, <1>3, HeadTask
  <2>2. Add(b, d).op = "add"
    BY TaskFacts
  <2> QED
    BY <2>1, <2>2
<1> DEFINE c == CollectionOf(d)
           x == [backups[b] EXCEPT !.progress = @ + 1, !.deleted[c] = @ + 1]
           bs == [backups EXCEPT ![b] = x]
<1>5. c \in Collections /\ c \subseteq Doc /\ done[1].cb.doc = d
  BY <1>4, CollectionFacts, TaskFacts
<1>6. backups[b] \in Call /\ DOMAIN backups = 1 .. Len(backups) /\ backups \in Seq(Call)
  BY <1>0, <1>2, CallFacts DEF TypeInv
<1>7. bs = [backups EXCEPT ![b].progress = @ + 1, ![b].deleted[c] = @ + 1]
  BY <1>2, <1>6, Zenon
<1>8. /\ x \in Call /\ x.asked = backups[b].asked /\ x.cloud = backups[b].cloud
      /\ x.mine = backups[b].mine /\ x.told = backups[b].told
      /\ x.covered = backups[b].covered
      /\ x.progress = backups[b].progress + 1
      /\ x.deleted = [backups[b].deleted EXCEPT ![c] = @ + 1]
  <2>1. backups[b].deleted \in [Collections -> Nat] /\ backups[b].progress \in Nat
    BY <1>6, Zenon DEF Call
  <2> DEFINE n == [backups[b].deleted EXCEPT ![c] = @ + 1]
  <2>2. n \in [Collections -> Nat]
    BY <1>5, <2>1
  <2>3. x = [backups[b] EXCEPT !.progress = @ + 1, !.deleted = n]
    BY <1>6
  <2>4. x.deleted = n
    BY <1>6, <2>3 DEF Call
  <2> DEFINE y == [backups[b] EXCEPT !.progress = @ + 1]
  <2>5. y \in Call /\ y.progress = backups[b].progress + 1
        /\ y.asked = backups[b].asked /\ y.cloud = backups[b].cloud
        /\ y.mine = backups[b].mine /\ y.told = backups[b].told
        /\ y.covered = backups[b].covered
    <3>1. backups[b] \in Call
      BY <1>6
    <3> QED
      BY <3>1 DEF Call
  <2>6. x = [y EXCEPT !.deleted = n]
    BY <2>3
  <2> HIDE DEF n, x, y
  <2>7. /\ x \in Call /\ x.asked = y.asked /\ x.cloud = y.cloud
        /\ x.mine = y.mine /\ x.told = y.told /\ x.progress = y.progress
        /\ x.covered = y.covered
    BY <2>2, <2>5, <2>6 DEF Call
  <2> QED
    BY <2>4, <2>5, <2>7 DEF n
<1>9. /\ bs \in Seq(Call) /\ Len(bs) = Len(backups) /\ bs[b] = x
      /\ \A i \in 1 .. Len(backups) : i # b => bs[i] = backups[i]
  BY <1>2, <1>6, <1>8, ExceptSeq
<1>10. IF x.deleted[c] = Cardinality(x.cloud[c])
       THEN \E order \in SetToSeqs(x.mine \cap c) : Issue(Additions(b, order), bs)
       ELSE backups' = bs /\ UNCHANGED queue
  BY <1>5, <1>7, <1>9, Zenon DEF OnDeleted
<1> HIDE DEF c, x, bs
<1>11. \E writes \in Seq(Write) :
         /\ queue' = queue \o writes /\ Once(writes)
         /\ backups' \in Seq(Call) /\ Len(backups') = Len(bs)
         /\ \A i \in 1 .. Len(bs) : Same(backups'[i], bs[i])
         /\ \A i \in 1 .. Len(writes) : \E e \in x.mine \cap c :
              writes[i] = [doc |-> e, val |-> local[e], cb |-> Add(b, e)]
         /\ \/ x.deleted[c] # Cardinality(x.cloud[c]) /\ writes = <<>>
            \/ /\ x.deleted[c] = Cardinality(x.cloud[c])
               /\ \A e \in x.mine \cap c : Holds(writes, Add(b, e))
  <2>1. CASE x.deleted[c] # Cardinality(x.cloud[c])
    <3>1. backups' = bs /\ queue' = queue
      BY <1>10, <2>1
    <3>2. /\ <<>> \in Seq(Write) /\ queue' = queue \o <<>> /\ Once(<<>>)
          /\ \A i \in 1 .. Len(<<>>) : FALSE
      BY <1>0, <1>1, <3>1, QuietServed
    <3>3. /\ backups' \in Seq(Call) /\ Len(backups') = Len(bs)
          /\ \A i \in 1 .. Len(bs) : Same(backups'[i], bs[i])
      BY <1>9, <3>1 DEF Same
    <3> QED
      BY <2>1, <3>2, <3>3, Zenon
  <2>2. CASE x.deleted[c] = Cardinality(x.cloud[c])
    <3>1. PICK order \in SetToSeqs(x.mine \cap c) : Issue(Additions(b, order), bs)
      BY <1>10, <2>2, Zenon
    <3> DEFINE writes == Additions(b, order)
    <3>2. local \in [Doc -> Nat] /\ x.mine \cap c \in SUBSET Doc
      BY <1>0, <1>5 DEF TypeInv
    <3>3. /\ writes \in Seq(Write)
          /\ \A i \in 1 .. Len(writes) : \E e \in x.mine \cap c :
               writes[i] = [doc |-> e, val |-> local[e], cb |-> Add(b, e)]
          /\ \A e \in x.mine \cap c : Holds(writes, Add(b, e))
          /\ Once(writes)
      BY <1>2, <3>2, AdditionsFacts, Zenon
    <3>4. Issue(writes, bs)
      BY <3>1
    <3> HIDE DEF writes
    <3>5. /\ queue' = queue \o writes
          /\ backups' \in Seq(Call) /\ Len(backups') = Len(bs)
          /\ \A i \in 1 .. Len(bs) : Same(backups'[i], bs[i])
      BY <1>9, <3>3, <3>4, IssueFacts
    <3> QED
      BY <2>2, <3>3, <3>5, Zenon
  <2> QED
    BY <2>1, <2>2, Zenon
<1>12. PICK writes \in Seq(Write) :
         /\ queue' = queue \o writes /\ Once(writes)
         /\ backups' \in Seq(Call) /\ Len(backups') = Len(bs)
         /\ \A i \in 1 .. Len(bs) : Same(backups'[i], bs[i])
         /\ \A i \in 1 .. Len(writes) : \E e \in x.mine \cap c :
              writes[i] = [doc |-> e, val |-> local[e], cb |-> Add(b, e)]
         /\ \/ x.deleted[c] # Cardinality(x.cloud[c]) /\ writes = <<>>
            \/ /\ x.deleted[c] = Cardinality(x.cloud[c])
               /\ \A e \in x.mine \cap c : Holds(writes, Add(b, e))
  BY <1>11, Zenon
<1>13. /\ Same(backups'[b], x)
       /\ \A i \in 1 .. Len(backups) : i # b => Same(backups'[i], backups[i])
  BY <1>2, <1>9, <1>12
<1>14. x.mine = backups[b].mine /\ x.cloud = backups[b].cloud /\ Len(backups') = Len(backups)
  BY <1>8, <1>9, <1>12
<1>15. DeletedBy(b, d, x, writes)
  BY <1>4, <1>8, <1>12, <1>13, <1>14 DEF DeletedBy, c
<1> QED
  BY <1>8, <1>15

LEMMA DeletedKeeps ==
  ASSUME CoreInv, NEW b, Serving(b), done[1].cb.op = "delete",
         OnDeleted(b, CollectionOf(done[1].cb.doc))
  PROVE  CoreInv'
<1>0. TypeInv /\ OnceInv /\ CallsInv
  BY DEF CoreInv
<1> PICK d \in Doc, x \in Call, writes \in Seq(Write) : DeletedBy(b, d, x, writes)
  BY DeletedShape
<1>1. LET c == CollectionOf(d)
      IN  /\ done[1].cb = Del(b, d) /\ d \in backups[b].cloud[c]
          /\ x.asked = backups[b].asked /\ x.cloud = backups[b].cloud
          /\ x.mine = backups[b].mine /\ x.told = backups[b].told
          /\ x.progress = backups[b].progress + 1
          /\ x.deleted = [backups[b].deleted EXCEPT ![c] = @ + 1]
          /\ queue' = queue \o writes /\ Once(writes)
          /\ backups' \in Seq(Call) /\ Len(backups') = Len(backups)
          /\ Same(backups'[b], x)
          /\ \A i \in 1 .. Len(backups) : i # b => Same(backups'[i], backups[i])
          /\ \A i \in 1 .. Len(writes) : \E e \in backups[b].mine \cap c :
               writes[i] = [doc |-> e, val |-> local[e], cb |-> Add(b, e)]
          /\ writes = <<>> \/ x.deleted[c] = Cardinality(backups[b].cloud[c])
  BY DEF DeletedBy
<1> DEFINE c == CollectionOf(d)
<1>2. b \in 1 .. Len(backups) /\ b \in Nat /\ Writes(done[1].cb) /\ Loaded(backups[b])
  <2>1. done # <<>> /\ done[1].cb.op # "record" /\ b = done[1].cb.run
    BY DEF Serving
  <2>2. b \in 1 .. Len(backups) /\ b \in Nat
    BY <2>1, HeadTask
  <2>3. Writes(done[1].cb)
    BY <1>1, <2>2, TaskFacts
  <2> QED
    BY <2>1, <2>2, <2>3, HeadTask
<1>3. CallInv(b)
  BY <1>0, <1>2 DEF CallsInv
<1>4. c \in Collections /\ c \subseteq Doc /\ d \in c
  BY CollectionFacts
<1> HIDE DEF c
<1>5. /\ \A e \in Collections : backups[b].deleted[e] \in Nat
      /\ \A e \in Collections : Cardinality(backups[b].cloud[e]) \in Nat
      /\ \A e \in Collections :
           x.deleted[e] = IF e = c THEN backups[b].deleted[e] + 1 ELSE backups[b].deleted[e]
  <2>1. backups[b].deleted \in [Collections -> Nat]
    BY <1>0, <1>2, CallFacts
  <2>2. \A e \in Collections : Cardinality(backups[b].cloud[e]) \in Nat
    BY <1>0, <1>2, CallFacts DEF Loaded
  <2>3. x.deleted = [backups[b].deleted EXCEPT ![c] = @ + 1]
    BY <1>1 DEF c
  <2> QED
    BY <2>1, <2>2, <2>3
<1>6. \A e \in Collections :
        backups[b].deleted[e] + Cardinality(Deleting(b, e)) <= Cardinality(backups[b].cloud[e])
  BY <1>2, <1>3 DEF CallInv, BudgetInv
<1>7. ASSUME NEW e \in Collections,
             \A y \in Doc : Waiting(Del(b, y))' => Waiting(Del(b, y)) /\ Del(b, y) # done[1].cb
      PROVE  x.deleted[e] + Cardinality(Deleting(b, e)') <= Cardinality(backups[b].cloud[e])
  <2>1. CASE e = c
    <3>1. done[1].cb = Del(b, d)
      BY <1>1
    <3>2. /\ Cardinality(Deleting(b, e)') \in Nat /\ Cardinality(Deleting(b, e)) \in Nat
          /\ Cardinality(Deleting(b, e)') + 1 <= Cardinality(Deleting(b, e))
      BY <1>7, <2>1, <3>1, DeletingDone DEF c
    <3>3. /\ backups[b].deleted[e] \in Nat /\ Cardinality(backups[b].cloud[e]) \in Nat
          /\ x.deleted[e] = backups[b].deleted[e] + 1
          /\ backups[b].deleted[e] + Cardinality(Deleting(b, e))
               <= Cardinality(backups[b].cloud[e])
      BY <1>5, <1>6, <2>1
    <3> DEFINE p == Cardinality(Deleting(b, e)')
               q == Cardinality(Deleting(b, e))
               m == Cardinality(backups[b].cloud[e])
               n == backups[b].deleted[e]
    <3>4. /\ p \in Nat /\ q \in Nat /\ m \in Nat /\ n \in Nat
          /\ p + 1 <= q /\ n + q <= m
      BY <3>2, <3>3, Zenon
    <3>5. n + 1 + p <= m
      <4> HIDE DEF p, q, m, n
      <4> QED
        BY <3>4
    <3> QED
      BY <3>3, <3>5, Zenon
  <2>2. CASE e # c
    <3>1. /\ Cardinality(Deleting(b, e)') <= Cardinality(Deleting(b, e))
          /\ Cardinality(Deleting(b, e)') \in Nat /\ Cardinality(Deleting(b, e)) \in Nat
      BY <1>7, DeletingShrinks
    <3> QED
      BY <1>5, <1>6, <2>2, <3>1
  <2> QED
    BY <2>1, <2>2
<1>8. ~Issued(b, c)
  <2>1. Waiting(Del(b, d))
    <3>1. done \in Seq(Reply) /\ done # <<>>
      BY <1>0 DEF TypeInv, Serving
    <3>2. 1 \in 1 .. Len(done)
      BY <3>1, TailFacts
    <3> QED
      BY <1>1, <3>2 DEF Waiting, Holds
  <2>2. d \in Deleting(b, c) /\ Deleting(b, c) \in SUBSET Doc
    BY <1>4, <2>1 DEF Deleting
  <2>3. IsFiniteSet(Deleting(b, c)) /\ Cardinality(Deleting(b, c)) \in Nat
    BY <2>2, DocSets
  <2>4. Cardinality(Deleting(b, c)) # 0
    BY <2>2, <2>3, FS_EmptySet
  <2> QED
    BY <1>4, <1>5, <1>6, <2>3, <2>4 DEF Issued
<1>9. \A e \in Collections : Issued(b, e) => Issued(b, e)'
  BY <1>1, <1>5, <1>8 DEF Issued, Same
<1>10. ASSUME NEW i \in 1 .. Len(writes)
       PROVE  \E e \in backups[b].mine :
                /\ writes[i].cb = Add(b, e) /\ done[1].cb # Add(b, e)
                /\ ~Issued(b, CollectionOf(e)) /\ Issued(b, CollectionOf(e))'
  <2>1. PICK e \in backups[b].mine \cap c :
          writes[i] = [doc |-> e, val |-> local[e], cb |-> Add(b, e)]
    BY <1>1, Zenon DEF c
  <2>2. CollectionOf(e) = c
    BY <1>4, <2>1, CollectionFacts
  <2>3. done[1].cb # Add(b, e)
    <3>1. Add(b, e).op = "add"
      BY TaskFacts
    <3> QED
      BY <3>1
  <2>4. writes # <<>>
    BY <1>10, EmptySeq
  <2>5. backups[b].cloud[c] # Nil /\ backups[b].cloud[c] # {}
    BY <1>1, <1>2, <1>4 DEF Loaded, c
  <2>6. Issued(b, c)'
    BY <1>1, <2>4, <2>5 DEF Issued, Same, c
  <2> QED
    BY <1>8, <2>1, <2>2, <2>3, <2>6
<1>11. TaskCounted(b, x, writes)
  BY <1>1, <1>7, <1>9, <1>10, Zenon DEF TaskCounted
<1> QED
  BY <1>2, <1>11, ServeTask

\* The deletions of both collections are written together, each once.
AllDeletions(b, shots, reports) == Deletions(b, shots) \o Deletions(b, reports)

LEMMA BothDeletions ==
  ASSUME NEW b \in Nat, NEW shots \in SUBSET Shot, NEW reports \in SUBSET Report
  PROVE  /\ AllDeletions(b, shots, reports) \in Seq(Write)
         /\ Once(AllDeletions(b, shots, reports))
         /\ \A i \in 1 .. Len(AllDeletions(b, shots, reports)) : \E d \in shots \cup reports :
              AllDeletions(b, shots, reports)[i]
                = [doc |-> d, val |-> Absent, cb |-> Del(b, d)]
<1>1. shots \in SUBSET Doc /\ reports \in SUBSET Doc /\ shots \cap reports = {}
  BY CollectionFacts
<1> DEFINE s == Deletions(b, shots)
           t == Deletions(b, reports)
<1>2. /\ s \in Seq(Write) /\ Once(s)
      /\ \A i \in 1 .. Len(s) : \E d \in shots : s[i] = [doc |-> d, val |-> Absent, cb |-> Del(b, d)]
  BY <1>1, DeletionsFacts
<1>3. /\ t \in Seq(Write) /\ Once(t)
      /\ \A i \in 1 .. Len(t) : \E d \in reports : t[i] = [doc |-> d, val |-> Absent, cb |-> Del(b, d)]
  BY <1>1, DeletionsFacts
<1> HIDE DEF s, t
<1>4. ASSUME NEW cb, Holds(s, cb)
      PROVE  \E d \in shots : cb = Del(b, d)
  <2>1. PICK i \in 1 .. Len(s) : s[i].cb = cb
    BY <1>4 DEF Holds
  <2>2. PICK d \in shots : s[i] = [doc |-> d, val |-> Absent, cb |-> Del(b, d)]
    BY <1>2, <2>1
  <2> QED
    BY <2>1, <2>2
<1>5. ASSUME NEW cb, Holds(t, cb)
      PROVE  \E d \in reports : cb = Del(b, d)
  <2>1. PICK i \in 1 .. Len(t) : t[i].cb = cb
    BY <1>5 DEF Holds
  <2>2. PICK d \in reports : t[i] = [doc |-> d, val |-> Absent, cb |-> Del(b, d)]
    BY <1>3, <2>1
  <2> QED
    BY <2>1, <2>2
<1>6. ASSUME NEW cb, Holds(s, cb), Holds(t, cb)
      PROVE  FALSE
  <2>1. PICK d \in shots : cb = Del(b, d)
    BY <1>4, <1>6
  <2>2. PICK e \in reports : cb = Del(b, e)
    BY <1>5, <1>6
  <2>3. Del(b, d).doc = d /\ Del(b, e).doc = e
    BY TaskFacts
  <2>4. d = e
    BY <2>1, <2>2, <2>3, Zenon
  <2> QED
    BY <1>1, <2>4
<1>7. Apart(s, t)
  BY <1>6, ApartHolds
<1>8. /\ Once(s \o t) /\ s \o t \in Seq(Write) /\ Len(s) \in Nat
      /\ \A i \in 1 .. Len(s) : (s \o t)[i] = s[i]
      /\ \A i \in 1 .. Len(s \o t) : i > Len(s) =>
           i - Len(s) \in 1 .. Len(t) /\ (s \o t)[i] = t[i - Len(s)]
  BY <1>2, <1>3, <1>7, ConcatHolds, ConcatFacts, SeqFacts
<1>9. ASSUME NEW i \in 1 .. Len(s \o t)
      PROVE  \E d \in shots \cup reports :
               (s \o t)[i] = [doc |-> d, val |-> Absent, cb |-> Del(b, d)]
  <2>1. CASE i > Len(s)
    <3>1. i - Len(s) \in 1 .. Len(t) /\ (s \o t)[i] = t[i - Len(s)]
      BY <1>8, <2>1
    <3>2. PICK d \in reports : t[i - Len(s)] = [doc |-> d, val |-> Absent, cb |-> Del(b, d)]
      BY <1>3, <3>1
    <3> QED
      BY <3>1, <3>2
  <2>2. CASE ~(i > Len(s))
    <3>1. i \in 1 .. Len(s)
      BY <1>8, <2>2
    <3> QED
      BY <1>2, <1>8, <3>1
  <2> QED
    BY <2>1, <2>2, Zenon
<1> QED
  BY <1>8, <1>9, Zenon DEF s, t, AllDeletions

\* The answer of a fetch: what was found, and what is deleted then.
FoundBy(b, x, writes) ==
  LET c == done[1].cb.coll
  IN  /\ c \in Collections /\ Fetched(done, b, c) /\ ~Fetched(done', b, c)
      /\ backups[b].cloud[c] = Nil /\ c \notin backups[b].asked
      /\ x.asked = backups[b].asked /\ x.mine = backups[b].mine
      /\ x.told = backups[b].told /\ x.covered = backups[b].covered
      /\ x.progress = backups[b].progress /\ x.deleted = backups[b].deleted
      /\ \A e \in Collections : e # c => x.cloud[e] = backups[b].cloud[e]
      /\ \A e \in Collections : x.cloud[e] # Nil => x.cloud[e] \subseteq e
      /\ x.cloud[c] # Nil
      /\ Loaded(x) => writes = AllDeletions(b, x.cloud[Shot], x.cloud[Report])
      /\ queue' = queue \o writes /\ Once(writes)
      /\ backups' \in Seq(Call) /\ Len(backups') = Len(backups)
      /\ Same(backups'[b], x)
      /\ \A i \in 1 .. Len(backups) : i # b => Same(backups'[i], backups[i])
      /\ \A i \in 1 .. Len(writes) : Loaded(x) /\ \E d \in Doc :
           /\ d \in x.cloud[CollectionOf(d)]
           /\ writes[i] = [doc |-> d, val |-> Absent, cb |-> Del(b, d)]

LEMMA FoundShape ==
  ASSUME CoreInv, NEW b, Serving(b), done[1].cb.op = "fetch",
         OnFetched(b, done[1].cb.coll, done[1].cb.docs)
  PROVE  \E x \in Call, writes \in Seq(Write) : FoundBy(b, x, writes)
<1> DEFINE c == done[1].cb.coll
           docs == done[1].cb.docs
           x == [backups[b] EXCEPT !.cloud[c] = docs]
           bs == [backups EXCEPT ![b] = x]
           writes == IF Loaded(x)
                     THEN Deletions(b, x.cloud[Shot]) \o Deletions(b, x.cloud[Report])
                     ELSE <<>>
<1>0. TypeInv /\ OnceInv /\ CallsInv
  BY DEF CoreInv
<1>1. /\ done # <<>> /\ done' = Tail(done) /\ done[1].cb.op # "record" /\ b = done[1].cb.run
      /\ UNCHANGED <<server, persisted, applied, local, cache, link, outbox, edits>>
  BY DEF Serving
<1>2. b \in 1 .. Len(backups) /\ b \in Nat
  BY <1>1, HeadTask
<1>3. /\ c \in Collections /\ Fetched(done, b, c) /\ ~Fetched(done', b, c)
      /\ docs \subseteq c /\ backups[b].cloud[c] = Nil /\ c \notin backups[b].asked
  BY HeadFetch DEF Writes
<1>4. CallInv(b) /\ ~Loaded(backups[b]) /\ c \subseteq Doc
  BY <1>0, <1>2, <1>3, CollectionFacts DEF CallsInv, Loaded
<1>5. /\ backups[b] \in Call /\ DOMAIN backups = 1 .. Len(backups) /\ backups \in Seq(Call)
      /\ \A e \in Collections : backups[b].cloud[e] # Nil => backups[b].cloud[e] \subseteq e
  BY <1>0, <1>2, CallFacts DEF TypeInv
<1>6. /\ x \in Call /\ x.asked = backups[b].asked /\ x.mine = backups[b].mine
      /\ x.told = backups[b].told /\ x.progress = backups[b].progress
      /\ x.covered = backups[b].covered
      /\ x.deleted = backups[b].deleted
      /\ x.cloud = [backups[b].cloud EXCEPT ![c] = docs]
  <2>1. backups[b] \in Call
    BY <1>5
  <2>2. backups[b].cloud \in [Collections -> (SUBSET Doc) \cup {Nil}]
    BY <2>1 DEF Call
  <2> DEFINE n == [backups[b].cloud EXCEPT ![c] = docs]
  <2>3. n \in [Collections -> (SUBSET Doc) \cup {Nil}]
    BY <1>3, <1>4, <2>2
  <2>4. x = [backups[b] EXCEPT !.cloud = n]
    BY <2>1
  <2> HIDE DEF n, x
  <2>5. x \in Call /\ x.asked = backups[b].asked /\ x.mine = backups[b].mine
        /\ x.told = backups[b].told /\ x.progress = backups[b].progress
      /\ x.covered = backups[b].covered
        /\ x.deleted = backups[b].deleted /\ x.cloud = n
    BY <2>1, <2>3, <2>4 DEF Call
  <2> QED
    BY <2>5 DEF n
<1>7. /\ \A e \in Collections : x.cloud[e] = IF e = c THEN docs ELSE backups[b].cloud[e]
      /\ docs # Nil
  <2>1. backups[b].cloud \in [Collections -> (SUBSET Doc) \cup {Nil}]
    BY <1>5 DEF Call
  <2>2. docs \in SUBSET Doc
    BY <1>3, <1>4
  <2> QED
    BY <1>6, <2>1, <2>2, NilAssumption
<1>8. bs = [backups EXCEPT ![b].cloud[c] = docs]
  BY <1>2, <1>5
<1>9. /\ bs \in Seq(Call) /\ Len(bs) = Len(backups) /\ bs[b] = x
      /\ \A i \in 1 .. Len(backups) : i # b => bs[i] = backups[i]
  BY <1>2, <1>5, <1>6, ExceptSeq
<1> HIDE DEF bs, x
<1>10. IF Loaded(x)
       THEN Issue(Deletions(b, x.cloud[Shot]) \o Deletions(b, x.cloud[Report]), bs)
       ELSE backups' = bs /\ UNCHANGED queue
  BY <1>8, <1>9, Zenon DEF OnFetched
<1>11. \A e \in Collections : x.cloud[e] # Nil => x.cloud[e] \subseteq e
  BY <1>3, <1>5, <1>7
<1>12. /\ writes \in Seq(Write) /\ Once(writes)
       /\ \A i \in 1 .. Len(writes) : Loaded(x) /\ \E d \in Doc :
            /\ d \in x.cloud[CollectionOf(d)]
            /\ writes[i] = [doc |-> d, val |-> Absent, cb |-> Del(b, d)]
  <2>1. CASE Loaded(x)
    <3>1. x.cloud[Shot] \subseteq Shot /\ x.cloud[Report] \subseteq Report
      BY <1>11, <2>1, CollectionFacts DEF Loaded
    <3>2. writes = Deletions(b, x.cloud[Shot]) \o Deletions(b, x.cloud[Report])
      BY <2>1
    <3> HIDE DEF writes
    <3> DEFINE S == x.cloud[Shot]
               R == x.cloud[Report]
    <3>3. S \subseteq Shot /\ R \subseteq Report /\ writes = AllDeletions(b, S, R)
      BY <3>1, <3>2 DEF AllDeletions
    <3> HIDE DEF S, R
    <3>4. /\ writes \in Seq(Write) /\ Once(writes)
          /\ \A i \in 1 .. Len(writes) : \E d \in S \cup R :
               writes[i] = [doc |-> d, val |-> Absent, cb |-> Del(b, d)]
      <4>1. /\ AllDeletions(b, S, R) \in Seq(Write) /\ Once(AllDeletions(b, S, R))
            /\ \A i \in 1 .. Len(AllDeletions(b, S, R)) : \E d \in S \cup R :
                 AllDeletions(b, S, R)[i] = [doc |-> d, val |-> Absent, cb |-> Del(b, d)]
        <5>1. b \in Nat /\ S \in SUBSET Shot /\ R \in SUBSET Report
          BY <1>2, <3>3
        <5> QED
          BY <5>1, BothDeletions, Zenon
      <4> QED
        BY <3>3, <4>1, Zenon
    <3> USE DEF S, R
    <3>5. \A d \in x.cloud[Shot] \cup x.cloud[Report] :
            d \in Doc /\ d \in x.cloud[CollectionOf(d)]
      BY <3>1, CollectionFacts, Zenon
    <3> QED
      BY <2>1, <3>4, <3>5
  <2>2. CASE ~Loaded(x)
    BY <2>2, EmptySeq DEF Once
  <2> QED
    BY <2>1, <2>2, Zenon
<1>13. /\ queue' = queue \o writes /\ backups' \in Seq(Call) /\ Len(backups') = Len(bs)
       /\ \A i \in 1 .. Len(bs) : Same(backups'[i], bs[i])
  <2>1. CASE Loaded(x)
    BY <1>9, <1>10, <1>12, <2>1, IssueFacts, Zenon
  <2>2. CASE ~Loaded(x)
    <3>1. queue \in Seq(Write)
      BY <1>0 DEF TypeInv
    <3> QED
      BY <1>9, <1>10, <2>2, <3>1, ConcatEmptySeq DEF Same
  <2> QED
    BY <2>1, <2>2, Zenon
<1>16. /\ x.cloud[c] # Nil
       /\ Loaded(x) => writes = AllDeletions(b, x.cloud[Shot], x.cloud[Report])
  BY <1>3, <1>7, Zenon DEF AllDeletions
<1> HIDE DEF writes, c, docs
<1>14. Same(backups'[b], x) /\ Len(backups') = Len(backups)
       /\ \A i \in 1 .. Len(backups) : i # b => Same(backups'[i], backups[i])
  BY <1>2, <1>9, <1>13
<1>15. FoundBy(b, x, writes)
  BY <1>3, <1>6, <1>7, <1>11, <1>12, <1>13, <1>14, <1>16 DEF FoundBy, c
<1> QED
  BY <1>6, <1>12, <1>15

LEMMA FoundKeeps ==
  ASSUME CoreInv, NEW b, Serving(b), done[1].cb.op = "fetch",
         OnFetched(b, done[1].cb.coll, done[1].cb.docs)
  PROVE  CoreInv'
<1> DEFINE c == done[1].cb.coll
<1>0. TypeInv /\ OnceInv /\ CallsInv
  BY DEF CoreInv
<1>1. /\ done # <<>> /\ done' = Tail(done) /\ done[1].cb.op # "record" /\ b = done[1].cb.run
      /\ UNCHANGED <<server, persisted, applied, local, cache, link, outbox, edits>>
  BY DEF Serving
<1>2. b \in 1 .. Len(backups) /\ b \in Nat
  BY <1>1, HeadTask
<1> PICK x \in Call, writes \in Seq(Write) : FoundBy(b, x, writes)
  BY FoundShape
<1>3. /\ c \in Collections /\ Fetched(done, b, c) /\ ~Fetched(done', b, c)
      /\ backups[b].cloud[c] = Nil /\ c \notin backups[b].asked
  BY DEF FoundBy
<1>4. CallInv(b) /\ ~Loaded(backups[b])
  BY <1>0, <1>2, <1>3 DEF CallsInv, Loaded
<1>6. /\ x.asked = backups[b].asked /\ x.mine = backups[b].mine
      /\ x.told = backups[b].told /\ x.progress = backups[b].progress
      /\ x.deleted = backups[b].deleted
  BY DEF FoundBy
<1>7. \A e \in Collections : e # c => x.cloud[e] = backups[b].cloud[e]
  BY DEF FoundBy
<1>11. \A e \in Collections : x.cloud[e] # Nil => x.cloud[e] \subseteq e
  BY DEF FoundBy
<1>12. /\ Once(writes)
       /\ \A i \in 1 .. Len(writes) : Loaded(x) /\ \E d \in Doc :
            /\ d \in x.cloud[CollectionOf(d)]
            /\ writes[i] = [doc |-> d, val |-> Absent, cb |-> Del(b, d)]
  BY DEF FoundBy
<1>13. queue' = queue \o writes /\ backups' \in Seq(Call)
  BY DEF FoundBy
<1>14. Same(backups'[b], x) /\ Len(backups') = Len(backups)
       /\ \A i \in 1 .. Len(backups) : i # b => Same(backups'[i], backups[i])
  BY DEF FoundBy
<1> HIDE DEF c
<1>15. \A d \in Doc : ~Waiting(Del(b, d)) /\ ~Waiting(Add(b, d))
  BY <1>4, Zenon DEF CallInv, WriteInv
<1>16. ASSUME NEW cb, Holds(writes, cb)
       PROVE  \E d \in Doc : cb = Del(b, d) /\ Loaded(x) /\ d \in x.cloud[CollectionOf(d)]
  <2>1. PICK i \in 1 .. Len(writes) : writes[i].cb = cb
    BY <1>16 DEF Holds
  <2>2. PICK d \in Doc : /\ d \in x.cloud[CollectionOf(d)]
                         /\ writes[i] = [doc |-> d, val |-> Absent, cb |-> Del(b, d)]
    BY <1>12, <2>1
  <2> QED
    BY <1>12, <2>1, <2>2
<1>17. \A cb : Holds(writes, cb) => ~Waiting(cb)
  BY <1>15, <1>16
<1>18. /\ \A cb : Writes(cb) =>
            (Waiting(cb)' <=> (Waiting(cb) /\ cb # done[1].cb) \/ Holds(writes, cb))
       /\ \A y, e : Fetched(done', y, e) => Fetched(done, y, e)
  BY <1>0, <1>1, <1>12, <1>13, <1>17, ServedWaits, Zenon
<1>19. ASSUME NEW d \in Doc
       PROVE  /\ Waiting(Del(b, d))' => Loaded(x) /\ d \in x.cloud[CollectionOf(d)]
              /\ ~Waiting(Add(b, d))'
  <2>1. Writes(Del(b, d)) /\ Writes(Add(b, d)) /\ Del(b, d).doc = d /\ Add(b, d).op = "add"
    BY <1>2, TaskFacts
  <2>2. ASSUME Holds(writes, Del(b, d))
        PROVE  Loaded(x) /\ d \in x.cloud[CollectionOf(d)]
    <3>1. PICK e \in Doc : Del(b, d) = Del(b, e) /\ Loaded(x) /\ e \in x.cloud[CollectionOf(e)]
      BY <1>16, <2>2
    <3>2. Del(b, e).doc = e
      BY TaskFacts
    <3>3. e = d
      BY <2>1, <3>1, <3>2, Zenon
    <3> QED
      BY <3>1, <3>3
  <2>3. ~Holds(writes, Add(b, d))
    BY <1>16, <2>1, TaskFacts
  <2> QED
    BY <1>15, <1>18, <2>1, <2>2, <2>3
<1>20. FetchInv(b)'
  <2>1. /\ backups'[b].asked = backups[b].asked
        /\ \A e \in Collections : e # c => backups'[b].cloud[e] = backups[b].cloud[e]
    BY <1>6, <1>7, <1>14 DEF Same
  <2>2. ~Fetched(done', b, c) /\ c \notin backups[b].asked
    BY <1>3 DEF c
  <2>3. FetchInv(b)
    BY <1>4 DEF CallInv
  <2> QED
    BY <1>18, <2>1, <2>2, <2>3 DEF FetchInv
<1>21. WriteInv(b)'
  BY <1>14, <1>19 DEF WriteInv, Same, Loaded
<1>22. /\ backups[b].progress = 0 /\ \A e \in Collections : backups[b].deleted[e] = 0
       /\ backups[b].told = "error" => Lost(b)
  BY <1>4 DEF CallInv, UnloadedInv
<1>23. ASSUME Lost(b)
       PROVE  ~Loaded(x) /\ Lost(b)'
  <2>1. PICK e \in Collections : /\ backups[b].cloud[e] = Nil /\ e \notin backups[b].asked
                                 /\ ~Fetched(done, b, e)
    BY <1>23 DEF Lost
  <2>2. e # c
    BY <1>3, <2>1 DEF c
  <2>3. x.cloud[e] = Nil /\ x.asked = backups[b].asked /\ ~Fetched(done', b, e)
    BY <1>6, <1>7, <1>18, <2>1, <2>2
  <2> QED
    BY <1>14, <2>1, <2>3 DEF Lost, Same, Loaded
<1>24. UnloadedInv(b)'
  <2>1. backups'[b].told = backups[b].told /\ backups'[b].progress = backups[b].progress
        /\ backups'[b].deleted = backups[b].deleted
    BY <1>6, <1>14 DEF Same
  <2> QED
    BY <1>22, <1>23, <2>1 DEF UnloadedInv
<1>25. BudgetInv(b)'
  <2> SUFFICES ASSUME Loaded(backups'[b])
               PROVE  /\ \A e \in Collections :
                           backups'[b].deleted[e] + Cardinality(Deleting(b, e)')
                             <= Cardinality(backups'[b].cloud[e])
                      /\ backups'[b].progress + Cardinality(Todo(b)') + Errors(b)'
                           <= Total(backups'[b])
    BY DEF BudgetInv
  <2>1. Loaded(x) /\ backups'[b].cloud = x.cloud /\ backups'[b].deleted = backups[b].deleted
        /\ backups'[b].progress = 0 /\ backups'[b].told = backups[b].told
        /\ backups'[b].mine = x.mine
    BY <1>6, <1>14, <1>22 DEF Same, Loaded
  <2>2. Errors(b)' = 0
    BY <1>22, <1>23, <2>1 DEF Errors
  <2>3. ASSUME NEW e \in Collections
        PROVE  backups'[b].deleted[e] + Cardinality(Deleting(b, e)')
                 <= Cardinality(backups'[b].cloud[e])
    <3>1. x.cloud[e] \subseteq e /\ e \subseteq Doc
      BY <1>11, <2>1, CollectionFacts DEF Loaded
    <3>2. Deleting(b, e)' \subseteq x.cloud[e]
      BY <1>19, <3>1, CollectionFacts DEF Deleting
    <3>3. IsFiniteSet(x.cloud[e]) /\ Cardinality(x.cloud[e]) \in Nat
      BY <3>1, DocSets
    <3>4. /\ Cardinality(Deleting(b, e)') <= Cardinality(x.cloud[e])
          /\ Cardinality(Deleting(b, e)') \in Nat
      BY <3>2, <3>3, FS_Subset, FS_CardinalityType
    <3>5. backups'[b].deleted[e] = 0
      BY <1>22, <2>1
    <3> QED
      BY <2>1, <3>3, <3>4, <3>5
  <2>4. /\ IsFiniteSet(Tasks(b, backups'[b])) /\ Total(backups'[b]) \in Nat
        /\ Cardinality(Tasks(b, backups'[b])) = Total(backups'[b])
    <3>1. backups'[b] \in Call
      BY <1>2, <1>13, <1>14, SeqFacts
    <3>2. \A e \in Collections :
            backups'[b].cloud[e] # Nil => backups'[b].cloud[e] \subseteq e
      BY <1>11, <2>1
    <3> QED
      BY <1>2, <3>1, <3>2, TasksOf
  <2>5. Todo(b)' \subseteq Tasks(b, backups'[b])
    BY DEF Todo
  <2>6. /\ Cardinality(Todo(b)') <= Cardinality(Tasks(b, backups'[b]))
        /\ Cardinality(Todo(b)') \in Nat
    BY <2>4, <2>5, FS_Subset, FS_CardinalityType
  <2>7. 0 + Cardinality(Todo(b)') + 0 <= Total(backups'[b])
    BY <2>4, <2>6
  <2> QED
    BY <2>1, <2>2, <2>3, <2>7
<1>26. CallInv(b)'
  BY <1>20, <1>21, <1>24, <1>25 DEF CallInv
<1>27. \A e \in Collections : backups'[b].cloud[e] # Nil => backups'[b].cloud[e] \subseteq e
  BY <1>11, <1>14 DEF Same
<1>28. \A i \in 1 .. Len(writes) : Writes(writes[i].cb) /\ writes[i].cb.run = b
  <2> SUFFICES ASSUME NEW i \in 1 .. Len(writes)
               PROVE  Writes(writes[i].cb) /\ writes[i].cb.run = b
    OBVIOUS
  <2>1. Holds(writes, writes[i].cb)
    BY DEF Holds
  <2>2. PICK d \in Doc : writes[i].cb = Del(b, d)
    BY <1>16, <2>1
  <2> QED
    BY <1>2, <2>2, TaskFacts
<1> QED
  BY <1>1, <1>12, <1>13, <1>14, <1>17, <1>26, <1>27, <1>28, ServeKeeps, Zenon

\* Serving an answer keeps the invariant.
LEMMA AnswerCases ==
  ASSUME CoreInv, OnBackupAnswer
  PROVE  LET cb == done[1].cb
         IN  /\ Serving(cb.run)
             /\ \/ ~done[1].ok /\ Fail(cb.run)
                \/ done[1].ok /\ cb.op = "fetch" /\ OnFetched(cb.run, cb.coll, cb.docs)
                \/ done[1].ok /\ cb.op = "delete" /\ OnDeleted(cb.run, CollectionOf(cb.doc))
                \/ done[1].ok /\ cb.op = "add" /\ OnAdded(cb.run)
<1>1. /\ done # <<>> /\ Head(done).cb.op # "record" /\ done' = Tail(done)
      /\ UNCHANGED <<server, persisted, applied, local, cache, link, outbox, edits>>
  BY DEF OnBackupAnswer, OnAnswer, editVars
<1>2. done \in Seq(Reply)
  BY DEF CoreInv, TypeInv
<1>3. Head(done) = done[1]
  BY <1>1, <1>2, TailFacts
<1>4. Serving(done[1].cb.run)
  BY <1>1, <1>3 DEF Serving
<1> QED
  BY <1>3, <1>4 DEF OnBackupAnswer, OnAnswer

LEMMA AnswerKeeps ==
  ASSUME CoreInv, OnBackupAnswer
  PROVE  CoreInv'
<1> DEFINE cb == done[1].cb
<1>4. Serving(cb.run)
  BY AnswerCases
<1>5. \/ Fail(cb.run)
      \/ cb.op = "fetch" /\ OnFetched(cb.run, cb.coll, cb.docs)
      \/ cb.op = "delete" /\ OnDeleted(cb.run, CollectionOf(cb.doc))
      \/ cb.op = "add" /\ OnAdded(cb.run)
  BY AnswerCases
<1> HIDE DEF cb
<1>6. CASE Fail(cb.run)
  BY <1>4, <1>6, FailKeeps
<1>7. CASE cb.op = "fetch" /\ OnFetched(cb.run, cb.coll, cb.docs)
  BY <1>4, <1>7, FoundKeeps DEF cb
<1>8. CASE cb.op = "delete" /\ OnDeleted(cb.run, CollectionOf(cb.doc))
  BY <1>4, <1>8, DeletedKeeps DEF cb
<1>9. CASE cb.op = "add" /\ OnAdded(cb.run)
  BY <1>4, <1>9, AddedKeeps DEF cb
<1> QED
  BY <1>5, <1>6, <1>7, <1>8, <1>9

-----------------------------------------------------------------------------
(***************************************************************************)
(* Fetches, the beginning and the end of a backup, and of the process.     *)
(***************************************************************************)

LEMMA FetchFacts ==
  ASSUME CoreInv, Beside(Fetch)
  PROVE  \E b \in 1 .. Len(backups), c \in Collections, docs \in SUBSET Doc, ok \in BOOLEAN :
           /\ c \in backups[b].asked /\ docs \subseteq c
           /\ done' = Append(done,
                [cb |-> [run |-> b, op |-> "fetch", coll |-> c, docs |-> docs], ok |-> ok])
           /\ backups' = [backups EXCEPT ![b].asked = @ \ {c}]
           /\ UNCHANGED <<server, queue, persisted, applied, local, link, outbox, edits>>
           /\ cache' \in [Doc -> Nat]
<1>1. PICK b \in DOMAIN backups, c \in Collections :
        FetchFromServer(b, c) \/ FetchFromCache(b, c) \/ FetchRefused(b, c)
  BY DEF Beside, Fetch
<1>2. \E source, ok : ok \in BOOLEAN /\ Answer(b, c, source, ok)
  <2>1. CASE FetchFromServer(b, c)
    BY <2>1, Zenon DEF FetchFromServer
  <2>2. CASE FetchFromCache(b, c)
    BY <2>2, Zenon DEF FetchFromCache
  <2>3. CASE FetchRefused(b, c)
    BY <2>3, Zenon DEF FetchRefused
  <2> QED
    BY <1>1, <2>1, <2>2, <2>3
<1>3. server \in [Doc -> Nat] /\ cache \in [Doc -> Nat] /\ backups \in Seq(Call)
  BY DEF CoreInv, TypeInv
<1>4. cache' \in [Doc -> Nat]
  BY <1>1, <1>3, Zenon DEF FetchFromServer, FetchFromCache, FetchRefused
<1>5. b \in 1 .. Len(backups)
  BY <1>3, SeqFacts
<1> PICK source, ok : ok \in BOOLEAN /\ Answer(b, c, source, ok)
  BY <1>2
<1> DEFINE docs == {d \in c : Seen(source, d) # Absent}
<1>6. docs \subseteq c /\ docs \in SUBSET Doc
  BY CollectionFacts
<1>7. /\ c \in backups[b].asked
      /\ done' = Append(done,
           [cb |-> [run |-> b, op |-> "fetch", coll |-> c, docs |-> docs], ok |-> ok])
      /\ backups' = [backups EXCEPT ![b].asked = @ \ {c}]
      /\ UNCHANGED <<server, queue, persisted, applied, local, link, outbox, edits>>
  BY DEF Answer, Beside, editVars
<1> HIDE DEF docs
<1> QED
  BY <1>4, <1>5, <1>6, <1>7, Zenon

LEMMA FetchKeeps ==
  ASSUME CoreInv, Beside(Fetch)
  PROVE  CoreInv'
<1>0. TypeInv /\ OnceInv /\ CallsInv
  BY DEF CoreInv
<1>1. PICK b \in 1 .. Len(backups), c \in Collections, docs \in SUBSET Doc, ok \in BOOLEAN :
        /\ c \in backups[b].asked /\ docs \subseteq c
        /\ done' = Append(done,
             [cb |-> [run |-> b, op |-> "fetch", coll |-> c, docs |-> docs], ok |-> ok])
        /\ backups' = [backups EXCEPT ![b].asked = @ \ {c}]
        /\ UNCHANGED <<server, queue, persisted, applied, local, link, outbox, edits>>
        /\ cache' \in [Doc -> Nat]
  BY FetchFacts, Zenon
<1> DEFINE cb == [run |-> b, op |-> "fetch", coll |-> c, docs |-> docs]
           e == [cb |-> cb, ok |-> ok]
           x == [backups[b] EXCEPT !.asked = @ \ {c}]
<1>2. /\ backups[b] \in Call /\ b \in Nat /\ DOMAIN backups = 1 .. Len(backups)
  BY <1>0, CallFacts
<1>3. /\ x \in Call /\ x.asked = backups[b].asked \ {c} /\ x.cloud = backups[b].cloud
      /\ x.mine = backups[b].mine /\ x.deleted = backups[b].deleted
      /\ x.progress = backups[b].progress /\ x.told = backups[b].told
  BY <1>2, Zenon DEF Call
<1>4. backups' = [backups EXCEPT ![b] = x]
  BY <1>1, <1>2
<1>5. /\ backups' \in Seq(Call) /\ Len(backups') = Len(backups) /\ backups'[b] = x
      /\ \A i \in 1 .. Len(backups) : i # b => Same(backups'[i], backups[i])
  BY <1>0, <1>3, <1>4, ExceptFacts, Zenon
<1>6. cb \in Callback /\ e \in Reply /\ ~Writes(e.cb) /\ e.cb = cb
      /\ cb.op = "fetch" /\ cb.run = b /\ cb.coll = c /\ cb.docs = docs
  <2>1. cb \in [run : Nat, op : {"fetch"}, coll : Collections, docs : SUBSET Doc]
    BY <1>2
  <2>2. cb \in Callback
    BY <2>1 DEF Callback
  <2> QED
    BY <2>2 DEF Reply, Writes
<1> HIDE DEF x, e, cb
<1>7. done' = Append(done, e) /\ done \in Seq(Reply)
  BY <1>0, <1>1 DEF e, cb, TypeInv
<1>8. CallInv(b) /\ ~Fetched(done, b, c) /\ backups[b].cloud[c] = Nil
  BY <1>0, <1>1 DEF CallsInv, CallInv, FetchInv
<1>9. /\ done' \in Seq(Reply) /\ Len(done') = Len(done) + 1 /\ Len(done) \in Nat
      /\ \A i \in 1 .. Len(done) : done'[i] = done[i]
      /\ done'[Len(done) + 1] = e
      /\ \A w : Holds(done', w) <=> Holds(done, w) \/ e.cb = w
      /\ Once(done')
  BY <1>0, <1>6, <1>7, AppendFacts, SeqFacts DEF OnceInv
<1>10. /\ FetchedOnce(done')
       /\ \A y, z : Fetched(done', y, z) <=> Fetched(done, y, z) \/ FetchOf(e, y, z)
  BY <1>0, <1>6, <1>7, <1>8, FetchedAppend DEF OnceInv
<1>11. \A y, z : FetchOf(e, y, z) <=> y = b /\ z = c
  BY <1>6 DEF FetchOf
<1>12. \A w : Writes(w) => (Waiting(w)' <=> Waiting(w))
  BY <1>1, <1>6, <1>9 DEF Waiting
<1>13. OnceInv'
  <2>1. queue' = queue
    BY <1>1
  <2>2. Apart(queue, done)
    BY <1>0 DEF OnceInv
  <2>3. \A w : Writes(w) /\ Holds(queue, w) => ~Holds(done', w)
    BY <1>6, <1>9, <2>2, ApartHolds
  <2>4. Apart(queue, done')
    BY <2>3, ApartHolds
  <2> QED
    BY <1>0, <1>9, <1>10, <2>1, <2>4 DEF OnceInv
<1>14. CallInv(b)'
  <2>1. \A d \in Doc : (Waiting(Del(b, d))' <=> Waiting(Del(b, d)))
                      /\ (Waiting(Add(b, d))' <=> Waiting(Add(b, d)))
    BY <1>2, <1>12, TaskFacts
  <2>2. WriteInv(b)' /\ BudgetInv(b)'
    BY <1>0, <1>3, <1>5, <1>8, <2>1, WorkUnaffected DEF Errors
  <2>3. FetchInv(b)'
    <3>1. FetchInv(b)
      BY <1>8 DEF CallInv
    <3> QED
      BY <1>3, <1>5, <1>8, <1>10, <1>11, <3>1 DEF FetchInv
  <2>4. Lost(b) => Lost(b)'
    BY <1>1, <1>3, <1>5, <1>10, <1>11 DEF Lost
  <2>5. UnloadedInv(b)'
    BY <1>3, <1>5, <1>8, <2>4 DEF CallInv, UnloadedInv, Loaded
  <2> QED
    BY <2>2, <2>3, <2>5 DEF CallInv
<1>15. CallsInv'
  <2> SUFFICES ASSUME NEW i \in 1 .. Len(backups)
               PROVE  CallInv(i)'
    BY <1>5 DEF CallsInv
  <2>1. CASE i = b
    BY <1>14, <2>1
  <2>2. CASE i # b
    <3>1. i \in Nat /\ Same(backups'[i], backups[i]) /\ CallInv(i)
      BY <1>0, <1>5, <2>2, CallFacts DEF CallsInv
    <3>2. \A d \in Doc : (Waiting(Del(i, d))' <=> Waiting(Del(i, d)))
                        /\ (Waiting(Add(i, d))' <=> Waiting(Add(i, d)))
      BY <1>12, <3>1, TaskFacts
    <3>3. \A z \in Collections : Fetched(done', i, z) <=> Fetched(done, i, z)
      BY <1>10, <1>11, <2>2
    <3> QED
      BY <1>0, <3>1, <3>2, <3>3, Unaffected
  <2> QED
    BY <2>1, <2>2
<1>16. TypeInv'
  <2>1. ASSUME NEW i \in 1 .. Len(done')
        PROVE  /\ Served(done'[i].cb, Len(backups'))
               /\ done'[i].cb.op = "fetch" => done'[i].cb.docs \subseteq done'[i].cb.coll
    <3>1. CASE i = Len(done) + 1
      BY <1>1, <1>5, <1>6, <1>9, <3>1 DEF Served
    <3>2. CASE i \in 1 .. Len(done)
      <4>1. /\ Served(done[i].cb, Len(backups))
            /\ done[i].cb.op = "fetch" => done[i].cb.docs \subseteq done[i].cb.coll
        BY <1>0, <3>2 DEF TypeInv
      <4> QED
        BY <1>5, <1>9, <3>2, <4>1
    <3> QED
      BY <1>9, <3>1, <3>2
  <2>2. ASSUME NEW i \in 1 .. Len(backups'), NEW z \in Collections, backups'[i].cloud[z] # Nil
        PROVE  backups'[i].cloud[z] \subseteq z
    <3>1. backups'[i].cloud = backups[i].cloud /\ i \in 1 .. Len(backups)
      BY <1>3, <1>5 DEF Same
    <3> QED
      BY <1>0, <2>2, <3>1 DEF TypeInv
  <2> QED
    BY <1>0, <1>1, <1>5, <1>9, <2>1, <2>2 DEF TypeInv
<1> QED
  BY <1>13, <1>15, <1>16 DEF CoreInv

\* The progress is full once every task has been answered, and none failed.
LEMMA FullFacts ==
  ASSUME CoreInv, NEW b \in 1 .. Len(backups), Full(backups[b])
  PROVE  /\ backups[b].told # "error" /\ backups[b].asked = {}
         /\ \A d \in Doc : ~Waiting(Del(b, d)) /\ ~Waiting(Add(b, d))
         /\ \A c \in Collections : ~Fetched(done, b, c)
         /\ \A d \in backups[b].mine : Issued(b, CollectionOf(d))
<1>0. TypeInv /\ CallInv(b) /\ Loaded(backups[b])
  BY DEF CoreInv, CallsInv, Full
<1>1. /\ b \in Nat /\ backups[b] \in Call /\ backups[b].asked \subseteq Collections
      /\ backups[b].mine \subseteq Doc
      /\ \A c \in Collections : backups[b].cloud[c] # Nil => backups[b].cloud[c] \subseteq c
  BY <1>0, CallFacts
<1>2. /\ IsFiniteSet(Tasks(b, backups[b])) /\ Total(backups[b]) \in Nat
      /\ \A d \in Doc : d \in backups[b].cloud[CollectionOf(d)] => Del(b, d) \in Tasks(b, backups[b])
      /\ \A d \in backups[b].mine : Add(b, d) \in Tasks(b, backups[b])
  BY <1>0, <1>1, TasksOf, Zenon
<1>3. Todo(b) \subseteq Tasks(b, backups[b])
  BY DEF Todo
<1>4. IsFiniteSet(Todo(b)) /\ Cardinality(Todo(b)) \in Nat
  BY <1>2, <1>3, FS_Subset, FS_CardinalityType
<1>5. Cardinality(Todo(b)) = 0 /\ Errors(b) = 0
  <2>1. /\ Errors(b) \in Nat /\ backups[b].progress = Total(backups[b])
        /\ backups[b].progress + Cardinality(Todo(b)) + Errors(b) <= Total(backups[b])
    BY <1>0 DEF CallInv, BudgetInv, Errors, Full
  <2> QED
    BY <1>2, <1>4, <2>1
<1>6. Todo(b) = {}
  BY <1>4, <1>5, FS_EmptySet
<1>7. ASSUME NEW d \in Doc
      PROVE  ~Waiting(Del(b, d)) /\ ~Waiting(Add(b, d))
  BY <1>0, <1>2, <1>6 DEF CallInv, WriteInv, Todo
<1>8. ASSUME NEW d \in backups[b].mine
      PROVE  Issued(b, CollectionOf(d))
  <2>1. Add(b, d).op = "add" /\ Add(b, d).doc = d
    BY TaskFacts
  <2> QED
    BY <1>2, <1>6, <2>1 DEF Todo
<1>9. backups[b].told # "error"
  BY <1>5 DEF Errors
<1>10. backups[b].asked = {} /\ \A c \in Collections : ~Fetched(done, b, c)
  BY <1>0, <1>1 DEF CallInv, FetchInv, Loaded
<1> QED
  BY <1>7, <1>8, <1>9, <1>10

LEMMA ToldKeeps ==
  ASSUME CoreInv, Beside(Told)
  PROVE  CoreInv'
<1>0. TypeInv /\ OnceInv /\ CallsInv
  BY DEF CoreInv
<1>1. PICK b \in DOMAIN backups : TellSuccess(b)
  BY DEF Beside, Told
<1>2. /\ Full(backups[b])
      /\ backups' = [backups EXCEPT ![b].covered = FALSE, ![b].told = "success"]
      /\ UNCHANGED <<server, queue, persisted, applied, done, local, cache, link, outbox, edits>>
  BY <1>1 DEF TellSuccess, Beside, editVars, clientVars
<1>3. backups \in Seq(Call) /\ b \in 1 .. Len(backups)
  <2>1. backups \in Seq(Call)
    BY <1>0 DEF TypeInv
  <2> QED
    BY <2>1, SeqFacts
<1> DEFINE x == [backups[b] EXCEPT !.covered = FALSE, !.told = "success"]
<1>4. backups[b] \in Call /\ DOMAIN backups = 1 .. Len(backups) /\ CallInv(b)
  BY <1>0, <1>3, CallFacts DEF CallsInv
<1>5. /\ x \in Call /\ x.asked = backups[b].asked /\ x.cloud = backups[b].cloud
      /\ x.mine = backups[b].mine /\ x.deleted = backups[b].deleted
      /\ x.progress = backups[b].progress /\ x.told = "success"
  BY <1>4, Zenon DEF Call
<1>6. backups' = [backups EXCEPT ![b] = x]
  BY <1>2, <1>3, <1>4, Zenon
<1> HIDE DEF x
<1>7. /\ backups' \in Seq(Call) /\ Len(backups') = Len(backups) /\ backups'[b] = x
      /\ \A i \in 1 .. Len(backups) : i # b => Same(backups'[i], backups[i])
  BY <1>0, <1>3, <1>5, <1>6, ExceptFacts, Zenon
<1>8. \A cb : Waiting(cb)' <=> Waiting(cb)
  BY <1>2 DEF Waiting
<1>9. CallInv(b)'
  <2>1. Errors(b)' = Errors(b)
    BY <1>2, <1>3, <1>5, <1>7, FullFacts DEF Errors
  <2>2. WriteInv(b)' /\ BudgetInv(b)'
    BY <1>0, <1>3, <1>4, <1>5, <1>7, <1>8, <2>1, WorkUnaffected
  <2>3. FetchInv(b)'
    BY <1>2, <1>4, <1>5, <1>7 DEF CallInv, FetchInv
  <2>4. UnloadedInv(b)'
    BY <1>2, <1>5, <1>7 DEF UnloadedInv, Loaded, Full
  <2> QED
    BY <2>2, <2>3, <2>4 DEF CallInv
<1>10. ASSUME NEW i \in 1 .. Len(backups')
       PROVE  CallInv(i)'
  <2>1. CASE i = b
    BY <1>9, <2>1
  <2>2. CASE i # b
    <3>1. i \in 1 .. Len(backups) /\ Same(backups'[i], backups[i]) /\ CallInv(i)
      BY <1>0, <1>7, <2>2 DEF CallsInv
    <3>2. done' = done
      BY <1>2
    <3> QED
      BY <1>0, <1>8, <3>1, <3>2, Unaffected
  <2> QED
    BY <2>1, <2>2
<1>11. OnceInv'
  BY <1>0, <1>2 DEF OnceInv
<1>12. TypeInv'
  <2>1. ASSUME NEW i \in 1 .. Len(backups'), NEW c \in Collections, backups'[i].cloud[c] # Nil
        PROVE  backups'[i].cloud[c] \subseteq c
    <3>1. backups'[i].cloud = backups[i].cloud /\ i \in 1 .. Len(backups)
      BY <1>5, <1>7 DEF Same
    <3> QED
      BY <1>0, <2>1, <3>1 DEF TypeInv
  <2> QED
    BY <1>0, <1>2, <1>7, <2>1, Zenon DEF TypeInv
<1> QED
  BY <1>10, <1>11, <1>12 DEF CoreInv, CallsInv

LEMMA NewFacts ==
  ASSUME local \in [Doc -> Nat]
  PROVE  /\ NewBackup \in Call /\ NewBackup.asked = Collections
         /\ \A c \in Collections : NewBackup.cloud[c] = Nil /\ NewBackup.deleted[c] = 0
         /\ NewBackup.mine = Present(local) /\ NewBackup.progress = 0
         /\ NewBackup.covered = TRUE /\ NewBackup.told = "nothing"
<1>1. [c \in Collections |-> Nil] \in [Collections -> (SUBSET Doc) \cup {Nil}]
  <2>1. Nil \in (SUBSET Doc) \cup {Nil}
    OBVIOUS
  <2> QED
    BY <2>1
<1>2. [c \in Collections |-> 0] \in [Collections -> Nat] /\ Present(local) \in SUBSET Doc
  BY DEF Present
<1> QED
  BY <1>1, <1>2 DEF NewBackup, Call

LEMMA BackupDataKeeps ==
  ASSUME CoreInv, Beside(BackupData)
  PROVE  CoreInv'
<1>0. TypeInv /\ OnceInv /\ CallsInv
  BY DEF CoreInv
<1> PICK n : n = Len(backups) + 1
  OBVIOUS
<1>1. /\ backups' = Append(backups, NewBackup)
      /\ UNCHANGED <<server, queue, persisted, applied, done, local, cache, link, outbox, edits>>
  BY DEF Beside, BackupData, editVars, clientVars
<1>2. backups \in Seq(Call) /\ Len(backups) \in Nat /\ local \in [Doc -> Nat]
  BY <1>0, ListFacts DEF TypeInv
<1>3. /\ NewBackup \in Call /\ NewBackup.asked = Collections
      /\ \A c \in Collections : NewBackup.cloud[c] = Nil /\ NewBackup.deleted[c] = 0
      /\ NewBackup.progress = 0 /\ NewBackup.told = "nothing"
  BY <1>2, NewFacts, Zenon
<1>4. /\ backups' \in Seq(Call) /\ Len(backups') = n /\ backups'[n] = NewBackup
      /\ \A b \in 1 .. Len(backups) : backups'[b] = backups[b]
  BY <1>1, <1>2, <1>3, AppendFacts
<1>5. \A cb : Waiting(cb)' <=> Waiting(cb)
  BY <1>1 DEF Waiting
<1>6. ASSUME NEW cb, Writes(cb), cb.run = n
      PROVE  ~Waiting(cb)
  <2>1. ASSUME NEW i \in 1 .. Len(queue), queue[i].cb = cb
        PROVE  FALSE
    <3>1. queue[i].cb # Nil => Served(queue[i].cb, Len(backups))
      BY <1>0 DEF TypeInv
    <3> QED
      BY <1>2, <1>6, <2>1, <3>1 DEF Served, Writes
  <2>2. ASSUME NEW i \in 1 .. Len(done), done[i].cb = cb
        PROVE  FALSE
    <3>1. Served(done[i].cb, Len(backups))
      BY <1>0 DEF TypeInv
    <3> QED
      BY <1>2, <1>6, <2>2, <3>1 DEF Served, Writes
  <2> QED
    BY <2>1, <2>2 DEF Waiting, Holds
<1>7. ASSUME NEW b \in 1 .. Len(backups)
      PROVE  CallInv(b)'
  <2>1. Same(backups'[b], backups[b]) /\ CallInv(b) /\ done' = done
    BY <1>0, <1>1, <1>4 DEF Same, CallsInv
  <2> QED
    BY <1>0, <1>5, <2>1, Unaffected
<1>8. CallInv(n)'
  <2>1. ASSUME NEW c \in Collections
        PROVE  ~Fetched(done', n, c)
    <3>1. \A i \in 1 .. Len(done) : Served(done[i].cb, Len(backups))
      BY <1>0 DEF TypeInv
    <3> QED
      BY <1>1, <1>2, <3>1 DEF Fetched, FetchOf, Served
  <2>2. \A d \in Doc : ~Waiting(Del(n, d))' /\ ~Waiting(Add(n, d))'
    BY <1>2, <1>5, <1>6, TaskFacts
  <2>3. ~Loaded(backups'[n])
    BY <1>3, <1>4, CollectionFacts DEF Loaded
  <2>4. FetchInv(n)'
    BY <1>3, <1>4, <2>1 DEF FetchInv
  <2>5. WriteInv(n)'
    BY <2>2 DEF WriteInv
  <2>6. UnloadedInv(n)'
    BY <1>3, <1>4 DEF UnloadedInv
  <2>7. BudgetInv(n)'
    BY <2>3 DEF BudgetInv
  <2> QED
    BY <2>4, <2>5, <2>6, <2>7 DEF CallInv
<1>9. CallsInv'
  <2>1. \A b \in 1 .. n : b \in 1 .. Len(backups) \/ b = n
    BY <1>2
  <2> QED
    BY <1>4, <1>7, <1>8, <2>1 DEF CallsInv
<1>10. OnceInv'
  BY <1>0, <1>1 DEF OnceInv
<1>11. TypeInv'
  <2>1. \A cb : Served(cb, Len(backups)) => Served(cb, Len(backups'))
    BY <1>2, <1>4 DEF Served
  <2>2. ASSUME NEW b \in 1 .. Len(backups'), NEW c \in Collections, backups'[b].cloud[c] # Nil
        PROVE  backups'[b].cloud[c] \subseteq c
    <3>1. CASE b = n
      BY <1>3, <1>4, <2>2, <3>1
    <3>2. CASE b \in 1 .. Len(backups)
      BY <1>0, <1>4, <2>2, <3>2 DEF TypeInv
    <3> QED
      BY <1>2, <1>4, <3>1, <3>2
  <2> QED
    BY <1>0, <1>1, <1>4, <2>1, <2>2, Zenon DEF TypeInv
<1> QED
  BY <1>9, <1>10, <1>11 DEF CoreInv

\* What the SDK keeps of its queue.
LEMMA RestoredFacts ==
  ASSUME TypeInv
  PROVE  /\ Restored \in Seq(Write) /\ Len(Restored) = persisted /\ persisted \in Nat
         /\ \A i \in 1 .. persisted : i \in 1 .. Len(queue)
              /\ Restored[i] = [doc |-> queue[i].doc, val |-> queue[i].val, cb |-> Nil]
<1>1. /\ persisted \in Nat /\ Len(queue) \in Nat /\ persisted <= Len(queue)
      /\ \A i \in 1 .. Len(queue) : queue[i] \in Write
  BY ListFacts
<1> DEFINE f(i) == [doc |-> queue[i].doc, val |-> queue[i].val, cb |-> Nil]
<1>2. \A i \in 1 .. persisted : i \in 1 .. Len(queue) /\ f(i) \in Write
  BY <1>1 DEF Write
<1>3. Restored = [i \in 1 .. persisted |-> f(i)]
  BY DEF Restored
<1> HIDE DEF f
<1>4. Restored \in Seq(Write) /\ Len(Restored) = persisted
  BY <1>1, <1>2, <1>3, IsASeq
<1>5. \A i \in 1 .. persisted : Restored[i] = f(i)
  BY <1>3
<1> QED
  BY <1>1, <1>2, <1>4, <1>5 DEF f

\* A new process knows nothing of the backups.
LEMMA LaunchKeeps ==
  ASSUME CoreInv, NEW stored \in Seq(Write),
         \A i \in 1 .. Len(stored) : stored[i].cb = Nil, Launch(stored)
  PROVE  CoreInv'
<1>0. TypeInv
  BY DEF CoreInv
<1>1. /\ persisted' = Len(stored) /\ applied' = 0 /\ done' = <<>> /\ backups' = <<>>
      /\ UNCHANGED <<server, local, cache, link, outbox, edits>>
  BY DEF Launch, StreamLost
<1>2. PICK writes \in Merged(link, local, outbox) : queue' = stored \o writes
  BY DEF Launch
<1>3. /\ local \in [Doc -> Nat] /\ outbox \in SUBSET Doc
  BY <1>0 DEF TypeInv
<1>4. /\ writes \in Seq(Write)
      /\ \A i \in 1 .. Len(writes) : RecordWrite(writes[i], outbox, local)
  BY <1>3, MergedFacts, Zenon
<1>5. /\ queue' \in Seq(Write) /\ Len(queue') = Len(stored) + Len(writes)
      /\ \A i \in 1 .. Len(stored) : queue'[i] = stored[i]
      /\ \A i \in 1 .. Len(queue') : i > Len(stored) =>
           i - Len(stored) \in 1 .. Len(writes) /\ queue'[i] = writes[i - Len(stored)]
      /\ Len(stored) \in Nat /\ Len(writes) \in Nat
  BY <1>2, <1>4, ConcatFacts, SeqFacts
<1>6. ASSUME NEW i \in 1 .. Len(queue')
      PROVE  queue'[i].cb = Nil \/ (queue'[i].cb.op = "record" /\ queue'[i].cb.run = 0)
  <2>1. CASE i > Len(stored)
    <3>1. RecordWrite(queue'[i], outbox, local)
      BY <1>4, <1>5, <2>1, Zenon
    <3>2. PICK d \in outbox : queue'[i] =
            [doc |-> d, val |-> local[d],
             cb |-> [run |-> 0, op |-> "record", doc |-> d, val |-> local[d]]]
      BY <3>1 DEF RecordWrite
    <3> QED
      BY <3>2
  <2>2. CASE ~(i > Len(stored))
    <3>1. i \in 1 .. Len(stored)
      BY <1>5, <2>2
    <3> QED
      BY <1>5, <3>1
  <2> QED
    BY <2>1, <2>2
<1>7. /\ <<>> \in Seq(Reply) /\ Len(done') = 0 /\ <<>> \in Seq(Call) /\ Len(backups') = 0
  BY <1>1, EmptySeq
<1>8. OnceInv'
  <2>1. \A i \in 1 .. Len(queue') : ~Writes(queue'[i].cb)
    BY <1>6 DEF Writes
  <2>2. Once(queue') /\ Apart(queue', done')
    BY <2>1 DEF Once, Apart
  <2>3. Once(done') /\ FetchedOnce(done')
    BY <1>7 DEF Once, FetchedOnce
  <2> QED
    BY <2>2, <2>3 DEF OnceInv
<1>9. CallsInv'
  BY <1>7 DEF CallsInv
<1>10. TypeInv'
  <2>1. \A i \in 1 .. Len(queue') : queue'[i].cb # Nil =>
          queue'[i].cb.op # "fetch" /\ Served(queue'[i].cb, Len(backups'))
    BY <1>6 DEF Served
  <2>2. persisted' \in 0 .. Len(queue') /\ applied' \in 0 .. persisted'
    BY <1>1, <1>5
  <2>3. done' \in Seq(Reply) /\ backups' \in Seq(Call)
    BY <1>1, <1>7
  <2> QED
    BY <1>0, <1>1, <1>5, <1>7, <2>1, <2>2, <2>3 DEF TypeInv
<1> QED
  BY <1>8, <1>9, <1>10 DEF CoreInv

LEMMA RelaunchKeeps ==
  ASSUME CoreInv, Relaunch
  PROVE  CoreInv'
<1>1. /\ Restored \in Seq(Write)
      /\ \A i \in 1 .. Len(Restored) : Restored[i].cb = Nil
  BY RestoredFacts DEF CoreInv
<1>2. Launch(Restored)
  BY DEF Relaunch
<1> HIDE DEF Restored
<1> QED
  BY <1>1, <1>2, LaunchKeeps

\* The additions that reached the disk.
LEMMA ReadFacts ==
  ASSUME TypeInv, ReadDeleted
  PROVE  \E added \in Seq(Write) :
           /\ \A i \in 1 .. Len(added) :
                /\ added[i].cb = Nil /\ added[i].doc \in Present(local)
                /\ added[i].val = local[added[i].doc]
           /\ (added # <<>> => persisted = Len(queue))
           /\ Launch(Restored \o added)
<1>1. PICK S \in SUBSET (Read \cap Present(local)) :
        /\ S # {} => persisted = Len(queue)
        /\ \E order \in SetToSeqs(S) :
             Launch(Restored \o [i \in DOMAIN order |->
                      [doc |-> order[i], val |-> local[order[i]], cb |-> Nil]])
  BY Zenon DEF ReadDeleted
<1>2. PICK order \in SetToSeqs(S) :
        Launch(Restored \o [i \in DOMAIN order |->
                 [doc |-> order[i], val |-> local[order[i]], cb |-> Nil]])
  BY <1>1, Zenon
<1>3. S \in SUBSET Doc /\ S \subseteq Present(local)
  BY <1>1 DEF Present
<1>4. IsFiniteSet(S) /\ Cardinality(S) \in Nat
  BY <1>3, DocSets
<1>5. order \in [1 .. Cardinality(S) -> S]
  BY <1>2 DEF SetToSeqs
<1> DEFINE f(i) == [doc |-> order[i], val |-> local[order[i]], cb |-> Nil]
           n == Cardinality(S)
           added == [i \in 1 .. n |-> f(i)]
<1>6. \A i \in 1 .. n : order[i] \in S /\ f(i) \in Write
  BY <1>3, <1>5, Zenon DEF TypeInv, Write
<1>7. Launch(Restored \o added)
  BY <1>2, <1>5
<1> HIDE DEF n
<1>8. \A i \in 1 .. n : /\ f(i).cb = Nil /\ f(i).doc \in Present(local)
                       /\ f(i).val = local[f(i).doc]
  BY <1>3, <1>6, Zenon
<1> HIDE DEF f
<1>9. added \in Seq(Write) /\ Len(added) = n
  BY <1>4, <1>6, IsASeq DEF n
<1>10. \A i \in 1 .. n : added[i] = f(i)
  OBVIOUS
<1>11. added # <<>> => S # {}
  <2> SUFFICES ASSUME S = {}
               PROVE  added = <<>>
    OBVIOUS
  <2>1. n = 0
    BY <1>4, FS_EmptySet DEF n
  <2> QED
    BY <1>9, <2>1, EmptySeq
<1> HIDE DEF added
<1> QED
  BY <1>1, <1>7, <1>8, <1>9, <1>10, <1>11

LEMMA ReadDeletedKeeps ==
  ASSUME CoreInv, ReadDeleted
  PROVE  CoreInv'
<1>0. TypeInv
  BY DEF CoreInv
<1>1. PICK added \in Seq(Write) :
        /\ \A i \in 1 .. Len(added) : added[i].cb = Nil
        /\ Launch(Restored \o added)
  BY <1>0, ReadFacts
<1>2. /\ Restored \in Seq(Write)
      /\ \A i \in 1 .. Len(Restored) : Restored[i].cb = Nil
  BY <1>0, RestoredFacts
<1> DEFINE stored == Restored \o added
<1>3. /\ stored \in Seq(Write)
      /\ \A i \in 1 .. Len(stored) : stored[i].cb = Nil
  <2>1. /\ stored \in Seq(Write) /\ Len(stored) = Len(Restored) + Len(added)
        /\ \A i \in 1 .. Len(Restored) : stored[i] = Restored[i]
        /\ \A i \in 1 .. Len(stored) : i > Len(Restored) =>
             i - Len(Restored) \in 1 .. Len(added) /\ stored[i] = added[i - Len(Restored)]
        /\ Len(Restored) \in Nat /\ Len(added) \in Nat
    BY <1>1, <1>2, ConcatFacts, SeqFacts
  <2> HIDE DEF stored, Restored
  <2>2. ASSUME NEW i \in 1 .. Len(stored)
        PROVE  stored[i].cb = Nil
    <3>1. CASE i > Len(Restored)
      BY <1>1, <2>1, <3>1
    <3>2. CASE ~(i > Len(Restored))
      <4>1. i \in 1 .. Len(Restored)
        BY <2>1, <3>2
      <4> QED
        BY <1>2, <2>1, <4>1
    <3> QED
      BY <3>1, <3>2
  <2> QED
    BY <2>1, <2>2
<1>4. Launch(stored)
  BY <1>1
<1> HIDE DEF stored
<1> QED
  BY <1>3, <1>4, LaunchKeeps

-----------------------------------------------------------------------------
(***************************************************************************)
(* The invariant, and what it says of a full progress.                     *)
(***************************************************************************)

LEMMA CoreInit ==
  ASSUME EditInit
  PROVE  CoreInv
<1>1. /\ queue = <<>> /\ done = <<>> /\ backups = <<>> /\ persisted = 0 /\ applied = 0
      /\ outbox \in SUBSET Doc /\ edits = 0 /\ link \in BOOLEAN
      /\ server \in [Doc -> {Absent, 1}] /\ local \in [Doc -> {Absent, 2}]
      /\ cache \in [Doc -> {Absent, 1}]
  BY DEF EditInit, Init, Contents, AtRest
<1>2. server \in [Doc -> Nat] /\ local \in [Doc -> Nat] /\ cache \in [Doc -> Nat]
  BY <1>1 DEF Absent
<1>3. /\ <<>> \in Seq(Write) /\ <<>> \in Seq(Reply) /\ <<>> \in Seq(Call)
      /\ Len(queue) = 0 /\ Len(done) = 0 /\ Len(backups) = 0
  BY <1>1, EmptySeq
<1>4. TypeInv
  BY <1>1, <1>2, <1>3 DEF TypeInv
<1>5. OnceInv
  BY <1>3 DEF OnceInv, Once, Apart, FetchedOnce
<1>6. CallsInv
  BY <1>3 DEF CallsInv
<1> QED
  BY <1>4, <1>5, <1>6 DEF CoreInv

LEMMA CoreNext ==
  ASSUME CoreInv, [EditNext]_allVars
  PROVE  CoreInv'
<1>0. TypeInv /\ edits \in Nat
  BY Zenon DEF CoreInv, TypeInv
<1>1. CASE \E o \in Doc : UpdateObject(o) \/ DeleteObject(o)
  BY <1>0, <1>1, ChangeFacts, ChangeKeeps
<1>2. CASE OnRecordDone
  BY <1>2, RecordDoneKeeps
<1>3. CASE OnBackupAnswer
  BY <1>3, AnswerKeeps
<1>4. CASE ReadDeleted
  BY <1>4, ReadDeletedKeeps
<1>5. CASE LinkReturns
  BY <1>5, LinkReturnsKeeps
<1>6. CASE Relaunch
  BY <1>6, RelaunchKeeps
<1>7. CASE Beside(BackupData \/ Fetch \/ Told)
  <2>1. Beside(BackupData) \/ Beside(Fetch) \/ Beside(Told)
    BY <1>7 DEF Beside
  <2> QED
    BY <2>1, BackupDataKeeps, FetchKeeps, ToldKeeps
<1>8. CASE Beside(ClientPersist \/ ClientApply \/ ClientAck \/ ClientReject)
  BY <1>8, ClientKeeps
<1>9. CASE Beside(link /\ LinkChange)
  BY <1>9, LinkKeeps
<1>10. CASE UNCHANGED allVars
  <2>1. /\ UNCHANGED <<queue, done, backups, local, outbox, edits, server, cache, link>>
        /\ UNCHANGED <<persisted, applied>>
    BY <1>10 DEF allVars, vars, editVars, clientVars
  <2>2. /\ server' \in [Doc -> Nat] /\ cache' \in [Doc -> Nat] /\ link' \in BOOLEAN
        /\ persisted' \in 0 .. Len(queue) /\ applied' \in 0 .. persisted'
    BY <1>0, <2>1 DEF TypeInv
  <2> QED
    BY <2>1, <2>2, QuietKeeps
<1> QED
  BY <1>1, <1>2, <1>3, <1>4, <1>5, <1>6, <1>7, <1>8, <1>9, <1>10 DEF EditNext, MainThread

LEMMA Invariance == EditSpec => []CoreInv
<1>1. EditInit => CoreInv
  BY CoreInit
<1>2. CoreInv /\ [EditNext]_allVars => CoreInv'
  BY CoreNext
<1> QED
  BY <1>1, <1>2, PTL DEF EditSpec

\* The types of the variables, and no callback of an unknown backup: a stray
\* answer would index backups outside its domain.
THEOREM Typing == EditSpec => []TypeOK
<1>1. ASSUME CoreInv
      PROVE  TypeOK
  <2>1. TypeInv /\ CallsInv
    BY <1>1 DEF CoreInv
  <2>2. /\ queue \in Seq(Write) /\ done \in Seq(Reply) /\ backups \in Seq(Call)
    BY <2>1 DEF TypeInv
  <2>3. /\ DOMAIN queue = 1 .. Len(queue) /\ DOMAIN done = 1 .. Len(done)
        /\ DOMAIN backups = 1 .. Len(backups)
        /\ \A i \in 1 .. Len(queue) : queue[i] \in Write
        /\ \A i \in 1 .. Len(done) : done[i] \in Reply
    BY <2>2, SeqFacts
  <2>4. ASSUME NEW cb \in Callback, Served(cb, Len(backups))
        PROVE  Known(cb)
    BY <2>3, <2>4 DEF Known, Served
  <2>5. ASSUME NEW i \in DOMAIN queue, queue[i].cb # Nil
        PROVE  Known(queue[i].cb)
    <3>1. queue[i].cb \in Callback
      BY <2>3, <2>5 DEF Write
    <3>2. Served(queue[i].cb, Len(backups))
      BY <2>1, <2>3, <2>5 DEF TypeInv
    <3> QED
      BY <2>4, <3>1, <3>2
  <2>6. ASSUME NEW i \in DOMAIN done
        PROVE  Known(done[i].cb)
    <3>1. done[i].cb \in Callback
      BY <2>3 DEF Reply
    <3>2. Served(done[i].cb, Len(backups))
      BY <2>1, <2>3 DEF TypeInv
    <3> QED
      BY <2>4, <3>1, <3>2
  <2>7. ASSUME NEW b \in DOMAIN backups
        PROVE  /\ backups[b].asked \subseteq Collections
               /\ \A c \in Collections : backups[b].cloud[c] # Nil =>
                    /\ backups[b].cloud[c] \subseteq c
                    /\ backups[b].deleted[c] \in 0 .. Cardinality(backups[b].cloud[c])
    <3>1. b \in 1 .. Len(backups)
      BY <2>3
    <3>2. /\ backups[b].asked \subseteq Collections
          /\ backups[b].deleted \in [Collections -> Nat]
          /\ \A c \in Collections : backups[b].cloud[c] # Nil =>
               /\ backups[b].cloud[c] \subseteq c
               /\ Cardinality(backups[b].cloud[c]) \in Nat
      BY <2>1, <3>1, CallFacts
    <3>3. ASSUME NEW c \in Collections, backups[b].cloud[c] # Nil
          PROVE  backups[b].deleted[c] \in 0 .. Cardinality(backups[b].cloud[c])
      <4>1. CASE Loaded(backups[b])
        <5>1. backups[b].deleted[c] + Cardinality(Deleting(b, c))
                <= Cardinality(backups[b].cloud[c])
          BY <2>1, <3>1, <4>1 DEF CallsInv, CallInv, BudgetInv
        <5>2. Deleting(b, c) \in SUBSET Doc
          BY CollectionFacts DEF Deleting
        <5>3. Cardinality(Deleting(b, c)) \in Nat
          BY <5>2, DocSets
        <5> QED
          BY <3>2, <3>3, <5>1, <5>3
      <4>2. CASE ~Loaded(backups[b])
        <5>1. backups[b].deleted[c] = 0
          BY <2>1, <3>1, <4>2 DEF CallsInv, CallInv, UnloadedInv
        <5> QED
          BY <3>2, <3>3, <5>1
      <4> QED
        BY <4>1, <4>2
    <3> QED
      BY <3>2, <3>3
  <2> QED
    BY <2>1, <2>5, <2>6, <2>7 DEF TypeOK, TypeInv
<1> QED
  BY <1>1, Invariance, PTL

LEMMA FullIsLast ==
  ASSUME CoreInv
  PROVE  FullIsFinal
<1>1. TypeInv
  BY DEF CoreInv
<1>2. /\ queue \in Seq(Write) /\ done \in Seq(Reply) /\ backups \in Seq(Call)
  BY <1>1 DEF TypeInv
<1>3. /\ DOMAIN queue = 1 .. Len(queue) /\ DOMAIN done = 1 .. Len(done)
      /\ DOMAIN backups = 1 .. Len(backups)
      /\ \A i \in 1 .. Len(queue) : queue[i] \in Write
      /\ \A i \in 1 .. Len(done) : done[i] \in Reply
  BY <1>2, SeqFacts
<1> SUFFICES ASSUME NEW b \in 1 .. Len(backups), Full(backups[b])
             PROVE  /\ backups[b].asked = {} /\ backups[b].told # "error"
                    /\ \A i \in DOMAIN queue : queue[i].cb # Nil => queue[i].cb.run # b
                    /\ \A i \in DOMAIN done : done[i].cb.run # b
  BY <1>3 DEF FullIsFinal
<1>4. /\ backups[b].told # "error" /\ backups[b].asked = {}
      /\ \A d \in Doc : ~Waiting(Del(b, d)) /\ ~Waiting(Add(b, d))
      /\ \A c \in Collections : ~Fetched(done, b, c)
  BY FullFacts
<1>5. ASSUME NEW cb \in Callback, cb.run = b, cb.op # "record", cb.op # "fetch"
      PROVE  ~Waiting(cb)
  <2>1. Writes(cb)
    BY <1>5, NilAssumption DEF Callback, Writes
  <2>2. cb.doc \in Doc /\ (cb = Del(b, cb.doc) \/ cb = Add(b, cb.doc))
    BY <1>5, <2>1, WriteTask
  <2> QED
    BY <1>4, <2>2
<1>6. ASSUME NEW i \in 1 .. Len(queue), queue[i].cb # Nil, queue[i].cb.run = b
      PROVE  FALSE
  <2>1. /\ queue[i].cb \in Callback /\ queue[i].cb.op # "fetch"
        /\ Served(queue[i].cb, Len(backups))
    BY <1>1, <1>3, <1>6, Zenon DEF TypeInv, Write
  <2>2. queue[i].cb.op # "record"
    BY <1>6, <2>1 DEF Served
  <2> QED
    BY <1>5, <1>6, <2>1, <2>2 DEF Waiting, Holds
<1>7. ASSUME NEW i \in 1 .. Len(done), done[i].cb.run = b
      PROVE  FALSE
  <2>1. done[i].cb \in Callback /\ Served(done[i].cb, Len(backups))
    BY <1>1, <1>3 DEF TypeInv, Reply
  <2>2. done[i].cb.op # "record"
    BY <1>7, <2>1 DEF Served
  <2>3. done[i].cb.op # "fetch"
    <3> SUFFICES ASSUME done[i].cb.op = "fetch"
                 PROVE  FALSE
      OBVIOUS
    <3>1. done[i].cb.coll \in Collections
      BY <2>1 DEF Callback
    <3> QED
      BY <1>4, <1>7, <3>1 DEF Fetched, FetchOf
  <2> QED
    BY <1>5, <1>7, <2>1, <2>2, <2>3 DEF Waiting, Holds
<1> QED
  BY <1>3, <1>4, <1>6, <1>7

LEMMA FullAnswered ==
  ASSUME CoreInv, NEW b \in 1 .. Len(backups), Full(backups[b])
  PROVE  \A i \in 1 .. Len(done) : done[i].cb.run # b
<1>1. done \in Seq(Reply) /\ backups \in Seq(Call)
  BY DEF CoreInv, TypeInv
<1>2. DOMAIN done = 1 .. Len(done) /\ DOMAIN backups = 1 .. Len(backups)
  BY <1>1, SeqFacts
<1> QED
  BY <1>2, FullIsLast DEF FullIsFinal

\* A full progress is the last word of a backup, whatever the user edits beside
\* it: nothing it began is under way, so the ring cannot pass 1 and the user is
\* told of the success once, and of no error (backupData, 335 to 388).
THEOREM FullProgress == EditSpec => []FullIsFinal
<1>1. CoreInv => FullIsFinal
  BY FullIsLast
<1> QED
  BY <1>1, Invariance, PTL

-----------------------------------------------------------------------------
(***************************************************************************)
(* The ring of a backup keeps the objects it will add.                     *)
(***************************************************************************)

\* An answer is served of a call that is not full yet.
LEMMA HeadNotFull ==
  ASSUME CoreInv, NEW b, Serving(b)
  PROVE  b \in 1 .. Len(backups) /\ ~Full(backups[b])
<1>1. /\ done # <<>> /\ done[1].cb.op # "record" /\ b = done[1].cb.run
      /\ done \in Seq(Reply)
  BY DEF Serving, CoreInv, TypeInv
<1>2. b \in 1 .. Len(backups) /\ 1 \in 1 .. Len(done)
  BY <1>1, HeadTask, TailFacts
<1>3. CASE Writes(done[1].cb)
  <2>1. PICK d \in Doc : done[1].cb = Del(b, d) \/ done[1].cb = Add(b, d)
    BY <1>1, <1>3, HeadTask
  <2>2. Waiting(Del(b, d)) \/ Waiting(Add(b, d))
    BY <1>2, <2>1 DEF Waiting, Holds
  <2> QED
    BY <1>2, <2>2, FullFacts
<1>4. CASE ~Writes(done[1].cb)
  <2>1. backups[b].cloud[done[1].cb.coll] = Nil /\ done[1].cb.coll \in Collections
    BY <1>4, HeadFetch
  <2> QED
    BY <1>2, <2>1 DEF Full, Loaded
<1> QED
  BY <1>3, <1>4

\* The answers a call is served, and what the user sees of them.
LEMMA AnswerCalls ==
  ASSUME CoreInv, OnBackupAnswer
  PROVE  \E b \in 1 .. Len(backups) :
           /\ ~Full(backups[b]) /\ Len(backups') = Len(backups)
           /\ \A i \in 1 .. Len(backups) : i # b => Same(backups'[i], backups[i])
           /\ backups'[b].mine = backups[b].mine
           /\ \/ backups'[b].covered = backups[b].covered /\ backups'[b].told = backups[b].told
              \/ backups'[b].covered = FALSE /\ backups'[b].told = "error"
<1>0. TypeInv
  BY DEF CoreInv
<1> DEFINE b == done[1].cb.run
<1>1. /\ Serving(b)
      /\ \/ Fail(b)
         \/ done[1].cb.op = "fetch" /\ OnFetched(b, done[1].cb.coll, done[1].cb.docs)
         \/ done[1].cb.op = "delete" /\ OnDeleted(b, CollectionOf(done[1].cb.doc))
         \/ done[1].cb.op = "add" /\ OnAdded(b)
  BY AnswerCases
<1> HIDE DEF b
<1>2. b \in 1 .. Len(backups) /\ ~Full(backups[b])
  BY <1>1, HeadNotFull
<1>3. backups[b] \in Call /\ DOMAIN backups = 1 .. Len(backups)
  BY <1>0, <1>2, CallFacts
<1> DEFINE Q == /\ Len(backups') = Len(backups)
                /\ \A i \in 1 .. Len(backups) : i # b => Same(backups'[i], backups[i])
                /\ backups'[b].mine = backups[b].mine
                /\ \/ /\ backups'[b].covered = backups[b].covered
                      /\ backups'[b].told = backups[b].told
                   \/ backups'[b].covered = FALSE /\ backups'[b].told = "error"
<1>4. ASSUME Fail(b)
      PROVE  Q
  <2> DEFINE x == [backups[b] EXCEPT !.covered = FALSE, !.told = "error"]
  <2>1. x \in Call /\ x.mine = backups[b].mine /\ x.covered = FALSE /\ x.told = "error"
    BY <1>3, Zenon DEF Call
  <2>2. backups' = [backups EXCEPT ![b] = x]
    BY <1>2, <1>3, <1>4, Zenon DEF Fail
  <2> HIDE DEF x
  <2>3. /\ Len(backups') = Len(backups) /\ backups'[b] = x
        /\ \A i \in 1 .. Len(backups) : i # b => Same(backups'[i], backups[i])
    BY <1>0, <1>2, <2>1, <2>2, ExceptFacts, Zenon
  <2> QED
    BY <2>1, <2>3
<1>5. ASSUME done[1].cb.op = "fetch" /\ OnFetched(b, done[1].cb.coll, done[1].cb.docs)
      PROVE  Q
  <2>1. PICK x \in Call, writes \in Seq(Write) : FoundBy(b, x, writes)
    BY <1>1, <1>5, FoundShape
  <2> QED
    BY <2>1 DEF FoundBy, Same
<1>6. ASSUME done[1].cb.op = "delete" /\ OnDeleted(b, CollectionOf(done[1].cb.doc))
      PROVE  Q
  <2>1. PICK d \in Doc, x \in Call, writes \in Seq(Write) : DeletedBy(b, d, x, writes)
    BY <1>1, <1>6, DeletedShape
  <2> QED
    BY <2>1 DEF DeletedBy, Same
<1>7. ASSUME done[1].cb.op = "add" /\ OnAdded(b)
      PROVE  Q
  <2> DEFINE x == [backups[b] EXCEPT !.progress = @ + 1]
  <2>1. /\ x \in Call /\ x.mine = backups[b].mine /\ x.covered = backups[b].covered
        /\ x.told = backups[b].told
    <3>1. backups[b] \in Call
      BY <1>3
    <3> QED
      BY <3>1 DEF Call
  <2>2. backups' = [backups EXCEPT ![b] = x]
    BY <1>2, <1>3, <1>7 DEF OnAdded
  <2> HIDE DEF x
  <2>3. /\ Len(backups') = Len(backups) /\ backups'[b] = x
        /\ \A i \in 1 .. Len(backups) : i # b => Same(backups'[i], backups[i])
    BY <1>0, <1>2, <2>1, <2>2, ExceptFacts, Zenon
  <2> QED
    BY <2>1, <2>3
<1>8. Q
  BY <1>1, <1>4, <1>5, <1>6, <1>7, Zenon
<1> QED
  BY <1>2, <1>8

\* A call that keeps what the invariant speaks of, and its objects.
LEMMA CoverKept ==
  ASSUME NEW b, CoverInv(b), Same(backups'[b], backups[b]),
         backups[b].covered => Present(local) \subseteq Present(local')
  PROVE  CoverInv(b)'
<1>1. Present(local)' = Present(local')
  BY DEF Present
<1>2. Full(backups[b]) => Full(backups'[b])
  BY DEF Full, Loaded, Total, Same
<1> QED
  BY <1>1, <1>2 DEF CoverInv, Same

LEMMA CoversNext ==
  ASSUME CoreInv, CoversInv, [EditNext]_allVars
  PROVE  CoversInv'
<1>0. TypeInv /\ CoreInv' /\ backups \in Seq(Call)
  BY CoreNext, Zenon DEF CoreInv, TypeInv
<1>1. ASSUME Len(backups') = Len(backups), local' = local,
             \A b \in 1 .. Len(backups) : Same(backups'[b], backups[b])
      PROVE  CoversInv'
  BY <1>1, CoverKept DEF CoversInv
<1>2. ASSUME UNCHANGED <<backups, local>>
      PROVE  CoversInv'
  BY <1>1, <1>2 DEF Same
<1>3. CASE \E o \in Doc : UpdateObject(o) \/ DeleteObject(o)
  <2>1. PICK objects \in SUBSET Doc, val \in {Absent, 3 + edits} : Change(objects, val)
    BY <1>0, <1>3, ChangeFacts
  <2>2. \A b \in 1 .. Len(backups) : ~backups[b].covered
    BY <1>0, <2>1, SeqFacts DEF Change, Uncovered
  <2>3. PICK writes \in Merged(link, local', outbox') : Issue(writes, backups)
    BY <2>1 DEF Change
  <2>4. local' \in [Doc -> Nat] /\ outbox' \in SUBSET Doc
    BY <1>0 DEF CoreInv, TypeInv
  <2>5. writes \in Seq(Write)
    BY <2>4, MergedFacts, Zenon
  <2>6. /\ Len(backups') = Len(backups)
        /\ \A b \in 1 .. Len(backups) : Same(backups'[b], backups[b])
    BY <1>0, <2>3, <2>5, IssueFacts
  <2> QED
    BY <2>2, <2>6, CoverKept DEF CoversInv
<1>4. CASE OnRecordDone
  BY <1>2, <1>4 DEF OnRecordDone
<1>5. CASE OnBackupAnswer
  <2>1. PICK b \in 1 .. Len(backups) :
           /\ ~Full(backups[b]) /\ Len(backups') = Len(backups)
           /\ \A i \in 1 .. Len(backups) : i # b => Same(backups'[i], backups[i])
           /\ backups'[b].mine = backups[b].mine
           /\ \/ backups'[b].covered = backups[b].covered /\ backups'[b].told = backups[b].told
              \/ backups'[b].covered = FALSE /\ backups'[b].told = "error"
    BY <1>5, AnswerCalls, Zenon
  <2>2. local' = local /\ Present(local)' = Present(local)
    BY <1>5 DEF OnBackupAnswer, OnAnswer, Present
  <2>3. CoverInv(b)'
    BY <2>1, <2>2 DEF CoversInv, CoverInv
  <2>4. ASSUME NEW i \in 1 .. Len(backups')
        PROVE  CoverInv(i)'
    <3>1. CASE i = b
      BY <2>3, <3>1
    <3>2. CASE i # b
      <4>1. i \in 1 .. Len(backups) /\ CoverInv(i) /\ Same(backups'[i], backups[i])
        BY <2>1, <3>2 DEF CoversInv
      <4> QED
        BY <2>2, <4>1, CoverKept
    <3> QED
      BY <3>1, <3>2
  <2> QED
    BY <2>4 DEF CoversInv
<1>6. CASE ReadDeleted \/ Relaunch
  <2>1. backups' = <<>>
    BY <1>6, Zenon DEF ReadDeleted, Relaunch, Launch
  <2>2. Len(backups') = 0
    BY <2>1, EmptySeq
  <2> QED
    BY <2>2 DEF CoversInv
<1>7. CASE LinkReturns
  <2>1. PICK writes \in Merged(TRUE, local, outbox) : Issue(writes, backups)
    BY <1>7, Zenon DEF LinkReturns
  <2>2. local \in [Doc -> Nat] /\ outbox \in SUBSET Doc /\ local' = local
    BY <1>0, <1>7 DEF TypeInv, LinkReturns
  <2>3. writes \in Seq(Write)
    BY <2>1, <2>2, MergedFacts, Zenon
  <2>4. /\ Len(backups') = Len(backups)
        /\ \A b \in 1 .. Len(backups) : Same(backups'[b], backups[b])
    BY <1>0, <2>1, <2>3, IssueFacts
  <2> QED
    BY <1>1, <2>2, <2>4
<1>8. CASE Beside(BackupData)
  <2>1. backups' = Append(backups, NewBackup) /\ local' = local
    BY <1>8 DEF Beside, BackupData
  <2>2. local \in [Doc -> Nat]
    BY <1>0 DEF TypeInv
  <2>3. /\ NewBackup \in Call /\ NewBackup.mine = Present(local)
        /\ NewBackup.covered = TRUE /\ NewBackup.told = "nothing"
    BY <2>2, NewFacts, Zenon
  <2>4. /\ Len(backups') = Len(backups) + 1 /\ Len(backups) \in Nat
        /\ \A b \in 1 .. Len(backups) : backups'[b] = backups[b]
        /\ backups'[Len(backups) + 1] = NewBackup
    BY <1>0, <2>1, <2>3, AppendFacts, SeqFacts
  <2>5. ASSUME NEW b \in 1 .. Len(backups')
        PROVE  CoverInv(b)'
    <3>1. CASE b = Len(backups) + 1
      <4>1. backups'[b] = NewBackup /\ Present(local)' = Present(local)
        BY <2>1, <2>4, <3>1 DEF Present
      <4> QED
        BY <2>3, <4>1 DEF CoverInv
    <3>2. CASE b \in 1 .. Len(backups)
      <4>1. Same(backups'[b], backups[b]) /\ CoverInv(b)
        BY <2>4, <3>2 DEF Same, CoversInv
      <4> QED
        BY <2>1, <4>1, CoverKept
    <3> QED
      BY <2>4, <3>1, <3>2
  <2> QED
    BY <2>5 DEF CoversInv
<1>9. CASE Beside(Fetch)
  <2>1. PICK b \in 1 .. Len(backups), c \in Collections :
          backups' = [backups EXCEPT ![b].asked = @ \ {c}] /\ local' = local
    BY <1>9, FetchFacts, Zenon
  <2>2. backups[b] \in Call
    BY <1>0, CallFacts
  <2> DEFINE x == [backups[b] EXCEPT !.asked = @ \ {c}]
  <2>3. /\ x \in Call /\ x.cloud = backups[b].cloud /\ x.mine = backups[b].mine
        /\ x.progress = backups[b].progress /\ x.told = backups[b].told
        /\ x.covered = backups[b].covered
    BY <2>2, Zenon DEF Call
  <2>4. backups' = [backups EXCEPT ![b] = x]
    BY <1>0, <2>1, CallFacts
  <2> HIDE DEF x
  <2>5. /\ Len(backups') = Len(backups) /\ backups'[b] = x
        /\ \A i \in 1 .. Len(backups) : i # b => Same(backups'[i], backups[i])
    BY <1>0, <2>3, <2>4, ExceptFacts, Zenon
  <2>6. ASSUME NEW i \in 1 .. Len(backups')
        PROVE  CoverInv(i)'
    <3>1. i \in 1 .. Len(backups) /\ CoverInv(i) /\ Present(local)' = Present(local)
      BY <2>1, <2>5 DEF CoversInv, Present
    <3>2. CASE i = b
      BY <2>3, <2>5, <3>1, <3>2 DEF CoverInv, Full, Loaded, Total
    <3>3. CASE i # b
      BY <2>1, <2>5, <3>1, <3>3, CoverKept
    <3> QED
      BY <3>2, <3>3
  <2> QED
    BY <2>6 DEF CoversInv
<1>10. CASE Beside(Told)
  <2>1. PICK b \in DOMAIN backups : TellSuccess(b)
    BY <1>10 DEF Beside, Told
  <2>2. /\ b \in 1 .. Len(backups) /\ Full(backups[b]) /\ local' = local
        /\ backups' = [backups EXCEPT ![b].covered = FALSE, ![b].told = "success"]
    BY <1>0, <2>1, SeqFacts DEF TellSuccess
  <2>3. backups[b] \in Call /\ DOMAIN backups = 1 .. Len(backups)
    BY <1>0, <2>2, CallFacts
  <2> DEFINE x == [backups[b] EXCEPT !.covered = FALSE, !.told = "success"]
  <2>4. /\ x \in Call /\ x.cloud = backups[b].cloud /\ x.mine = backups[b].mine
        /\ x.progress = backups[b].progress /\ x.told = "success" /\ x.covered = FALSE
    BY <2>3, Zenon DEF Call
  <2>5. backups' = [backups EXCEPT ![b] = x]
    BY <2>2, <2>3, Zenon
  <2> HIDE DEF x
  <2>6. /\ Len(backups') = Len(backups) /\ backups'[b] = x
        /\ \A i \in 1 .. Len(backups) : i # b => Same(backups'[i], backups[i])
    BY <1>0, <2>2, <2>4, <2>5, ExceptFacts, Zenon
  <2>7. ASSUME NEW i \in 1 .. Len(backups')
        PROVE  CoverInv(i)'
    <3>1. CASE i = b
      BY <2>2, <2>4, <2>6, <3>1 DEF CoverInv, Full, Loaded, Total
    <3>2. CASE i # b
      <4>1. i \in 1 .. Len(backups) /\ CoverInv(i)
        BY <2>6 DEF CoversInv
      <4> QED
        BY <2>2, <2>6, <3>2, <4>1, CoverKept
    <3> QED
      BY <3>1, <3>2
  <2> QED
    BY <2>7 DEF CoversInv
<1>11. CASE Beside(ClientPersist \/ ClientApply \/ ClientAck \/ ClientReject)
  BY <1>2, <1>11 DEF Beside, ClientPersist, ClientApply, ClientAck, ClientReject
<1>12. CASE Beside(link /\ LinkChange)
  BY <1>2, <1>12 DEF Beside, LinkChange
<1>13. CASE UNCHANGED allVars
  BY <1>2, <1>13 DEF allVars, vars
<1>14. Beside(BackupData \/ Fetch \/ Told) => Beside(BackupData) \/ Beside(Fetch) \/ Beside(Told)
  BY DEF Beside
<1> QED
  BY <1>3, <1>4, <1>5, <1>6, <1>7, <1>8, <1>9, <1>10, <1>11, <1>12, <1>13, <1>14
  DEF EditNext, MainThread

\* The additions that the next answer starts read the objects of a backup that
\* found both collections.
LEMMA ReadOfCall ==
  ASSUME CoreInv, CoversInv, ~(Read \subseteq Present(local))
  PROVE  \E b \in DOMAIN backups : backups[b].told = "error"
<1>0. TypeInv /\ backups \in Seq(Call) /\ done \in Seq(Reply)
  BY Zenon DEF CoreInv, TypeInv
<1>1. done # <<>> /\ Head(done).cb.op = "delete"
  BY Zenon DEF Read
<1>2. Head(done) = done[1]
  BY <1>0, <1>1, TailFacts
<1> DEFINE b == done[1].cb.run
<1>3. b \in 1 .. Len(backups) /\ done[1].cb.op = "delete" /\ done[1].cb \in Callback
  BY <1>1, <1>2, HeadTask
<1>4. Read \subseteq backups[b].mine
  BY <1>1, <1>2, Zenon DEF Read
<1>5. Writes(done[1].cb)
  BY <1>3, NilAssumption DEF Writes
<1>6. ~Full(backups[b])
  <2>1. 1 \in 1 .. Len(done)
    BY <1>0, <1>1, TailFacts
  <2>2. PICK d \in Doc : done[1].cb = Del(b, d) \/ done[1].cb = Add(b, d)
    BY <1>1, <1>3, <1>5, HeadTask
  <2>3. Waiting(Del(b, d)) \/ Waiting(Add(b, d))
    BY <2>1, <2>2 DEF Waiting, Holds
  <2> QED
    BY <1>3, <2>3, FullFacts
<1> HIDE DEF b
<1>7. CoverInv(b) /\ backups[b] \in Call /\ DOMAIN backups = 1 .. Len(backups)
  BY <1>0, <1>3, CallFacts DEF CoversInv
<1>8. backups[b].told \in {"nothing", "error", "success"}
  BY <1>7 DEF Call
<1>9. backups[b].told = "error"
  BY <1>4, <1>6, <1>7, <1>8 DEF CoverInv
<1> QED
  BY <1>3, <1>7, <1>9

\* The process ends because an addition reads a deleted object only beside a
\* backup of which the user was told that it failed: the ring of a backup keeps
\* the objects its closures hold (backupData, 368 and 384).
THEOREM OnlyFailedCrash == EditSpec => OnlyFailedBackupsCrash
<1>1. EditInit => CoversInv
  <2> SUFFICES ASSUME EditInit
               PROVE  CoversInv
    OBVIOUS
  <2>1. backups = <<>>
    BY DEF EditInit, Init, AtRest
  <2>2. Len(backups) = 0
    BY <2>1, EmptySeq
  <2> QED
    BY <2>2 DEF CoversInv
<1>2. CoreInv /\ CoversInv /\ [EditNext]_allVars => CoversInv'
  BY CoversNext
<1>3. CoreInv /\ CoversInv /\ [EditNext]_allVars
        => [crashed' # crashed => \E b \in DOMAIN backups : backups[b].told = "error"]_allVars
  <2> SUFFICES ASSUME CoreInv, CoversInv, EditNext, crashed' # crashed
               PROVE  \E b \in DOMAIN backups : backups[b].told = "error"
    BY DEF allVars, editVars
  <2>1. ReadDeleted
    BY Zenon DEF EditNext, MainThread, UpdateObject, DeleteObject, Change, OnRecordDone,
           OnBackupAnswer, LinkReturns, Relaunch, Beside, editVars
  <2> QED
    BY <2>1, ReadOfCall DEF ReadDeleted
<1> QED
  BY <1>1, <1>2, <1>3, Invariance, PTL DEF EditSpec, OnlyFailedBackupsCrash

-----------------------------------------------------------------------------
(***************************************************************************)
(* The versions of an object, from the phone through the queue.            *)
(***************************************************************************)

\* What is left of a queue is as sound as the queue: without its head, or without
\* the writes that were not stored and the completion blocks.
LEMMA SoundPart ==
  ASSUME NEW q, NEW t, NEW k \in Nat, Len(t) \in Nat, NEW db, NEW box, Sound(q, db, box),
         \A i \in 1 .. Len(t) :
           /\ i + k \in 1 .. Len(q)
           /\ t[i].doc = q[i + k].doc /\ t[i].val = q[i + k].val
           /\ t[i].cb \in {q[i + k].cb, Nil}
  PROVE  Sound(t, db, box)
<1>1. ASSUME NEW i \in 1 .. Len(t)
      PROVE  Fit(t[i], db, box)
  <2>1. Fit(q[i + k], db, box)
    BY DEF Sound
  <2>2. t[i].cb = q[i + k].cb \/ t[i].cb = Nil
    OBVIOUS
  <2>3. t[i].doc = q[i + k].doc /\ t[i].val = q[i + k].val
    OBVIOUS
  <2> QED
    BY <2>1, <2>2, <2>3, Zenon DEF Fit, OfRecord
<1>2. ASSUME NEW i \in 1 .. Len(t), NEW j \in 1 .. Len(t), i <= j,
             t[i].doc = t[j].doc, t[j].val # Absent
      PROVE  t[i].val <= t[j].val
  <2>1. i + k \in 1 .. Len(q) /\ j + k \in 1 .. Len(q) /\ i + k <= j + k
    BY <1>2
  <2>2. /\ q[i + k].doc = q[j + k].doc /\ q[j + k].val # Absent
        /\ t[i].val = q[i + k].val /\ t[j].val = q[j + k].val
    BY <1>2, Zenon
  <2> QED
    BY <2>1, <2>2 DEF Sound
<1> QED
  BY <1>1, <1>2, Zenon DEF Sound

\* The phone and its outbox go on: an object keeps its version, or it is in the
\* outbox with a later one, or deleted.
Onward(db, db2, box, box2) ==
  /\ box \subseteq box2
  /\ \A d \in Doc :
       \/ db2[d] = db[d]
       \/ d \in box2 /\ (db2[d] = Absent \/ (db[d] # Absent /\ db[d] < db2[d]))

LEMMA SoundOn ==
  ASSUME NEW q \in Seq(Write), NEW db \in [Doc -> Nat], NEW db2 \in [Doc -> Nat],
         NEW box, NEW box2, Onward(db, db2, box, box2)
  PROVE  /\ Sound(q, db, box) => Sound(q, db2, box2)
         /\ \A cb : Behind(cb, q, db) /\ cb.doc \in Doc /\ cb.val \in Nat
                      => Behind(cb, q, db2)
<1>1. Len(q) \in Nat /\ \A i \in 1 .. Len(q) : q[i] \in Write
  BY SeqFacts
<1>2. ASSUME Sound(q, db, box), NEW i \in 1 .. Len(q)
      PROVE  Fit(q[i], db2, box2)
  <2>1. q[i].doc \in Doc /\ q[i].val \in Nat /\ Fit(q[i], db, box)
    BY <1>1, <1>2, Zenon DEF Write, Sound
  <2> DEFINE d == q[i].doc
  <2>2. /\ d \in box => d \in box2
        /\ \/ db2[d] = db[d]
           \/ d \in box2 /\ (db2[d] = Absent \/ (db[d] # Absent /\ db[d] < db2[d]))
        /\ db[d] \in Nat /\ db2[d] \in Nat
    BY <2>1 DEF Onward
  <2>3. /\ q[i].cb # Nil => q[i].cb.doc = d
        /\ OfRecord(q[i].cb) => q[i].cb.val = q[i].val /\ (q[i].val = Absent => db[d] = Absent)
        /\ db[d] # Absent /\ q[i].val # Absent =>
             q[i].val <= db[d] /\ (d \in box \/ q[i].val = db[d])
    BY <2>1 DEF Fit
  <2> HIDE DEF d
  <2>4. db[d] = Absent => db2[d] = Absent
    BY <2>2
  <2>5. db2[d] # Absent /\ q[i].val # Absent =>
          q[i].val <= db2[d] /\ (d \in box2 \/ q[i].val = db2[d])
    BY <2>1, <2>2, <2>3, <2>4
  <2> QED
    BY <2>3, <2>4, <2>5 DEF Fit, d
<1>3. ASSUME NEW cb, Behind(cb, q, db), cb.doc \in Doc, cb.val \in Nat
      PROVE  Behind(cb, q, db2)
  <2> DEFINE d == cb.doc
  <2>1. /\ db2[d] = db[d] \/ db2[d] = Absent \/ (db[d] # Absent /\ db[d] < db2[d])
        /\ db[d] \in Nat /\ db2[d] \in Nat
    BY <1>3 DEF Onward
  <2>2. db[d] # Absent => cb.val <= db[d]
    BY <1>3 DEF Behind
  <2> HIDE DEF d
  <2>3. db2[d] # Absent => cb.val <= db2[d]
    BY <1>3, <2>1, <2>2
  <2> QED
    BY <1>3, <2>3 DEF Behind, d
<1> QED
  BY <1>2, <1>3 DEF Sound

\* A new write sends an object as it is, or deletes it; a record is of the object
\* as it is.
Fresh(w, db) ==
  /\ w.cb # Nil => w.cb.doc = w.doc
  /\ OfRecord(w.cb) => w.cb.val = w.val /\ w.val = db[w.doc]
  /\ w.val = Absent \/ w.val = db[w.doc]

LEMMA SoundAppend ==
  ASSUME NEW q \in Seq(Write), NEW t \in Seq(Write), NEW db \in [Doc -> Nat], NEW box,
         Sound(q, db, box), \A i \in 1 .. Len(t) : Fresh(t[i], db)
  PROVE  /\ Sound(q \o t, db, box)
         /\ \A cb : Behind(cb, q, db) /\ cb.val \in Nat => Behind(cb, q \o t, db)
<1> DEFINE u == q \o t
<1>1. /\ Len(q) \in Nat /\ Len(t) \in Nat /\ Len(u) \in Nat
      /\ \A i \in 1 .. Len(q) : q[i] \in Write
      /\ \A i \in 1 .. Len(t) : t[i] \in Write
  BY SeqFacts, ConcatFacts
<1>2. /\ \A i \in 1 .. Len(q) : u[i] = q[i]
      /\ \A i \in 1 .. Len(u) : i > Len(q) =>
            i - Len(q) \in 1 .. Len(t) /\ u[i] = t[i - Len(q)]
  BY ConcatFacts
<1> HIDE DEF u
<1>3. ASSUME NEW i \in 1 .. Len(u)
      PROVE  /\ u[i].doc \in Doc /\ u[i].val \in Nat
             /\ Fit(u[i], db, box)
             /\ i > Len(q) => u[i].val = Absent \/ u[i].val = db[u[i].doc]
  <2>1. CASE i > Len(q)
    <3>1. PICK k \in 1 .. Len(t) : u[i] = t[k]
      BY <1>2, <2>1
    <3>2. t[k].doc \in Doc /\ t[k].val \in Nat /\ Fresh(t[k], db)
      BY <1>1, Zenon DEF Write
    <3>3. db[t[k].doc] \in Nat
      BY <3>2
    <3>4. Fit(t[k], db, box)
      BY <3>2, <3>3 DEF Fresh, Fit
    <3> QED
      BY <3>1, <3>2, <3>4 DEF Fresh
  <2>2. CASE ~(i > Len(q))
    <3>1. i \in 1 .. Len(q) /\ u[i] = q[i]
      BY <1>1, <1>2, <2>2
    <3> QED
      BY <1>1, <2>2, <3>1 DEF Write, Sound
  <2> QED
    BY <2>1, <2>2
<1>4. ASSUME NEW i \in 1 .. Len(u), NEW j \in 1 .. Len(u), i <= j,
             u[i].doc = u[j].doc, u[j].val # Absent
      PROVE  u[i].val <= u[j].val
  <2>1. CASE j > Len(q)
    <3>1. u[j].val = db[u[j].doc] /\ db[u[i].doc] # Absent /\ u[i].val \in Nat
      BY <1>3, <1>4, <2>1
    <3>2. u[i].val # Absent => u[i].val <= db[u[i].doc]
      BY <1>3, <3>1 DEF Fit
    <3>3. u[j].val \in Nat
      BY <1>3, Zenon
    <3> QED
      BY <1>4, <3>1, <3>2, <3>3 DEF Absent
  <2>2. CASE ~(j > Len(q))
    <3>1. i \in 1 .. Len(q) /\ j \in 1 .. Len(q)
      BY <1>1, <1>4, <2>2
    <3>2. u[i] = q[i] /\ u[j] = q[j]
      BY <1>2, <3>1
    <3> QED
      BY <1>4, <3>1, <3>2 DEF Sound
  <2> QED
    BY <2>1, <2>2
<1>5. ASSUME NEW cb, Behind(cb, q, db), cb.val \in Nat
      PROVE  Behind(cb, u, db)
  <2> SUFFICES ASSUME NEW i \in 1 .. Len(u), u[i].doc = cb.doc, u[i].val # Absent
               PROVE  cb.val <= u[i].val
    BY <1>5 DEF Behind
  <2>1. CASE i > Len(q)
    BY <1>3, <1>5, <2>1 DEF Behind
  <2>2. CASE ~(i > Len(q))
    <3>1. i \in 1 .. Len(q) /\ u[i] = q[i]
      BY <1>1, <1>2, <2>2
    <3> QED
      BY <1>5, <3>1 DEF Behind
  <2> QED
    BY <2>1, <2>2
<1> QED
  BY <1>3, <1>4, <1>5, Zenon DEF Sound, u

-----------------------------------------------------------------------------
(***************************************************************************)
(* What the steps do to the queue, the answers and the calls.              *)
(***************************************************************************)

\* A change of the user or the return of the link: the outbox is merged.
MergedBy(writes) ==
  /\ queue' = queue \o writes /\ UNCHANGED <<server, applied, done>>
  /\ Len(backups') = Len(backups)
  /\ \A b \in 1 .. Len(backups) : Same(backups'[b], backups[b])
  /\ \A i \in 1 .. Len(writes) : RecordWrite(writes[i], Doc, local')
  /\ outbox \subseteq outbox' /\ edits \in Nat /\ edits' \in {edits, edits + 1}
  /\ \A d \in Doc :
       \/ local'[d] = local[d]
       \/ /\ d \in outbox' /\ edits' = edits + 1
          /\ local'[d] = Absent \/ (local[d] # Absent /\ local'[d] = 3 + edits)

LEMMA MergeShape ==
  ASSUME CoreInv, LinkReturns \/ \E o \in Doc : UpdateObject(o) \/ DeleteObject(o)
  PROVE  \E writes \in Seq(Write) : MergedBy(writes)
<1>0. TypeInv /\ backups \in Seq(Call) /\ edits \in Nat
  BY DEF CoreInv, TypeInv
<1>1. TypeInv'
  BY CoreNext DEF CoreInv, EditNext
<1>2. local' \in [Doc -> Nat] /\ outbox' \in SUBSET Doc
  BY <1>1 DEF TypeInv
<1>3. ASSUME NEW online, NEW writes \in Merged(online, local', outbox'), Issue(writes, backups)
      PROVE  /\ writes \in Seq(Write)
             /\ queue' = queue \o writes
             /\ Len(backups') = Len(backups)
             /\ \A b \in 1 .. Len(backups) : Same(backups'[b], backups[b])
             /\ \A i \in 1 .. Len(writes) : RecordWrite(writes[i], Doc, local')
  <2>1. /\ writes \in Seq(Write)
        /\ \A i \in 1 .. Len(writes) : RecordWrite(writes[i], outbox', local')
    BY <1>2, <1>3, MergedFacts
  <2>2. \A i \in 1 .. Len(writes) : RecordWrite(writes[i], Doc, local')
    BY <1>2, <2>1, Zenon DEF RecordWrite
  <2> QED
    BY <1>0, <1>3, <2>1, <2>2, IssueFacts
<1>4. CASE LinkReturns
  <2>1. local' = local /\ outbox' = outbox /\ edits' = edits
        /\ UNCHANGED <<server, applied, done>>
    BY <1>4 DEF LinkReturns, editVars
  <2>2. PICK writes \in Merged(TRUE, local', outbox') : Issue(writes, backups)
    BY <1>4, <2>1, Zenon DEF LinkReturns
  <2> QED
    BY <1>0, <1>3, <2>1, <2>2, Zenon DEF MergedBy
<1>5. CASE \E o \in Doc : UpdateObject(o) \/ DeleteObject(o)
  <2>1. PICK objects \in SUBSET Doc, val \in {Absent, 3 + edits} :
           /\ Change(objects, val)
           /\ val # Absent => \A d \in objects : local[d] # Absent
    <3>1. PICK o \in Doc : UpdateObject(o) \/ DeleteObject(o)
      BY <1>5
    <3>2. CASE UpdateObject(o)
      BY <3>2 DEF UpdateObject
    <3>3. CASE DeleteObject(o)
      <4>1. {o} \cup ShotsOf(o) \in SUBSET Doc
        BY DEF ShotsOf, Shot
      <4> QED
        BY <3>3, <4>1 DEF DeleteObject
    <3> QED
      BY <3>1, <3>2, <3>3
  <2>2. /\ edits' = edits + 1 /\ outbox' = outbox \cup objects
        /\ local' = [d \in Doc |-> IF d \in objects THEN val ELSE local[d]]
        /\ UNCHANGED <<server, applied, done>>
    BY <2>1 DEF Change
  <2>3. PICK writes \in Merged(link, local', outbox') : Issue(writes, backups)
    BY <2>1 DEF Change
  <2>4. ASSUME NEW d \in Doc
        PROVE  \/ local'[d] = local[d]
               \/ /\ d \in outbox' /\ edits' = edits + 1
                  /\ local'[d] = Absent \/ (local[d] # Absent /\ local'[d] = 3 + edits)
    BY <2>1, <2>2
  <2> QED
    BY <1>0, <1>3, <2>2, <2>3, <2>4, Zenon DEF MergedBy
<1> QED
  BY <1>4, <1>5

\* The process starts again: what was stored waits without its completion
\* blocks, then the additions an exception let through, then the records.
LaunchedBy(added, records) ==
  /\ queue' = (Restored \o added) \o records
  /\ \A i \in 1 .. Len(added) :
       added[i].cb = Nil /\ added[i].doc \in Doc /\ added[i].val = local[added[i].doc]
  /\ \A i \in 1 .. Len(records) : RecordWrite(records[i], Doc, local)
  /\ Len(done') = 0 /\ Len(backups') = 0 /\ applied' = 0
  /\ UNCHANGED <<server, local, outbox, edits>>

LEMMA LaunchShape ==
  ASSUME CoreInv, Relaunch \/ ReadDeleted
  PROVE  \E added \in Seq(Write), records \in Seq(Write) : LaunchedBy(added, records)
<1>0. TypeInv /\ local \in [Doc -> Nat] /\ outbox \in SUBSET Doc
  BY DEF CoreInv, TypeInv
<1>1. PICK added \in Seq(Write) :
         /\ \A i \in 1 .. Len(added) :
              added[i].cb = Nil /\ added[i].doc \in Doc /\ added[i].val = local[added[i].doc]
         /\ Launch(Restored \o added)
  <2>1. CASE Relaunch
    <3>1. <<>> \in Seq(Write) /\ Len(<<>>) = 0
      BY EmptySeq
    <3>2. Restored \in Seq(Write)
      BY <1>0, RestoredFacts
    <3>3. Restored \o <<>> = Restored
      BY <3>2, ConcatEmptySeq
    <3>4. Launch(Restored \o <<>>)
      BY <2>1, <3>3, Zenon DEF Relaunch
    <3>5. \A i \in 1 .. Len(<<>>) : FALSE
      BY <3>1
    <3> QED
      BY <3>1, <3>4, <3>5, Zenon
  <2>2. CASE ReadDeleted
    <3>1. PICK added \in Seq(Write) :
             /\ \A i \in 1 .. Len(added) :
                  /\ added[i].cb = Nil /\ added[i].doc \in Present(local)
                  /\ added[i].val = local[added[i].doc]
             /\ Launch(Restored \o added)
      BY <1>0, <2>2, ReadFacts
    <3> QED
      BY <3>1 DEF Present
  <2> QED
    BY <2>1, <2>2
<1>2. PICK records \in Merged(link, local, outbox) :
         queue' = (Restored \o added) \o records
  BY <1>1, Zenon DEF Launch
<1>3. /\ records \in Seq(Write)
      /\ \A i \in 1 .. Len(records) : RecordWrite(records[i], outbox, local)
  BY <1>0, <1>2, MergedFacts, Zenon
<1>4. \A i \in 1 .. Len(records) : RecordWrite(records[i], Doc, local)
  BY <1>0, <1>3, Zenon DEF RecordWrite
<1>5. /\ done' = <<>> /\ backups' = <<>> /\ applied' = 0
      /\ UNCHANGED <<server, local, outbox, edits>>
  BY <1>1 DEF Launch, StreamLost
<1>6. Len(done') = 0 /\ Len(backups') = 0
  BY <1>5, EmptySeq
<1> QED
  BY <1>1, <1>2, <1>3, <1>4, <1>5, <1>6, Zenon DEF LaunchedBy

\* An answer of a backup: what it starts is a deletion, by a backup that found
\* both collections only now, or an addition of an object as it is.
AnsweredBy(b, writes) ==
  /\ b \in 1 .. Len(backups) /\ Serving(b)
  /\ queue' = queue \o writes /\ Len(backups') = Len(backups)
  /\ \A i \in 1 .. Len(backups) : i # b => Same(backups'[i], backups[i])
  /\ backups'[b].mine = backups[b].mine
  /\ backups'[b].told \in {backups[b].told, "error"}
  /\ ~done[1].ok => backups'[b].told = "error"
  /\ \A i \in 1 .. Len(writes) :
       /\ writes[i].cb # Nil /\ writes[i].cb.op # "record"
       /\ writes[i].cb.doc = writes[i].doc
       /\ \/ /\ Own(writes[i].cb, b) /\ writes[i].val = Absent
             /\ backups[b].told = "nothing"
          \/ writes[i].val = local[writes[i].doc] /\ writes[i].val # Absent
  /\ \A c \in Collections :
       backups'[b].deleted[c] > 0 => backups[b].deleted[c] > 0 \/ Own(done[1].cb, b)
  /\ \A c \in Collections :
       Issued(b, c)' =>
         Issued(b, c) \/ \A d \in backups[b].mine \cap c : Holds(queue', Add(b, d))

\* Nothing is written, and no collection is found or its deletions counted.
LEMMA QuietShape ==
  ASSUME CoreInv, NEW b \in 1 .. Len(backups), Serving(b), queue' = queue, NEW x \in Call,
         backups' = [backups EXCEPT ![b] = x],
         x.cloud = backups[b].cloud, x.deleted = backups[b].deleted,
         x.mine = backups[b].mine, x.told \in {backups[b].told, "error"},
         done[1].ok \/ x.told = "error"
  PROVE  AnsweredBy(b, <<>>)
<1>0. TypeInv /\ queue \in Seq(Write)
  BY DEF CoreInv, TypeInv
<1>1. /\ Len(backups') = Len(backups) /\ backups'[b] = x
      /\ \A i \in 1 .. Len(backups) : i # b => Same(backups'[i], backups[i])
  BY <1>0, ExceptFacts, Zenon
<1>2. queue' = queue \o <<>> /\ Len(<<>>) = 0
  BY <1>0, EmptySeq, ConcatEmptySeq
<1>3. \A i \in 1 .. Len(<<>>) : FALSE
  BY <1>2
<1>4. \A c \in Collections : Issued(b, c)' => Issued(b, c)
  BY <1>1 DEF Issued
<1> QED
  BY <1>1, <1>2, <1>3, <1>4 DEF AnsweredBy

LEMMA Progressed ==
  ASSUME NEW y \in Call
  PROVE  LET x == [y EXCEPT !.progress = @ + 1]
         IN  /\ x \in Call /\ x.asked = y.asked /\ x.cloud = y.cloud
             /\ x.mine = y.mine /\ x.told = y.told
             /\ x.progress = y.progress + 1 /\ x.deleted = y.deleted
BY DEF Call

LEMMA LessAsked ==
  ASSUME NEW y \in Call, NEW c
  PROVE  LET x == [y EXCEPT !.asked = @ \ {c}]
         IN  /\ x \in Call /\ x.cloud = y.cloud /\ x.mine = y.mine
             /\ x.deleted = y.deleted /\ x.told = y.told
BY DEF Call

LEMMA Succeeded ==
  ASSUME NEW y \in Call
  PROVE  LET x == [y EXCEPT !.covered = FALSE, !.told = "success"]
         IN  /\ x \in Call /\ x.cloud = y.cloud /\ x.mine = y.mine
             /\ x.deleted = y.deleted /\ x.told = "success"
<1> DEFINE z == [y EXCEPT !.covered = FALSE]
           x == [z EXCEPT !.told = "success"]
<1>1. /\ z \in Call /\ z.cloud = y.cloud /\ z.mine = y.mine /\ z.deleted = y.deleted
  BY Zenon DEF Call
<1>2. x = [y EXCEPT !.covered = FALSE, !.told = "success"]
  BY DEF Call
<1> HIDE DEF z
<1>3. /\ x \in Call /\ x.cloud = z.cloud /\ x.mine = z.mine /\ x.deleted = z.deleted
      /\ x.told = "success"
  BY <1>1 DEF Call
<1> QED
  BY <1>1, <1>2, <1>3

LEMMA AddedAnswer ==
  ASSUME CoreInv, NEW b, Serving(b), done[1].ok, OnAdded(b)
  PROVE  AnsweredBy(b, <<>>)
<1>0. TypeInv /\ b \in 1 .. Len(backups)
  BY HeadNotFull DEF CoreInv
<1>1. backups[b] \in Call /\ DOMAIN backups = 1 .. Len(backups)
  BY <1>0, CallFacts
<1> DEFINE x == [backups[b] EXCEPT !.progress = @ + 1]
<1>2. /\ x \in Call /\ x.asked = backups[b].asked /\ x.cloud = backups[b].cloud
      /\ x.mine = backups[b].mine /\ x.told = backups[b].told
      /\ x.progress = backups[b].progress + 1 /\ x.deleted = backups[b].deleted
  BY <1>1, Progressed
<1>3. backups' = [backups EXCEPT ![b] = x] /\ queue' = queue
  BY <1>0, <1>1 DEF OnAdded
<1> HIDE DEF x
<1> QED
  BY <1>0, <1>2, <1>3, QuietShape, Zenon

LEMMA FailedAnswer ==
  ASSUME CoreInv, NEW b \in 1 .. Len(backups), Serving(b), Fail(b)
  PROVE  AnsweredBy(b, <<>>)
<1>1. backups[b] \in Call /\ DOMAIN backups = 1 .. Len(backups)
  BY CallFacts DEF CoreInv
<1> DEFINE x == [backups[b] EXCEPT !.covered = FALSE, !.told = "error"]
<1>2. /\ x \in Call /\ x.cloud = backups[b].cloud /\ x.deleted = backups[b].deleted
      /\ x.mine = backups[b].mine /\ x.told = "error"
  <2> DEFINE y == [backups[b] EXCEPT !.covered = FALSE]
  <2>1. backups[b] \in Call
    BY <1>1
  <2>2. /\ y \in Call /\ y.cloud = backups[b].cloud /\ y.deleted = backups[b].deleted
        /\ y.mine = backups[b].mine
    BY <2>1, Zenon DEF Call
  <2>3. x = [y EXCEPT !.told = "error"]
    BY <2>1 DEF Call
  <2> HIDE DEF x, y
  <2>4. /\ x \in Call /\ x.cloud = y.cloud /\ x.deleted = y.deleted
        /\ x.mine = y.mine /\ x.told = "error"
    BY <2>2, <2>3, Zenon DEF Call
  <2> QED
    BY <2>2, <2>4
<1>3. backups' = [backups EXCEPT ![b] = x] /\ queue' = queue
  BY <1>1, Zenon DEF Fail
<1> HIDE DEF x
<1> QED
  BY <1>2, <1>3, QuietShape, Zenon

LEMMA DeletedAnswer ==
  ASSUME CoreInv, Read \subseteq Present(local),
         NEW b \in 1 .. Len(backups), Serving(b), done[1].ok, done[1].cb.op = "delete",
         OnDeleted(b, CollectionOf(done[1].cb.doc))
  PROVE  \E writes \in Seq(Write) : AnsweredBy(b, writes)
<1>0. TypeInv /\ queue \in Seq(Write) /\ done \in Seq(Reply)
  BY DEF CoreInv, TypeInv
<1>1. PICK d \in Doc, x \in Call, writes \in Seq(Write) : DeletedBy(b, d, x, writes)
  BY DeletedShape
<1> DEFINE c == CollectionOf(d)
<1>2. /\ done[1].cb = Del(b, d)
      /\ x.cloud = backups[b].cloud /\ x.mine = backups[b].mine /\ x.told = backups[b].told
      /\ x.deleted = [backups[b].deleted EXCEPT ![c] = @ + 1]
      /\ queue' = queue \o writes /\ Len(backups') = Len(backups)
      /\ Same(backups'[b], x)
      /\ \A i \in 1 .. Len(backups) : i # b => Same(backups'[i], backups[i])
  BY <1>1 DEF DeletedBy
<1>3. /\ \A i \in 1 .. Len(writes) : \E e \in backups[b].mine \cap c :
           writes[i] = [doc |-> e, val |-> local[e], cb |-> Add(b, e)]
      /\ \/ x.deleted[c] # Cardinality(backups[b].cloud[c]) /\ writes = <<>>
         \/ /\ x.deleted[c] = Cardinality(backups[b].cloud[c])
            /\ \A e \in backups[b].mine \cap c : Holds(writes, Add(b, e))
  BY <1>1 DEF DeletedBy
<1>4. c \in Collections /\ backups[b].deleted \in [Collections -> Nat]
      /\ backups[b].mine \subseteq Doc
  BY <1>0, CollectionFacts, CallFacts, Zenon
<1>5. done # <<>> /\ Head(done) = done[1] /\ b = done[1].cb.run /\ done[1].cb.doc = d
  <2>1. done # <<>> /\ b = done[1].cb.run
    BY DEF Serving
  <2>2. Head(done) = done[1]
    BY <1>0, <2>1, TailFacts
  <2>3. done[1].cb.doc = d
    BY <1>2, TaskFacts
  <2> QED
    BY <2>1, <2>2, <2>3
<1>6. x.deleted[c] = Cardinality(backups[b].cloud[c])
        => backups[b].mine \cap c \subseteq Present(local)
  <2>1. Head(done).cb.op = "delete" /\ Head(done).ok /\ Head(done).cb.run = b
        /\ Head(done).cb.doc = d
    BY <1>5
  <2>2. Read = IF backups[b].deleted[c] + 1 = Cardinality(backups[b].cloud[c])
               THEN backups[b].mine \cap c ELSE {}
    BY <1>5, <2>1, Zenon DEF Read
  <2>3. x.deleted[c] = backups[b].deleted[c] + 1
    BY <1>2, <1>4
  <2> QED
    BY <2>2, <2>3
<1> HIDE DEF c
<1>7. ASSUME NEW i \in 1 .. Len(writes)
      PROVE  /\ writes[i].cb # Nil /\ writes[i].cb.op # "record"
             /\ writes[i].cb.doc = writes[i].doc
             /\ writes[i].val = local[writes[i].doc] /\ writes[i].val # Absent
  <2>1. PICK e \in backups[b].mine \cap c :
           writes[i] = [doc |-> e, val |-> local[e], cb |-> Add(b, e)]
    BY <1>3
  <2>2. e \in Doc /\ b \in Nat
    BY <1>4
  <2>3. Add(b, e) # Nil /\ Add(b, e).op = "add" /\ Add(b, e).doc = e
    BY <2>2, TaskFacts
  <2>4. writes # <<>>
    BY EmptySeq
  <2>5. e \in Present(local)
    BY <1>3, <1>6, <2>4
  <2>6. writes[i].doc = e /\ writes[i].val = local[e] /\ writes[i].cb = Add(b, e)
    BY <2>1
  <2> QED
    BY <2>3, <2>5, <2>6 DEF Present
<1>8. ASSUME NEW e \in Collections, backups'[b].deleted[e] > 0
      PROVE  Own(done[1].cb, b)
  BY <1>2, <1>5, TaskFacts DEF Own
<1>9. ASSUME NEW e \in Collections, Issued(b, e)', ~Issued(b, e)
      PROVE  \A o \in backups[b].mine \cap e : Holds(queue', Add(b, o))
  <2>1. /\ backups'[b].cloud = backups[b].cloud /\ backups'[b].deleted = x.deleted
    BY <1>2 DEF Same
  <2>2. e = c
    <3> SUFFICES ASSUME e # c
                 PROVE  FALSE
      OBVIOUS
    <3>1. x.deleted[e] = backups[b].deleted[e]
      BY <1>2, <1>4
    <3> QED
      BY <1>9, <2>1, <3>1 DEF Issued
  <2>3. x.deleted[c] = Cardinality(backups[b].cloud[c])
    BY <1>9, <2>1, <2>2 DEF Issued
  <2>4. \A o \in backups[b].mine \cap c : Holds(writes, Add(b, o))
    BY <1>3, <2>3
  <2>5. \A cb : Holds(writes, cb) => Holds(queue', cb)
    BY <1>0, <1>2, ConcatHolds
  <2> QED
    BY <2>2, <2>4, <2>5
<1>10. backups'[b].mine = backups[b].mine /\ backups'[b].told = backups[b].told
  BY <1>2 DEF Same
<1>11. AnsweredBy(b, writes)
  BY <1>2, <1>7, <1>8, <1>9, <1>10 DEF AnsweredBy
<1> QED
  BY <1>11

\* The deletions are started by the last backup: one that failed before it found
\* both collections has lost one of them, and one that succeeded is over.
LEMMA FoundAnswer ==
  ASSUME CoreInv, CoversInv, NEW b, Serving(b), done[1].ok, done[1].cb.op = "fetch",
         OnFetched(b, done[1].cb.coll, done[1].cb.docs)
  PROVE  \E writes \in Seq(Write) : AnsweredBy(b, writes)
<1>0. TypeInv /\ CallsInv /\ queue \in Seq(Write)
  BY Zenon DEF CoreInv, TypeInv
<1>1. b \in 1 .. Len(backups) /\ b \in Nat /\ ~Full(backups[b])
  BY <1>0, HeadNotFull, CallFacts
<1>2. PICK x \in Call, writes \in Seq(Write) : FoundBy(b, x, writes)
  BY FoundShape
<1> DEFINE c == done[1].cb.coll
<1>3. /\ c \in Collections /\ Fetched(done, b, c) /\ backups[b].cloud[c] = Nil
      /\ x.mine = backups[b].mine /\ x.told = backups[b].told
      /\ x.deleted = backups[b].deleted
      /\ \A e \in Collections : e # c => x.cloud[e] = backups[b].cloud[e]
      /\ \A e \in Collections : x.cloud[e] # Nil => x.cloud[e] \subseteq e
  BY <1>2 DEF FoundBy
<1>4. /\ queue' = queue \o writes /\ Len(backups') = Len(backups)
      /\ Same(backups'[b], x)
      /\ \A i \in 1 .. Len(backups) : i # b => Same(backups'[i], backups[i])
      /\ \A i \in 1 .. Len(writes) : Loaded(x) /\ \E d \in Doc :
           /\ d \in x.cloud[CollectionOf(d)]
           /\ writes[i] = [doc |-> d, val |-> Absent, cb |-> Del(b, d)]
  BY <1>2, Zenon DEF FoundBy
<1> HIDE DEF c
<1>5. CallInv(b) /\ ~Loaded(backups[b])
  BY <1>0, <1>1, <1>3 DEF CallsInv, Loaded
<1>6. \A e \in Collections : backups[b].deleted[e] = 0
  BY <1>5 DEF CallInv, UnloadedInv
<1>7. Loaded(x) => backups[b].told = "nothing"
  <2> SUFFICES ASSUME Loaded(x)
               PROVE  backups[b].told = "nothing"
    OBVIOUS
  <2>1. backups[b].told \in {"nothing", "error", "success"}
    BY <1>0, <1>1, CallFacts, Zenon DEF Call
  <2>2. backups[b].told # "success"
    BY <1>1 DEF CoversInv, CoverInv
  <2>3. ~Lost(b)
    BY <1>3 DEF Loaded, Lost
  <2>4. backups[b].told # "error"
    BY <1>5, <2>3 DEF CallInv, UnloadedInv
  <2> QED
    BY <2>1, <2>2, <2>4
<1>8. ASSUME NEW i \in 1 .. Len(writes)
      PROVE  /\ writes[i].cb # Nil /\ writes[i].cb.op # "record"
             /\ writes[i].cb.doc = writes[i].doc
             /\ Own(writes[i].cb, b) /\ writes[i].val = Absent
             /\ backups[b].told = "nothing"
  <2>1. PICK d \in Doc : writes[i] = [doc |-> d, val |-> Absent, cb |-> Del(b, d)]
    BY <1>4
  <2>2. writes[i].doc = d /\ writes[i].val = Absent /\ writes[i].cb = Del(b, d)
    BY <2>1
  <2>3. /\ Del(b, d) # Nil /\ Del(b, d).op = "delete" /\ Del(b, d).doc = d
        /\ Del(b, d).run = b
    <3>1. b \in Nat
      BY <1>1
    <3> QED
      BY <3>1, DelFacts, Zenon
  <2> QED
    BY <1>4, <1>7, <2>2, <2>3 DEF Own
<1>9. ASSUME NEW e \in Collections
      PROVE  backups'[b].deleted[e] = 0 /\ ~Issued(b, e)'
  <2>1. backups'[b].deleted[e] = 0 /\ backups'[b].cloud = x.cloud
    BY <1>3, <1>4, <1>6 DEF Same
  <2>2. ASSUME x.cloud[e] # Nil, x.cloud[e] # {}
        PROVE  Cardinality(x.cloud[e]) # 0
    <3>1. x.cloud[e] \in SUBSET Doc
      BY <1>3, <2>2, CollectionFacts
    <3>2. IsFiniteSet(x.cloud[e])
      BY <3>1, DocSets
    <3> QED
      BY <2>2, <3>2, FS_EmptySet
  <2> QED
    BY <2>1, <2>2 DEF Issued
<1>10. backups'[b].mine = backups[b].mine /\ backups'[b].told = backups[b].told
  BY <1>3, <1>4 DEF Same
<1>11. AnsweredBy(b, writes)
  BY <1>1, <1>4, <1>8, <1>9, <1>10 DEF AnsweredBy
<1> QED
  BY <1>11

LEMMA AnswerShape ==
  ASSUME CoreInv, CoversInv, OnBackupAnswer
  PROVE  \E b \in 1 .. Len(backups), writes \in Seq(Write) : AnsweredBy(b, writes)
<1> DEFINE b == done[1].cb.run
<1>1. /\ Serving(b)
      /\ \/ Fail(b)
         \/ /\ done[1].ok /\ done[1].cb.op = "fetch"
            /\ OnFetched(b, done[1].cb.coll, done[1].cb.docs)
         \/ /\ done[1].ok /\ done[1].cb.op = "delete"
            /\ OnDeleted(b, CollectionOf(done[1].cb.doc))
         \/ done[1].ok /\ done[1].cb.op = "add" /\ OnAdded(b)
  BY AnswerCases
<1> HIDE DEF b
<1>2. b \in 1 .. Len(backups)
  BY <1>1, HeadNotFull
<1>3. Read \subseteq Present(local)
  BY DEF OnBackupAnswer
<1>4. <<>> \in Seq(Write)
  BY EmptySeq
<1>5. CASE Fail(b)
  BY <1>1, <1>2, <1>4, <1>5, FailedAnswer, Zenon
<1>6. CASE /\ done[1].ok /\ done[1].cb.op = "fetch"
           /\ OnFetched(b, done[1].cb.coll, done[1].cb.docs)
  BY <1>1, <1>2, <1>6, FoundAnswer
<1>7. CASE /\ done[1].ok /\ done[1].cb.op = "delete"
           /\ OnDeleted(b, CollectionOf(done[1].cb.doc))
  BY <1>1, <1>2, <1>3, <1>7, DeletedAnswer
<1>8. CASE done[1].ok /\ done[1].cb.op = "add" /\ OnAdded(b)
  BY <1>1, <1>2, <1>4, <1>8, AddedAnswer, Zenon
<1> QED
  BY <1>1, <1>5, <1>6, <1>7, <1>8

-----------------------------------------------------------------------------
(***************************************************************************)
(* The versions stay in their order.                                       *)
(***************************************************************************)

\* The lists of a state, typed.
LEMMA VersionTypes ==
  ASSUME TypeInv
  PROVE  /\ queue \in Seq(Write) /\ done \in Seq(Reply) /\ backups \in Seq(Call)
         /\ local \in [Doc -> Nat] /\ server \in [Doc -> Nat] /\ edits \in Nat
         /\ \A i \in 1 .. Len(queue) : queue[i].doc \in Doc /\ queue[i].val \in Nat
         /\ \A i \in 1 .. Len(done) :
              /\ done[i].cb \in Callback /\ done[i].cb # Nil
              /\ OfRecord(done[i].cb) => done[i].cb.doc \in Doc /\ done[i].cb.val \in Nat
<1>1. /\ queue \in Seq(Write) /\ done \in Seq(Reply) /\ backups \in Seq(Call)
      /\ local \in [Doc -> Nat] /\ server \in [Doc -> Nat] /\ edits \in Nat
  BY DEF TypeInv
<1>2. /\ \A i \in 1 .. Len(queue) : queue[i] \in Write
      /\ \A i \in 1 .. Len(done) : done[i] \in Reply
  BY <1>1, SeqFacts
<1>3. \A i \in 1 .. Len(queue) : queue[i].doc \in Doc /\ queue[i].val \in Nat
  BY <1>2 DEF Write
<1>4. \A i \in 1 .. Len(done) : done[i].cb \in Callback
  BY <1>2 DEF Reply
<1>5. \A cb \in Callback : OfRecord(cb) => cb.doc \in Doc /\ cb.val \in Nat
  BY DEF Callback, OfRecord
<1> QED
  BY <1>1, <1>3, <1>4, <1>5, NilAssumption

\* A record as the merge writes it.
LEMMA RecordFresh ==
  ASSUME NEW db \in [Doc -> Nat], NEW w, RecordWrite(w, Doc, db)
  PROVE  /\ Fresh(w, db) /\ w.doc \in Doc /\ w.val = db[w.doc]
         /\ w.cb # Nil /\ w.cb.op = "record"
<1>1. PICK d \in Doc :
        w = [doc |-> d, val |-> db[d],
             cb |-> [run |-> 0, op |-> "record", doc |-> d, val |-> db[d]]]
  BY Zenon DEF RecordWrite
<1> DEFINE cb == [run |-> 0, op |-> "record", doc |-> d, val |-> db[d]]
<1>2. cb \in Callback /\ cb.doc = d /\ cb.val = db[d] /\ cb.op = "record"
  BY DEF Callback
<1>3. cb # Nil
  BY <1>2, NilAssumption
<1>4. w.doc = d /\ w.val = db[d] /\ w.cb = cb
  BY <1>1
<1> HIDE DEF cb
<1> QED
  BY <1>2, <1>3, <1>4 DEF Fresh

LEMMA VersionUnchanged ==
  ASSUME VersionInv, UNCHANGED <<queue, local, outbox, edits>>,
         \A i \in 1 .. Len(done') : OfRecord(done'[i].cb) =>
           \E j \in 1 .. Len(done) : done[j].cb = done'[i].cb
  PROVE  VersionInv'
<1>1. ASSUME NEW i \in 1 .. Len(done'), OfRecord(done'[i].cb)
      PROVE  Behind(done'[i].cb, queue, local)
  <2>1. PICK j \in 1 .. Len(done) : done[j].cb = done'[i].cb
    BY <1>1
  <2> QED
    BY <1>1, <2>1 DEF VersionInv
<1>2. queue' = queue /\ local' = local /\ outbox' = outbox /\ edits' = edits
  OBVIOUS
<1> QED
  BY <1>1, <1>2 DEF VersionInv

LEMMA VersionFetch ==
  ASSUME CoreInv, VersionInv, Beside(Fetch)
  PROVE  VersionInv'
<1>1. PICK b \in 1 .. Len(backups), c \in Collections, docs \in SUBSET Doc, ok \in BOOLEAN :
         /\ c \in backups[b].asked /\ docs \subseteq c
         /\ done' = Append(done,
              [cb |-> [run |-> b, op |-> "fetch", coll |-> c, docs |-> docs], ok |-> ok])
         /\ backups' = [backups EXCEPT ![b].asked = @ \ {c}]
         /\ UNCHANGED <<server, queue, persisted, applied, local, link, outbox, edits>>
         /\ cache' \in [Doc -> Nat]
  BY FetchFacts, Zenon
<1> DEFINE cb == [run |-> b, op |-> "fetch", coll |-> c, docs |-> docs]
           r == [cb |-> cb, ok |-> ok]
<1>2. b \in Nat /\ done \in Seq(Reply)
  BY CallFacts DEF CoreInv, TypeInv
<1>3. r \in Reply /\ r.cb.op = "fetch"
  BY <1>2 DEF Reply, Callback
<1>4. done' = Append(done, r)
  BY <1>1
<1> HIDE DEF r
<1>5. /\ Len(done') = Len(done) + 1 /\ Len(done) \in Nat
      /\ \A i \in 1 .. Len(done) : done'[i] = done[i]
      /\ done'[Len(done) + 1] = r
  BY <1>2, <1>3, <1>4, AppendFacts, SeqFacts
<1>6. ASSUME NEW i \in 1 .. Len(done'), OfRecord(done'[i].cb)
      PROVE  \E j \in 1 .. Len(done) : done[j].cb = done'[i].cb
  <2>1. i # Len(done) + 1
    BY <1>3, <1>5, <1>6 DEF OfRecord
  <2>2. i \in 1 .. Len(done)
    BY <1>5, <2>1
  <2> QED
    BY <1>5, <2>2
<1> QED
  BY <1>1, <1>6, VersionUnchanged, Zenon

LEMMA VersionFinish ==
  ASSUME CoreInv, VersionInv, NEW ok \in BOOLEAN, Finish(ok), queue # <<>>,
         UNCHANGED <<local, outbox, edits>>
  PROVE  VersionInv'
<1>0. TypeInv /\ OnceInv
  BY DEF CoreInv
<1>1. /\ queue \in Seq(Write) /\ local \in [Doc -> Nat] /\ Len(queue) \in Nat /\ Len(done) \in Nat
      /\ \A i \in 1 .. Len(queue) : queue[i].doc \in Doc /\ queue[i].val \in Nat
  BY <1>0, VersionTypes, ListFacts
<1>2. /\ queue' \in Seq(Write)
      /\ Len(queue') = Len(queue) - 1 /\ Len(queue) \in Nat \ {0}
      /\ \A i \in 1 .. Len(queue') : i + 1 \in 2 .. Len(queue) /\ queue'[i] = queue[i + 1]
      /\ queue[1].cb = Nil => done' = done
      /\ queue[1].cb # Nil => /\ Len(done') = Len(done) + 1
                              /\ done'[Len(done) + 1] = [cb |-> queue[1].cb, ok |-> ok]
      /\ \A i \in 1 .. Len(done) : done'[i] = done[i]
  BY <1>0, FinishFacts
<1>3. Sound(queue, local, outbox) /\ 1 \in 1 .. Len(queue)
  BY <1>2 DEF VersionInv
<1>4. Sound(queue', local, outbox)
  <2>1. \A i \in 1 .. Len(queue') :
           /\ i + 1 \in 1 .. Len(queue)
           /\ queue'[i].doc = queue[i + 1].doc /\ queue'[i].val = queue[i + 1].val
           /\ queue'[i].cb \in {queue[i + 1].cb, Nil}
    BY <1>2
  <2>2. Len(queue') \in Nat
    BY <1>2, SeqFacts
  <2> QED
    BY <1>3, <2>1, <2>2, SoundPart, Zenon
<1>5. ASSUME NEW cb, Behind(cb, queue, local)
      PROVE  Behind(cb, queue', local)
  <2>1. \A i \in 1 .. Len(queue') : i + 1 \in 1 .. Len(queue) /\ queue'[i] = queue[i + 1]
    BY <1>2
  <2> QED
    BY <1>5, <2>1 DEF Behind
<1>6. ASSUME OfRecord(queue[1].cb)
      PROVE  Behind(queue[1].cb, queue', local)
  <2>1. Fit(queue[1], local, outbox)
    BY <1>3 DEF Sound
  <2>2. queue[1].cb.doc = queue[1].doc /\ queue[1].cb.val = queue[1].val
    BY <1>6, <2>1 DEF Fit, OfRecord
  <2>3. queue[1].val \in Nat /\ local[queue[1].doc] \in Nat
    BY <1>1, <1>3
  <2>4. local[queue[1].doc] # Absent => queue[1].val <= local[queue[1].doc]
    BY <2>1, <2>3 DEF Fit, Absent
  <2>5. ASSUME NEW i \in 1 .. Len(queue'), queue'[i].doc = queue[1].doc,
               queue'[i].val # Absent
        PROVE  queue[1].val <= queue'[i].val
    <3>1. i + 1 \in 1 .. Len(queue) /\ queue'[i] = queue[i + 1] /\ 1 <= i + 1
      BY <1>2
    <3>2. queue[1].doc = queue[i + 1].doc /\ queue[i + 1].val # Absent
      BY <2>5, <3>1
    <3>3. queue[1].val <= queue[i + 1].val
      BY <1>3, <3>1, <3>2, Zenon DEF Sound
    <3> QED
      BY <3>1, <3>3
  <2> QED
    BY <2>2, <2>4, <2>5 DEF Behind
<1>7. ASSUME NEW i \in 1 .. Len(done'), OfRecord(done'[i].cb)
      PROVE  Behind(done'[i].cb, queue', local)
  <2>1. CASE i \in 1 .. Len(done)
    <3>1. done'[i] = done[i]
      BY <1>2, <2>1
    <3>2. Behind(done[i].cb, queue, local)
      BY <1>7, <2>1, <3>1 DEF VersionInv
    <3> QED
      BY <1>5, <3>1, <3>2
  <2>2. CASE i \notin 1 .. Len(done)
    <3>1. queue[1].cb # Nil /\ i = Len(done) + 1
      BY <1>1, <1>2, <2>2
    <3>2. done'[i].cb = queue[1].cb
      BY <1>2, <3>1
    <3> QED
      BY <1>6, <1>7, <3>2
  <2> QED
    BY <2>1, <2>2
<1>8. local' = local /\ outbox' = outbox /\ edits' = edits
  OBVIOUS
<1> QED
  BY <1>4, <1>7, <1>8 DEF VersionInv

LEMMA LaterVersion ==
  ASSUME NEW m \in Nat, NEW n \in {m, m + 1}, NEW v \in Nat, NEW w \in Nat,
         v < 3 + m, w = v \/ w = 0 \/ (n = m + 1 /\ w = 3 + m)
  PROVE  w < 3 + n
OBVIOUS

LEMMA VersionMerged ==
  ASSUME CoreInv, CoreInv', VersionInv, NEW writes \in Seq(Write), MergedBy(writes)
  PROVE  VersionInv'
<1>0. /\ queue \in Seq(Write) /\ local \in [Doc -> Nat] /\ edits \in Nat
      /\ \A i \in 1 .. Len(done) : OfRecord(done[i].cb) =>
           done[i].cb.doc \in Doc /\ done[i].cb.val \in Nat
  BY VersionTypes DEF CoreInv
<1>1. local' \in [Doc -> Nat]
  BY DEF CoreInv, TypeInv
<1>2. /\ queue' = queue \o writes /\ done' = done
      /\ \A i \in 1 .. Len(writes) : RecordWrite(writes[i], Doc, local')
      /\ outbox \subseteq outbox' /\ edits' \in {edits, edits + 1}
      /\ \A d \in Doc :
           \/ local'[d] = local[d]
           \/ /\ d \in outbox' /\ edits' = edits + 1
              /\ local'[d] = Absent \/ (local[d] # Absent /\ local'[d] = 3 + edits)
  BY DEF MergedBy
<1>3. /\ \A d \in Doc : local[d] < 3 + edits
      /\ Sound(queue, local, outbox)
      /\ \A i \in 1 .. Len(done) : OfRecord(done[i].cb) => Behind(done[i].cb, queue, local)
  BY DEF VersionInv
<1>4. ASSUME NEW d \in Doc
      PROVE  local'[d] < 3 + edits'
  <2>1. local[d] \in Nat /\ local[d] < 3 + edits
    BY <1>0, <1>3
  <2>2. local'[d] \in Nat
    BY <1>1
  <2>3. \/ local'[d] = local[d] \/ local'[d] = 0
        \/ edits' = edits + 1 /\ local'[d] = 3 + edits
    BY <1>2 DEF Absent
  <2> QED
    BY <1>0, <1>2, <2>1, <2>2, <2>3, LaterVersion, Zenon
<1>5. Onward(local, local', outbox, outbox')
  BY <1>2, <1>3 DEF Onward
<1>6. /\ Sound(queue, local', outbox')
      /\ \A i \in 1 .. Len(done) : OfRecord(done[i].cb) => Behind(done[i].cb, queue, local')
  BY <1>0, <1>1, <1>3, <1>5, SoundOn, Zenon
<1>7. \A i \in 1 .. Len(writes) : Fresh(writes[i], local')
  BY <1>1, <1>2, RecordFresh
<1>8. /\ Sound(queue', local', outbox')
      /\ \A i \in 1 .. Len(done) : OfRecord(done[i].cb) => Behind(done[i].cb, queue', local')
  BY <1>0, <1>1, <1>2, <1>6, <1>7, SoundAppend, Zenon
<1> QED
  BY <1>2, <1>4, <1>8 DEF VersionInv

\* A record is dropped while its version is that of the phone: every write that
\* waits is then of that version, or a deletion.
LEMMA VersionRecordDone ==
  ASSUME CoreInv, VersionInv, OnRecordDone
  PROVE  VersionInv'
<1>0. /\ queue \in Seq(Write) /\ done \in Seq(Reply) /\ local \in [Doc -> Nat]
      /\ \A i \in 1 .. Len(queue) : queue[i].doc \in Doc /\ queue[i].val \in Nat
      /\ \A i \in 1 .. Len(done) : done[i].cb # Nil
  BY VersionTypes DEF CoreInv
<1>1. /\ done # <<>> /\ Head(done).cb.op = "record" /\ done' = Tail(done)
      /\ UNCHANGED <<queue, local, edits>>
  BY DEF OnRecordDone
<1>2. /\ Head(done) = done[1] /\ 1 \in 1 .. Len(done)
      /\ \A i \in 1 .. Len(done') : i + 1 \in 2 .. Len(done) /\ done'[i] = done[i + 1]
      /\ Len(done) \in Nat \ {0}
  BY <1>0, <1>1, TailFacts
<1> DEFINE r == done[1].cb
<1>3. /\ OfRecord(r)
      /\ outbox' = IF done[1].ok /\ local[r.doc] = r.val THEN outbox \ {r.doc} ELSE outbox
  BY <1>0, <1>1, <1>2, Zenon DEF OnRecordDone, OfRecord
<1>4. Behind(r, queue, local)
  BY <1>2, <1>3 DEF VersionInv
<1> HIDE DEF r
<1>5. Sound(queue, local, outbox)
  BY DEF VersionInv
<1>6. ASSUME NEW i \in 1 .. Len(queue)
      PROVE  Fit(queue[i], local, outbox')
  <2>1. Fit(queue[i], local, outbox) /\ queue[i].doc \in Doc /\ queue[i].val \in Nat
    BY <1>0, <1>5 DEF Sound
  <2>2. CASE queue[i].doc \in outbox => queue[i].doc \in outbox'
    BY <2>1, <2>2 DEF Fit
  <2>3. CASE queue[i].doc \in outbox /\ queue[i].doc \notin outbox'
    <3>1. queue[i].doc = r.doc /\ local[r.doc] = r.val
      BY <1>3, <2>3
    <3>2. queue[i].val # Absent => r.val <= queue[i].val
      BY <1>4, <3>1 DEF Behind
    <3>3. local[queue[i].doc] \in Nat
      BY <1>0, <2>1
    <3>4. local[queue[i].doc] # Absent /\ queue[i].val # Absent =>
            queue[i].val = local[queue[i].doc]
      BY <2>1, <3>1, <3>2, <3>3 DEF Fit
    <3> QED
      BY <2>1, <3>4 DEF Fit
  <2> QED
    BY <2>2, <2>3
<1>7. Sound(queue, local, outbox')
  BY <1>5, <1>6 DEF Sound
<1>8. ASSUME NEW i \in 1 .. Len(done'), OfRecord(done'[i].cb)
      PROVE  Behind(done'[i].cb, queue, local)
  <2>1. i + 1 \in 1 .. Len(done) /\ done'[i] = done[i + 1]
    BY <1>2
  <2> QED
    BY <1>8, <2>1 DEF VersionInv
<1> QED
  BY <1>1, <1>7, <1>8 DEF VersionInv

LEMMA VersionAnswered ==
  ASSUME CoreInv, VersionInv, NEW b, NEW writes \in Seq(Write), AnsweredBy(b, writes)
  PROVE  VersionInv'
<1>0. /\ queue \in Seq(Write) /\ done \in Seq(Reply) /\ local \in [Doc -> Nat]
      /\ \A i \in 1 .. Len(done) : OfRecord(done[i].cb) =>
           done[i].cb.doc \in Doc /\ done[i].cb.val \in Nat
  BY VersionTypes DEF CoreInv
<1>1. /\ done # <<>> /\ done' = Tail(done)
      /\ local' = local /\ outbox' = outbox /\ edits' = edits
  BY DEF AnsweredBy, Serving
<1>2. \A i \in 1 .. Len(done') : i + 1 \in 2 .. Len(done) /\ done'[i] = done[i + 1]
  BY <1>0, <1>1, TailFacts
<1>3. /\ queue' = queue \o writes
      /\ \A i \in 1 .. Len(writes) : Fresh(writes[i], local)
  BY DEF AnsweredBy, Fresh, OfRecord
<1>4. /\ Sound(queue, local, outbox)
      /\ \A i \in 1 .. Len(done) : OfRecord(done[i].cb) => Behind(done[i].cb, queue, local)
  BY DEF VersionInv
<1>5. /\ Sound(queue', local, outbox)
      /\ \A i \in 1 .. Len(done) : OfRecord(done[i].cb) => Behind(done[i].cb, queue', local)
  BY <1>0, <1>3, <1>4, SoundAppend, Zenon
<1>6. ASSUME NEW i \in 1 .. Len(done'), OfRecord(done'[i].cb)
      PROVE  Behind(done'[i].cb, queue', local)
  <2>1. i + 1 \in 1 .. Len(done) /\ done'[i] = done[i + 1]
    BY <1>0, <1>2, SeqFacts
  <2> QED
    BY <1>5, <1>6, <2>1
<1> QED
  BY <1>1, <1>5, <1>6 DEF VersionInv

LEMMA VersionLaunched ==
  ASSUME CoreInv, VersionInv, NEW added \in Seq(Write), NEW records \in Seq(Write),
         LaunchedBy(added, records)
  PROVE  VersionInv'
<1>0. /\ TypeInv /\ queue \in Seq(Write) /\ local \in [Doc -> Nat]
  BY VersionTypes DEF CoreInv
<1>1. /\ queue' = (Restored \o added) \o records
      /\ \A i \in 1 .. Len(added) :
           added[i].cb = Nil /\ added[i].doc \in Doc /\ added[i].val = local[added[i].doc]
      /\ \A i \in 1 .. Len(records) : RecordWrite(records[i], Doc, local)
      /\ Len(done') = 0 /\ local' = local /\ outbox' = outbox /\ edits' = edits
  BY DEF LaunchedBy
<1>2. Sound(queue, local, outbox)
  BY DEF VersionInv
<1>3. /\ Restored \in Seq(Write) /\ Len(Restored) = persisted /\ persisted \in Nat
      /\ \A i \in 1 .. persisted : i \in 1 .. Len(queue)
           /\ Restored[i] = [doc |-> queue[i].doc, val |-> queue[i].val, cb |-> Nil]
  BY <1>0, RestoredFacts
<1>4. Sound(Restored, local, outbox)
  <2>1. ASSUME NEW i \in 1 .. Len(Restored)
        PROVE  /\ i + 0 \in 1 .. Len(queue)
               /\ Restored[i].doc = queue[i + 0].doc /\ Restored[i].val = queue[i + 0].val
               /\ Restored[i].cb \in {queue[i + 0].cb, Nil}
    <3>1. i + 0 = i /\ i \in 1 .. Len(queue)
      BY <1>3
    <3>2. Restored[i] = [doc |-> queue[i].doc, val |-> queue[i].val, cb |-> Nil]
      BY <1>3
    <3> QED
      BY <3>1, <3>2
  <2> QED
    BY <1>2, <1>3, <2>1, SoundPart, Zenon
<1>5. \A i \in 1 .. Len(added) : Fresh(added[i], local)
  BY <1>1 DEF Fresh, OfRecord
<1>6. Restored \o added \in Seq(Write) /\ Sound(Restored \o added, local, outbox)
  BY <1>0, <1>3, <1>4, <1>5, SoundAppend, ConcatFacts
<1>7. \A i \in 1 .. Len(records) : Fresh(records[i], local)
  BY <1>0, <1>1, RecordFresh, Zenon
<1>8. Sound(queue', local, outbox)
  BY <1>0, <1>1, <1>6, <1>7, SoundAppend, Zenon
<1>9. \A i \in 1 .. Len(done') : FALSE
  BY <1>1
<1> QED
  BY <1>1, <1>8, <1>9 DEF VersionInv

\* The steps that only the SDK or the calls see.
LEMMA ClientShape ==
  ASSUME CoreInv, Beside(ClientPersist \/ ClientApply \/ ClientAck \/ ClientReject)
  PROVE  /\ UNCHANGED <<local, outbox, edits, backups>>
         /\ \/ ClientPersist /\ UNCHANGED <<server, queue, applied, done>>
            \/ ClientApply /\ UNCHANGED <<queue, done>>
            \/ Acknowledge /\ Finish(TRUE) /\ queue # <<>>
            \/ Reject /\ Finish(FALSE) /\ queue # <<>>
<1>1. UNCHANGED <<local, outbox, edits, backups>>
  BY DEF Beside, ClientPersist, ClientApply, ClientAck, ClientReject, editVars
<1>2. Len(queue) \in Nat /\ persisted \in 0 .. Len(queue) /\ applied \in 0 .. persisted
  BY ListFacts DEF CoreInv, TypeInv
<1>3. persisted > 0 => queue # <<>>
  BY <1>2, EmptySeq
<1>4. CASE ClientPersist
  BY <1>1, <1>4, Zenon DEF ClientPersist, Persist
<1>5. CASE ClientApply
  BY <1>1, <1>5, Zenon DEF ClientApply, Apply
<1>6. CASE ClientAck
  <2>1. Acknowledge /\ applied > 0
    BY <1>6, Zenon DEF ClientAck, Acknowledge
  <2>2. Finish(TRUE)
    BY <2>1, Zenon DEF Acknowledge
  <2>3. persisted > 0
    BY <1>2, <2>1
  <2> QED
    BY <1>1, <1>3, <2>1, <2>2, <2>3, Zenon
<1>7. CASE ClientReject
  BY <1>1, <1>3, <1>7, Zenon DEF ClientReject, Reject
<1> QED
  BY <1>4, <1>5, <1>6, <1>7, Zenon DEF Beside

\* The kinds of steps, by what they do to the queue.
LEMMA StepCases ==
  ASSUME [EditNext]_allVars
  PROVE  \/ LinkReturns \/ \E o \in Doc : UpdateObject(o) \/ DeleteObject(o)
         \/ OnRecordDone \/ OnBackupAnswer
         \/ Relaunch \/ ReadDeleted
         \/ Beside(BackupData) \/ Beside(Fetch) \/ Beside(Told)
         \/ Beside(ClientPersist \/ ClientApply \/ ClientAck \/ ClientReject)
         \/ Beside(link /\ LinkChange) \/ UNCHANGED allVars
<1>1. Beside(BackupData \/ Fetch \/ Told) => Beside(BackupData) \/ Beside(Fetch) \/ Beside(Told)
  BY DEF Beside
<1> QED
  BY <1>1 DEF EditNext, MainThread

LEMMA VersionNext ==
  ASSUME CoreInv, CoversInv, VersionInv, [EditNext]_allVars
  PROVE  VersionInv'
<1>0. CoreInv'
  BY CoreNext
<1>1. ASSUME UNCHANGED <<queue, done, local, outbox, edits>>
      PROVE  VersionInv'
  BY <1>1, VersionUnchanged
<1>2. CASE LinkReturns \/ \E o \in Doc : UpdateObject(o) \/ DeleteObject(o)
  BY <1>0, <1>2, MergeShape, VersionMerged
<1>3. CASE OnRecordDone
  BY <1>3, VersionRecordDone
<1>4. CASE OnBackupAnswer
  BY <1>4, AnswerShape, VersionAnswered
<1>5. CASE Relaunch \/ ReadDeleted
  BY <1>5, LaunchShape, VersionLaunched
<1>6. CASE Beside(Fetch)
  BY <1>6, VersionFetch
<1>7. CASE Beside(BackupData) \/ Beside(Told)
  BY <1>1, <1>7, Zenon DEF Beside, BackupData, Told, TellSuccess, clientVars, editVars
<1>8. CASE Beside(ClientPersist \/ ClientApply \/ ClientAck \/ ClientReject)
  BY <1>1, <1>8, ClientShape, VersionFinish, Zenon
<1>9. CASE Beside(link /\ LinkChange)
  BY <1>1, <1>9 DEF Beside, LinkChange, editVars
<1>10. CASE UNCHANGED allVars
  BY <1>1, <1>10 DEF allVars, vars, clientVars, editVars
<1> QED
  BY <1>2, <1>3, <1>4, <1>5, <1>6, <1>7, <1>8, <1>9, <1>10, StepCases

-----------------------------------------------------------------------------
(***************************************************************************)
(* What the server has applied, the objects of the calls, and their        *)
(* alerts.                                                                 *)
(***************************************************************************)

LEMMA AppliedPrefix ==
  ASSUME AppliedInv, UNCHANGED <<server, applied>>, applied \in Nat,
         \A i \in 1 .. applied : queue'[i] = queue[i]
  PROVE  AppliedInv'
<1> SUFFICES ASSUME NEW j \in 1 .. applied,
                    \A k \in j .. applied :
                      queue'[k].doc = queue'[j].doc => queue'[k].val = queue'[j].val
             PROVE  server[queue'[j].doc] = queue'[j].val
  BY DEF AppliedInv
<1>1. ASSUME NEW k \in j .. applied, queue[k].doc = queue[j].doc
      PROVE  queue[k].val = queue[j].val
  <2>1. k \in 1 .. applied
    OBVIOUS
  <2>2. queue'[k] = queue[k] /\ queue'[j] = queue[j]
    BY <2>1
  <2> QED
    BY <1>1, <2>2
<1>2. server[queue[j].doc] = queue[j].val
  BY <1>1 DEF AppliedInv
<1> QED
  BY <1>2

LEMMA AppliedNone ==
  ASSUME applied' = 0
  PROVE  AppliedInv'
BY DEF AppliedInv

LEMMA AppliedApply ==
  ASSUME TypeInv, AppliedInv, Apply
  PROVE  AppliedInv'
<1>1. /\ applied \in Nat /\ persisted \in Nat /\ Len(queue) \in Nat
      /\ applied <= persisted /\ persisted <= Len(queue)
      /\ server \in [Doc -> Nat]
      /\ \A i \in 1 .. Len(queue) : queue[i].doc \in Doc /\ queue[i].val \in Nat
  BY ListFacts, VersionTypes
<1> DEFINE w == queue[applied + 1]
<1>2. /\ applied < persisted /\ applied' = applied + 1 /\ queue' = queue
      /\ server' = [server EXCEPT ![w.doc] = w.val]
  BY DEF Apply
<1>3. applied + 1 \in 1 .. Len(queue)
  BY <1>1, <1>2
<1>4. w.doc \in Doc
  BY <1>1, <1>3
<1>5. server'[w.doc] = w.val /\ \A d \in Doc : d # w.doc => server'[d] = server[d]
  BY <1>1, <1>2, <1>4
<1> HIDE DEF w
<1> SUFFICES ASSUME NEW j \in 1 .. applied + 1,
                    \A k \in j .. applied + 1 :
                      queue[k].doc = queue[j].doc => queue[k].val = queue[j].val
             PROVE  server'[queue[j].doc] = queue[j].val
  BY <1>2 DEF AppliedInv
<1>6. applied + 1 \in j .. applied + 1 /\ j \in 1 .. Len(queue)
  BY <1>1, <1>3
<1>7. CASE queue[j].doc = w.doc
  <2>1. queue[applied + 1].val = queue[j].val
    BY <1>6, <1>7 DEF w
  <2> QED
    BY <1>5, <1>7, <2>1 DEF w
<1>8. CASE queue[j].doc # w.doc
  <2>1. j # applied + 1
    BY <1>8 DEF w
  <2>2. j \in 1 .. applied
    BY <1>1, <2>1
  <2>3. \A k \in j .. applied : k \in j .. applied + 1
    BY <1>1
  <2>4. server[queue[j].doc] = queue[j].val
    BY <2>2, <2>3 DEF AppliedInv
  <2> QED
    BY <1>1, <1>5, <1>6, <1>8, <2>4
<1> QED
  BY <1>7, <1>8

LEMMA AppliedAck ==
  ASSUME TypeInv, OnceInv, AppliedInv, Acknowledge, queue # <<>>
  PROVE  AppliedInv'
<1>1. /\ applied \in Nat /\ persisted \in Nat /\ Len(queue) \in Nat
      /\ applied <= persisted /\ persisted <= Len(queue)
  BY ListFacts
<1>2. Finish(TRUE) /\ applied > 0 /\ applied' = applied - 1 /\ server' = server
  BY Zenon DEF Acknowledge
<1>3. /\ Len(queue') = Len(queue) - 1
      /\ \A i \in 1 .. Len(queue') : queue'[i] = queue[i + 1]
  BY <1>2, FinishFacts, Zenon
<1> SUFFICES ASSUME NEW j \in 1 .. applied - 1,
                    \A k \in j .. applied - 1 :
                      queue'[k].doc = queue'[j].doc => queue'[k].val = queue'[j].val
             PROVE  server[queue'[j].doc] = queue'[j].val
  BY <1>2 DEF AppliedInv
<1>4. j + 1 \in 1 .. applied /\ j \in 1 .. Len(queue')
  BY <1>1, <1>3
<1>5. queue'[j] = queue[j + 1]
  BY <1>3, <1>4
<1>6. ASSUME NEW k \in j + 1 .. applied, queue[k].doc = queue[j + 1].doc
      PROVE  queue[k].val = queue[j + 1].val
  <2>1. k - 1 \in j .. applied - 1 /\ k - 1 \in 1 .. Len(queue') /\ (k - 1) + 1 = k
    BY <1>1, <1>3
  <2>2. queue'[k - 1] = queue[k]
    BY <1>3, <2>1
  <2> QED
    BY <1>5, <1>6, <2>1, <2>2
<1>7. server[queue[j + 1].doc] = queue[j + 1].val
  BY <1>4, <1>6 DEF AppliedInv
<1> QED
  BY <1>5, <1>7

LEMMA AppliedAppend ==
  ASSUME TypeInv, AppliedInv, NEW writes \in Seq(Write), queue' = queue \o writes,
         UNCHANGED <<server, applied>>
  PROVE  AppliedInv'
<1>1. /\ applied \in Nat /\ persisted \in Nat /\ Len(queue) \in Nat
      /\ applied <= persisted /\ persisted <= Len(queue) /\ queue \in Seq(Write)
  BY ListFacts, VersionTypes
<1>2. \A i \in 1 .. Len(queue) : queue'[i] = queue[i]
  BY <1>1, ConcatFacts
<1>3. \A i \in 1 .. applied : i \in 1 .. Len(queue)
  BY <1>1
<1> QED
  BY <1>1, <1>2, <1>3, AppliedPrefix

LEMMA AppliedNext ==
  ASSUME CoreInv, CoversInv, AppliedInv, [EditNext]_allVars
  PROVE  AppliedInv'
<1>0. TypeInv /\ OnceInv /\ applied \in Nat
  BY ListFacts DEF CoreInv
<1>1. ASSUME UNCHANGED <<server, applied, queue>>
      PROVE  AppliedInv'
  BY <1>0, <1>1, AppliedPrefix
<1>2. CASE LinkReturns \/ \E o \in Doc : UpdateObject(o) \/ DeleteObject(o)
  <2>1. PICK writes \in Seq(Write) : MergedBy(writes)
    BY <1>2, MergeShape
  <2> QED
    BY <1>0, <2>1, AppliedAppend DEF MergedBy
<1>3. CASE OnRecordDone
  BY <1>1, <1>3 DEF OnRecordDone
<1>4. CASE OnBackupAnswer
  <2>1. PICK b \in 1 .. Len(backups), writes \in Seq(Write) : AnsweredBy(b, writes)
    BY <1>4, AnswerShape
  <2> QED
    BY <1>0, <2>1, AppliedAppend, Zenon DEF AnsweredBy, Serving
<1>5. CASE Relaunch \/ ReadDeleted
  BY <1>5, LaunchShape, AppliedNone DEF LaunchedBy
<1>6. CASE Beside(Fetch)
  <2>1. UNCHANGED <<server, applied, queue>>
    BY <1>6, FetchFacts, Zenon
  <2> QED
    BY <1>1, <2>1
<1>7. CASE Beside(BackupData) \/ Beside(Told)
  BY <1>1, <1>7, Zenon DEF Beside, BackupData, Told, TellSuccess, clientVars
<1>8. CASE Beside(ClientPersist \/ ClientApply \/ ClientAck \/ ClientReject)
  <2>1. \/ ClientPersist /\ UNCHANGED <<server, queue, applied, done>>
        \/ ClientApply
        \/ Acknowledge /\ queue # <<>>
        \/ Reject
    BY <1>8, ClientShape, Zenon
  <2>2. CASE ClientApply
    BY <1>0, <2>2, AppliedApply DEF ClientApply
  <2>3. CASE Acknowledge /\ queue # <<>>
    BY <1>0, <2>3, AppliedAck
  <2>4. CASE Reject
    BY <2>4, AppliedNone DEF Reject
  <2> QED
    BY <1>1, <2>1, <2>2, <2>3, <2>4
<1>9. CASE Beside(link /\ LinkChange)
  <2>1. applied' = 0
    BY <1>9 DEF Beside, LinkChange, StreamLost
  <2> QED
    BY <2>1, AppliedNone
<1>10. CASE UNCHANGED allVars
  BY <1>1, <1>10 DEF allVars, vars, clientVars
<1> QED
  BY <1>2, <1>3, <1>4, <1>5, <1>6, <1>7, <1>8, <1>9, <1>10, StepCases

\* What a call has found and done, and its objects.
Alike(x, y) == x.cloud = y.cloud /\ x.mine = y.mine /\ x.deleted = y.deleted

LEMMA FetchShape ==
  ASSUME CoreInv, Beside(Fetch)
  PROVE  /\ \E r \in Reply : done' = Append(done, r) /\ r.cb.op = "fetch"
         /\ UNCHANGED <<server, queue, persisted, applied, local, outbox, edits>>
         /\ Len(backups') = Len(backups)
         /\ \A i \in 1 .. Len(backups) :
              Alike(backups'[i], backups[i]) /\ backups'[i].told = backups[i].told
<1>0. TypeInv
  BY DEF CoreInv
<1>1. PICK b \in 1 .. Len(backups), c \in Collections, docs \in SUBSET Doc, ok \in BOOLEAN :
         /\ c \in backups[b].asked /\ docs \subseteq c
         /\ done' = Append(done,
              [cb |-> [run |-> b, op |-> "fetch", coll |-> c, docs |-> docs], ok |-> ok])
         /\ backups' = [backups EXCEPT ![b].asked = @ \ {c}]
         /\ UNCHANGED <<server, queue, persisted, applied, local, link, outbox, edits>>
         /\ cache' \in [Doc -> Nat]
  BY FetchFacts, Zenon
<1>2. backups[b] \in Call /\ DOMAIN backups = 1 .. Len(backups) /\ b \in Nat
  BY <1>0, CallFacts
<1> DEFINE cb == [run |-> b, op |-> "fetch", coll |-> c, docs |-> docs]
           r == [cb |-> cb, ok |-> ok]
           x == [backups[b] EXCEPT !.asked = @ \ {c}]
<1>3. r \in Reply /\ r.cb.op = "fetch"
  BY <1>2 DEF Reply, Callback
<1>4. /\ x \in Call /\ x.cloud = backups[b].cloud /\ x.mine = backups[b].mine
      /\ x.deleted = backups[b].deleted /\ x.told = backups[b].told
  BY <1>2, LessAsked, Zenon
<1>5. backups' = [backups EXCEPT ![b] = x]
  BY <1>1, <1>2
<1> HIDE DEF x
<1>6. /\ Len(backups') = Len(backups) /\ backups'[b] = x
      /\ \A i \in 1 .. Len(backups) : i # b => Same(backups'[i], backups[i])
  BY <1>0, <1>4, <1>5, ExceptFacts, Zenon
<1>7. ASSUME NEW i \in 1 .. Len(backups)
      PROVE  Alike(backups'[i], backups[i]) /\ backups'[i].told = backups[i].told
  <2>1. CASE i = b
    BY <1>4, <1>6, <2>1 DEF Alike
  <2>2. CASE i # b
    BY <1>6, <2>2 DEF Alike, Same
  <2> QED
    BY <2>1, <2>2
<1>8. done' = Append(done, r)
  BY <1>1
<1> HIDE DEF r
<1> QED
  BY <1>1, <1>3, <1>6, <1>7, <1>8, Zenon

LEMMA ToldShape ==
  ASSUME CoreInv, Beside(Told)
  PROVE  /\ UNCHANGED <<clientVars, local, outbox, edits>>
         /\ Len(backups') = Len(backups)
         /\ \A i \in 1 .. Len(backups) :
              /\ Alike(backups'[i], backups[i])
              /\ \/ backups'[i].told = backups[i].told
                 \/ backups'[i].told = "success" /\ Full(backups[i])
<1>0. TypeInv /\ backups \in Seq(Call)
  BY DEF CoreInv, TypeInv
<1>1. PICK b \in DOMAIN backups : TellSuccess(b)
  BY DEF Beside, Told
<1>2. /\ b \in 1 .. Len(backups) /\ Full(backups[b])
      /\ backups' = [backups EXCEPT ![b].covered = FALSE, ![b].told = "success"]
      /\ UNCHANGED <<clientVars, local, outbox, edits>>
  BY <1>0, <1>1, SeqFacts DEF TellSuccess, Beside, editVars
<1>3. backups[b] \in Call /\ DOMAIN backups = 1 .. Len(backups)
  BY <1>0, <1>2, CallFacts
<1> DEFINE x == [backups[b] EXCEPT !.covered = FALSE, !.told = "success"]
<1>4. /\ x \in Call /\ x.cloud = backups[b].cloud /\ x.mine = backups[b].mine
      /\ x.deleted = backups[b].deleted /\ x.told = "success"
  BY <1>3, Succeeded, Zenon
<1>5. backups' = [backups EXCEPT ![b] = x]
  BY <1>2, <1>3, Zenon
<1> HIDE DEF x
<1>6. /\ Len(backups') = Len(backups) /\ backups'[b] = x
      /\ \A i \in 1 .. Len(backups) : i # b => Same(backups'[i], backups[i])
  BY <1>0, <1>2, <1>4, <1>5, ExceptFacts, Zenon
<1>7. ASSUME NEW i \in 1 .. Len(backups)
      PROVE  /\ Alike(backups'[i], backups[i])
             /\ \/ backups'[i].told = backups[i].told
                \/ backups'[i].told = "success" /\ Full(backups[i])
  <2>1. CASE i = b
    BY <1>2, <1>4, <1>6, <2>1 DEF Alike
  <2>2. CASE i # b
    BY <1>6, <2>2 DEF Alike, Same
  <2> QED
    BY <2>1, <2>2
<1> QED
  BY <1>2, <1>6, <1>7

\* The calls of a step: they end, one is added, or they go on.
LEMMA CallsShape ==
  ASSUME CoreInv, CoversInv, [EditNext]_allVars
  PROVE  /\ Present(local') \subseteq Present(local)
         /\ \/ Len(backups') = 0
            \/ /\ backups' = Append(backups, NewBackup) /\ local' = local
               /\ \A b \in 1 .. Len(backups) : backups[b].told # "nothing"
            \/ /\ Len(backups') = Len(backups)
               /\ \A b \in 1 .. Len(backups) :
                    /\ backups'[b].mine = backups[b].mine
                    /\ backups'[b].told = "nothing" => backups[b].told = "nothing"
<1>0. TypeInv /\ backups \in Seq(Call)
  BY Zenon DEF CoreInv, TypeInv
<1> DEFINE Q == /\ Len(backups') = Len(backups)
                /\ \A b \in 1 .. Len(backups) :
                     /\ backups'[b].mine = backups[b].mine
                     /\ backups'[b].told = "nothing" => backups[b].told = "nothing"
<1>1. ASSUME local' = local, UNCHANGED backups
      PROVE  Present(local') \subseteq Present(local) /\ Q
  BY <1>1
<1>2. CASE LinkReturns \/ \E o \in Doc : UpdateObject(o) \/ DeleteObject(o)
  <2>1. PICK writes \in Seq(Write) : MergedBy(writes)
    BY <1>2, MergeShape
  <2>2. Q
    BY <2>1 DEF MergedBy, Same
  <2>3. \A d \in Doc : local'[d] = local[d] \/ local'[d] = Absent \/ local[d] # Absent
    BY <2>1 DEF MergedBy
  <2> QED
    BY <2>2, <2>3 DEF Present
<1>3. CASE OnRecordDone
  BY <1>1, <1>3 DEF OnRecordDone
<1>4. CASE OnBackupAnswer
  <2>1. PICK b \in 1 .. Len(backups), writes \in Seq(Write) : AnsweredBy(b, writes)
    BY <1>4, AnswerShape, Zenon
  <2>2. /\ Len(backups') = Len(backups) /\ local' = local
        /\ \A i \in 1 .. Len(backups) : i # b => Same(backups'[i], backups[i])
        /\ backups'[b].mine = backups[b].mine
        /\ backups'[b].told \in {backups[b].told, "error"}
    BY <2>1 DEF AnsweredBy, Serving
  <2>3. Q
    BY <2>2 DEF Same
  <2> QED
    BY <2>2, <2>3
<1>5. CASE Relaunch \/ ReadDeleted
  <2>1. Len(backups') = 0 /\ local' = local
    BY <1>5, LaunchShape DEF LaunchedBy
  <2> QED
    BY <2>1
<1>6. CASE Beside(BackupData)
  <2>1. /\ backups' = Append(backups, NewBackup) /\ local' = local
        /\ \A b \in DOMAIN backups : ~backups[b].covered
    BY <1>6 DEF Beside, BackupData
  <2>2. \A b \in 1 .. Len(backups) : backups[b].told # "nothing"
    BY <1>0, <2>1, SeqFacts DEF CoversInv, CoverInv
  <2> QED
    BY <2>1, <2>2
<1>7. CASE Beside(Fetch)
  BY <1>7, FetchShape DEF Alike
<1>8. CASE Beside(Told)
  BY <1>8, ToldShape DEF Alike
<1>9. CASE Beside(ClientPersist \/ ClientApply \/ ClientAck \/ ClientReject)
  BY <1>1, <1>9, ClientShape, Zenon
<1>10. CASE Beside(link /\ LinkChange)
  BY <1>1, <1>10 DEF Beside, LinkChange
<1>11. CASE UNCHANGED allVars
  BY <1>1, <1>11 DEF allVars, vars
<1> QED
  BY <1>2, <1>3, <1>4, <1>5, <1>6, <1>7, <1>8, <1>9, <1>10, <1>11, StepCases

LEMMA MineNext ==
  ASSUME CoreInv, CoversInv, MineInv, ToldInv, [EditNext]_allVars
  PROVE  MineInv' /\ ToldInv'
<1>0. /\ TypeInv /\ backups \in Seq(Call) /\ local \in [Doc -> Nat]
      /\ Len(backups) \in Nat
  BY ListFacts, Zenon DEF CoreInv, TypeInv
<1>1. Present(local)' = Present(local')
  BY DEF Present
<1>2. Present(local') \subseteq Present(local)
  BY CallsShape
<1>3. CASE Len(backups') = 0
  BY <1>3 DEF MineInv, ToldInv
<1>4. CASE /\ backups' = Append(backups, NewBackup) /\ local' = local
           /\ \A b \in 1 .. Len(backups) : backups[b].told # "nothing"
  <2>1. NewBackup \in Call /\ NewBackup.mine = Present(local)
    BY <1>0, NewFacts, Zenon
  <2>2. /\ Len(backups') = Len(backups) + 1
        /\ \A b \in 1 .. Len(backups) : backups'[b] = backups[b]
        /\ backups'[Len(backups) + 1] = NewBackup
    BY <1>0, <1>4, <2>1, AppendFacts
  <2>3. ASSUME NEW b \in 1 .. Len(backups')
        PROVE  /\ Present(local)' \subseteq backups'[b].mine
               /\ b < Len(backups') => backups'[b].told # "nothing"
    <3>1. CASE b = Len(backups) + 1
      BY <1>0, <1>1, <1>2, <2>1, <2>2, <3>1
    <3>2. CASE b \in 1 .. Len(backups)
      BY <1>1, <1>2, <1>4, <2>2, <3>2 DEF MineInv
    <3> QED
      BY <1>0, <2>2, <3>1, <3>2
  <2> QED
    BY <2>3 DEF MineInv, ToldInv
<1>5. CASE /\ Len(backups') = Len(backups)
           /\ \A b \in 1 .. Len(backups) :
                /\ backups'[b].mine = backups[b].mine
                /\ backups'[b].told = "nothing" => backups[b].told = "nothing"
  <2>1. MineInv'
    BY <1>1, <1>2, <1>5 DEF MineInv
  <2>2. ToldInv'
    BY <1>5 DEF ToldInv
  <2> QED
    BY <2>1, <2>2
<1> QED
  BY <1>3, <1>4, <1>5, CallsShape

-----------------------------------------------------------------------------
(***************************************************************************)
(* The deletions of earlier backups are before those of the last one.      *)
(***************************************************************************)

LEMMA BeforeTail ==
  ASSUME NEW q, NEW t, NEW db, NEW n, Len(t) \in Nat,
         \A i \in 1 .. Len(t) : i + 1 \in 1 .. Len(q) /\ t[i] = q[i + 1]
  PROVE  /\ Before(q, db, n) => Before(t, db, n)
         /\ Gone(q, db, n) => Gone(t, db, n)
<1>1. ASSUME Before(q, db, n), NEW i \in 1 .. Len(t), NEW j \in 1 .. Len(t),
             i <= j, Own(t[i].cb, n)
      PROVE  ~Foreign(t[j], db, n)
  <2>1. i + 1 <= j + 1 /\ i + 1 \in 1 .. Len(q) /\ j + 1 \in 1 .. Len(q)
    BY <1>1
  <2>2. t[i] = q[i + 1] /\ t[j] = q[j + 1]
    OBVIOUS
  <2>3. Own(q[i + 1].cb, n)
    BY <1>1, <2>2, Zenon
  <2>4. ~Foreign(q[j + 1], db, n)
    BY <1>1, <2>1, <2>3, Zenon DEF Before
  <2> QED
    BY <2>2, <2>4, Zenon
<1>2. Gone(q, db, n) => Gone(t, db, n)
  BY DEF Gone
<1> QED
  BY <1>1, <1>2 DEF Before

LEMMA BeforeOn ==
  ASSUME NEW q, NEW db, NEW db2, NEW n, \A i \in 1 .. Len(q) : q[i].doc \in Doc,
         \A d \in Doc : db2[d] # Absent => db[d] # Absent
  PROVE  /\ Before(q, db, n) => Before(q, db2, n)
         /\ Gone(q, db, n) => Gone(q, db2, n)
<1>1. \A i \in 1 .. Len(q) : Foreign(q[i], db2, n) => Foreign(q[i], db, n)
  BY DEF Foreign
<1> QED
  BY <1>1 DEF Before, Gone

LEMMA BeforeAppend ==
  ASSUME NEW q \in Seq(Write), NEW t \in Seq(Write), NEW db, NEW n,
         \A i \in 1 .. Len(t) : ~Foreign(t[i], db, n)
  PROVE  /\ Before(q, db, n) => Before(q \o t, db, n)
         /\ Gone(q, db, n) => Gone(q \o t, db, n)
<1> DEFINE u == q \o t
<1>1. /\ Len(q) \in Nat /\ Len(t) \in Nat /\ Len(u) \in Nat
      /\ \A i \in 1 .. Len(q) : u[i] = q[i]
      /\ \A i \in 1 .. Len(u) : i > Len(q) =>
            i - Len(q) \in 1 .. Len(t) /\ u[i] = t[i - Len(q)]
  BY SeqFacts, ConcatFacts
<1> HIDE DEF u
<1>2. ASSUME NEW i \in 1 .. Len(u), i > Len(q)
      PROVE  ~Foreign(u[i], db, n)
  <2>1. PICK k \in 1 .. Len(t) : u[i] = t[k]
    BY <1>1, <1>2
  <2> QED
    BY <2>1, Zenon
<1>3. ASSUME NEW i \in 1 .. Len(u), ~(i > Len(q))
      PROVE  i \in 1 .. Len(q) /\ u[i] = q[i]
  BY <1>1, <1>3
<1>4. ASSUME Gone(q, db, n), NEW i \in 1 .. Len(u)
      PROVE  ~Foreign(u[i], db, n)
  <2>1. CASE i > Len(q)
    BY <1>2, <2>1
  <2>2. CASE ~(i > Len(q))
    BY <1>3, <1>4, <2>2, Zenon DEF Gone
  <2> QED
    BY <2>1, <2>2
<1>5. ASSUME Before(q, db, n), NEW i \in 1 .. Len(u), NEW j \in 1 .. Len(u),
             i <= j, Own(u[i].cb, n)
      PROVE  ~Foreign(u[j], db, n)
  <2>1. CASE j > Len(q)
    BY <1>2, <2>1
  <2>2. CASE ~(j > Len(q))
    <3>1. ~(i > Len(q))
      BY <1>1, <1>5, <2>2
    <3>2. i \in 1 .. Len(q) /\ u[i] = q[i] /\ j \in 1 .. Len(q) /\ u[j] = q[j]
      BY <1>3, <2>2, <3>1
    <3> QED
      BY <1>5, <3>2, Zenon DEF Before
  <2> QED
    BY <2>1, <2>2
<1> QED
  BY <1>4, <1>5 DEF Before, Gone, u

LEMMA DeletionKept ==
  ASSUME DeletionInv, Len(backups') = Len(backups),
         ASSUME NEW n \in 1 .. Len(backups), n = Len(backups)
         PROVE  /\ Before(queue, local, n) => Before(queue', local', n)
                /\ Gone(queue, local, n) => Gone(queue', local', n)
                /\ Begun(backups'[n], done', n) => Begun(backups[n], done, n)
  PROVE  DeletionInv'
<1> SUFFICES ASSUME NEW n \in 1 .. Len(backups), n = Len(backups)
             PROVE  /\ Before(queue', local', n)
                    /\ Begun(backups'[n], done', n) => Gone(queue', local', n)
  BY DEF DeletionInv
<1>1. /\ Before(queue, local, n)
      /\ Begun(backups[n], done, n) => Gone(queue, local, n)
  BY DEF DeletionInv
<1> QED
  BY <1>1

\* What is deleted and answered stays: nothing begins that has not begun.
LEMMA BegunKept ==
  ASSUME NEW n, NEW x, NEW y, NEW s, NEW t,
         \A c \in Collections : x.deleted[c] > 0 => y.deleted[c] > 0 \/ Begun(y, s, n),
         \A i \in 1 .. Len(t) : Own(t[i].cb, n) => \E j \in 1 .. Len(s) : s[j].cb = t[i].cb
  PROVE  Begun(x, t, n) => Begun(y, s, n)
<1> SUFFICES ASSUME Begun(x, t, n)
             PROVE  Begun(y, s, n)
  OBVIOUS
<1>1. CASE \E c \in Collections : x.deleted[c] > 0
  BY <1>1 DEF Begun
<1>2. CASE \E i \in 1 .. Len(t) : Own(t[i].cb, n)
  <2>1. PICK i \in 1 .. Len(t) : Own(t[i].cb, n)
    BY <1>2
  <2>2. PICK j \in 1 .. Len(s) : s[j].cb = t[i].cb
    BY <2>1
  <2>3. Own(s[j].cb, n)
    BY <2>1, <2>2, Zenon
  <2> QED
    BY <2>3 DEF Begun
<1> QED
  BY <1>1, <1>2 DEF Begun

LEMMA DeletionMerged ==
  ASSUME CoreInv, CoreInv', DeletionInv, NEW writes \in Seq(Write), MergedBy(writes)
  PROVE  DeletionInv'
<1>1. /\ queue \in Seq(Write) /\ \A i \in 1 .. Len(queue) : queue[i].doc \in Doc
  BY VersionTypes DEF CoreInv
<1>2. /\ queue' = queue \o writes /\ done' = done /\ Len(backups') = Len(backups)
      /\ \A b \in 1 .. Len(backups) : Same(backups'[b], backups[b])
      /\ \A i \in 1 .. Len(writes) : RecordWrite(writes[i], Doc, local')
      /\ \A d \in Doc : local'[d] # Absent => local[d] # Absent
  BY DEF MergedBy
<1>3. local' \in [Doc -> Nat]
  BY DEF CoreInv, TypeInv
<1>4. ASSUME NEW n \in 1 .. Len(backups)
      PROVE  /\ Before(queue, local, n) => Before(queue', local', n)
             /\ Gone(queue, local, n) => Gone(queue', local', n)
             /\ Begun(backups'[n], done', n) => Begun(backups[n], done, n)
  <2>1. \A i \in 1 .. Len(writes) : ~Foreign(writes[i], local', n)
    BY <1>2, <1>3, RecordFresh, Zenon DEF Foreign
  <2>2. /\ Before(queue, local, n) => Before(queue, local', n)
        /\ Gone(queue, local, n) => Gone(queue, local', n)
    BY <1>1, <1>2, BeforeOn, Zenon
  <2>3. /\ Before(queue, local', n) => Before(queue', local', n)
        /\ Gone(queue, local', n) => Gone(queue', local', n)
    BY <1>1, <1>2, <2>1, BeforeAppend
  <2>4. Begun(backups'[n], done', n) => Begun(backups[n], done, n)
    BY <1>2 DEF Begun, Same
  <2> QED
    BY <2>2, <2>3, <2>4
<1> QED
  BY <1>2, <1>4, DeletionKept, Zenon

LEMMA DeletionQuiet ==
  ASSUME DeletionInv, UNCHANGED <<queue, local>>, Len(backups') = Len(backups),
         \A b \in 1 .. Len(backups) : backups'[b].deleted = backups[b].deleted,
         \A i \in 1 .. Len(done') : Own(done'[i].cb, Len(backups)) =>
           \E j \in 1 .. Len(done) : done[j].cb = done'[i].cb
  PROVE  DeletionInv'
<1>1. ASSUME NEW n \in 1 .. Len(backups), n = Len(backups)
      PROVE  Begun(backups'[n], done', n) => Begun(backups[n], done, n)
  BY <1>1, BegunKept, Zenon
<1>2. queue' = queue /\ local' = local
  OBVIOUS
<1> QED
  BY <1>1, <1>2, DeletionKept, Zenon

LEMMA DeletionFetch ==
  ASSUME CoreInv, DeletionInv, Beside(Fetch)
  PROVE  DeletionInv'
<1>1. done \in Seq(Reply)
  BY DEF CoreInv, TypeInv
<1>2. PICK r \in Reply : done' = Append(done, r) /\ r.cb.op = "fetch"
  BY FetchShape
<1>3. /\ Len(done') = Len(done) + 1 /\ Len(done) \in Nat
      /\ \A i \in 1 .. Len(done) : done'[i] = done[i]
      /\ done'[Len(done) + 1] = r
  BY <1>1, <1>2, AppendFacts, SeqFacts
<1>4. ASSUME NEW i \in 1 .. Len(done'), Own(done'[i].cb, Len(backups))
      PROVE  \E j \in 1 .. Len(done) : done[j].cb = done'[i].cb
  <2>1. i # Len(done) + 1
    BY <1>2, <1>3, <1>4 DEF Own
  <2>2. i \in 1 .. Len(done)
    BY <1>3, <2>1
  <2> QED
    BY <1>3, <2>2
<1> QED
  BY <1>4, FetchShape, DeletionQuiet DEF Alike

\* Once the first deletion of the last backup is popped, the deletions of the
\* others, all before it, are gone.
LEMMA DeletionFinish ==
  ASSUME CoreInv, DeletionInv, NEW ok \in BOOLEAN, Finish(ok), queue # <<>>,
         UNCHANGED <<local, backups>>
  PROVE  DeletionInv'
<1>0. TypeInv /\ OnceInv /\ Len(done) \in Nat
  BY ListFacts DEF CoreInv
<1>1. /\ queue' \in Seq(Write)
      /\ Len(queue') = Len(queue) - 1 /\ Len(queue) \in Nat \ {0}
      /\ \A i \in 1 .. Len(queue') : i + 1 \in 2 .. Len(queue) /\ queue'[i] = queue[i + 1]
      /\ queue[1].cb = Nil => done' = done
      /\ queue[1].cb # Nil => /\ Len(done') = Len(done) + 1
                              /\ done'[Len(done) + 1] = [cb |-> queue[1].cb, ok |-> ok]
      /\ \A i \in 1 .. Len(done) : done'[i] = done[i]
  BY <1>0, FinishFacts
<1>2. Len(queue') \in Nat /\ 1 \in 1 .. Len(queue)
  BY <1>1
<1>3. \A i \in 1 .. Len(queue') : i + 1 \in 1 .. Len(queue) /\ queue'[i] = queue[i + 1]
  BY <1>1
<1> SUFFICES ASSUME NEW n \in 1 .. Len(backups), n = Len(backups)
             PROVE  /\ Before(queue', local, n)
                    /\ Begun(backups[n], done', n) => Gone(queue', local, n)
  BY DEF DeletionInv
<1>4. /\ Before(queue, local, n)
      /\ Begun(backups[n], done, n) => Gone(queue, local, n)
  BY DEF DeletionInv
<1>5. Before(queue', local, n) /\ (Gone(queue, local, n) => Gone(queue', local, n))
  BY <1>2, <1>3, <1>4, BeforeTail
<1>6. ASSUME Begun(backups[n], done', n)
      PROVE  Gone(queue, local, n)
  <2>1. CASE Own(queue[1].cb, n)
    <3>1. \A j \in 1 .. Len(queue) : 1 <= j
      BY <1>2
    <3> QED
      BY <1>2, <1>4, <2>1, <3>1, Zenon DEF Before, Gone
  <2>2. CASE ~Own(queue[1].cb, n)
    <3>1. ASSUME NEW i \in 1 .. Len(done'), Own(done'[i].cb, n)
          PROVE  \E j \in 1 .. Len(done) : done[j].cb = done'[i].cb
      <4>1. CASE i \in 1 .. Len(done)
        BY <1>1, <4>1, Zenon
      <4>2. CASE i \notin 1 .. Len(done)
        <5>1. queue[1].cb # Nil /\ i = Len(done) + 1
          BY <1>0, <1>1, <4>2
        <5>2. done'[i].cb = queue[1].cb
          BY <1>1, <5>1
        <5> QED
          BY <2>2, <3>1, <5>2, Zenon
      <4> QED
        BY <4>1, <4>2
    <3>2. Begun(backups[n], done, n)
      BY <1>6, <3>1, BegunKept
    <3> QED
      BY <1>4, <3>2
  <2> QED
    BY <2>1, <2>2
<1> QED
  BY <1>5, <1>6

LEMMA DeletionAnswered ==
  ASSUME CoreInv, ToldInv, DeletionInv, NEW b, NEW writes \in Seq(Write),
         AnsweredBy(b, writes)
  PROVE  DeletionInv'
<1>0. /\ queue \in Seq(Write) /\ done \in Seq(Reply) /\ Len(backups) \in Nat
  BY ListFacts, VersionTypes, ZenonT(40) DEF CoreInv
<1>1. /\ b \in 1 .. Len(backups) /\ done # <<>> /\ done' = Tail(done)
      /\ b = done[1].cb.run /\ local' = local
      /\ queue' = queue \o writes /\ Len(backups') = Len(backups)
      /\ \A i \in 1 .. Len(backups) : i # b => Same(backups'[i], backups[i])
      /\ \A c \in Collections :
           backups'[b].deleted[c] > 0 => backups[b].deleted[c] > 0 \/ Own(done[1].cb, b)
  BY DEF AnsweredBy, Serving
<1>2. /\ \A i \in 1 .. Len(done') : i + 1 \in 2 .. Len(done) /\ done'[i] = done[i + 1]
      /\ 1 \in 1 .. Len(done) /\ Len(done) \in Nat
  BY <1>0, <1>1, TailFacts
<1>3. ASSUME NEW n \in 1 .. Len(backups), n = Len(backups)
      PROVE  /\ Before(queue, local, n) => Before(queue', local', n)
             /\ Gone(queue, local, n) => Gone(queue', local', n)
             /\ Begun(backups'[n], done', n) => Begun(backups[n], done, n)
  <2>1. ASSUME NEW i \in 1 .. Len(writes)
        PROVE  ~Foreign(writes[i], local, n)
    <3>1. \/ Own(writes[i].cb, b) /\ backups[b].told = "nothing"
          \/ writes[i].val # Absent
      BY DEF AnsweredBy
    <3>2. CASE writes[i].val # Absent
      BY <3>2 DEF Foreign
    <3>3. CASE Own(writes[i].cb, b) /\ backups[b].told = "nothing"
      <4>1. b = n
        BY <1>0, <1>1, <1>3, <3>3 DEF ToldInv
      <4> QED
        BY <3>3, <4>1 DEF Foreign
    <3> QED
      BY <3>1, <3>2, <3>3
  <2>2. /\ Before(queue, local, n) => Before(queue', local', n)
        /\ Gone(queue, local, n) => Gone(queue', local', n)
    BY <1>0, <1>1, <2>1, BeforeAppend, Zenon
  <2>3. ASSUME NEW c \in Collections, backups'[n].deleted[c] > 0
        PROVE  backups[n].deleted[c] > 0 \/ Begun(backups[n], done, n)
    <3>1. CASE n = b
      BY <1>1, <1>2, <2>3, <3>1 DEF Begun
    <3>2. CASE n # b
      BY <1>1, <2>3, <3>2 DEF Same
    <3> QED
      BY <3>1, <3>2
  <2>4. \A i \in 1 .. Len(done') : i + 1 \in 1 .. Len(done) /\ done[i + 1].cb = done'[i].cb
    BY <1>2
  <2>5. Begun(backups'[n], done', n) => Begun(backups[n], done, n)
    BY <2>3, <2>4, BegunKept, Zenon
  <2> QED
    BY <2>2, <2>5
<1> QED
  BY <1>1, <1>3, DeletionKept, Zenon

\* A new backup has deleted nothing.
LEMMA DeletionNew ==
  ASSUME CoreInv, Beside(BackupData)
  PROVE  DeletionInv'
<1>0. /\ TypeInv /\ queue \in Seq(Write) /\ backups \in Seq(Call) /\ local \in [Doc -> Nat]
      /\ Len(backups) \in Nat
  BY ListFacts, Zenon DEF CoreInv, TypeInv
<1>1. backups' = Append(backups, NewBackup) /\ UNCHANGED <<queue, done, local>>
  BY DEF Beside, BackupData, clientVars
<1>2. NewBackup \in Call /\ \A c \in Collections : NewBackup.deleted[c] = 0
  BY <1>0, NewFacts, Zenon
<1>3. Len(backups') = Len(backups) + 1 /\ backups'[Len(backups) + 1] = NewBackup
  BY <1>0, <1>1, <1>2, AppendFacts
<1>4. ASSUME NEW cb, cb # Nil, Served(cb, Len(backups))
      PROVE  ~Own(cb, Len(backups) + 1)
  BY <1>0, <1>4 DEF Served, Own
<1>5. \A i \in 1 .. Len(queue) : ~Own(queue[i].cb, Len(backups) + 1)
  BY <1>0, <1>4 DEF TypeInv, Own
<1>6. \A i \in 1 .. Len(done) : ~Own(done[i].cb, Len(backups) + 1)
  BY <1>0, <1>4 DEF TypeInv, Own
<1>7. Before(queue, local, Len(backups) + 1)
  BY <1>5 DEF Before
<1>8. ~Begun(NewBackup, done, Len(backups) + 1)
  BY <1>2, <1>6 DEF Begun
<1> QED
  BY <1>0, <1>1, <1>3, <1>7, <1>8 DEF DeletionInv

LEMMA DeletionNext ==
  ASSUME CoreInv, CoversInv, ToldInv, DeletionInv, [EditNext]_allVars
  PROVE  DeletionInv'
<1>0. CoreInv' /\ done \in Seq(Reply)
  BY CoreNext, Zenon DEF CoreInv, TypeInv
<1>1. ASSUME UNCHANGED <<queue, done, local, backups>>
      PROVE  DeletionInv'
  BY <1>1, DeletionQuiet
<1>2. CASE LinkReturns \/ \E o \in Doc : UpdateObject(o) \/ DeleteObject(o)
  BY <1>0, <1>2, MergeShape, DeletionMerged
<1>3. CASE OnRecordDone
  <2>1. done # <<>> /\ done' = Tail(done) /\ UNCHANGED <<queue, local, backups>>
    BY <1>3 DEF OnRecordDone
  <2>2. /\ \A i \in 1 .. Len(done') : i + 1 \in 2 .. Len(done) /\ done'[i] = done[i + 1]
        /\ Len(done) \in Nat
    BY <1>0, <2>1, TailFacts
  <2>3. \A i \in 1 .. Len(done') : i + 1 \in 1 .. Len(done) /\ done[i + 1].cb = done'[i].cb
    BY <2>2
  <2> QED
    BY <2>1, <2>3, DeletionQuiet
<1>4. CASE OnBackupAnswer
  BY <1>4, AnswerShape, DeletionAnswered
<1>5. CASE Relaunch \/ ReadDeleted
  <2>1. Len(backups') = 0
    BY <1>5, LaunchShape DEF LaunchedBy
  <2> QED
    BY <2>1 DEF DeletionInv
<1>6. CASE Beside(BackupData)
  BY <1>6, DeletionNew
<1>7. CASE Beside(Fetch)
  BY <1>7, DeletionFetch
<1>8. CASE Beside(Told)
  <2>1. UNCHANGED <<queue, done, local>>
    BY <1>8, ToldShape DEF clientVars
  <2> QED
    BY <1>8, <2>1, ToldShape, DeletionQuiet DEF Alike
<1>9. CASE Beside(ClientPersist \/ ClientApply \/ ClientAck \/ ClientReject)
  <2>1. /\ UNCHANGED <<local, backups>>
        /\ UNCHANGED <<queue, done>> \/ \E ok \in BOOLEAN : Finish(ok) /\ queue # <<>>
    BY <1>9, ClientShape, Zenon
  <2> QED
    BY <1>1, <2>1, DeletionFinish
<1>10. CASE Beside(link /\ LinkChange)
  BY <1>1, <1>10 DEF Beside, LinkChange
<1>11. CASE UNCHANGED allVars
  BY <1>1, <1>11 DEF allVars, vars, clientVars
<1> QED
  BY <1>2, <1>3, <1>4, <1>5, <1>6, <1>7, <1>8, <1>9, <1>10, <1>11, StepCases

-----------------------------------------------------------------------------
(***************************************************************************)
(* What was added is on the server.                                        *)
(***************************************************************************)

\* The writes that wait for an object whose addition was issued: none deletes
\* it, and none is ahead of the phone.
LEMMA WritesOf ==
  ASSUME CoreInv, VersionInv, DeletionInv, NEW n \in 1 .. Len(backups), n = Len(backups),
         NEW d \in Present(local), Issued(n, CollectionOf(d)),
         NEW i \in 1 .. Len(queue), queue[i].doc = d
  PROVE  /\ queue[i].val # Absent /\ queue[i].val <= local[d]
         /\ d \in outbox \/ queue[i].val = local[d]
<1>0. /\ TypeInv /\ CallsInv /\ queue \in Seq(Write) /\ queue[i] \in Write
      /\ d \in Doc /\ local[d] # Absent
  BY ListFacts, Zenon DEF CoreInv, TypeInv, Present
<1> DEFINE c == CollectionOf(d)
<1>1. c \in Collections /\ d \in c
  BY <1>0, CollectionFacts
<1>2. /\ backups[n].cloud[c] # Nil /\ backups[n].cloud[c] # {}
      /\ backups[n].deleted[c] = Cardinality(backups[n].cloud[c])
  BY DEF Issued
<1>3. backups[n].cloud[c] \in SUBSET Doc /\ Cardinality(backups[n].cloud[c]) \in Nat
      /\ n \in Nat
  BY <1>0, <1>1, <1>2, CallFacts
<1> HIDE DEF c
<1>4. backups[n].deleted[c] > 0
  <2>1. Cardinality(backups[n].cloud[c]) # 0
    BY <1>2, <1>3, DocSets, FS_EmptySet
  <2> QED
    BY <1>2, <1>3, <2>1
<1>5. Gone(queue, local, n)
  BY <1>1, <1>4 DEF DeletionInv, Begun
<1>6. Fit(queue[i], local, outbox)
  BY DEF VersionInv, Sound
<1>7. ASSUME queue[i].val = Absent
      PROVE  FALSE
  <2>1. Own(queue[i].cb, n)
    BY <1>0, <1>5, <1>7 DEF Gone, Foreign
  <2>2. /\ queue[i].cb \in Callback /\ queue[i].cb # Nil /\ queue[i].cb.op = "delete"
        /\ queue[i].cb.run = n /\ queue[i].cb.doc = d
    BY <1>0, <1>6, <2>1 DEF Own, Fit, Write
  <2>3. queue[i].cb = Del(n, d)
    BY <2>2, WriteTask DEF Writes
  <2>4. Waiting(Del(n, d))
    BY <2>3 DEF Waiting, Holds
  <2>5. CallInv(n)
    BY <1>0 DEF CallsInv
  <2>6. Loaded(backups[n])
    BY <1>0, <2>4, <2>5 DEF CallInv, WriteInv
  <2>7. backups[n].deleted[c] + Cardinality(Deleting(n, c)) <= Cardinality(backups[n].cloud[c])
    BY <1>1, <2>5, <2>6 DEF CallInv, BudgetInv
  <2>8. Deleting(n, c) \in SUBSET Doc /\ d \in Deleting(n, c)
    BY <1>1, <2>4, CollectionFacts DEF Deleting
  <2>9. Cardinality(Deleting(n, c)) \in Nat /\ Cardinality(Deleting(n, c)) # 0
    BY <2>8, DocSets, FS_EmptySet
  <2> QED
    BY <1>2, <1>3, <2>7, <2>9
<1>8. queue[i].val <= local[d] /\ (d \in outbox \/ queue[i].val = local[d])
  BY <1>0, <1>6, <1>7 DEF Fit
<1> QED
  BY <1>7, <1>8

\* Without a record, or with the answer of its record, every write that waits
\* for the object sends it as it is.
LEMMA SettledWrites ==
  ASSUME CoreInv, VersionInv, DeletionInv, NEW n \in 1 .. Len(backups), n = Len(backups),
         NEW d \in Present(local), Issued(n, CollectionOf(d)),
         Settled(d, done, local, outbox)
  PROVE  \A i \in 1 .. Len(queue) : queue[i].doc = d => queue[i].val = local[d]
<1> SUFFICES ASSUME NEW i \in 1 .. Len(queue), queue[i].doc = d
             PROVE  queue[i].val = local[d]
  OBVIOUS
<1>1. /\ queue[i].val # Absent /\ queue[i].val <= local[d]
      /\ d \in outbox \/ queue[i].val = local[d]
  BY WritesOf
<1>2. CASE d \notin outbox
  BY <1>1, <1>2
<1>3. CASE Recorded(d, done, local)
  <2>1. PICK k \in 1 .. Len(done) :
          done[k].cb.op = "record" /\ done[k].cb.doc = d /\ done[k].cb.val = local[d]
    BY <1>3 DEF Recorded
  <2>2. done[k].cb # Nil
    BY VersionTypes DEF CoreInv
  <2>3. Behind(done[k].cb, queue, local)
    BY <2>1, <2>2 DEF VersionInv, OfRecord
  <2>4. local[d] <= queue[i].val
    BY <1>1, <2>1, <2>3 DEF Behind
  <2>5. queue[i].val \in Nat /\ local[d] \in Nat
    BY VersionTypes DEF CoreInv, Present
  <2> QED
    BY <1>1, <2>4, <2>5
<1> QED
  BY <1>2, <1>3 DEF Settled

\* What is to be shown of the last backup, and where it was shown before.
LEMMA AddedGoal ==
  ASSUME Len(backups') \in Nat,
         ASSUME NEW n \in 1 .. Len(backups'), n = Len(backups'),
                ~Failed(backups'[n], done', n),
                NEW d \in Doc, local'[d] # Absent, Issued(n, CollectionOf(d))',
                ~Holds(queue', Add(n, d)), Settled(d, done', local', outbox')
         PROVE  server'[d] = local'[d]
  PROVE  AddedInv'
BY DEF AddedInv, Present

LEMMA AddedUse ==
  ASSUME AddedInv, NEW n \in 1 .. Len(backups), n = Len(backups),
         ~Failed(backups[n], done, n),
         NEW d \in Doc, local[d] # Absent, Issued(n, CollectionOf(d)),
         ~Holds(queue, Add(n, d)), Settled(d, done, local, outbox)
  PROVE  server[d] = local[d]
BY DEF AddedInv, Present

LEMMA IssuedAlike ==
  ASSUME NEW n, Alike(backups'[n], backups[n])
  PROVE  \A c : Issued(n, c)' <=> Issued(n, c)
BY DEF Issued, Alike

\* A failure is not forgotten.
LEMMA FailedKept ==
  ASSUME NEW x, NEW y, NEW s, NEW t, NEW n, x.told = "error" => y.told = "error",
         \A i \in 1 .. Len(s) : ~s[i].ok /\ s[i].cb.op # "record" /\ s[i].cb.run = n =>
           y.told = "error" \/ \E j \in 1 .. Len(t) : t[j] = s[i]
  PROVE  Failed(x, s, n) => Failed(y, t, n)
<1> SUFFICES ASSUME Failed(x, s, n)
             PROVE  Failed(y, t, n)
  OBVIOUS
<1>1. CASE x.told = "error"
  BY <1>1 DEF Failed
<1>2. CASE \E i \in 1 .. Len(s) : ~s[i].ok /\ s[i].cb.op # "record" /\ s[i].cb.run = n
  <2>1. PICK i \in 1 .. Len(s) : ~s[i].ok /\ s[i].cb.op # "record" /\ s[i].cb.run = n
    BY <1>2
  <2>2. CASE y.told = "error"
    BY <2>2 DEF Failed
  <2>3. CASE \E j \in 1 .. Len(t) : t[j] = s[i]
    BY <2>1, <2>3, Zenon DEF Failed
  <2> QED
    BY <2>1, <2>2, <2>3
<1> QED
  BY <1>1, <1>2 DEF Failed

\* Answers of records that were there before.
LEMMA RecordedKept ==
  ASSUME NEW d, NEW db, NEW box, NEW s, NEW t,
         \A i \in 1 .. Len(t) : t[i].cb.op = "record" => \E j \in 1 .. Len(s) : s[j] = t[i]
  PROVE  Settled(d, t, db, box) => Settled(d, s, db, box)
<1> SUFFICES ASSUME Recorded(d, t, db)
             PROVE  Recorded(d, s, db)
  BY DEF Settled
<1>1. PICK i \in 1 .. Len(t) :
        t[i].ok /\ t[i].cb.op = "record" /\ t[i].cb.doc = d /\ t[i].cb.val = db[d]
  BY DEF Recorded
<1>2. PICK j \in 1 .. Len(s) : s[j] = t[i]
  BY <1>1
<1> QED
  BY <1>1, <1>2, Zenon DEF Recorded

LEMMA AddedMerged ==
  ASSUME CoreInv, CoreInv', VersionInv, AddedInv, NEW writes \in Seq(Write),
         MergedBy(writes)
  PROVE  AddedInv'
<1>1. /\ queue \in Seq(Write) /\ Len(backups) \in Nat /\ edits \in Nat
      /\ local \in [Doc -> Nat]
  BY ListFacts, VersionTypes DEF CoreInv
<1>2. /\ queue' = queue \o writes /\ done' = done /\ server' = server
      /\ Len(backups') = Len(backups)
      /\ \A b \in 1 .. Len(backups) : Same(backups'[b], backups[b])
      /\ outbox \subseteq outbox'
      /\ \A d \in Doc :
           \/ local'[d] = local[d]
           \/ /\ d \in outbox'
              /\ local'[d] = Absent \/ (local[d] # Absent /\ local'[d] = 3 + edits)
  BY DEF MergedBy
<1>3. ASSUME NEW n \in 1 .. Len(backups'), n = Len(backups'),
             ~Failed(backups'[n], done', n),
             NEW d \in Doc, local'[d] # Absent, Issued(n, CollectionOf(d))',
             ~Holds(queue', Add(n, d)), Settled(d, done', local', outbox')
      PROVE  server'[d] = local'[d]
  <2>1. n \in 1 .. Len(backups) /\ n = Len(backups) /\ Same(backups'[n], backups[n])
    BY <1>2, <1>3
  <2>2. ~Failed(backups[n], done, n)
    BY <1>2, <1>3, <2>1 DEF Failed, Same
  <2>3. Issued(n, CollectionOf(d))
    BY <1>3, <2>1, IssuedAlike DEF Alike, Same
  <2>4. ~Holds(queue, Add(n, d))
    BY <1>1, <1>2, <1>3, ConcatHolds
  <2>5. local'[d] = local[d]
    <3> SUFFICES ASSUME local'[d] # local[d]
                 PROVE  FALSE
      OBVIOUS
    <3>1. d \in outbox' /\ local[d] # Absent /\ local'[d] = 3 + edits
      BY <1>2, <1>3
    <3>2. PICK i \in 1 .. Len(done) :
            done[i].cb.op = "record" /\ done[i].cb.doc = d /\ done[i].cb.val = local'[d]
      BY <1>2, <1>3, <3>1 DEF Settled, Recorded
    <3>3. done[i].cb # Nil
      BY VersionTypes, Zenon DEF CoreInv
    <3>4. Behind(done[i].cb, queue, local)
      BY <3>2, <3>3 DEF VersionInv, OfRecord
    <3>5. 3 + edits <= local[d]
      BY <3>1, <3>2, <3>4 DEF Behind
    <3>6. local[d] < 3 + edits /\ local[d] \in Nat
      BY <1>1 DEF VersionInv
    <3> QED
      BY <1>1, <3>5, <3>6
  <2>6. Settled(d, done, local, outbox)
    BY <1>2, <1>3, <2>5 DEF Settled, Recorded
  <2>7. server[d] = local[d]
    BY <1>3, <2>1, <2>2, <2>3, <2>4, <2>5, <2>6, AddedUse
  <2> QED
    BY <1>2, <2>5, <2>7
<1> QED
  BY <1>1, <1>2, <1>3, AddedGoal, Zenon

\* The queue stays, and the calls have found, deleted and failed as before.
LEMMA AddedQuiet ==
  ASSUME Len(backups) \in Nat, AddedInv, UNCHANGED <<server, queue, local>>,
         Len(backups') = Len(backups),
         \A i \in 1 .. Len(backups) : Alike(backups'[i], backups[i]),
         \A n \in 1 .. Len(backups) :
           Failed(backups[n], done, n) => Failed(backups'[n], done', n),
         \A d \in Doc : Settled(d, done', local, outbox') => Settled(d, done, local, outbox)
  PROVE  AddedInv'
<1>1. ASSUME NEW n \in 1 .. Len(backups'), n = Len(backups'),
             ~Failed(backups'[n], done', n),
             NEW d \in Doc, local'[d] # Absent, Issued(n, CollectionOf(d))',
             ~Holds(queue', Add(n, d)), Settled(d, done', local', outbox')
      PROVE  server'[d] = local'[d]
  <2>1. n \in 1 .. Len(backups) /\ n = Len(backups) /\ Alike(backups'[n], backups[n])
    BY <1>1
  <2>2. server' = server /\ queue' = queue /\ local' = local
    OBVIOUS
  <2>3. Issued(n, CollectionOf(d)) /\ ~Failed(backups[n], done, n)
    BY <1>1, <2>1, IssuedAlike
  <2>4. ~Holds(queue, Add(n, d)) /\ Settled(d, done, local, outbox) /\ local[d] # Absent
    BY <1>1, <2>2
  <2>5. server[d] = local[d]
    BY <2>1, <2>3, <2>4, AddedUse
  <2> QED
    BY <2>2, <2>5
<1> QED
  BY <1>1, AddedGoal, Zenon

LEMMA AddedRecordDone ==
  ASSUME CoreInv, AddedInv, OnRecordDone
  PROVE  AddedInv'
<1>0. done \in Seq(Reply) /\ Len(backups) \in Nat
  BY ListFacts DEF CoreInv, TypeInv
<1>1. /\ done # <<>> /\ Head(done).cb.op = "record" /\ done' = Tail(done)
      /\ UNCHANGED <<server, queue, local, backups>>
      /\ outbox' = IF Head(done).ok /\ local[Head(done).cb.doc] = Head(done).cb.val
                   THEN outbox \ {Head(done).cb.doc} ELSE outbox
  BY DEF OnRecordDone
<1>2. /\ \A i \in 1 .. Len(done') : i + 1 \in 2 .. Len(done) /\ done'[i] = done[i + 1]
      /\ \A i \in 2 .. Len(done) : i - 1 \in 1 .. Len(done') /\ done'[i - 1] = done[i]
      /\ Head(done) = done[1] /\ 1 \in 1 .. Len(done) /\ Len(done) \in Nat
  BY <1>0, <1>1, TailFacts
<1>3. ASSUME NEW n \in 1 .. Len(backups)
      PROVE  Failed(backups[n], done, n) => Failed(backups'[n], done', n)
  <2>1. ASSUME NEW i \in 1 .. Len(done), done[i].cb.op # "record"
        PROVE  \E j \in 1 .. Len(done') : done'[j] = done[i]
    <3>1. i # 1
      BY <1>1, <1>2, <2>1
    <3>2. i \in 2 .. Len(done)
      BY <1>2, <3>1
    <3> QED
      BY <1>2, <3>2
  <2>2. \A i \in 1 .. Len(done) :
          ~done[i].ok /\ done[i].cb.op # "record" /\ done[i].cb.run = n =>
            backups'[n].told = "error" \/ \E j \in 1 .. Len(done') : done'[j] = done[i]
    BY <2>1, Zenon
  <2>3. backups'[n] = backups[n]
    BY <1>1
  <2> QED
    BY <2>2, <2>3, FailedKept, Zenon
<1>4. ASSUME NEW d \in Doc, Settled(d, done', local, outbox')
      PROVE  Settled(d, done, local, outbox)
  <2>1. \A i \in 1 .. Len(done') : i + 1 \in 1 .. Len(done) /\ done[i + 1] = done'[i]
    BY <1>2
  <2>2. Settled(d, done, local, outbox')
    BY <1>4, <2>1, RecordedKept
  <2>3. CASE d \in outbox => d \in outbox'
    BY <2>2, <2>3 DEF Settled
  <2>4. CASE d \in outbox /\ d \notin outbox'
    <3>1. done[1].ok /\ done[1].cb.doc = d /\ done[1].cb.val = local[d]
      BY <1>1, <1>2, <2>4
    <3> QED
      BY <1>1, <1>2, <3>1 DEF Settled, Recorded
  <2> QED
    BY <2>3, <2>4
<1> QED
  BY <1>0, <1>1, <1>3, <1>4, AddedQuiet, Zenon DEF Alike

LEMMA AddedFetch ==
  ASSUME CoreInv, AddedInv, Beside(Fetch)
  PROVE  AddedInv'
<1>0. done \in Seq(Reply) /\ Len(backups) \in Nat
  BY ListFacts DEF CoreInv, TypeInv
<1>1. /\ UNCHANGED <<server, queue, local, outbox>>
      /\ Len(backups') = Len(backups)
      /\ \A i \in 1 .. Len(backups) :
           Alike(backups'[i], backups[i]) /\ backups'[i].told = backups[i].told
  BY FetchShape
<1>2. PICK r \in Reply : done' = Append(done, r) /\ r.cb.op = "fetch"
  BY FetchShape
<1>3. /\ Len(done') = Len(done) + 1 /\ Len(done) \in Nat
      /\ \A i \in 1 .. Len(done) : done'[i] = done[i]
      /\ done'[Len(done) + 1] = r
  BY <1>0, <1>2, AppendFacts, SeqFacts
<1>4. \A i \in 1 .. Len(done) : i \in 1 .. Len(done') /\ done'[i] = done[i]
  BY <1>3
<1>5. ASSUME NEW n \in 1 .. Len(backups)
      PROVE  Failed(backups[n], done, n) => Failed(backups'[n], done', n)
  BY <1>1, <1>4, FailedKept
<1>6. ASSUME NEW i \in 1 .. Len(done'), done'[i].cb.op = "record"
      PROVE  \E j \in 1 .. Len(done) : done[j] = done'[i]
  <2>1. i # Len(done) + 1
    BY <1>2, <1>3, <1>6
  <2>2. i \in 1 .. Len(done)
    BY <1>3, <2>1
  <2> QED
    BY <1>3, <2>2
<1>7. ASSUME NEW d \in Doc, Settled(d, done', local, outbox')
      PROVE  Settled(d, done, local, outbox)
  <2>1. Settled(d, done, local, outbox')
    BY <1>6, <1>7, RecordedKept
  <2> QED
    BY <1>1, <2>1
<1> QED
  BY <1>0, <1>1, <1>5, <1>7, AddedQuiet

LEMMA AddedTold ==
  ASSUME CoreInv, AddedInv, Beside(Told)
  PROVE  AddedInv'
<1>0. Len(backups) \in Nat
  BY ListFacts DEF CoreInv
<1>1. /\ UNCHANGED <<server, queue, done, local, outbox>>
      /\ Len(backups') = Len(backups)
      /\ \A i \in 1 .. Len(backups) :
           /\ Alike(backups'[i], backups[i])
           /\ \/ backups'[i].told = backups[i].told
              \/ backups'[i].told = "success" /\ Full(backups[i])
  BY ToldShape DEF clientVars
<1>2. ASSUME NEW n \in 1 .. Len(backups)
      PROVE  Failed(backups[n], done, n) => Failed(backups'[n], done', n)
  <2>1. backups[n].told = "error" => backups'[n].told = "error"
    BY <1>1, FullFacts
  <2> QED
    BY <1>1, <2>1, FailedKept
<1> QED
  BY <1>0, <1>1, <1>2, AddedQuiet

\* The last deletion of a collection issues the additions of its objects.
LEMMA AddedAnswered ==
  ASSUME CoreInv, MineInv, AddedInv, NEW b, NEW writes \in Seq(Write),
         AnsweredBy(b, writes)
  PROVE  AddedInv'
<1>0. /\ queue \in Seq(Write) /\ done \in Seq(Reply) /\ Len(backups) \in Nat
  BY ListFacts, VersionTypes DEF CoreInv
<1>1. /\ b \in 1 .. Len(backups) /\ done # <<>> /\ done' = Tail(done)
      /\ b = done[1].cb.run /\ done[1].cb.op # "record"
      /\ local' = local /\ server' = server /\ outbox' = outbox
      /\ queue' = queue \o writes /\ Len(backups') = Len(backups)
      /\ \A i \in 1 .. Len(backups) : i # b => Same(backups'[i], backups[i])
      /\ backups'[b].told \in {backups[b].told, "error"}
      /\ ~done[1].ok => backups'[b].told = "error"
      /\ \A c \in Collections :
           Issued(b, c)' =>
             Issued(b, c) \/ \A d \in backups[b].mine \cap c : Holds(queue', Add(b, d))
  BY DEF AnsweredBy, Serving
<1>2. /\ \A i \in 1 .. Len(done') : i + 1 \in 2 .. Len(done) /\ done'[i] = done[i + 1]
      /\ \A i \in 2 .. Len(done) : i - 1 \in 1 .. Len(done') /\ done'[i - 1] = done[i]
      /\ 1 \in 1 .. Len(done) /\ Len(done) \in Nat
  BY <1>0, <1>1, TailFacts
<1>3. ASSUME NEW n \in 1 .. Len(backups)
      PROVE  Failed(backups[n], done, n) => Failed(backups'[n], done', n)
  <2>1. backups[n].told = "error" => backups'[n].told = "error"
    <3>1. CASE n = b
      BY <1>1, <3>1
    <3>2. CASE n # b
      BY <1>1, <3>2 DEF Same
    <3> QED
      BY <3>1, <3>2
  <2>2. ASSUME NEW i \in 1 .. Len(done), ~done[i].ok, done[i].cb.run = n
        PROVE  backups'[n].told = "error" \/ \E j \in 1 .. Len(done') : done'[j] = done[i]
    <3>1. CASE i = 1
      BY <1>1, <2>2, <3>1
    <3>2. CASE i # 1
      <4>1. i \in 2 .. Len(done)
        BY <1>2, <3>2
      <4> QED
        BY <1>2, <4>1, Zenon
    <3> QED
      BY <3>1, <3>2
  <2> QED
    BY <2>1, <2>2, FailedKept, Zenon
<1>4. ASSUME NEW n \in 1 .. Len(backups'), n = Len(backups'),
             ~Failed(backups'[n], done', n),
             NEW d \in Doc, local'[d] # Absent, Issued(n, CollectionOf(d))',
             ~Holds(queue', Add(n, d)), Settled(d, done', local', outbox')
      PROVE  server'[d] = local'[d]
  <2>1. n \in 1 .. Len(backups) /\ n = Len(backups)
    BY <1>1, <1>4
  <2>2. ~Failed(backups[n], done, n)
    BY <1>3, <1>4, <2>1
  <2>3. Issued(n, CollectionOf(d))
    <3>1. CASE n # b
      BY <1>1, <1>4, <2>1, <3>1, IssuedAlike, Zenon DEF Same, Alike
    <3>2. CASE n = b
      <4>1. d \in backups[b].mine /\ d \in CollectionOf(d) /\ CollectionOf(d) \in Collections
        BY <1>1, <1>4, CollectionFacts DEF MineInv, Present
      <4>2. ~Holds(queue', Add(b, d)) /\ Issued(b, CollectionOf(d))'
        BY <1>4, <3>2
      <4>3. Issued(b, CollectionOf(d))
        BY <1>1, <4>1, <4>2
      <4> QED
        BY <3>2, <4>3
    <3> QED
      BY <3>1, <3>2
  <2>4. ~Holds(queue, Add(n, d))
    BY <1>0, <1>1, <1>4, ConcatHolds
  <2>5. \A i \in 1 .. Len(done') : i + 1 \in 1 .. Len(done) /\ done[i + 1] = done'[i]
    BY <1>2
  <2>6. Settled(d, done', local, outbox)
    BY <1>1, <1>4
  <2>7. Settled(d, done, local, outbox)
    BY <2>5, <2>6, RecordedKept
  <2>8. server[d] = local[d]
    BY <1>1, <1>4, <2>1, <2>2, <2>3, <2>4, <2>7, AddedUse
  <2> QED
    BY <1>1, <2>8
<1> QED
  BY <1>0, <1>1, <1>4, AddedGoal, ZenonT(40)

LEMMA AddedApply ==
  ASSUME CoreInv, VersionInv, DeletionInv, AddedInv, Apply,
         UNCHANGED <<local, outbox, backups>>
  PROVE  AddedInv'
<1>1. /\ Len(backups) \in Nat /\ Len(queue) \in Nat /\ applied \in Nat /\ persisted \in Nat
      /\ applied <= persisted /\ persisted <= Len(queue) /\ server \in [Doc -> Nat]
      /\ \A i \in 1 .. Len(queue) : queue[i].doc \in Doc
  BY ListFacts, VersionTypes DEF CoreInv
<1> DEFINE w == queue[applied + 1]
<1>2. /\ applied < persisted /\ queue' = queue /\ done' = done
      /\ server' = [server EXCEPT ![w.doc] = w.val]
  BY DEF Apply
<1>3. applied + 1 \in 1 .. Len(queue)
  BY <1>1, <1>2
<1>4. \A d \in Doc : server'[d] = IF d = w.doc THEN w.val ELSE server[d]
  BY <1>1, <1>2, <1>3
<1> HIDE DEF w
<1>5. ASSUME NEW n \in 1 .. Len(backups'), n = Len(backups'),
             ~Failed(backups'[n], done', n),
             NEW d \in Doc, local'[d] # Absent, Issued(n, CollectionOf(d))',
             ~Holds(queue', Add(n, d)), Settled(d, done', local', outbox')
      PROVE  server'[d] = local'[d]
  <2>1. /\ n \in 1 .. Len(backups) /\ n = Len(backups) /\ ~Failed(backups[n], done, n)
        /\ d \in Present(local) /\ local[d] # Absent /\ Settled(d, done, local, outbox)
        /\ ~Holds(queue, Add(n, d))
    BY <1>2, <1>5 DEF Present
  <2>2. Issued(n, CollectionOf(d))
    BY <1>5 DEF Issued
  <2>3. server[d] = local[d]
    BY <2>1, <2>2, AddedUse
  <2>4. w.doc = d => w.val = local[d]
    BY <1>3, <2>1, <2>2, SettledWrites DEF w
  <2> QED
    BY <1>4, <2>3, <2>4
<1>6. Len(backups') \in Nat
  BY <1>1
<1> QED
  BY <1>5, <1>6, AddedGoal, Zenon

LEMMA AddedReject ==
  ASSUME CoreInv, AddedInv, Finish(FALSE), queue # <<>>,
         UNCHANGED <<server, local, outbox, backups>>
  PROVE  AddedInv'
<1>0. /\ TypeInv /\ OnceInv /\ queue \in Seq(Write) /\ Len(backups) \in Nat
      /\ Len(done) \in Nat
  BY ListFacts, VersionTypes DEF CoreInv
<1>1. /\ queue[1].cb = Nil => done' = done
      /\ queue[1].cb # Nil => /\ Len(done') = Len(done) + 1
                              /\ done'[Len(done) + 1] = [cb |-> queue[1].cb, ok |-> FALSE]
      /\ \A i \in 1 .. Len(done) : done'[i] = done[i]
      /\ queue' = Tail(queue) /\ Head(queue) = queue[1]
  BY <1>0, FinishFacts, TailFacts, Zenon DEF Finish
<1>2. \A i \in 1 .. Len(done) : i \in 1 .. Len(done') /\ done'[i] = done[i]
  BY <1>0, <1>1
<1>3. ASSUME NEW n \in 1 .. Len(backups'), n = Len(backups'),
             ~Failed(backups'[n], done', n),
             NEW d \in Doc, local'[d] # Absent, Issued(n, CollectionOf(d))',
             ~Holds(queue', Add(n, d)), Settled(d, done', local', outbox')
      PROVE  server'[d] = local'[d]
  <2>1. /\ n \in 1 .. Len(backups) /\ n = Len(backups) /\ local[d] # Absent /\ n \in Nat
        /\ Settled(d, done', local, outbox) /\ ~Failed(backups[n], done', n)
    BY <1>0, <1>3
  <2>2. ~Failed(backups[n], done, n)
    BY <1>2, <2>1, FailedKept
  <2>3. Issued(n, CollectionOf(d))
    BY <1>3 DEF Issued
  <2>4. ~Holds(queue, Add(n, d))
    <3> SUFFICES ASSUME Holds(queue, Add(n, d))
                 PROVE  FALSE
      OBVIOUS
    <3>1. queue[1].cb = Add(n, d)
      BY <1>0, <1>1, <1>3, TailHolds
    <3>2. Add(n, d) # Nil /\ Add(n, d).op = "add" /\ Add(n, d).run = n
      BY <2>1, TaskFacts
    <3>3. Len(done) + 1 \in 1 .. Len(done')
      BY <1>0, <1>1, <3>1, <3>2
    <3>4. /\ ~done'[Len(done) + 1].ok /\ done'[Len(done) + 1].cb.op # "record"
          /\ done'[Len(done) + 1].cb.run = n
      BY <1>1, <3>1, <3>2
    <3> QED
      BY <2>1, <3>3, <3>4, Zenon DEF Failed
  <2>5. Settled(d, done, local, outbox)
    <3> SUFFICES ASSUME Recorded(d, done', local)
                 PROVE  Recorded(d, done, local)
      BY <2>1 DEF Settled
    <3>1. PICK i \in 1 .. Len(done') :
            /\ done'[i].ok /\ done'[i].cb.op = "record" /\ done'[i].cb.doc = d
            /\ done'[i].cb.val = local[d]
      BY DEF Recorded
    <3>2. i \in 1 .. Len(done)
      <4> SUFFICES ASSUME i \notin 1 .. Len(done)
                   PROVE  FALSE
        OBVIOUS
      <4>1. queue[1].cb # Nil /\ i = Len(done) + 1
        BY <1>0, <1>1
      <4>2. done'[i].ok = FALSE
        BY <1>1, <4>1
      <4> QED
        BY <3>1, <4>2
    <3>3. done'[i] = done[i]
      BY <1>2, <3>2
    <3> QED
      BY <3>1, <3>2, <3>3, Zenon DEF Recorded
  <2>6. server[d] = local[d]
    BY <2>1, <2>2, <2>3, <2>4, <2>5, AddedUse
  <2> QED
    BY <2>6
<1>4. Len(backups') \in Nat
  BY <1>0
<1> QED
  BY <1>3, <1>4, AddedGoal, Zenon

\* The acknowledgement of the addition or of the record of an object: the server
\* has applied it, and what it applied after it was the same.
LEMMA AddedAck ==
  ASSUME CoreInv, VersionInv, AppliedInv, DeletionInv, AddedInv, Acknowledge,
         Finish(TRUE), queue # <<>>, UNCHANGED <<local, outbox, backups>>
  PROVE  AddedInv'
<1>0. /\ TypeInv /\ OnceInv /\ queue \in Seq(Write) /\ Len(backups) \in Nat
      /\ Len(done) \in Nat /\ Len(queue) \in Nat /\ applied \in Nat /\ persisted \in Nat
      /\ applied <= persisted /\ persisted <= Len(queue) /\ local \in [Doc -> Nat]
      /\ \A i \in 1 .. Len(queue) : queue[i].val \in Nat
  BY ListFacts, VersionTypes DEF CoreInv
<1>1. /\ queue[1].cb = Nil => done' = done
      /\ queue[1].cb # Nil => /\ Len(done') = Len(done) + 1
                              /\ done'[Len(done) + 1] = [cb |-> queue[1].cb, ok |-> TRUE]
      /\ \A i \in 1 .. Len(done) : done'[i] = done[i]
      /\ queue' = Tail(queue) /\ Head(queue) = queue[1] /\ 1 \in 1 .. Len(queue)
  BY <1>0, FinishFacts, TailFacts, Zenon DEF Finish
<1>2. \A i \in 1 .. Len(done) : i \in 1 .. Len(done') /\ done'[i] = done[i]
  <2>1. Len(done') = Len(done) \/ Len(done') = Len(done) + 1
    BY <1>1
  <2>2. \A i \in 1 .. Len(done) : i \in 1 .. Len(done')
    BY <1>0, <2>1
  <2> QED
    BY <1>1, <2>2
<1>3. applied > 0 /\ server' = server
  BY DEF Acknowledge
<1>4. Sound(queue, local, outbox) /\ Fit(queue[1], local, outbox)
  BY <1>1 DEF VersionInv, Sound
<1>5. ASSUME NEW n \in 1 .. Len(backups'), n = Len(backups'),
             ~Failed(backups'[n], done', n),
             NEW d \in Doc, local'[d] # Absent, Issued(n, CollectionOf(d))',
             ~Holds(queue', Add(n, d)), Settled(d, done', local', outbox')
      PROVE  server'[d] = local'[d]
  <2> SUFFICES server[d] = local[d]
    BY <1>3
  <2>1. /\ n \in 1 .. Len(backups) /\ n = Len(backups) /\ local[d] # Absent /\ n \in Nat
        /\ Settled(d, done', local, outbox) /\ ~Failed(backups[n], done', n)
        /\ d \in Present(local)
    BY <1>0, <1>5 DEF Present
  <2>2. ~Failed(backups[n], done, n)
    BY <1>2, <2>1, FailedKept
  <2>3. Issued(n, CollectionOf(d))
    BY <1>5 DEF Issued
  <2>4. ASSUME queue[1].doc = d,
               \A k \in 1 .. Len(queue) : queue[k].doc = d => queue[k].val = local[d]
        PROVE  server[d] = local[d]
    <3>1. 1 \in 1 .. applied
      BY <1>0, <1>3
    <3>2. ASSUME NEW k \in 1 .. applied, queue[k].doc = queue[1].doc
          PROVE  queue[k].val = queue[1].val
      <4>1. k \in 1 .. Len(queue)
        BY <1>0
      <4> QED
        BY <1>1, <2>4, <3>2, <4>1
    <3>3. server[queue[1].doc] = queue[1].val
      BY <3>1, <3>2 DEF AppliedInv
    <3> QED
      BY <1>1, <2>4, <3>3
  <2>5. CASE Settled(d, done, local, outbox) /\ ~Holds(queue, Add(n, d))
    BY <2>1, <2>2, <2>3, <2>5, AddedUse
  <2>6. CASE Settled(d, done, local, outbox) /\ Holds(queue, Add(n, d))
    <3>1. queue[1].cb = Add(n, d)
      BY <1>0, <1>1, <1>5, <2>6, TailHolds
    <3>2. queue[1].cb # Nil /\ queue[1].cb.doc = d
      BY <2>1, <3>1, TaskFacts
    <3>3. queue[1].doc = d
      BY <1>4, <3>2 DEF Fit
    <3>4. \A k \in 1 .. Len(queue) : queue[k].doc = d => queue[k].val = local[d]
      BY <2>1, <2>3, <2>6, SettledWrites
    <3> QED
      BY <2>4, <3>3, <3>4
  <2>7. CASE ~Settled(d, done, local, outbox)
    <3>1. d \in outbox /\ Recorded(d, done', local) /\ ~Recorded(d, done, local)
      BY <2>1, <2>7 DEF Settled
    <3>2. PICK i \in 1 .. Len(done') :
            /\ done'[i].ok /\ done'[i].cb.op = "record" /\ done'[i].cb.doc = d
            /\ done'[i].cb.val = local[d]
      BY <3>1 DEF Recorded
    <3>3. i \notin 1 .. Len(done)
      <4> SUFFICES ASSUME i \in 1 .. Len(done)
                   PROVE  FALSE
        OBVIOUS
      <4>1. done'[i] = done[i]
        BY <1>2
      <4> QED
        BY <3>1, <3>2, <4>1, Zenon DEF Recorded
    <3>4. queue[1].cb # Nil /\ i = Len(done) + 1
      BY <1>0, <1>1, <3>3
    <3>5. done'[i].cb = queue[1].cb
      BY <1>1, <3>4
    <3>6. queue[1].cb.op = "record" /\ queue[1].cb.doc = d /\ queue[1].cb.val = local[d]
      BY <3>2, <3>5, Zenon
    <3>7. queue[1].doc = d /\ queue[1].val = local[d]
      BY <1>4, <3>4, <3>6 DEF Fit, OfRecord
    <3>8. ASSUME NEW k \in 1 .. Len(queue), queue[k].doc = d
          PROVE  queue[k].val = local[d]
      <4>1. queue[k].val # Absent /\ queue[k].val <= local[d]
        BY <2>1, <2>3, <3>8, WritesOf
      <4>2. 1 <= k
        OBVIOUS
      <4>3. queue[1].val <= queue[k].val
        BY <1>1, <1>4, <3>7, <3>8, <4>1, <4>2 DEF Sound
      <4> QED
        BY <1>0, <3>7, <4>1, <4>3
    <3> QED
      BY <2>4, <3>7, <3>8
  <2> QED
    BY <2>5, <2>6, <2>7
<1>6. Len(backups') \in Nat
  BY <1>0
<1> QED
  BY <1>5, <1>6, AddedGoal, Zenon

\* A new backup has found nothing, so that nothing was issued.
LEMMA AddedNew ==
  ASSUME CoreInv, Beside(BackupData)
  PROVE  AddedInv'
<1>0. /\ backups \in Seq(Call) /\ local \in [Doc -> Nat] /\ Len(backups) \in Nat
  BY ListFacts DEF CoreInv, TypeInv
<1>1. backups' = Append(backups, NewBackup)
  BY DEF Beside, BackupData
<1>2. NewBackup \in Call /\ \A c \in Collections : NewBackup.cloud[c] = Nil
  BY <1>0, NewFacts, Zenon
<1>3. Len(backups') = Len(backups) + 1 /\ backups'[Len(backups) + 1] = NewBackup
  BY <1>0, <1>1, <1>2, AppendFacts
<1>4. ASSUME NEW n, n = Len(backups'), NEW d \in Doc
      PROVE  ~Issued(n, CollectionOf(d))'
  <2>1. backups'[n] = NewBackup /\ CollectionOf(d) \in Collections
    BY <1>3, <1>4, CollectionFacts
  <2> QED
    BY <1>2, <2>1 DEF Issued
<1>5. Len(backups') \in Nat
  BY <1>0, <1>3
<1> QED
  BY <1>4, <1>5, AddedGoal, Zenon

LEMMA AddedNext ==
  ASSUME CoreInv, CoversInv, VersionInv, AppliedInv, MineInv, DeletionInv, AddedInv,
         [EditNext]_allVars
  PROVE  AddedInv'
<1>0. CoreInv' /\ Len(backups) \in Nat
  BY CoreNext, ListFacts DEF CoreInv
<1>1. ASSUME UNCHANGED <<server, queue, done, local, outbox, backups>>
      PROVE  AddedInv'
  BY <1>0, <1>1, AddedQuiet DEF Alike
<1>2. CASE LinkReturns \/ \E o \in Doc : UpdateObject(o) \/ DeleteObject(o)
  BY <1>0, <1>2, MergeShape, AddedMerged
<1>3. CASE OnRecordDone
  BY <1>3, AddedRecordDone
<1>4. CASE OnBackupAnswer
  BY <1>4, AnswerShape, AddedAnswered
<1>5. CASE Relaunch \/ ReadDeleted
  <2>1. Len(backups') = 0
    BY <1>5, LaunchShape DEF LaunchedBy
  <2> QED
    BY <2>1 DEF AddedInv
<1>6. CASE Beside(BackupData)
  BY <1>6, AddedNew
<1>7. CASE Beside(Fetch)
  BY <1>7, AddedFetch
<1>8. CASE Beside(Told)
  BY <1>8, AddedTold
<1>9. CASE Beside(ClientPersist \/ ClientApply \/ ClientAck \/ ClientReject)
  <2>1. /\ UNCHANGED <<local, outbox, backups>>
        /\ \/ ClientPersist /\ UNCHANGED <<server, queue, applied, done>>
           \/ ClientApply
           \/ Acknowledge /\ Finish(TRUE) /\ queue # <<>>
           \/ Reject /\ Finish(FALSE) /\ queue # <<>>
    BY <1>9, ClientShape, Zenon
  <2>2. CASE ClientApply
    BY <2>1, <2>2, AddedApply DEF ClientApply
  <2>3. CASE Acknowledge /\ Finish(TRUE) /\ queue # <<>>
    BY <2>1, <2>3, AddedAck
  <2>4. CASE Reject /\ Finish(FALSE) /\ queue # <<>>
    BY <2>1, <2>4, AddedReject DEF Reject
  <2> QED
    BY <1>1, <2>1, <2>2, <2>3, <2>4, Zenon
<1>10. CASE Beside(link /\ LinkChange)
  BY <1>1, <1>10 DEF Beside, LinkChange, editVars
<1>11. CASE UNCHANGED allVars
  BY <1>1, <1>11 DEF allVars, vars, clientVars, editVars
<1> QED
  BY <1>2, <1>3, <1>4, <1>5, <1>6, <1>7, <1>8, <1>9, <1>10, <1>11, StepCases

-----------------------------------------------------------------------------
\* The invariant behind the last theorem.
DataInv ==
  CoversInv /\ VersionInv /\ AppliedInv /\ MineInv /\ ToldInv /\ DeletionInv /\ AddedInv

LEMMA DataInit ==
  ASSUME EditInit
  PROVE  DataInv
<1>1. /\ queue = <<>> /\ done = <<>> /\ backups = <<>> /\ applied = 0 /\ edits = 0
      /\ local \in [Doc -> {Absent, 2}]
  BY DEF EditInit, Init, AtRest, Contents
<1>2. Len(queue) = 0 /\ Len(done) = 0 /\ Len(backups) = 0
  BY <1>1, EmptySeq
<1>3. \A d \in Doc : local[d] < 3 + edits
  BY <1>1 DEF Absent
<1>4. VersionInv
  BY <1>2, <1>3 DEF VersionInv, Sound
<1>5. CoversInv /\ MineInv /\ ToldInv /\ DeletionInv /\ AddedInv
  BY <1>2 DEF CoversInv, MineInv, ToldInv, DeletionInv, AddedInv
<1>6. AppliedInv
  BY <1>1 DEF AppliedInv
<1> QED
  BY <1>4, <1>5, <1>6 DEF DataInv

\* What the user is told of a backup holds for the edits of the user beside it:
\* the objects of the phone are on the server and nothing that waits changes
\* them there, or the outbox has a record of them (backupData, 335-345).
THEOREM BackedUp == EditSpec => []BackedUpOrRecorded
<1>1. EditInit => DataInv
  BY DataInit
<1>2. CoreInv /\ DataInv /\ [EditNext]_allVars => DataInv'
  BY CoversNext, VersionNext, AppliedNext, MineNext, DeletionNext, AddedNext DEF DataInv
<1>3. ASSUME CoreInv, DataInv
      PROVE  BackedUpOrRecorded
  <2> SUFFICES ASSUME backups # <<>>, Full(Last(backups)),
                      NEW d \in Present(local) \ outbox
               PROVE  /\ server[d] = local[d]
                      /\ \A i \in DOMAIN queue :
                           queue[i].doc = d => queue[i].val = local[d]
    BY DEF BackedUpOrRecorded
  <2>1. /\ TypeInv /\ backups \in Seq(Call) /\ queue \in Seq(Write)
        /\ CoversInv /\ VersionInv /\ AppliedInv /\ MineInv /\ DeletionInv /\ AddedInv
    BY <1>3 DEF CoreInv, TypeInv, DataInv
  <2> DEFINE n == Len(backups)
  <2>2. n \in 1 .. Len(backups) /\ Full(backups[n]) /\ n \in Nat
    <3>1. n \in Nat \ {0}
      BY <2>1, TailFacts
    <3> QED
      BY <3>1 DEF Last
  <2> HIDE DEF n
  <2>3. /\ backups[n].told # "error"
        /\ \A e \in Doc : ~Waiting(Add(n, e))
        /\ \A e \in backups[n].mine : Issued(n, CollectionOf(e))
    BY <1>3, <2>2, FullFacts
  <2>4. Issued(n, CollectionOf(d)) /\ ~Holds(queue, Add(n, d))
    BY <2>1, <2>2, <2>3 DEF MineInv, Waiting, Present
  <2>5. ~Failed(backups[n], done, n)
    BY <1>3, <2>2, <2>3, FullAnswered DEF Failed
  <2>6. Settled(d, done, local, outbox)
    BY DEF Settled
  <2>7. n = Len(backups) /\ d \in Doc /\ local[d] # Absent
    BY DEF n, Present
  <2>8. server[d] = local[d]
    BY <2>1, <2>2, <2>4, <2>5, <2>6, <2>7, AddedUse
  <2>9. \A i \in 1 .. Len(queue) : queue[i].doc = d => queue[i].val = local[d]
    BY <1>3, <2>1, <2>2, <2>4, <2>6, <2>7, SettledWrites
  <2> QED
    BY <2>1, <2>8, <2>9, SeqFacts
<1> QED
  BY <1>1, <1>2, <1>3, Invariance, PTL DEF EditSpec

-----------------------------------------------------------------------------
(***************************************************************************)
(* Nothing is missed: as long as the user was told nothing, every task of  *)
(* a backup is counted or still has its answer to come.                    *)
(***************************************************************************)

RestInv(b) ==
  /\ \A c \in Collections :
       Cardinality(backups[b].cloud[c]) <= backups[b].deleted[c] + Cardinality(Deleting(b, c))
  /\ Total(backups[b]) <= backups[b].progress + Cardinality(Todo(b))

PendingInv(b) ==
  backups[b].told = "nothing" => ~Lost(b) /\ (Loaded(backups[b]) => RestInv(b))

PendingsInv == \A b \in 1 .. Len(backups) : PendingInv(b)

LEMMA OneFewer ==
  ASSUME NEW T, IsFiniteSet(T), NEW x, NEW S \in SUBSET (T \cup {x})
  PROVE  /\ Cardinality(S) \in Nat /\ Cardinality(T) \in Nat
         /\ Cardinality(S) <= Cardinality(T) + 1
<1>1. IsFiniteSet(T \cup {x}) /\ Cardinality(T) \in Nat
  BY FS_AddElement, FS_CardinalityType
<1>2. Cardinality(T \cup {x}) <= Cardinality(T) + 1
  BY <1>1, FS_AddElement
<1>3. IsFiniteSet(S) /\ Cardinality(S) <= Cardinality(T \cup {x})
  BY <1>1, FS_Subset
<1> QED
  BY <1>1, <1>2, <1>3, FS_CardinalityType

LEMMA SumOn ==
  ASSUME NEW k \in Nat, NEW l \in Nat, NEW m \in Nat, NEW n \in Nat, k <= l + m, m <= n
  PROVE  k <= l + n
OBVIOUS

LEMMA SumCounted ==
  ASSUME NEW k \in Nat, NEW l \in Nat, NEW m \in Nat, NEW n \in Nat, k <= l + m, m <= n + 1
  PROVE  k <= (l + 1) + n
OBVIOUS

\* The numbers that RestInv compares.
LEMMA RestTypes ==
  ASSUME TypeInv, NEW b \in 1 .. Len(backups), Loaded(backups[b])
  PROVE  /\ IsFiniteSet(Todo(b)) /\ Cardinality(Todo(b)) \in Nat
         /\ Total(backups[b]) \in Nat /\ backups[b].progress \in Nat
         /\ \A c \in Collections :
              /\ IsFiniteSet(Deleting(b, c)) /\ Cardinality(Deleting(b, c)) \in Nat
              /\ backups[b].deleted[c] \in Nat /\ Cardinality(backups[b].cloud[c]) \in Nat
<1>1. /\ backups[b] \in Call /\ b \in Nat
      /\ backups[b].deleted \in [Collections -> Nat] /\ backups[b].progress \in Nat
      /\ \A c \in Collections : backups[b].cloud[c] # Nil =>
           backups[b].cloud[c] \subseteq c /\ Cardinality(backups[b].cloud[c]) \in Nat
  BY CallFacts
<1>2. IsFiniteSet(Tasks(b, backups[b])) /\ Total(backups[b]) \in Nat
  BY <1>1, TasksOf
<1>3. Todo(b) \in SUBSET Tasks(b, backups[b])
  BY DEF Todo
<1>4. IsFiniteSet(Todo(b)) /\ Cardinality(Todo(b)) \in Nat
  BY <1>2, <1>3, FS_Subset, FS_CardinalityType
<1>5. ASSUME NEW c \in Collections
      PROVE  IsFiniteSet(Deleting(b, c)) /\ Cardinality(Deleting(b, c)) \in Nat
  <2>1. Deleting(b, c) \in SUBSET Doc
    BY CollectionFacts DEF Deleting
  <2> QED
    BY <2>1, DocSets
<1> QED
  BY <1>1, <1>2, <1>4, <1>5 DEF Loaded

\* The same of the next state, as far as it is needed.
LEMMA NextTypes ==
  ASSUME TypeInv', NEW b \in 1 .. Len(backups'), Loaded(backups'[b])
  PROVE  /\ IsFiniteSet(Todo(b)') /\ Cardinality(Todo(b)') \in Nat
         /\ IsFiniteSet(Tasks(b, backups'[b]))
         /\ Cardinality(Tasks(b, backups'[b])) = Total(backups'[b])
         /\ Total(backups'[b]) \in Nat
         /\ \A c \in Collections :
              IsFiniteSet(Deleting(b, c)') /\ Cardinality(Deleting(b, c)') \in Nat
<1>1. backups' \in Seq(Call)
      /\ \A c \in Collections : backups'[b].cloud[c] # Nil => backups'[b].cloud[c] \subseteq c
  BY DEF TypeInv
<1>2. b \in Nat /\ backups'[b] \in Call
  BY <1>1, SeqFacts
<1>3. /\ IsFiniteSet(Tasks(b, backups'[b])) /\ Total(backups'[b]) \in Nat
      /\ Cardinality(Tasks(b, backups'[b])) = Total(backups'[b])
  BY <1>1, <1>2, TasksOf
<1>4. Todo(b)' \in SUBSET Tasks(b, backups'[b])
  BY DEF Todo
<1>5. IsFiniteSet(Todo(b)') /\ Cardinality(Todo(b)') \in Nat
  BY <1>3, <1>4, FS_Subset, FS_CardinalityType
<1>6. ASSUME NEW c \in Collections
      PROVE  IsFiniteSet(Deleting(b, c)') /\ Cardinality(Deleting(b, c)') \in Nat
  <2>1. Deleting(b, c)' \in SUBSET Doc
    BY CollectionFacts DEF Deleting
  <2> QED
    BY <2>1, DocSets
<1> QED
  BY <1>3, <1>5, <1>6

\* A step that is not an answer of the call: whatever waits goes on waiting.
StillWaiting(b) ==
  \A d \in Doc : /\ Waiting(Del(b, d)) => Waiting(Del(b, d))'
                 /\ Waiting(Add(b, d)) => Waiting(Add(b, d))'

LEMMA RestKept ==
  ASSUME TypeInv, TypeInv', NEW b \in 1 .. Len(backups), b \in 1 .. Len(backups'),
         Loaded(backups[b]), Alike(backups'[b], backups[b]),
         backups'[b].progress = backups[b].progress, StillWaiting(b), RestInv(b)
  PROVE  RestInv(b)'
<1>1. /\ backups'[b].cloud = backups[b].cloud /\ backups'[b].mine = backups[b].mine
      /\ backups'[b].deleted = backups[b].deleted
  BY DEF Alike
<1>2. Loaded(backups'[b]) /\ Total(backups'[b]) = Total(backups[b])
  BY <1>1 DEF Loaded, Total
<1>3. \A c : Issued(b, c)' <=> Issued(b, c)
  BY <1>1 DEF Issued
<1>4. b \in Nat /\ backups[b] \in Call
      /\ \A c \in Collections : backups[b].cloud[c] # Nil => backups[b].cloud[c] \subseteq c
  BY CallFacts
<1>5. ASSUME NEW cb \in Todo(b)
      PROVE  cb \in Todo(b)'
  <2>1. cb \in Tasks(b, backups[b])
        /\ (Waiting(cb) \/ (cb.op = "add" /\ ~Issued(b, CollectionOf(cb.doc))))
    BY <1>5 DEF Todo
  <2>2. cb \in Tasks(b, backups'[b])
    BY <1>1, <2>1 DEF Tasks, DelTasks, AddTasks
  <2>3. \E d \in Doc : cb = Del(b, d) \/ cb = Add(b, d)
    BY <1>4, <2>1, TasksOf
  <2>4. Waiting(cb) => Waiting(cb)'
    BY <2>3 DEF StillWaiting
  <2> QED
    BY <1>3, <2>1, <2>2, <2>4 DEF Todo
<1>6. IsFiniteSet(Todo(b)') /\ Cardinality(Todo(b)') \in Nat
      /\ \A c \in Collections : IsFiniteSet(Deleting(b, c)') /\ Cardinality(Deleting(b, c)') \in Nat
  BY <1>2, NextTypes
<1>7. Cardinality(Todo(b)) <= Cardinality(Todo(b)')
  BY <1>5, <1>6, FS_Subset
<1>8. ASSUME NEW c \in Collections
      PROVE  Cardinality(Deleting(b, c)) <= Cardinality(Deleting(b, c)')
  <2>1. Deleting(b, c) \subseteq Deleting(b, c)'
    BY CollectionFacts DEF Deleting, StillWaiting
  <2> QED
    BY <1>6, <2>1, FS_Subset
<1>9. /\ Cardinality(Todo(b)) \in Nat
      /\ Total(backups[b]) \in Nat /\ backups[b].progress \in Nat
      /\ \A c \in Collections : Cardinality(Deleting(b, c)) \in Nat
      /\ \A c \in Collections :
           backups[b].deleted[c] \in Nat /\ Cardinality(backups[b].cloud[c]) \in Nat
  BY RestTypes
<1>10. /\ Total(backups[b]) <= backups[b].progress + Cardinality(Todo(b))
       /\ \A c \in Collections :
            Cardinality(backups[b].cloud[c]) <= backups[b].deleted[c] + Cardinality(Deleting(b, c))
  BY Zenon DEF RestInv
<1>11. Total(backups'[b]) <= backups'[b].progress + Cardinality(Todo(b)')
  <2>1. Total(backups[b]) <= backups[b].progress + Cardinality(Todo(b)')
    BY <1>6, <1>7, <1>9, <1>10, SumOn, Zenon
  <2> QED
    BY <1>2, <2>1, Zenon
<1>12. ASSUME NEW c \in Collections
       PROVE  Cardinality(backups'[b].cloud[c])
                <= backups'[b].deleted[c] + Cardinality(Deleting(b, c)')
  <2>1. /\ Cardinality(Deleting(b, c)) \in Nat /\ Cardinality(Deleting(b, c)') \in Nat
        /\ backups[b].deleted[c] \in Nat /\ Cardinality(backups[b].cloud[c]) \in Nat
        /\ Cardinality(Deleting(b, c)) <= Cardinality(Deleting(b, c)')
    BY <1>6, <1>8, <1>9, Zenon
  <2>2. Cardinality(backups[b].cloud[c])
          <= backups[b].deleted[c] + Cardinality(Deleting(b, c))
    BY <1>10, Zenon
  <2>3. Cardinality(backups[b].cloud[c])
          <= backups[b].deleted[c] + Cardinality(Deleting(b, c)')
    BY <2>1, <2>2, SumOn, Zenon
  <2> QED
    BY <1>1, <2>3, Zenon
<1> QED
  BY <1>11, <1>12 DEF RestInv

LEMMA PendingKept ==
  ASSUME TypeInv, TypeInv', NEW b \in 1 .. Len(backups), b \in 1 .. Len(backups'),
         Alike(backups'[b], backups[b]), backups'[b].progress = backups[b].progress,
         backups'[b].told = backups[b].told, StillWaiting(b), Lost(b)' => Lost(b),
         PendingInv(b)
  PROVE  PendingInv(b)'
<1>1. Loaded(backups'[b]) => Loaded(backups[b])
  BY DEF Alike, Loaded
<1> QED
  BY <1>1, RestKept DEF PendingInv

\* A step that is no answer to any call.
LEMMA PendingsKept ==
  ASSUME TypeInv, TypeInv', Len(backups') = Len(backups),
         \A b \in 1 .. Len(backups) : Same(backups'[b], backups[b]),
         \A cb : Writes(cb) /\ Waiting(cb) => Waiting(cb)',
         \A b, c : Fetched(done, b, c) => Fetched(done', b, c),
         PendingsInv
  PROVE  PendingsInv'
<1> SUFFICES ASSUME NEW b \in 1 .. Len(backups)
             PROVE  PendingInv(b)'
  BY DEF PendingsInv
<1>1. b \in Nat /\ PendingInv(b) /\ Same(backups'[b], backups[b])
  BY CallFacts DEF PendingsInv
<1>2. StillWaiting(b)
  BY <1>1, TaskFacts DEF StillWaiting
<1>3. Lost(b)' => Lost(b)
  BY <1>1 DEF Lost, Same
<1> QED
  BY <1>1, <1>2, <1>3, PendingKept DEF Same, Alike

\* The main thread serves an answer: only that one no longer waits.
LEMMA OthersWait ==
  ASSUME TypeInv, done # <<>>, done' = Tail(done), NEW writes \in Seq(Write),
         queue' = queue \o writes
  PROVE  /\ \A cb : Waiting(cb) /\ cb # done[1].cb => Waiting(cb)'
         /\ \A cb : Holds(writes, cb) => Waiting(cb)'
         /\ \A b, c : Fetched(done, b, c) /\ ~FetchOf(done[1], b, c) => Fetched(done', b, c)
<1>1. queue \in Seq(Write) /\ done \in Seq(Reply)
  BY DEF TypeInv
<1>2. \A cb : Holds(queue', cb) <=> Holds(queue, cb) \/ Holds(writes, cb)
  BY <1>1, ConcatHolds, Zenon
<1>3. /\ \A i \in 2 .. Len(done) : i - 1 \in 1 .. Len(done') /\ done'[i - 1] = done[i]
      /\ Len(done) \in Nat
  BY <1>1, TailFacts
<1>4. ASSUME NEW i \in 1 .. Len(done), i # 1
      PROVE  \E j \in 1 .. Len(done') : done'[j] = done[i]
  <2>1. i \in 2 .. Len(done)
    BY <1>3, <1>4
  <2>2. i - 1 \in 1 .. Len(done') /\ done'[i - 1] = done[i]
    BY <1>3, <2>1
  <2> QED
    BY <2>2
<1>5. \A cb : Holds(done, cb) /\ cb # done[1].cb => Holds(done', cb)
  BY <1>4 DEF Holds
<1>6. \A b, c : Fetched(done, b, c) /\ ~FetchOf(done[1], b, c) => Fetched(done', b, c)
  BY <1>4, Zenon DEF Fetched
<1> QED
  BY <1>2, <1>5, <1>6, Zenon DEF Waiting

\* The calls that are not answered.
LEMMA OthersPending ==
  ASSUME CoreInv, TypeInv', PendingsInv, NEW b, NEW writes \in Seq(Write), AnsweredBy(b, writes),
         NEW i \in 1 .. Len(backups), i # b
  PROVE  PendingInv(i)'
<1>1. Serving(b) /\ queue' = queue \o writes /\ Len(backups') = Len(backups)
      /\ Same(backups'[i], backups[i])
  BY Zenon DEF AnsweredBy
<1>2. done # <<>> /\ done' = Tail(done) /\ b = done[1].cb.run /\ TypeInv
  BY <1>1 DEF Serving, CoreInv
<1>3. /\ \A cb : Waiting(cb) /\ cb # done[1].cb => Waiting(cb)'
      /\ \A x, c : Fetched(done, x, c) /\ ~FetchOf(done[1], x, c) => Fetched(done', x, c)
  BY <1>1, <1>2, OthersWait, Zenon
<1>4. StillWaiting(i)
  <2>1. \A d : Del(i, d) # done[1].cb /\ Add(i, d) # done[1].cb
    BY <1>2, TaskFacts
  <2> QED
    BY <1>3, <2>1, Zenon DEF StillWaiting
<1>5. \A c : Fetched(done, i, c) => Fetched(done', i, c)
  BY <1>2, <1>3 DEF FetchOf
<1>6. Lost(i)' => Lost(i)
  BY <1>1, <1>5 DEF Lost, Same
<1> QED
  BY <1>1, <1>2, <1>4, <1>6, PendingKept DEF Same, Alike, PendingsInv

\* A write of the call is answered: it counts, and what its answer issues waits.
RestCounted(b) ==
  /\ backups'[b].asked = backups[b].asked /\ backups'[b].cloud = backups[b].cloud
  /\ backups'[b].mine = backups[b].mine /\ backups'[b].told = backups[b].told
  /\ backups'[b].progress = backups[b].progress + 1
  /\ \A d \in Doc :
       /\ Waiting(Del(b, d)) /\ Del(b, d) # done[1].cb => Waiting(Del(b, d))'
       /\ Waiting(Add(b, d)) /\ Add(b, d) # done[1].cb => Waiting(Add(b, d))'
  /\ \A d \in backups[b].mine :
       Issued(b, CollectionOf(d))' => Issued(b, CollectionOf(d)) \/ Waiting(Add(b, d))'
  /\ \A c : Fetched(done, b, c) => Fetched(done', b, c)
  /\ \A c \in Collections :
       Cardinality(backups[b].cloud[c]) <= backups[b].deleted[c] + Cardinality(Deleting(b, c))
         => Cardinality(backups[b].cloud[c])
              <= backups'[b].deleted[c] + Cardinality(Deleting(b, c)')

LEMMA TodoCounted ==
  ASSUME TypeInv, NEW b \in 1 .. Len(backups), Loaded(backups[b]), RestCounted(b),
         NEW cb \in Todo(b), cb # done[1].cb
  PROVE  cb \in Todo(b)'
<1>1. /\ backups'[b].cloud = backups[b].cloud /\ backups'[b].mine = backups[b].mine
      /\ \A d \in Doc :
           /\ Waiting(Del(b, d)) /\ Del(b, d) # done[1].cb => Waiting(Del(b, d))'
           /\ Waiting(Add(b, d)) /\ Add(b, d) # done[1].cb => Waiting(Add(b, d))'
      /\ \A d \in backups[b].mine :
           Issued(b, CollectionOf(d))' => Issued(b, CollectionOf(d)) \/ Waiting(Add(b, d))'
  BY Zenon DEF RestCounted
<1>2. b \in Nat /\ backups[b] \in Call
      /\ \A c \in Collections : backups[b].cloud[c] # Nil => backups[b].cloud[c] \subseteq c
  BY CallFacts
<1>3. cb \in Tasks(b, backups[b])
      /\ (Waiting(cb) \/ (cb.op = "add" /\ ~Issued(b, CollectionOf(cb.doc))))
  BY DEF Todo
<1>4. PICK d \in Doc : cb = Del(b, d) \/ (cb = Add(b, d) /\ d \in backups[b].mine)
  BY <1>2, <1>3, TasksOf
<1>5. cb \in Tasks(b, backups'[b])
  BY <1>1, <1>3 DEF Tasks, DelTasks, AddTasks
<1>6. CASE Waiting(cb)
  <2>1. Waiting(cb)'
    BY <1>1, <1>4, <1>6, Zenon
  <2> QED
    BY <1>5, <2>1 DEF Todo
<1>7. CASE ~Waiting(cb)
  <2>1. cb.op = "add" /\ ~Issued(b, CollectionOf(cb.doc))
    BY <1>3, <1>7
  <2>2. cb = Add(b, d) /\ d \in backups[b].mine /\ cb.doc = d
    BY <1>4, <2>1, TaskFacts
  <2>3. Issued(b, CollectionOf(cb.doc))' => Waiting(cb)'
    BY <1>1, <2>1, <2>2
  <2> QED
    BY <1>5, <2>1, <2>3 DEF Todo
<1> QED
  BY <1>6, <1>7

LEMMA PendingCounted ==
  ASSUME TypeInv, TypeInv', NEW b \in 1 .. Len(backups), b \in 1 .. Len(backups'),
         Loaded(backups[b]), RestCounted(b), PendingInv(b)
  PROVE  PendingInv(b)'
<1>1. /\ backups'[b].asked = backups[b].asked /\ backups'[b].cloud = backups[b].cloud
      /\ backups'[b].mine = backups[b].mine /\ backups'[b].told = backups[b].told
      /\ backups'[b].progress = backups[b].progress + 1
      /\ \A c : Fetched(done, b, c) => Fetched(done', b, c)
  BY Zenon DEF RestCounted
<1>2. \A c \in Collections :
        Cardinality(backups[b].cloud[c]) <= backups[b].deleted[c] + Cardinality(Deleting(b, c))
          => Cardinality(backups[b].cloud[c])
               <= backups'[b].deleted[c] + Cardinality(Deleting(b, c)')
  BY Zenon DEF RestCounted
<1> SUFFICES ASSUME backups[b].told = "nothing"
             PROVE  ~Lost(b)' /\ RestInv(b)'
  BY <1>1 DEF PendingInv
<1>3. ~Lost(b) /\ RestInv(b)
  BY DEF PendingInv
<1>4. ~Lost(b)'
  BY <1>1, <1>3 DEF Lost
<1>5. Loaded(backups'[b]) /\ Total(backups'[b]) = Total(backups[b])
  BY <1>1 DEF Loaded, Total
<1>6. /\ \A c \in Collections : Cardinality(backups[b].cloud[c])
                                   <= backups[b].deleted[c] + Cardinality(Deleting(b, c))
      /\ Total(backups[b]) <= backups[b].progress + Cardinality(Todo(b))
  BY <1>3, Zenon DEF RestInv
<1>7. Todo(b) \in SUBSET (Todo(b)' \cup {done[1].cb}) /\ IsFiniteSet(Todo(b)')
  BY <1>5, TodoCounted, NextTypes
<1>8. /\ Cardinality(Todo(b)) \in Nat /\ Cardinality(Todo(b)') \in Nat
      /\ Cardinality(Todo(b)) <= Cardinality(Todo(b)') + 1
  BY <1>7, OneFewer
<1>9. Total(backups[b]) \in Nat /\ backups[b].progress \in Nat
  BY RestTypes
<1>10. Total(backups'[b]) <= backups'[b].progress + Cardinality(Todo(b)')
  <2>1. Total(backups[b]) <= backups[b].progress + Cardinality(Todo(b))
    BY <1>6
  <2>2. Total(backups[b]) <= (backups[b].progress + 1) + Cardinality(Todo(b)')
    BY <1>8, <1>9, <2>1, SumCounted, Zenon
  <2> QED
    BY <1>1, <1>5, <2>2, Zenon
<1>11. \A c \in Collections :
         Cardinality(backups'[b].cloud[c])
           <= backups'[b].deleted[c] + Cardinality(Deleting(b, c)')
  BY <1>1, <1>2, <1>6
<1> QED
  BY <1>4, <1>10, <1>11 DEF RestInv

\* An addition is answered.
LEMMA AddedPending ==
  ASSUME CoreInv, TypeInv', NEW b, Serving(b), done[1].cb.op = "add", OnAdded(b), PendingsInv
  PROVE  PendingInv(b)'
<1>1. /\ done # <<>> /\ done' = Tail(done) /\ done[1].cb.op # "record" /\ b = done[1].cb.run
      /\ queue' = queue /\ backups' = [backups EXCEPT ![b].progress = @ + 1]
      /\ TypeInv /\ queue \in Seq(Write)
  BY DEF Serving, OnAdded, CoreInv, TypeInv
<1>2. b \in 1 .. Len(backups) /\ b \in Nat /\ done[1].cb \in Callback
  BY <1>1, HeadTask
<1>3. Writes(done[1].cb)
  BY <1>2, NilAssumption DEF Writes
<1>4. Loaded(backups[b])
  BY <1>1, <1>3, HeadTask
<1>5. backups[b] \in Call /\ DOMAIN backups = 1 .. Len(backups)
  BY <1>1, <1>2, CallFacts
<1> DEFINE x == [backups[b] EXCEPT !.progress = @ + 1]
<1>6. /\ x \in Call /\ x.asked = backups[b].asked /\ x.cloud = backups[b].cloud
      /\ x.mine = backups[b].mine /\ x.told = backups[b].told
      /\ x.progress = backups[b].progress + 1 /\ x.deleted = backups[b].deleted
  BY <1>5, Progressed, Zenon
<1>7. backups' = [backups EXCEPT ![b] = x]
  BY <1>1, <1>2, <1>5
<1> HIDE DEF x
<1>8. Len(backups') = Len(backups) /\ backups'[b] = x
  <2>1. TypeInv /\ b \in 1 .. Len(backups) /\ x \in Call
    BY <1>1, <1>2, <1>6, Zenon
  <2> QED
    BY <1>7, <2>1, ExceptFacts, Zenon
<1>9. <<>> \in Seq(Write) /\ queue' = queue \o <<>>
  BY <1>1, EmptySeq, ConcatEmptySeq
<1>10. /\ \A cb : Waiting(cb) /\ cb # done[1].cb => Waiting(cb)'
       /\ \A y, c : Fetched(done, y, c) /\ ~FetchOf(done[1], y, c) => Fetched(done', y, c)
  BY <1>1, <1>9, OthersWait, Zenon
<1>11. \A c : Fetched(done, b, c) => Fetched(done', b, c)
  BY <1>10 DEF FetchOf
<1>12. \A d : Del(b, d) # done[1].cb
  BY TaskFacts
<1>13. ASSUME NEW c \in Collections,
              Cardinality(backups[b].cloud[c])
                <= backups[b].deleted[c] + Cardinality(Deleting(b, c))
       PROVE  Cardinality(backups[b].cloud[c])
                <= backups'[b].deleted[c] + Cardinality(Deleting(b, c)')
  <2>1. Deleting(b, c) \subseteq Deleting(b, c)'
    BY <1>10, <1>12 DEF Deleting
  <2>2. IsFiniteSet(Deleting(b, c)') /\ Cardinality(Deleting(b, c)') \in Nat
    BY <1>2, <1>4, <1>6, <1>8, NextTypes DEF Loaded
  <2>3. Cardinality(Deleting(b, c)) <= Cardinality(Deleting(b, c)')
    BY <2>1, <2>2, FS_Subset
  <2>4. /\ Cardinality(Deleting(b, c)) \in Nat /\ backups[b].deleted[c] \in Nat
        /\ Cardinality(backups[b].cloud[c]) \in Nat
    BY <1>1, <1>2, <1>4, RestTypes
  <2>5. Cardinality(backups[b].cloud[c])
          <= backups[b].deleted[c] + Cardinality(Deleting(b, c)')
    BY <1>13, <2>2, <2>3, <2>4, SumOn, Zenon
  <2>6. backups'[b].deleted = backups[b].deleted
    BY <1>6, <1>8
  <2> QED
    BY <2>5, <2>6, Zenon
<1>14. \A c : Issued(b, c)' => Issued(b, c)
  BY <1>6, <1>8 DEF Issued
<1>15. RestCounted(b)
  BY <1>6, <1>8, <1>10, <1>11, <1>13, <1>14, Zenon DEF RestCounted
<1>16. PendingInv(b) /\ TypeInv /\ b \in 1 .. Len(backups) /\ b \in 1 .. Len(backups')
  BY <1>1, <1>2, <1>8 DEF PendingsInv
<1> QED
  BY <1>4, <1>15, <1>16, PendingCounted, SMTT(30)

\* A deletion is answered: the last one of its collection issues the additions.
LEMMA DeletedPending ==
  ASSUME CoreInv, TypeInv', NEW b, Serving(b), done[1].cb.op = "delete",
         OnDeleted(b, CollectionOf(done[1].cb.doc)), PendingsInv
  PROVE  PendingInv(b)'
<1>1. /\ done # <<>> /\ done' = Tail(done) /\ done[1].cb.op # "record" /\ b = done[1].cb.run
      /\ TypeInv
  BY DEF Serving, CoreInv
<1>2. b \in 1 .. Len(backups) /\ b \in Nat /\ done[1].cb \in Callback
  BY <1>1, HeadTask
<1>3. Writes(done[1].cb)
  BY <1>2, NilAssumption DEF Writes
<1>4. Loaded(backups[b])
  BY <1>1, <1>3, HeadTask
<1> PICK d \in Doc, x \in Call, writes \in Seq(Write) : DeletedBy(b, d, x, writes)
  BY DeletedShape
<1> PICK c : c = CollectionOf(d)
  OBVIOUS
<1>5. /\ done[1].cb = Del(b, d) /\ queue' = queue \o writes
      /\ Len(backups') = Len(backups) /\ Same(backups'[b], x)
      /\ x.asked = backups[b].asked /\ x.cloud = backups[b].cloud
      /\ x.mine = backups[b].mine /\ x.told = backups[b].told
      /\ x.progress = backups[b].progress + 1
      /\ x.deleted = [backups[b].deleted EXCEPT ![c] = @ + 1]
  BY Zenon DEF DeletedBy
<1>6. \/ x.deleted[c] # Cardinality(backups[b].cloud[c])
      \/ \A e \in backups[b].mine \cap c : Holds(writes, Add(b, e))
  BY Zenon DEF DeletedBy
<1>7. /\ backups'[b].asked = backups[b].asked /\ backups'[b].cloud = backups[b].cloud
      /\ backups'[b].mine = backups[b].mine /\ backups'[b].told = backups[b].told
      /\ backups'[b].progress = backups[b].progress + 1
      /\ backups'[b].deleted = x.deleted
  BY <1>5 DEF Same
<1>8. /\ \A cb : Waiting(cb) /\ cb # done[1].cb => Waiting(cb)'
      /\ \A cb : Holds(writes, cb) => Waiting(cb)'
      /\ \A y, e : Fetched(done, y, e) /\ ~FetchOf(done[1], y, e) => Fetched(done', y, e)
  BY <1>1, <1>5, OthersWait, Zenon
<1>9. \A e : Fetched(done, b, e) => Fetched(done', b, e)
  BY <1>8 DEF FetchOf
<1>10. c \in Collections /\ \A e \in Doc : CollectionOf(e) \in Collections /\ e \in CollectionOf(e)
  BY CollectionFacts
<1>11. /\ \A e \in Collections : e # c => x.deleted[e] = backups[b].deleted[e]
       /\ x.deleted[c] = backups[b].deleted[c] + 1
  <2>1. backups[b].deleted \in [Collections -> Nat]
    BY <1>1, <1>2, CallFacts
  <2> QED
    BY <1>5, <1>10, <2>1
<1>12. ASSUME NEW e \in backups[b].mine, Issued(b, CollectionOf(e))', ~Issued(b, CollectionOf(e))
       PROVE  Waiting(Add(b, e))'
  <2>1. e \in Doc
    BY <1>1, <1>2, CallFacts
  <2>2. CollectionOf(e) = c
    BY <1>7, <1>10, <1>11, <1>12, <2>1 DEF Issued
  <2>3. x.deleted[c] = Cardinality(backups[b].cloud[c])
    BY <1>7, <1>12, <2>2 DEF Issued
  <2>4. Holds(writes, Add(b, e))
    BY <1>6, <1>10, <2>1, <2>2, <2>3
  <2> QED
    BY <1>8, <2>4
<1>13. ASSUME NEW e \in Collections,
              Cardinality(backups[b].cloud[e])
                <= backups[b].deleted[e] + Cardinality(Deleting(b, e))
       PROVE  Cardinality(backups[b].cloud[e])
                <= backups'[b].deleted[e] + Cardinality(Deleting(b, e)')
  <2>1. IsFiniteSet(Deleting(b, e)') /\ Cardinality(Deleting(b, e)') \in Nat
    <3>1. b \in 1 .. Len(backups') /\ Loaded(backups'[b])
      BY <1>2, <1>4, <1>5, <1>7, Zenon DEF Loaded
    <3> QED
      BY <3>1, NextTypes, Zenon
  <2>2. /\ Cardinality(Deleting(b, e)) \in Nat /\ backups[b].deleted[e] \in Nat
        /\ Cardinality(backups[b].cloud[e]) \in Nat
    BY <1>1, <1>2, <1>4, RestTypes
  <2>3. ASSUME NEW y \in Deleting(b, e), y # d
        PROVE  y \in Deleting(b, e)'
    <3>1. y \in e /\ Waiting(Del(b, y))
      BY DEF Deleting
    <3>2. Del(b, y) # Del(b, d)
      BY <2>3, TaskFacts
    <3>3. Waiting(Del(b, y))'
      BY <1>5, <1>8, <3>1, <3>2
    <3> QED
      BY <3>1, <3>3 DEF Deleting
  <2>4. CASE e = c
    <3>1. Deleting(b, e) \in SUBSET (Deleting(b, e)' \cup {d})
      BY <2>3
    <3>2. Cardinality(Deleting(b, e)) <= Cardinality(Deleting(b, e)') + 1
      BY <2>1, <3>1, OneFewer
    <3>3. backups'[b].deleted[e] = backups[b].deleted[e] + 1
      BY <1>7, <1>11, <2>4, Zenon
    <3>4. Cardinality(backups[b].cloud[e])
            <= (backups[b].deleted[e] + 1) + Cardinality(Deleting(b, e)')
      BY <1>13, <2>1, <2>2, <3>2, SumCounted, Zenon
    <3> QED
      BY <3>3, <3>4, Zenon
  <2>5. CASE e # c
    <3>1. d \notin Deleting(b, e)
      BY <2>5, CollectionFacts DEF Deleting
    <3>2. Cardinality(Deleting(b, e)) <= Cardinality(Deleting(b, e)')
      BY <2>1, <2>3, <3>1, FS_Subset
    <3>3. backups'[b].deleted[e] = backups[b].deleted[e]
      BY <1>7, <1>11, <2>5, Zenon
    <3>4. Cardinality(backups[b].cloud[e])
            <= backups[b].deleted[e] + Cardinality(Deleting(b, e)')
      BY <1>13, <2>1, <2>2, <3>2, SumOn, Zenon
    <3> QED
      BY <3>3, <3>4, Zenon
  <2> QED
    BY <2>4, <2>5
<1>14. RestCounted(b)
  BY <1>7, <1>8, <1>9, <1>12, <1>13, Zenon DEF RestCounted
<1>15. PendingInv(b) /\ TypeInv /\ b \in 1 .. Len(backups) /\ b \in 1 .. Len(backups')
  BY <1>1, <1>2, <1>5, Zenon DEF PendingsInv
<1> QED
  BY <1>4, <1>14, <1>15, PendingCounted, Zenon

\* Every document that was found is deleted.
LEMMA DeletionsHold ==
  ASSUME NEW b \in Nat, NEW docs \in SUBSET Doc, NEW d \in docs
  PROVE  Holds(Deletions(b, docs), Del(b, d))
<1> DEFINE order == SetToSeq(docs)
           n == Cardinality(docs)
           w(i) == [doc |-> order[i], val |-> Absent, cb |-> Del(b, order[i])]
<1>1. n \in Nat /\ IsFiniteSet(docs)
  BY DocSets
<1>2. order \in SetToSeqs(docs)
  BY <1>1, SetToSeqFacts
<1>3. PICK i \in 1 .. n : order[i] = d
  BY <1>1, <1>2, OrderCovers
<1>4. order \in [1 .. n -> docs]
  BY <1>2 DEF SetToSeqs
<1>5. Deletions(b, docs) = [j \in 1 .. n |-> w(j)]
  BY <1>4 DEF Deletions, Del
<1> HIDE DEF order, n
<1>6. Deletions(b, docs)[i].cb = Del(b, d)
  BY <1>3, <1>5
<1>7. w(i).cb = Del(b, d) /\ \A j \in 1 .. n : w(j) \in Write
  BY <1>3, <1>4, TaskFacts DEF Write, Absent
<1> HIDE DEF w
<1>8. Len(Deletions(b, docs)) = n
  BY <1>1, <1>5, <1>7, IsASeq
<1> QED
  BY <1>3, <1>6, <1>8 DEF Holds

LEMMA AllDeletionsHold ==
  ASSUME NEW b \in Nat, NEW shots \in SUBSET Doc, NEW reports \in SUBSET Doc,
         NEW d \in shots \cup reports
  PROVE  Holds(AllDeletions(b, shots, reports), Del(b, d))
<1>1. Deletions(b, shots) \in Seq(Write) /\ Deletions(b, reports) \in Seq(Write)
  BY DeletionsFacts
<1>2. Holds(Deletions(b, shots), Del(b, d)) \/ Holds(Deletions(b, reports), Del(b, d))
  BY DeletionsHold
<1> QED
  BY <1>1, <1>2, ConcatHolds, Zenon DEF AllDeletions

\* A fetch is answered: once both collections are found, every task waits for
\* its answer or for the last deletion.
LEMMA FoundRest ==
  ASSUME CoreInv, CoreInv', NEW b \in 1 .. Len(backups'), Loaded(backups'[b]),
         \A c \in Collections : backups'[b].deleted[c] = 0,
         \A c \in Collections : \A d \in backups'[b].cloud[c] : Waiting(Del(b, d))'
  PROVE  RestInv(b)'
<1>1. TypeInv' /\ b \in Nat /\ backups'[b] \in Call
      /\ \A c \in Collections : backups'[b].cloud[c] \in SUBSET Doc /\ backups'[b].cloud[c] \subseteq c
  <2>1. TypeInv' /\ backups' \in Seq(Call)
        /\ \A c \in Collections : backups'[b].cloud[c] # Nil => backups'[b].cloud[c] \subseteq c
    BY DEF CoreInv, TypeInv
  <2> QED
    BY <2>1, SeqFacts, CollectionFacts DEF Loaded
<1>2. /\ IsFiniteSet(Todo(b)') /\ Cardinality(Todo(b)') \in Nat
      /\ Cardinality(Tasks(b, backups'[b])) = Total(backups'[b])
      /\ \A c \in Collections :
           IsFiniteSet(Deleting(b, c)') /\ Cardinality(Deleting(b, c)') \in Nat
  BY <1>1, NextTypes
<1>3. ASSUME NEW c \in Collections
      PROVE  /\ Cardinality(backups'[b].cloud[c]) \in Nat
             /\ Cardinality(backups'[b].cloud[c])
                  <= backups'[b].deleted[c] + Cardinality(Deleting(b, c)')
             /\ ~Issued(b, c)'
  <2>1. IsFiniteSet(backups'[b].cloud[c]) /\ Cardinality(backups'[b].cloud[c]) \in Nat
    BY <1>1, DocSets
  <2>2. backups'[b].cloud[c] \subseteq Deleting(b, c)'
    BY <1>1 DEF Deleting
  <2>3. Cardinality(backups'[b].cloud[c]) <= Cardinality(Deleting(b, c)')
    BY <1>2, <2>2, FS_Subset
  <2>4. backups'[b].cloud[c] # {} => Cardinality(backups'[b].cloud[c]) # 0
    BY <2>1, FS_EmptySet
  <2> QED
    BY <1>2, <2>1, <2>3, <2>4 DEF Issued
<1>4. ASSUME NEW cb \in Tasks(b, backups'[b])
      PROVE  cb \in Todo(b)'
  <2>1. PICK d \in Doc : \/ cb = Del(b, d) /\ d \in backups'[b].cloud[CollectionOf(d)]
                         \/ cb = Add(b, d)
    BY <1>1, TasksOf
  <2>2. CollectionOf(d) \in Collections
    BY CollectionFacts
  <2>3. CASE cb = Del(b, d) /\ d \in backups'[b].cloud[CollectionOf(d)]
    BY <2>2, <2>3 DEF Todo
  <2>4. CASE cb = Add(b, d)
    <3>1. cb.op = "add" /\ cb.doc = d
      BY <2>4, TaskFacts
    <3> QED
      BY <1>3, <2>2, <3>1 DEF Todo
  <2> QED
    BY <2>1, <2>3, <2>4
<1>5. Total(backups'[b]) <= Cardinality(Todo(b)')
  BY <1>2, <1>4, FS_Subset
<1>6. backups'[b].progress \in Nat /\ Total(backups'[b]) \in Nat
  BY <1>1, NextTypes DEF Call
<1>7. Total(backups'[b]) <= backups'[b].progress + Cardinality(Todo(b)')
  BY <1>2, <1>5, <1>6
<1> QED
  BY <1>3, <1>7 DEF RestInv

LEMMA FoundPending ==
  ASSUME CoreInv, CoreInv', NEW b, Serving(b), done[1].cb.op = "fetch",
         OnFetched(b, done[1].cb.coll, done[1].cb.docs), PendingsInv
  PROVE  PendingInv(b)'
<1>1. /\ done # <<>> /\ done' = Tail(done) /\ done[1].cb.op # "record" /\ b = done[1].cb.run
      /\ TypeInv /\ CallsInv
  BY DEF Serving, CoreInv
<1>2. b \in 1 .. Len(backups) /\ b \in Nat
  BY <1>1, HeadTask
<1> PICK c : c = done[1].cb.coll
  OBVIOUS
<1> PICK x \in Call, writes \in Seq(Write) : FoundBy(b, x, writes)
  BY FoundShape
<1>3. /\ c \in Collections /\ backups[b].cloud[c] = Nil /\ x.cloud[c] # Nil
      /\ x.asked = backups[b].asked /\ x.told = backups[b].told
      /\ x.deleted = backups[b].deleted
      /\ \A e \in Collections : e # c => x.cloud[e] = backups[b].cloud[e]
      /\ \A e \in Collections : x.cloud[e] # Nil => x.cloud[e] \subseteq e
      /\ queue' = queue \o writes
      /\ Len(backups') = Len(backups) /\ Same(backups'[b], x)
  BY Zenon DEF FoundBy
<1>4. Loaded(x) => writes = AllDeletions(b, x.cloud[Shot], x.cloud[Report])
  BY Zenon DEF FoundBy
<1>5. /\ \A cb : Holds(writes, cb) => Waiting(cb)'
      /\ \A y, e : Fetched(done, y, e) /\ ~FetchOf(done[1], y, e) => Fetched(done', y, e)
  BY <1>1, <1>3, OthersWait, Zenon
<1>6. /\ backups'[b].asked = backups[b].asked /\ backups'[b].cloud = x.cloud
      /\ backups'[b].told = backups[b].told /\ backups'[b].deleted = backups[b].deleted
  <2>1. Same(backups'[b], x)
    BY <1>3, Zenon
  <2>2. backups'[b].asked = x.asked /\ backups'[b].cloud = x.cloud
    BY <2>1 DEF Same
  <2>3. backups'[b].told = x.told
    BY <2>1 DEF Same
  <2>4. backups'[b].deleted = x.deleted
    BY <2>1, SMTT(30) DEF Same
  <2> QED
    BY <1>3, <2>2, <2>3, <2>4, Zenon
<1>7. ~Loaded(backups[b]) /\ CallInv(b)
  BY <1>1, <1>2, <1>3 DEF Loaded, CallsInv
<1>8. \A e \in Collections : backups'[b].deleted[e] = 0
  BY <1>6, <1>7 DEF CallInv, UnloadedInv
<1> SUFFICES ASSUME backups[b].told = "nothing"
             PROVE  ~Lost(b)' /\ (Loaded(backups'[b]) => RestInv(b)')
  BY <1>6 DEF PendingInv
<1>9. ~Lost(b)
  BY <1>2 DEF PendingsInv, PendingInv
<1>10. ASSUME NEW e \in Collections, backups'[b].cloud[e] = Nil, e \notin backups'[b].asked
       PROVE  Fetched(done', b, e)
  <2>1. e # c
    BY <1>3, <1>6, <1>10
  <2>2. backups[b].cloud[e] = Nil /\ e \notin backups[b].asked
    BY <1>3, <1>6, <1>10, <2>1
  <2>3. Fetched(done, b, e)
    BY <1>9, <2>2 DEF Lost
  <2> QED
    BY <1>5, <2>1, <2>3 DEF FetchOf
<1>11. ~Lost(b)'
  BY <1>10 DEF Lost
<1>12. ASSUME Loaded(backups'[b])
       PROVE  RestInv(b)'
  <2>1. Loaded(x)
    BY <1>6, <1>12 DEF Loaded
  <2>2. \A e \in Collections : x.cloud[e] \subseteq e /\ e \subseteq Doc
    BY <1>3, <2>1, CollectionFacts DEF Loaded
  <2>3. x.cloud[Shot] \in SUBSET Doc /\ x.cloud[Report] \in SUBSET Doc
    BY <2>2, CollectionFacts
  <2>4. ASSUME NEW e \in Collections, NEW d \in backups'[b].cloud[e]
        PROVE  Waiting(Del(b, d))'
    <3>1. d \in x.cloud[Shot] \cup x.cloud[Report]
      BY <1>6, <2>4, CollectionFacts
    <3>2. Holds(writes, Del(b, d))
      BY <1>2, <1>4, <2>1, <2>3, <3>1, AllDeletionsHold
    <3> QED
      BY <1>5, <3>2
  <2> QED
    BY <1>2, <1>3, <1>8, <1>12, <2>4, FoundRest
<1> QED
  BY <1>11, <1>12

LEMMA AnswerPending ==
  ASSUME CoreInv, CoreInv', CoversInv, PendingsInv, OnBackupAnswer
  PROVE  PendingsInv'
<1>1. PICK a \in 1 .. Len(backups), writes \in Seq(Write) : AnsweredBy(a, writes)
  BY AnswerShape
<1> PICK b : b = done[1].cb.run
  OBVIOUS
<1>2. /\ Serving(b)
      /\ \/ ~done[1].ok /\ Fail(b)
         \/ /\ done[1].ok /\ done[1].cb.op = "fetch"
            /\ OnFetched(b, done[1].cb.coll, done[1].cb.docs)
         \/ /\ done[1].ok /\ done[1].cb.op = "delete"
            /\ OnDeleted(b, CollectionOf(done[1].cb.doc))
         \/ done[1].ok /\ done[1].cb.op = "add" /\ OnAdded(b)
  BY AnswerCases, SMTT(30)
<1>3. a = b /\ Len(backups') = Len(backups) /\ TypeInv'
      /\ (~done[1].ok => backups'[b].told = "error")
  BY <1>1 DEF AnsweredBy, Serving, CoreInv
<1>4. PendingInv(b)'
  <2>1. CASE ~done[1].ok /\ Fail(b)
    BY <1>3, <2>1 DEF PendingInv
  <2>2. CASE done[1].ok /\ done[1].cb.op = "fetch" /\ OnFetched(b, done[1].cb.coll, done[1].cb.docs)
    BY <1>2, <2>2, FoundPending
  <2>3. CASE done[1].ok /\ done[1].cb.op = "delete" /\ OnDeleted(b, CollectionOf(done[1].cb.doc))
    BY <1>2, <1>3, <2>3, DeletedPending
  <2>4. CASE done[1].ok /\ done[1].cb.op = "add" /\ OnAdded(b)
    BY <1>2, <1>3, <2>4, AddedPending
  <2> QED
    BY <1>2, <2>1, <2>2, <2>3, <2>4
<1>5. ASSUME NEW i \in 1 .. Len(backups'), i # b
      PROVE  PendingInv(i)'
  BY <1>1, <1>3, <1>5, OthersPending
<1> QED
  BY <1>4, <1>5 DEF PendingsInv

\* A fetch is answered by the SDK: its answer waits for the main thread.
LEMMA FetchPending ==
  ASSUME CoreInv, CoreInv', PendingsInv, Beside(Fetch)
  PROVE  PendingsInv'
<1>0. TypeInv /\ TypeInv' /\ done \in Seq(Reply)
  BY DEF CoreInv, TypeInv
<1>1. PICK b \in 1 .. Len(backups), c \in Collections, docs \in SUBSET Doc, ok \in BOOLEAN :
        /\ c \in backups[b].asked /\ docs \subseteq c
        /\ done' = Append(done,
             [cb |-> [run |-> b, op |-> "fetch", coll |-> c, docs |-> docs], ok |-> ok])
        /\ backups' = [backups EXCEPT ![b].asked = @ \ {c}]
        /\ UNCHANGED <<server, queue, persisted, applied, local, link, outbox, edits>>
        /\ cache' \in [Doc -> Nat]
  BY FetchFacts, Zenon
<1> DEFINE cb == [run |-> b, op |-> "fetch", coll |-> c, docs |-> docs]
           e == [cb |-> cb, ok |-> ok]
           x == [backups[b] EXCEPT !.asked = @ \ {c}]
<1>2. backups[b] \in Call /\ b \in Nat /\ DOMAIN backups = 1 .. Len(backups)
  BY <1>0, CallFacts
<1>3. /\ x \in Call /\ x.asked = backups[b].asked \ {c} /\ x.cloud = backups[b].cloud
      /\ x.mine = backups[b].mine /\ x.deleted = backups[b].deleted
      /\ x.progress = backups[b].progress /\ x.told = backups[b].told
  BY <1>2, Zenon DEF Call
<1>4. backups' = [backups EXCEPT ![b] = x]
  BY <1>1, <1>2
<1>5. e \in Reply /\ FetchOf(e, b, c)
  BY <1>2 DEF Reply, Callback, FetchOf
<1>6. done' = Append(done, e) /\ queue' = queue
  BY <1>1
<1> HIDE DEF x, e, cb
<1>7. /\ Len(backups') = Len(backups) /\ backups'[b] = x
      /\ \A i \in 1 .. Len(backups) : i # b => Same(backups'[i], backups[i])
  BY <1>0, <1>3, <1>4, ExceptFacts, Zenon
<1>8. /\ \A i \in 1 .. Len(done) : done'[i] = done[i] /\ i \in 1 .. Len(done')
      /\ done'[Len(done) + 1] = e /\ Len(done) + 1 \in 1 .. Len(done')
      /\ \A w : Holds(done', w) <=> Holds(done, w) \/ e.cb = w
  <2>1. /\ Len(done') = Len(done) + 1 /\ Len(done) \in Nat
        /\ \A i \in 1 .. Len(done) : done'[i] = done[i]
        /\ done'[Len(done) + 1] = e
        /\ \A w : Holds(done', w) <=> Holds(done, w) \/ e.cb = w
    BY <1>0, <1>5, <1>6, AppendFacts, SeqFacts
  <2> QED
    BY <2>1
<1>9. \A i, y : Fetched(done, i, y) => Fetched(done', i, y)
  BY <1>8, Zenon DEF Fetched
<1>10. Fetched(done', b, c)
  BY <1>5, <1>8, Zenon DEF Fetched
<1>11. \A w : Waiting(w) => Waiting(w)'
  BY <1>6, <1>8, Zenon DEF Waiting
<1>12. ASSUME NEW i \in 1 .. Len(backups')
       PROVE  PendingInv(i)'
  <2>1. i \in 1 .. Len(backups) /\ PendingInv(i) /\ StillWaiting(i)
    BY <1>7, <1>11 DEF PendingsInv, StillWaiting
  <2>2. CASE i = b
    <3>1. Lost(i)' => Lost(i)
      BY <1>3, <1>7, <1>9, <1>10, <2>2 DEF Lost
    <3>2. /\ Alike(backups'[i], backups[i]) /\ backups'[i].progress = backups[i].progress
          /\ backups'[i].told = backups[i].told
      BY <1>3, <1>7, <2>2 DEF Alike
    <3> QED
      BY <1>0, <2>1, <3>1, <3>2, PendingKept
  <2>3. CASE i # b
    <3>1. Same(backups'[i], backups[i])
      BY <1>7, <2>1, <2>3
    <3>2. Lost(i)' => Lost(i)
      BY <1>9, <3>1 DEF Lost, Same
    <3> QED
      BY <1>0, <2>1, <3>1, <3>2, PendingKept DEF Same, Alike
  <2> QED
    BY <2>2, <2>3
<1> QED
  BY <1>12 DEF PendingsInv

LEMMA ToldPending ==
  ASSUME CoreInv, CoreInv', PendingsInv, Beside(Told)
  PROVE  PendingsInv'
<1>0. TypeInv /\ TypeInv' /\ backups \in Seq(Call)
  BY DEF CoreInv, TypeInv
<1>1. PICK b \in DOMAIN backups : TellSuccess(b)
  BY DEF Beside, Told
<1>2. /\ b \in 1 .. Len(backups) /\ queue' = queue /\ done' = done
      /\ backups' = [backups EXCEPT ![b].covered = FALSE, ![b].told = "success"]
  BY <1>0, <1>1, SeqFacts DEF TellSuccess, clientVars
<1>3. backups[b] \in Call /\ DOMAIN backups = 1 .. Len(backups)
  BY <1>0, <1>2, CallFacts
<1> DEFINE x == [backups[b] EXCEPT !.covered = FALSE, !.told = "success"]
<1>4. x \in Call /\ x.told = "success"
  BY <1>3, Succeeded, Zenon
<1>5. backups' = [backups EXCEPT ![b] = x]
  BY <1>2, <1>3, Zenon
<1> HIDE DEF x
<1>6. /\ Len(backups') = Len(backups) /\ backups'[b] = x
      /\ \A i \in 1 .. Len(backups) : i # b => Same(backups'[i], backups[i])
  BY <1>0, <1>2, <1>4, <1>5, ExceptFacts, Zenon
<1>7. PendingInv(b)'
  BY <1>4, <1>6 DEF PendingInv
<1>8. ASSUME NEW i \in 1 .. Len(backups), i # b
      PROVE  PendingInv(i)'
  <2>1. Same(backups'[i], backups[i])
    BY <1>6, <1>8
  <2>2. StillWaiting(i)
    BY <1>2 DEF StillWaiting, Waiting
  <2>3. Lost(i)' => Lost(i)
    BY <1>2, <2>1 DEF Lost, Same
  <2> QED
    BY <1>0, <1>6, <2>1, <2>2, <2>3, PendingKept DEF Same, Alike, PendingsInv
<1> QED
  BY <1>6, <1>7, <1>8 DEF PendingsInv

LEMMA NewPending ==
  ASSUME CoreInv, CoreInv', PendingsInv, Beside(BackupData)
  PROVE  PendingsInv'
<1>0. TypeInv /\ TypeInv' /\ backups \in Seq(Call) /\ local \in [Doc -> Nat]
  BY DEF CoreInv, TypeInv
<1>1. backups' = Append(backups, NewBackup) /\ queue' = queue /\ done' = done
  BY DEF Beside, BackupData, clientVars
<1>2. /\ NewBackup \in Call /\ NewBackup.asked = Collections
      /\ \A c \in Collections : NewBackup.cloud[c] = Nil
  BY <1>0, NewFacts, Zenon
<1>3. /\ Len(backups') = Len(backups) + 1 /\ Len(backups) \in Nat
      /\ \A b \in 1 .. Len(backups) : backups'[b] = backups[b]
      /\ backups'[Len(backups) + 1] = NewBackup
  BY <1>0, <1>1, <1>2, AppendFacts, SeqFacts
<1>4. ASSUME NEW b \in 1 .. Len(backups), b \in 1 .. Len(backups')
      PROVE  PendingInv(b)'
  <2>1. StillWaiting(b) /\ backups'[b] = backups[b]
    BY <1>1, <1>3 DEF StillWaiting, Waiting
  <2>2. Lost(b)' => Lost(b)
    BY <1>1, <2>1 DEF Lost
  <2> QED
    BY <1>0, <1>4, <2>1, <2>2, PendingKept DEF Alike, PendingsInv
<1>5. ASSUME NEW b, b = Len(backups) + 1
      PROVE  PendingInv(b)'
  <2>1. backups'[b] = NewBackup
    BY <1>3, <1>5
  <2>2. ~Lost(b)'
    BY <1>2, <2>1 DEF Lost
  <2>3. ~Loaded(backups'[b])
    BY <1>2, <2>1, CollectionFacts DEF Loaded
  <2> QED
    BY <2>2, <2>3 DEF PendingInv
<1>6. ASSUME NEW b \in 1 .. Len(backups')
      PROVE  PendingInv(b)'
  <2>1. b \in 1 .. Len(backups) \/ b = Len(backups) + 1
    BY <1>3
  <2> QED
    BY <1>4, <1>5, <2>1
<1> QED
  BY <1>6 DEF PendingsInv

LEMMA PendingNext ==
  ASSUME CoreInv, CoversInv, PendingsInv, [EditNext]_allVars
  PROVE  PendingsInv'
<1>0. /\ TypeInv /\ OnceInv /\ TypeInv' /\ CoreInv'
      /\ queue \in Seq(Write) /\ done \in Seq(Reply)
  BY CoreNext, Zenon DEF CoreInv, TypeInv
<1>1. \A b : Same(backups[b], backups[b])
  BY DEF Same
<1>2. ASSUME UNCHANGED <<queue, done, backups>>
      PROVE  PendingsInv'
  <2>1. /\ \A cb : Waiting(cb) => Waiting(cb)'
        /\ \A b, c : Fetched(done, b, c) => Fetched(done', b, c)
    BY <1>2 DEF Waiting
  <2> QED
    BY <1>0, <1>1, <1>2, <2>1, PendingsKept
<1>3. CASE LinkReturns \/ \E o \in Doc : UpdateObject(o) \/ DeleteObject(o)
  <2>1. PICK writes \in Seq(Write) : MergedBy(writes)
    BY <1>3, MergeShape
  <2>2. /\ queue' = queue \o writes /\ done' = done /\ Len(backups') = Len(backups)
        /\ \A b \in 1 .. Len(backups) : Same(backups'[b], backups[b])
    BY <2>1, Zenon DEF MergedBy
  <2>3. \A cb : Holds(queue', cb) <=> Holds(queue, cb) \/ Holds(writes, cb)
    BY <1>0, <2>2, ConcatHolds, Zenon
  <2>4. /\ \A cb : Waiting(cb) => Waiting(cb)'
        /\ \A b, c : Fetched(done, b, c) => Fetched(done', b, c)
    BY <2>2, <2>3, Zenon DEF Waiting
  <2> QED
    BY <1>0, <2>2, <2>4, PendingsKept
<1>4. CASE OnRecordDone
  <2>1. /\ done # <<>> /\ Head(done).cb.op = "record" /\ done' = Tail(done)
        /\ queue' = queue /\ backups' = backups
    BY <1>4, Zenon DEF OnRecordDone
  <2>2. Head(done) = done[1]
    BY <1>0, <2>1, TailFacts
  <2>3. <<>> \in Seq(Write) /\ queue' = queue \o <<>>
    BY <1>0, <2>1, EmptySeq, ConcatEmptySeq
  <2>4. /\ \A cb : Waiting(cb) /\ cb # done[1].cb => Waiting(cb)'
        /\ \A b, c : Fetched(done, b, c) /\ ~FetchOf(done[1], b, c) => Fetched(done', b, c)
    BY <1>0, <2>1, <2>3, OthersWait, Zenon
  <2>5. /\ \A cb : Writes(cb) /\ Waiting(cb) => Waiting(cb)'
        /\ \A b, c : Fetched(done, b, c) => Fetched(done', b, c)
    BY <2>1, <2>2, <2>4 DEF Writes, FetchOf
  <2> QED
    BY <1>0, <1>1, <2>1, <2>5, PendingsKept
<1>5. CASE OnBackupAnswer
  BY <1>0, <1>5, AnswerPending
<1>6. CASE Relaunch \/ ReadDeleted
  <2>1. Len(backups') = 0
    BY <1>6, LaunchShape DEF LaunchedBy
  <2> QED
    BY <2>1 DEF PendingsInv
<1>7. CASE Beside(BackupData)
  BY <1>0, <1>7, NewPending
<1>8. CASE Beside(Fetch)
  BY <1>0, <1>8, FetchPending
<1>9. CASE Beside(Told)
  BY <1>0, <1>9, ToldPending
<1>10. CASE Beside(ClientPersist \/ ClientApply \/ ClientAck \/ ClientReject)
  <2>1. UNCHANGED backups
    BY <1>10, ClientShape, Zenon
  <2>2. ASSUME NEW ok \in BOOLEAN, Finish(ok), queue # <<>>
        PROVE  PendingsInv'
    <3>1. /\ \A cb : Writes(cb) => (Waiting(cb)' <=> Waiting(cb))
          /\ \A b, c : Fetched(done', b, c) <=> Fetched(done, b, c)
      BY <1>0, <2>2, FinishFacts, Zenon
    <3> QED
      BY <1>0, <1>1, <2>1, <3>1, PendingsKept
  <2>3. UNCHANGED <<queue, done>> \/ ((Finish(TRUE) \/ Finish(FALSE)) /\ queue # <<>>)
    BY <1>10, ClientShape, Zenon
  <2> QED
    BY <1>2, <2>1, <2>2, <2>3
<1>11. CASE Beside(link /\ LinkChange)
  BY <1>2, <1>11 DEF Beside, LinkChange
<1>12. CASE UNCHANGED allVars
  BY <1>2, <1>12 DEF allVars, vars, clientVars
<1> QED
  BY <1>3, <1>4, <1>5, <1>6, <1>7, <1>8, <1>9, <1>10, <1>11, <1>12, StepCases

\* A call that waits for nothing has counted every task.
LEMMA NothingAwaited ==
  ASSUME CoreInv, PendingsInv, NEW b \in 1 .. Len(backups), backups[b].told = "nothing",
         ~Awaits(b), ~Stuck(backups[b])
  PROVE  Full(backups[b])
<1>0. TypeInv /\ CallInv(b) /\ queue \in Seq(Write) /\ done \in Seq(Reply)
  BY Zenon DEF CoreInv, CallsInv, TypeInv
<1>1. /\ backups[b].asked = {}
      /\ \A i \in 1 .. Len(queue) : queue[i].cb # Nil => queue[i].cb.run # b
      /\ \A i \in 1 .. Len(done) : done[i].cb.run # b
  BY <1>0, SeqFacts DEF Awaits
<1>2. b \in Nat /\ backups[b] \in Call
      /\ \A c \in Collections : backups[b].cloud[c] # Nil =>
           backups[b].cloud[c] \subseteq c /\ backups[b].cloud[c] \in SUBSET Doc
  BY <1>0, CallFacts
<1>3. Loaded(backups[b]) /\ RestInv(b)
  <2>1. ~Lost(b) /\ (Loaded(backups[b]) => RestInv(b))
    BY DEF PendingsInv, PendingInv
  <2>2. \A c : ~Fetched(done, b, c)
    BY <1>1, Zenon DEF Fetched, FetchOf
  <2>3. Loaded(backups[b])
    BY <1>1, <2>1, <2>2 DEF Lost, Loaded
  <2> QED
    BY <2>1, <2>3
<1>4. \A d \in Doc : ~Waiting(Del(b, d)) /\ ~Waiting(Add(b, d))
  <2> SUFFICES ASSUME NEW d \in Doc, NEW cb, cb = Del(b, d) \/ cb = Add(b, d)
               PROVE  ~Waiting(cb)
    OBVIOUS
  <2>1. cb # Nil /\ cb.run = b
    BY <1>2, TaskFacts
  <2> QED
    BY <1>1, <2>1 DEF Waiting, Holds
<1>5. \A c \in Collections : Cardinality(Deleting(b, c)) = 0
  <2> SUFFICES ASSUME NEW c \in Collections
               PROVE  Cardinality(Deleting(b, c)) = 0
    OBVIOUS
  <2>1. Deleting(b, c) = {}
    BY <1>4, CollectionFacts DEF Deleting
  <2> QED
    BY <2>1, FS_EmptySet
<1>6. /\ Total(backups[b]) \in Nat /\ backups[b].progress \in Nat
      /\ \A c \in Collections :
           backups[b].deleted[c] \in Nat /\ Cardinality(backups[b].cloud[c]) \in Nat
  BY <1>0, <1>3, RestTypes
<1>7. /\ \A c \in Collections :
           Cardinality(backups[b].cloud[c]) <= backups[b].deleted[c] + Cardinality(Deleting(b, c))
      /\ Total(backups[b]) <= backups[b].progress + Cardinality(Todo(b))
  BY <1>3, Zenon DEF RestInv
<1>8. BudgetInv(b)
  BY <1>0, Zenon DEF CallInv
<1>9. /\ \A c \in Collections :
           backups[b].deleted[c] + Cardinality(Deleting(b, c)) <= Cardinality(backups[b].cloud[c])
      /\ backups[b].progress + Cardinality(Todo(b)) + Errors(b) <= Total(backups[b])
  BY <1>3, <1>8, Zenon DEF BudgetInv
<1>10. \A c \in Collections : backups[b].deleted[c] = Cardinality(backups[b].cloud[c])
  BY <1>5, <1>6, <1>7, <1>9
<1>11. /\ Total(backups[b]) # 0
       /\ \A c \in Collections : backups[b].cloud[c] = {} => backups[b].mine \cap c = {}
  BY <1>3 DEF Stuck
<1>12. ASSUME NEW d \in backups[b].mine
       PROVE  d \in Doc /\ Issued(b, CollectionOf(d))
  <2>1. d \in Doc
    BY <1>2 DEF Call
  <2>2. CollectionOf(d) \in Collections /\ d \in CollectionOf(d)
    BY <2>1, CollectionFacts
  <2>3. backups[b].cloud[CollectionOf(d)] # {}
    BY <1>11, <2>2
  <2> QED
    BY <1>3, <1>10, <2>1, <2>2, <2>3 DEF Issued, Loaded
<1>13. ASSUME NEW cb \in Todo(b)
       PROVE  FALSE
  <2>1. cb \in Tasks(b, backups[b])
        /\ (Waiting(cb) \/ (cb.op = "add" /\ ~Issued(b, CollectionOf(cb.doc))))
    BY <1>13 DEF Todo
  <2>2. PICK d \in Doc : cb = Del(b, d) \/ (cb = Add(b, d) /\ d \in backups[b].mine)
    BY <1>2, <1>3, <2>1, TasksOf
  <2>3. ~Waiting(cb)
    BY <1>4, <2>2
  <2>4. cb.op = "add" /\ ~Issued(b, CollectionOf(cb.doc))
    BY <2>1, <2>3
  <2>5. d \in backups[b].mine /\ cb.doc = d
    BY <2>2, <2>4, TaskFacts
  <2> QED
    BY <1>12, <2>4, <2>5
<1>14. Cardinality(Todo(b)) = 0
  <2>1. Todo(b) = {}
    BY <1>13
  <2> QED
    BY <2>1, FS_EmptySet
<1>15. Errors(b) \in Nat
  BY DEF Errors
<1>16. backups[b].progress = Total(backups[b]) /\ Total(backups[b]) > 0
  BY <1>6, <1>7, <1>9, <1>11, <1>14, <1>15
<1> QED
  BY <1>3, <1>16 DEF Full

\* The ring is awaited by something: as long as it covers the screen, a fetch, a
\* write or an answer of its backup is under way, or the progress is full, or
\* an empty collection holds the additions back for good (backupData, 302-376).
\* This is the part of BackupEnds that needs no fairness: no answer can be lost
\* from the counters, whatever the link, the server and the user do meanwhile.
THEOREM RingIsAwaited == EditSpec => []RingAwaits
<1>1. EditInit => CoversInv /\ PendingsInv
  <2>1. EditInit => CoversInv
    BY DataInit DEF DataInv
  <2>2. ASSUME EditInit
        PROVE  Len(backups) = 0
    BY <2>2, EmptySeq DEF EditInit, Init, AtRest
  <2> QED
    BY <2>1, <2>2 DEF PendingsInv
<1>2. CoreInv /\ CoversInv /\ PendingsInv /\ [EditNext]_allVars => CoversInv' /\ PendingsInv'
  BY CoversNext, PendingNext
<1>3. ASSUME CoreInv, CoversInv, PendingsInv
      PROVE  RingAwaits
  <2> SUFFICES ASSUME NEW b \in DOMAIN backups, backups[b].covered,
                      ~Awaits(b), ~Stuck(backups[b])
               PROVE  Full(backups[b])
    BY DEF RingAwaits
  <2>1. b \in 1 .. Len(backups)
    BY <1>3, SeqFacts DEF CoreInv, TypeInv
  <2>2. backups[b].told = "nothing"
    BY <1>3, <2>1 DEF CoversInv, CoverInv
  <2> QED
    BY <1>3, <2>1, <2>2, NothingAwaited
<1>4. CoreInv /\ CoversInv /\ PendingsInv => RingAwaits
  BY <1>3
<1> QED
  BY <1>1, <1>2, <1>4, Invariance, PTL DEF EditSpec
=============================================================================
