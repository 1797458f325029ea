--------------------------- MODULE FirestoreClient ---------------------------
(***************************************************************************)
(* The Firestore SDK as the app uses it: a set or a delete of one document *)
(* is appended to a durable queue of mutations, the queue is sent to the   *)
(* server in order, and the completion block of a write is called on the   *)
(* main thread once the server has answered.  A value is a version number  *)
(* of the document; Absent is a document that does not exist.              *)
(*                                                                         *)
(* A query sees the stored writes before what its source says.  Left out:  *)
(* the limit of ten writes on the wire (it only delays an Apply), and the  *)
(* back-off of a stream that is being reopened.                            *)
(***************************************************************************)
EXTENDS Naturals, Sequences

CONSTANTS
  Doc,        \* the identifiers of all documents
  Nil         \* no completion block

VARIABLES
  server,     \* the server's version of each document
  queue,      \* the writes that are not answered yet, oldest first
  persisted,  \* how many of them, from the head, the SDK has stored on disk
  applied,    \* how many of them, from the head, the server has applied
  done        \* completion blocks handed to the main thread, with the answer

clientVars == <<server, queue, persisted, applied, done>>

Absent == 0

ClientInit ==
  /\ server = [d \in Doc |-> Absent]
  /\ queue = <<>>
  /\ persisted = 0
  /\ applied = 0
  /\ done = <<>>

\* The worker queue runs WriteMutations: the write is in the local store.
Persist ==
  /\ persisted < Len(queue)
  /\ persisted' = persisted + 1
  /\ UNCHANGED <<server, queue, applied, done>>

\* The server applies the next write of the stream.
Apply ==
  /\ applied < persisted
  /\ LET w == queue[applied + 1]
     IN  server' = [server EXCEPT ![w.doc] = w.val]
  /\ applied' = applied + 1
  /\ UNCHANGED <<queue, persisted, done>>

\* A write leaves the pipeline; its completion block, if it still has one,
\* is scheduled on the main thread.
Finish(ok) ==
  /\ queue' = Tail(queue)
  /\ persisted' = persisted - 1
  /\ done' = IF Head(queue).cb = Nil
             THEN done
             ELSE Append(done, [cb |-> Head(queue).cb, ok |-> ok])

\* Mutant: the cursor of the server is not moved when its head is popped.
AcknowledgeKeepsCursor ==
  /\ applied > 0
  /\ Finish(TRUE)
  /\ UNCHANGED <<server, applied>>

Acknowledge ==
  /\ applied > 0
  /\ applied' = applied - 1
  /\ Finish(TRUE)
  /\ UNCHANGED server

\* A permanent error: the head is dropped and reported, the rest is resent.
Reject ==
  /\ applied = 0
  /\ persisted > 0
  /\ Finish(FALSE)
  /\ UNCHANGED <<server, applied>>

\* The write stream is lost.  The answers on their way are lost with it, and
\* the next stream sends the whole pipeline again.
StreamLost == applied' = 0

\* A document as a query sees it: the writes in the local store come before
\* what the source of the answer, the server or the cache, says.
Seen(source, d) ==
  LET mine == {i \in 1 .. persisted : queue[i].doc = d}
  IN  IF mine = {} THEN source[d]
      ELSE LET last == CHOOSE i \in mine : \A j \in mine : j <= i
           IN  queue[last].val

\* What is left of the queue when the process is killed: the stored writes,
\* whose completion blocks are gone.
Restored ==
  [i \in 1 .. persisted |->
     [doc |-> queue[i].doc, val |-> queue[i].val, cb |-> Nil]]

=============================================================================
