--------------------------- MODULE NetworkProofs ---------------------------
(***************************************************************************)
(* That the notify closures catch up with the flags, for any number of     *)
(* changes of the link and of failed reads.                                *)
(***************************************************************************)
EXTENDS Network, TLAPS

\* An executing handler was chosen by flags that may have changed since; then
\* the change has scheduled another closure.  Flags that were never read have
\* scheduled none.
CatchUpInv ==
  /\ flags = Nil => closures = 0
  /\ main \in {"startMonitor", "readStatus", "startNotifier", "launchMerge"}
     /\ flags # Nil => closures > 0
  /\ main = "reachable" /\ closures = 0 => flags \in {"wifi", "cellular"}
  /\ main = "unreachable" /\ closures = 0 => flags = "unavailable"

IInv == TypeOK /\ CatchUpInv /\ ClosuresCatchUp

\* The setter of flags, on the serial queue or the main thread, leaves the
\* flags as they were or has a closure scheduled.
LEMMA SetFlagsFacts ==
  ASSUME TypeOK, NEW f \in Link, SetFlags(f)
  PROVE  /\ flags' = f
         /\ closures' \in Nat
         /\ flags' # flags => closures' > 0
         /\ flags' = flags => closures' = closures
  BY DEF TypeOK, SetFlags

\* Reading the connection at launch: the flags stay, are set, or stay unread.
LEMMA ReadFacts ==
  ASSUME IInv, ReadConnection \/ ReadSucceeds \/ ReadFails
  PROVE  /\ flags' \in Link \cup {Nil} /\ closures' \in Nat /\ failures' \in Nat
         /\ flags' = Nil => closures' = 0
         /\ closures > 0 \/ (flags # flags' /\ flags' # Nil) => closures' > 0
<1>1. CASE ReadSucceeds
  BY <1>1, SetFlagsFacts, NilAssumption DEF IInv, TypeOK, CatchUpInv, ReadSucceeds, SetFlags
<1>2. CASE ReadFails
  BY <1>2 DEF IInv, TypeOK, CatchUpInv, ReadFails
<1>3. CASE UNCHANGED <<flags, closures, failures>>
  BY <1>3 DEF IInv, TypeOK, CatchUpInv
<1> QED
  BY <1>1, <1>2, <1>3 DEF ReadConnection

LEMMA InitIInv == Init => IInv
<1> SUFFICES ASSUME Init
             PROVE  IInv
  OBVIOUS
<1>1. TypeOK
  BY DEF Init, TypeOK, Status
<1>2. main = "startMonitor" /\ flags = Nil /\ closures = 0
  BY DEF Init
<1>3. CatchUpInv
  BY <1>2 DEF CatchUpInv
<1>4. ClosuresCatchUp
  BY <1>2 DEF ClosuresCatchUp
<1> QED
  BY <1>1, <1>3, <1>4 DEF IInv

\* The two steps beside the main thread.
LEMMA SerialQueueKeepsIInv ==
  ASSUME IInv, LinkChange \/ OnLinkChanged
  PROVE  IInv'
<1>1. CASE LinkChange
  BY <1>1 DEF IInv, TypeOK, CatchUpInv, ClosuresCatchUp, LinkChange
<1>2. CASE OnLinkChanged
  BY <1>2, NilAssumption
     DEF IInv, TypeOK, CatchUpInv, ClosuresCatchUp, OnLinkChanged, SetFlags
<1> QED
  BY <1>1, <1>2

\* The launch: whatever is read leaves a closure to run.
LEMMA LaunchKeepsIInv ==
  ASSUME IInv, Launch
  PROVE  IInv'
<1>1. CASE ReadAvailable
  BY <1>1, ReadFacts, NilAssumption
     DEF IInv, TypeOK, CatchUpInv, ClosuresCatchUp, ReadAvailable, ReadConnection, ReadFails
<1>2. CASE ReadStatus
  BY <1>2, ReadFacts, NilAssumption
     DEF IInv, TypeOK, CatchUpInv, ClosuresCatchUp, ReadStatus, ReadConnection, ReadFails,
         Status, Cellular
<1>3. CASE StartNotifier
  BY <1>3, ReadFacts, NilAssumption
     DEF IInv, TypeOK, CatchUpInv, ClosuresCatchUp, StartNotifier, ReadFails
<1>4. CASE LaunchMerge
  BY <1>4 DEF IInv, TypeOK, CatchUpInv, ClosuresCatchUp, LaunchMerge
<1>5. CASE CreationFails
  BY <1>5 DEF IInv, TypeOK, CatchUpInv, ClosuresCatchUp, CreationFails
<1> QED
  BY <1>1, <1>2, <1>3, <1>4, <1>5 DEF Launch

\* A closure: the last one leaves the flag and the status as the flags are.
LEMMA ClosureKeepsIInv ==
  ASSUME IInv, Closure
  PROVE  IInv'
<1>1. CASE Notify
  BY <1>1, NilAssumption
     DEF IInv, TypeOK, CatchUpInv, ClosuresCatchUp, Notify, Connection, Link
<1>2. CASE WhenReachable
  BY <1>2, NilAssumption
     DEF IInv, TypeOK, CatchUpInv, ClosuresCatchUp, WhenReachable, Announce, Link,
         Status, Cellular, StatusOf
<1>3. CASE WhenUnreachable
  BY <1>3, NilAssumption
     DEF IInv, TypeOK, CatchUpInv, ClosuresCatchUp, WhenUnreachable, Announce, Link,
         Status, StatusOf
<1> QED
  BY <1>1, <1>2, <1>3 DEF Closure

LEMMA Invariance == Spec => []IInv
<1>1. IInv /\ UNCHANGED vars => IInv'
  BY DEF IInv, TypeOK, CatchUpInv, ClosuresCatchUp, vars
<1>2. IInv /\ [Next]_vars => IInv'
  BY <1>1, SerialQueueKeepsIInv, LaunchKeepsIInv, ClosureKeepsIInv DEF Next
<1> QED
  BY <1>2, InitIInv, PTL DEF Spec

\* Every reachable state has the types of the declarations.
THEOREM NetworkTypes == Spec => []TypeOK
  BY Invariance, PTL DEF IInv

\* Once the last notify closure has run, isInternetAvailable and status are
\* those of the last flags Reachability has seen, whatever the serial queue
\* changed while the closures ran.
THEOREM CatchUp == Spec => []ClosuresCatchUp
  BY Invariance, PTL DEF IInv
=============================================================================
