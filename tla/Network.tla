------------------------------ MODULE Network ------------------------------
(***************************************************************************)
(* Network: what the app believes of the internet connection.  The system  *)
(* answers reachability on a serial queue, Reachability schedules a notify *)
(* closure on the main queue whenever its flags change, and the closures   *)
(* flip isInternetAvailable and tell DataServiceManager to merge.          *)
(*                                                                         *)
(* A closure reads the flags when it runs, not when it was scheduled, and  *)
(* reads them twice: the serial queue can change them in between.          *)
(***************************************************************************)
EXTENDS Naturals

CONSTANTS
  Nil,              \* flags that have never been read
  MaxLinkChanges,   \* bound: changes of the link
  MaxFailures       \* bound: creations and reads of the flags that fail

Link     == {"unavailable", "wifi", "cellular"}
Cellular == {"2G", "3G", "4G", "unknown"}
Status   == {"disconnect", "wifi"} \cup Cellular

ASSUME NilAssumption == Nil \notin Link
ASSUME BoundAssumption == MaxLinkChanges \in Nat /\ MaxFailures \in Nat

VARIABLES
  link,        \* what the system would answer now
  flags,       \* Reachability.flags
  listening,   \* the system calls Reachability back when the link changes
  closures,    \* notify closures that wait for the main thread
  main,        \* what the main thread is about to do
  available,   \* isInternetAvailable = .Available
  status,      \* the kind of connection
  heard,       \* the value of available at DataServiceManager's last merge
  changes, failures

vars == <<link, flags, listening, closures, main, available, status, heard,
          changes, failures>>

Init ==
  /\ link \in Link
  /\ flags = Nil
  /\ listening = FALSE
  /\ closures = 0
  /\ main = "startMonitor"
  /\ available = FALSE
  /\ status = "disconnect"
  /\ heard = FALSE
  /\ changes = 0 /\ failures = 0

-----------------------------------------------------------------------------
(* Reachability.                                                           *)

Connection(f) == IF f = Nil THEN "unavailable" ELSE f

\* Mutant: no closure for a change that leaves the device online.
SetFlagsForOutagesOnly(f) ==
  /\ flags' = f
  /\ closures' = IF (f = "unavailable") # (Connection(flags) = "unavailable")
                 THEN closures + 1 ELSE closures

\* The setter of flags: a change schedules a notify closure.
SetFlags(f) ==
  /\ flags' = f
  /\ closures' = IF f # flags THEN closures + 1 ELSE closures

\* setReachabilityFlags: the system answers, or refuses and ends the notifier.
ReadSucceeds == SetFlags(link) /\ UNCHANGED failures
ReadFails ==
  /\ failures < MaxFailures /\ failures' = failures + 1
  /\ listening' = FALSE
  /\ UNCHANGED <<flags, closures>>

\* The getter of connection reads the flags if it has none.
ReadConnection ==
  IF flags = Nil
  THEN (ReadSucceeds /\ UNCHANGED listening) \/ ReadFails
  ELSE UNCHANGED <<flags, closures, listening, failures>>

\* The system calls back on the serial queue, whatever the main thread does.
OnLinkChanged ==
  /\ listening
  /\ flags # link
  /\ SetFlags(link)
  /\ UNCHANGED <<link, listening, main, available, status, heard, changes,
                 failures>>

LinkChange ==
  /\ changes < MaxLinkChanges /\ changes' = changes + 1
  /\ link' \in Link \ {link}
  /\ UNCHANGED <<flags, listening, closures, main, available, status, heard,
                 failures>>

-----------------------------------------------------------------------------
(* startMonitor and the rest of the launch.  No closure runs before it ends. *)

\* Reachability cannot be created: nothing is read, heard of or set.
CreationFails ==
  /\ main = "startMonitor" /\ main' = "launchMerge"
  /\ failures < MaxFailures /\ failures' = failures + 1
  /\ UNCHANGED <<link, flags, listening, closures, available, status, heard, changes>>

ReadAvailable ==
  /\ main = "startMonitor" /\ main' = "readStatus"
  /\ ReadConnection
  /\ available' = (Connection(flags') # "unavailable")
  /\ UNCHANGED <<link, status, heard, changes>>

\* The test of line 50 compares an optional with Optional.none: it holds, and
\* an unavailable connection is counted as a cellular one for the time being.
ReadStatus ==
  /\ main = "readStatus" /\ main' = "startNotifier"
  /\ ReadConnection
  /\ status' = IF Connection(flags') = "wifi" THEN "wifi" ELSE "unknown"
  /\ UNCHANGED <<link, available, heard, changes>>

StartNotifier ==
  /\ main = "startNotifier" /\ main' = "launchMerge"
  /\ (ReadSucceeds /\ listening' = TRUE) \/ ReadFails
  /\ UNCHANGED <<link, available, status, heard, changes>>

\* didFinishLaunching merges whatever the flag says by then.
LaunchMerge ==
  /\ main = "launchMerge" /\ main' = "idle"
  /\ heard' = available
  /\ UNCHANGED <<link, flags, listening, closures, available, status, changes,
                 failures>>

-----------------------------------------------------------------------------
(* The notify closures.                                                    *)

\* Mutant: a closure runs once more than it was scheduled.
NotifyAgain ==
  /\ main = "idle"
  /\ closures' = closures - 1
  /\ main' = IF Connection(flags) # "unavailable" THEN "reachable" ELSE "unreachable"
  /\ UNCHANGED <<link, flags, listening, available, status, heard, changes,
                 failures>>

\* A closure chooses between the two handlers by the flags it finds.
Notify ==
  /\ main = "idle" /\ closures > 0
  /\ closures' = closures - 1
  /\ main' = IF Connection(flags) # "unavailable" THEN "reachable" ELSE "unreachable"
  /\ UNCHANGED <<link, flags, listening, available, status, heard, changes,
                 failures>>

\* The flag changes, and the notification that is posted makes
\* changeInternetConnection merge under the new value.
Announce(online) ==
  /\ available' = online
  /\ heard' = IF available # online THEN online ELSE heard

\* Mutant: the notification is only posted when the connection is lost.
WhenReachableSilently ==
  /\ main = "reachable" /\ main' = "idle"
  /\ IF flags = "wifi" THEN status' = "wifi" ELSE status' \in Cellular
  /\ available' = TRUE
  /\ UNCHANGED <<link, flags, listening, closures, heard, changes, failures>>

WhenReachable ==
  /\ main = "reachable" /\ main' = "idle"
  /\ IF flags = "wifi" THEN status' = "wifi" ELSE status' \in Cellular
  /\ Announce(TRUE)
  /\ UNCHANGED <<link, flags, listening, closures, changes, failures>>

WhenUnreachable ==
  /\ main = "unreachable" /\ main' = "idle"
  /\ status' = "disconnect"
  /\ Announce(FALSE)
  /\ UNCHANGED <<link, flags, listening, closures, changes, failures>>

-----------------------------------------------------------------------------
Launch ==
  CreationFails \/ ReadAvailable \/ ReadStatus \/ StartNotifier \/ LaunchMerge
Closure == Notify \/ WhenReachable \/ WhenUnreachable

Next == LinkChange \/ OnLinkChanged \/ Launch \/ Closure

Spec == Init /\ [][Next]_vars

\* The launch runs on, the main queue is served, and the system calls back.
Fairness == WF_vars(Launch) /\ WF_vars(Closure) /\ WF_vars(OnLinkChanged)

FairSpec == Spec /\ Fairness

-----------------------------------------------------------------------------
(* Properties.                                                             *)

TypeOK ==
  /\ link \in Link
  /\ flags \in Link \cup {Nil}
  /\ listening \in BOOLEAN
  /\ closures \in Nat
  /\ main \in {"startMonitor", "readStatus", "startNotifier", "launchMerge",
               "idle", "reachable", "unreachable"}
  /\ available \in BOOLEAN
  /\ status \in Status
  /\ heard \in BOOLEAN
  /\ changes \in Nat /\ failures \in Nat

StatusOf(f) ==
  CASE f = "unavailable" -> {"disconnect"}
    [] f = "wifi"        -> {"wifi"}
    [] f = "cellular"    -> Cellular

\* When no closure is left to run, the flag and the status are those of the
\* last flags Reachability has seen, although every closure reads them twice
\* and the serial queue may change them between the two (Network 54-94).
ClosuresCatchUp ==
  main = "idle" /\ closures = 0 /\ flags # Nil =>
    /\ available = (flags # "unavailable")
    /\ status \in StatusOf(flags)

\* Once the link stays as it is, and unless the notifier could not be started,
\* the app ends up believing what is true, and DataServiceManager has merged
\* under that belief: this is what the fairness of NetworkNotified in
\* DataServiceManager rests on.
Settles ==
  \A k \in Link :
    <>[](link = k /\ listening) =>
      <>[](available = (k # "unavailable") /\ heard = available)
=============================================================================
