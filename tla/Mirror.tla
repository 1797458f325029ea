------------------------------- MODULE Mirror -------------------------------
(***************************************************************************)
(* What the user is promised of the cloud copy, without a queue, a record, *)
(* a network or a callback: an object is either dirty (the app knows, or a *)
(* kill hid, that the copies may differ) or it is clean, and then the two  *)
(* copies are the same and the cloud's does not move.                      *)
(***************************************************************************)
CONSTANTS
  Object,
  Version     \* the versions of an object, its absence included

VARIABLES
  local,      \* the copy in the phone
  remote,     \* the copy in the cloud
  dirty       \* the objects whose copies may differ

vars == <<local, remote, dirty>>

Init ==
  /\ local \in [Object -> Version]
  /\ remote = local
  /\ dirty = {}

\* The user changes objects, or only intends to: they are dirty from now on.
Edit(S) ==
  /\ S # {}
  /\ \E new \in [S -> Version] :
       local' = [o \in Object |-> IF o \in S THEN new[o] ELSE local[o]]
  /\ dirty' = dirty \cup S
  /\ UNCHANGED remote

\* The cloud receives some version of a dirty object, perhaps an old one.
Push(o) ==
  /\ o \in dirty
  /\ \E v \in Version : remote' = [remote EXCEPT ![o] = v]
  /\ UNCHANGED <<local, dirty>>

\* A dirty object is declared clean only when the cloud has its version.
Settle(o) ==
  /\ o \in dirty
  /\ remote[o] = local[o]
  /\ dirty' = dirty \ {o}
  /\ UNCHANGED <<local, remote>>

Next ==
  \/ \E S \in SUBSET Object : Edit(S)
  \/ \E o \in Object : Push(o) \/ Settle(o)

Spec == Init /\ [][Next]_vars

\* A clean object has one version, in both copies.
CleanIsEqual == \A o \in Object \ dirty : local[o] = remote[o]
=============================================================================
