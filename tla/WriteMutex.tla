----------------------------- MODULE WriteMutex -----------------------------
(***************************************************************************)
(* What claimWritePlane promises: the write plane of a NominatimInstance   *)
(* is a lock shared by Operations that do not conflict.  An Operation      *)
(* acquires it only while no conflicting Operation holds it.               *)
(***************************************************************************)
EXTENDS WritePlane

VARIABLE holders   \* Operations whose status says they hold the write plane

MutexInit == holders = {}

Acquire(o) ==
  /\ o \notin holders
  /\ \A h \in holders : ~operationsMutexConflict(o, h)
  /\ holders' = holders \union {o}

Release(o) ==
  /\ o \in holders
  /\ holders' = holders \ {o}

MutexNext == \E o \in Ops : Acquire(o) \/ Release(o)

MutexSpec == MutexInit /\ [][MutexNext]_holders

=============================================================================
