---------------------------- MODULE MCBlueGreen ----------------------------
(***************************************************************************)
(* Instances of BlueGreen.                                                 *)
(***************************************************************************)
EXTENDS BlueGreen

\* One Rebuild by Reconcile as it is.
OneRebuild == {[resetsPhase |-> TRUE, backoff |-> 0, rebuilds |-> 1]}

\* Two Rebuilds with a retried Job by Reconcile as it is, or one by the swap
\* handler as its unit test drives it.
ReconcileOrHandler ==
  {[resetsPhase |-> TRUE, backoff |-> 1, rebuilds |-> 2],
   [resetsPhase |-> FALSE, backoff |-> 0, rebuilds |-> 1]}
=============================================================================
