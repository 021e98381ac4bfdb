\* Two Rebuilds, a retried Job and one failed call by Reconcile as it is; or the
\* swap handler as its unit test drives it.
SPECIFICATION Spec
CONSTANTS
  Drives <- ReconcileOrHandler
  MaxBackoff = 1
  MaxRebuilds = 2
  MaxFaults = 1
INVARIANTS ApiServes ImportBesideLive
PROPERTIES RetiredAfterWindow
