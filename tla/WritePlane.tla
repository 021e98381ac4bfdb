----------------------------- MODULE WritePlane -----------------------------
(***************************************************************************)
(* The write-plane policy of the NominatimOperation controller: which      *)
(* Operations count as write-heavy, which pairs may not run together, what *)
(* it means to hold the write plane and how a claim is decided             *)
(* (nominatimoperation_resources.go and nominatimoperation_mutex.go).      *)
(*                                                                         *)
(* All Operations of the model target one NominatimInstance in one         *)
(* namespace.  An Operation's name is a natural number and the creation    *)
(* race compares names with <.                                             *)
(***************************************************************************)
EXTENDS Naturals

CONSTANTS
  Ops,      \* names of the NominatimOperations that may be created
  OpType    \* spec.type of each of them

\* The eight implemented types, and "Reserved" for any other spec.type string.
ImplementedTypes ==
  {"Bootstrap", "AddRegions", "Rebuild", "Update", "CatchUp", "Refresh",
   "Migrate", "Freeze"}

Types == ImplementedTypes \union {"Reserved"}

ASSUME OpsAssumption == Ops \subseteq Nat /\ OpType \in [Ops -> Types]

-----------------------------------------------------------------------------

isOperationTypeImplemented(t) == t \in ImplementedTypes

isWriteHeavyOperation(t) ==
  t \in {"Bootstrap", "AddRegions", "Rebuild", "Migrate", "Freeze"}

requiresRegionGate(t) == t \in {"AddRegions", "Update", "CatchUp"}

\* status.phase; "" is an Operation that has never been given a phase.
ActivePhases == {"", "Pending", "Running"}
TerminalPhases == {"Succeeded", "Failed"}
Phases == ActivePhases \union TerminalPhases

isActiveOperationPhase(ph) == ph \in ActivePhases

isTerminalOperationPhase(ph) == ph \in TerminalPhases

\* Mutant: the failed counter is tested after the active one.
phaseFromJobActiveFirst(succeeded, failed, active) ==
  CASE succeeded > 0                              -> "Succeeded"
    [] succeeded = 0 /\ active > 0                -> "Running"
    [] succeeded = 0 /\ active = 0 /\ failed > 0  -> "Failed"
    [] OTHER                                      -> "Pending"

\* The Job's pod counters decide the phase, in this order of precedence.
phaseFromJob(succeeded, failed, active) ==
  CASE succeeded > 0                              -> "Succeeded"
    [] succeeded = 0 /\ failed > 0                -> "Failed"
    [] succeeded = 0 /\ failed = 0 /\ active > 0  -> "Running"
    [] OTHER                                      -> "Pending"

-----------------------------------------------------------------------------

Impacts == {"Never", "BootstrapRebuild", "WriteHeavy", "All"}

\* Whether a side effect selected by impact covers an Operation of type t.
operationImpactMatches(impact, t) ==
  \/ impact = "All"
  \/ impact = "WriteHeavy" /\ isWriteHeavyOperation(t)
  \/ impact = "BootstrapRebuild" /\ t \in {"Bootstrap", "Rebuild"}

-----------------------------------------------------------------------------

operationsMutexConflict(a, b) ==
  /\ a # b
  /\ isWriteHeavyOperation(OpType[a]) \/ isWriteHeavyOperation(OpType[b])

\* Mutant: only a Running peer counts, an armed Job does not.
peerHoldsOnlyRunning(ph, armed) == ph = "Running"

\* ph and armed are the peer's status.phase and whether status.jobRef is set.
peerHoldsWritePlane(ph, armed) ==
  isActiveOperationPhase(ph) /\ (ph = "Running" \/ armed)

\* Mutant: every active conflicting peer makes the claim wait.
evaluateWritePlaneNoRace(o, peers, phase, jobRef) ==
  LET active == {p \in peers : /\ operationsMutexConflict(o, p)
                               /\ isActiveOperationPhase(phase[p])}
  IN  IF active # {} THEN "RaceWait" ELSE "OK"

\* The decision of a claim by o against the listed peers.
evaluateWritePlane(o, peers, phase, jobRef) ==
  LET active == {p \in peers : /\ operationsMutexConflict(o, p)
                               /\ isActiveOperationPhase(phase[p])}
  IN  IF \E p \in active : peerHoldsWritePlane(phase[p], jobRef[p])
        THEN "Hold"
        ELSE IF \E p \in active : p < o THEN "RaceWait" ELSE "OK"

=============================================================================
