----------------------------- MODULE Operations -----------------------------
(***************************************************************************)
(* The NominatimOperation controller against one NominatimInstance.        *)
(*                                                                         *)
(* One worker runs one Reconcile pass at a time (pass); every API call of  *)
(* a pass that other actors can observe is a step of its own, and between  *)
(* two steps users, the Instance controller, the Job controller, the       *)
(* garbage collector and CloudNativePG may act.  A call may fail or the    *)
(* operator may restart between any two steps (FailCall); the pass is then *)
(* lost and a later one starts from what the API server holds.             *)
(*                                                                         *)
(* BlueGreen Rebuilds and the in-place Database reset are not here: they   *)
(* sit between the claim and the Job and have modules of their own.        *)
(***************************************************************************)
EXTENDS WritePlane

CONSTANTS
  NoOp,               \* the worker is idle
  Mode,               \* status.database.mode once the database is attached
  RegionsConfigured,  \* parent.spec.regions is not empty
  HasRegions,         \* Operations whose own spec.regions is not empty
  RebuildRefused,     \* rebuildStrategy=BlueGreen without an owned Cluster
  InitialImpact,      \* spec.database.pauseBackupsDuringOperations
  BackoffLimit,       \* spec.backoffLimit of every worker Job (2 in the code)
  MaxFaults,          \* bound: failed calls and operator restarts
  MaxDeletes,         \* bound: Operations deleted by a user
  MaxEdits            \* bound: policy edits, Job deletions, Cluster deletions

ASSUME OperationsAssumption ==
  /\ NoOp \notin Ops
  /\ Mode \in {"ClusterManaged", "ClusterAttached", "ConnectionSecret"}
  /\ RegionsConfigured \in BOOLEAN
  /\ HasRegions \subseteq Ops
  /\ RebuildRefused \in BOOLEAN
  /\ InitialImpact \in Impacts
  /\ BackoffLimit \in Nat
  /\ MaxFaults \in Nat /\ MaxDeletes \in Nat /\ MaxEdits \in Nat

VARIABLES
  life,      \* has the Operation been created, is it terminating, is it gone
  fin,       \* does it carry the Operation finalizer
  phase,     \* status.phase
  why,       \* the reason failOperation wrote into status.message
  jobRef,    \* is status.jobRef set
  job,       \* the worker Job of the Operation (same name)
  parent,    \* the NominatimInstance: live, deleting or gone
  attached,  \* has status.database been written
  cluster,   \* the CNPG Cluster: absent, starting or ready
  impact,    \* spec.database.pauseBackupsDuringOperations
  observed,  \* status.regions is not empty
  refs,      \* status.activeOperationRefs
  paused,    \* the backup-paused annotation on the Cluster
  profile,   \* the postgres parameter profile on the Cluster
  pass,      \* the Reconcile pass in progress
  forced,    \* history: Operations failed by the controller with a Job armed
  faults, deletes, edits

opVars  == <<life, fin, phase, why, jobRef, forced>>
cnpgVars == <<cluster, paused, profile>>
nomVars == <<parent, attached, impact, observed>>
bounds  == <<faults, deletes, edits>>
vars == <<life, fin, phase, why, jobRef, job, parent, attached, cluster,
          impact, observed, refs, paused, profile, pass, forced,
          faults, deletes, edits>>

-----------------------------------------------------------------------------

Lives == {"new", "live", "deleting", "gone"}

Reasons ==
  {"", "NotImplemented", "ParentNotFound", "ParentDeleting",
   "UnsupportedRebuild", "Conflict", "RegionsRequired", "BootstrapIncomplete"}

Jobs == [exists : BOOLEAN, active : 0..1, succeeded : 0..1, failed : Nat]

NoJob == [exists |-> FALSE, active |-> 0, succeeded |-> 0, failed |-> 0]

\* A Job with these pod counters in its status.
JobWith(a, s, f) == [exists |-> TRUE, active |-> a, succeeded |-> s, failed |-> f]

\* A Job as the API server stores it on Create, before any pod exists.
FreshJob == JobWith(0, 0, 0)

Steps ==
  {"idle", "fail", "claim", "gate", "pause", "import", "await", "job", "sync",
   "resync", "ref", "unref", "resume", "runtime", "finalize"}

Passes ==
  [op : Ops \union {NoOp}, pc : Steps, reason : Reasons, attached : BOOLEAN,
   impact : Impacts, complete : BOOLEAN, stale : BOOLEAN, deleting : BOOLEAN]

IdlePass ==
  [op |-> NoOp, pc |-> "idle", reason |-> "", attached |-> FALSE,
   impact |-> "Never", complete |-> FALSE, stale |-> FALSE, deleting |-> FALSE]

Exists(o) == life[o] \in {"live", "deleting"}

Peers == {o \in Ops : Exists(o)}

Holds(o) == Exists(o) /\ peerHoldsWritePlane(phase[o], jobRef[o])

\* The worker's pods may be writing to the database.
Writing(o) == job[o].active > 0

\* status.regions is set, or a Bootstrap Operation has Succeeded.
bootstrapComplete ==
  observed \/ \E p \in Peers : OpType[p] = "Bootstrap" /\ phase[p] = "Succeeded"

\* There is no Cluster to patch: not attached yet, or connectionSecretRef.
skipCNPGClusterEffects(isAttached) ==
  ~isAttached \/ Mode = "ConnectionSecret"

-----------------------------------------------------------------------------

Init ==
  /\ life = [o \in Ops |-> "new"]
  /\ fin = [o \in Ops |-> FALSE]
  /\ phase = [o \in Ops |-> ""]
  /\ why = [o \in Ops |-> ""]
  /\ jobRef = [o \in Ops |-> FALSE]
  /\ job = [o \in Ops |-> NoJob]
  /\ parent = "live"
  /\ attached = FALSE
  /\ cluster = IF Mode = "ClusterManaged" THEN "absent" ELSE "starting"
  /\ impact = InitialImpact
  /\ observed = FALSE
  /\ refs = {}
  /\ paused = FALSE
  /\ profile = "runtime"
  /\ pass = IdlePass
  /\ forced = {}
  /\ faults = 0 /\ deletes = 0 /\ edits = 0

-----------------------------------------------------------------------------
(* Starting a pass: Reconcile reads the Operation and its parent.          *)

Goto(step) == pass' = [pass EXCEPT !.pc = step]

Return == pass' = IdlePass

StartAt(o, step, reason) ==
  pass' = [op |-> o, pc |-> step, reason |-> reason, attached |-> attached,
           impact |-> impact, complete |-> bootstrapComplete,
           stale |-> FALSE, deleting |-> life[o] = "deleting"]

\* The early returns of Reconcile that fail the Operation before any claim.
Refusal(o) ==
  IF ~isOperationTypeImplemented(OpType[o]) THEN "NotImplemented"
  ELSE IF parent = "gone" THEN "ParentNotFound"
  ELSE IF parent = "deleting" THEN "ParentDeleting"
  ELSE IF OpType[o] = "Rebuild" /\ RebuildRefused THEN "UnsupportedRebuild"
  ELSE ""

\* A live Operation is given its finalizer first and the pass goes on.
StartLive(o) ==
  /\ pass.pc = "idle"
  /\ life[o] = "live"
  /\ fin' = [fin EXCEPT ![o] = TRUE]
  /\ UNCHANGED <<life, phase, why, jobRef, job, nomVars, cnpgVars, refs, forced, bounds>>

StartRefused(o) ==
  /\ ~isTerminalOperationPhase(phase[o])
  /\ Refusal(o) # ""
  /\ StartAt(o, "fail", Refusal(o))
  /\ StartLive(o)

StartClaim(o) ==
  /\ ~isTerminalOperationPhase(phase[o])
  /\ Refusal(o) = ""
  /\ StartAt(o, "claim", "")
  /\ StartLive(o)

\* reconcileTerminalOperation re-reads the Job only when jobRef is set.
StartTerminal(o) ==
  /\ isTerminalOperationPhase(phase[o])
  /\ StartAt(o, IF jobRef[o] THEN "resync" ELSE "ref", "")
  /\ StartLive(o)

StartDelete(o) ==
  /\ pass.pc = "idle"
  /\ life[o] = "deleting"
  /\ StartAt(o, "unref", "")
  /\ UNCHANGED <<opVars, job, nomVars, cnpgVars, refs, bounds>>

StartPass(o) == StartRefused(o) \/ StartClaim(o) \/ StartTerminal(o) \/ StartDelete(o)

-----------------------------------------------------------------------------
(* The steps of a pass.  Status().Update on the Operation is optimistic:   *)
(* it is refused, and the pass ends, when the object changed since it was  *)
(* read (pass.stale).                                                      *)

\* Mutant: Hold is not distinguished from OK.
ClaimIgnoresHold ==
  /\ pass.pc = "claim"
  /\ IF evaluateWritePlane(pass.op, Peers, phase, jobRef) = "RaceWait"
       THEN Return /\ UNCHANGED refs
       ELSE /\ Goto("gate")
            /\ refs' = IF parent = "gone" THEN refs ELSE refs \union {pass.op}
  /\ UNCHANGED <<opVars, job, nomVars, cnpgVars, bounds>>

\* claimWritePlane.  The list of peers and the parent update are one step:
\* no other actor can make a peer active-and-holding in between, and the
\* parent update retries on conflict.
claimWritePlane ==
  /\ pass.pc = "claim"
  /\ LET decision == evaluateWritePlane(pass.op, Peers, phase, jobRef)
     IN  \/ /\ decision = "Hold"
            /\ pass' = [pass EXCEPT !.pc = "fail", !.reason = "Conflict"]
            /\ UNCHANGED refs
         \/ /\ decision = "RaceWait"
            /\ Return
            /\ UNCHANGED refs
         \/ /\ decision = "OK"
            /\ Goto("gate")
            /\ refs' = IF parent = "gone" THEN refs ELSE refs \union {pass.op}
  /\ UNCHANGED <<opVars, job, nomVars, cnpgVars, bounds>>

\* The reason enforceRegionGates fails the Operation with, or "".
GateReason ==
  IF ~requiresRegionGate(OpType[pass.op]) THEN ""
  ELSE IF ~RegionsConfigured /\ pass.op \notin HasRegions THEN "RegionsRequired"
  ELSE IF RegionsConfigured /\ ~pass.complete THEN "BootstrapIncomplete"
  ELSE ""

\* enforceRegionGates; the staging PVC, which no other step reads, is ensured
\* when the gate lets the Operation through.
enforceRegionGates ==
  /\ pass.pc = "gate"
  /\ pass' = IF GateReason = ""
               THEN [pass EXCEPT !.pc = "pause"]
               ELSE [pass EXCEPT !.pc = "fail", !.reason = GateReason]
  /\ UNCHANGED <<opVars, job, nomVars, cnpgVars, refs, bounds>>

\* applyPreJobCNPGEffects, first call: setBackupPaused(true) on the Cluster
\* named by the parent as read at the start of the pass.
applyPreJobCNPGEffects ==
  /\ pass.pc = "pause"
  /\ \/ /\ ~operationImpactMatches(pass.impact, OpType[pass.op]) \/ skipCNPGClusterEffects(pass.attached)
        /\ Goto("await")
        /\ UNCHANGED paused
     \/ /\ operationImpactMatches(pass.impact, OpType[pass.op])
        /\ ~skipCNPGClusterEffects(pass.attached)
        /\ IF cluster = "absent"
             THEN Return /\ UNCHANGED paused
             ELSE Goto("import") /\ paused' = TRUE
  /\ UNCHANGED <<opVars, job, nomVars, cluster, profile, refs, bounds>>

\* Second call: applyPostgresProfile(import).
applyImportProfile ==
  /\ pass.pc = "import"
  /\ IF cluster = "absent"
       THEN Return /\ UNCHANGED profile
       ELSE Goto("await") /\ profile' = "import"
  /\ UNCHANGED <<opVars, job, nomVars, cluster, paused, refs, bounds>>

\* waitForJobPrerequisites and cnpgClusterReadyForJobs: the connection Secret
\* is named in the parent the pass read, and the Cluster is Ready with its
\* Database applied.  Otherwise the pass ends and is requeued.
waitForJobPrerequisites ==
  /\ pass.pc = "await"
  /\ IF pass.attached /\ (Mode = "ConnectionSecret" \/ cluster = "ready")
       THEN Goto("job")
       ELSE Return
  /\ UNCHANGED <<opVars, job, nomVars, cnpgVars, refs, bounds>>

\* Get, and Create when the Job is missing.  A Job without the DSN is never
\* created here, so the branch that deletes one has nothing to do.
ensureJob ==
  /\ pass.pc = "job"
  /\ Goto("sync")
  /\ job' = IF job[pass.op].exists THEN job ELSE [job EXCEPT ![pass.op] = FreshJob]
  /\ UNCHANGED <<opVars, nomVars, cnpgVars, refs, bounds>>

\* Mutant: status.jobRef is written only once the Job is Running.
syncStatusLateRef ==
  /\ pass.pc \in {"sync", "resync"}
  /\ Goto("ref")
  /\ LET j == job[pass.op]
         ph == phaseFromJob(j.succeeded, j.failed, j.active)
     IN  /\ phase' = [phase EXCEPT ![pass.op] = ph]
         /\ jobRef' = [jobRef EXCEPT ![pass.op] = ph # "Pending"]
         /\ why' = [why EXCEPT ![pass.op] = ""]
  /\ UNCHANGED <<life, fin, forced, job, nomVars, cnpgVars, refs, bounds>>

\* syncStatusFromJob, on the active path and (resync) on the terminal one.
\* Without a Job the status is left as it is.
syncStatusFromJob ==
  /\ pass.pc \in {"sync", "resync"}
  /\ LET j == job[pass.op]
     IN  \/ /\ ~j.exists
            /\ Goto("ref")
            /\ UNCHANGED <<phase, jobRef, why>>
         \/ /\ j.exists /\ pass.stale
            /\ Return
            /\ UNCHANGED <<phase, jobRef, why>>
         \/ /\ j.exists /\ ~pass.stale
            /\ Goto("ref")
            /\ phase' = [phase EXCEPT ![pass.op] = phaseFromJob(j.succeeded, j.failed, j.active)]
            /\ jobRef' = [jobRef EXCEPT ![pass.op] = TRUE]
            /\ why' = [why EXCEPT ![pass.op] = ""]
  /\ UNCHANGED <<life, fin, forced, job, nomVars, cnpgVars, refs, bounds>>

\* failOperation: the status write; syncParentSideEffects follows.
failOperation ==
  /\ pass.pc = "fail"
  /\ IF pass.stale
       THEN Return /\ UNCHANGED <<phase, why, forced>>
       ELSE /\ Goto("ref")
            /\ phase' = [phase EXCEPT ![pass.op] = "Failed"]
            /\ why' = [why EXCEPT ![pass.op] = pass.reason]
            /\ forced' = IF jobRef[pass.op] THEN forced \union {pass.op} ELSE forced
  /\ UNCHANGED <<life, fin, jobRef, job, nomVars, cnpgVars, refs, bounds>>

\* syncParentSideEffects, first part: syncParentActiveOperationRef.
syncParentSideEffects ==
  /\ pass.pc = "ref"
  /\ refs' = IF parent = "gone" THEN refs
             ELSE IF isActiveOperationPhase(phase[pass.op]) THEN refs \union {pass.op}
             ELSE refs \ {pass.op}
  /\ IF isTerminalOperationPhase(phase[pass.op]) THEN Goto("resume") ELSE Return
  /\ UNCHANGED <<opVars, job, nomVars, cnpgVars, bounds>>

\* Mutant: the delete path leaves the parent's reference behind.
deleteKeepsRef ==
  /\ pass.pc = "unref"
  /\ Goto("resume")
  /\ UNCHANGED <<opVars, job, nomVars, cnpgVars, refs, bounds>>

\* reconcileOperationDelete, first call.
deleteUnref ==
  /\ pass.pc = "unref"
  /\ refs' = IF parent = "gone" THEN refs ELSE refs \ {pass.op}
  /\ Goto("resume")
  /\ UNCHANGED <<opVars, job, nomVars, cnpgVars, bounds>>

\* Where a pass goes once the terminal effects are done.
AfterEffects == IF pass.deleting THEN Goto("finalize") ELSE Return

\* Mutant: no look at the other Operations before resuming.
NoOtherOps == FALSE

hasOtherActiveMatchingImpactOps ==
  \E p \in Peers \ {pass.op} : /\ isActiveOperationPhase(phase[p])
                               /\ operationImpactMatches(impact, OpType[p])

\* The terminal effects apply: the parent, fetched again, still has a policy
\* that covers this Operation and no other active Operation needs the pause.
ResumeDue ==
  /\ parent # "gone"
  /\ operationImpactMatches(impact, OpType[pass.op])
  /\ ~hasOtherActiveMatchingImpactOps
  /\ ~skipCNPGClusterEffects(attached)

\* Mutant: a terminal Operation never resumes backups.
terminalEffectsSkipped ==
  /\ pass.pc = "resume"
  /\ AfterEffects
  /\ UNCHANGED <<opVars, job, nomVars, cnpgVars, refs, bounds>>

\* applyTerminalCNPGEffects, first call: setBackupPaused(false).  A Cluster
\* that no longer exists is an error that ends the pass.
applyTerminalCNPGEffects ==
  /\ pass.pc = "resume"
  /\ IF ~ResumeDue
       THEN AfterEffects /\ UNCHANGED paused
       ELSE IF cluster = "absent"
              THEN Return /\ UNCHANGED paused
              ELSE Goto("runtime") /\ paused' = FALSE
  /\ UNCHANGED <<opVars, job, nomVars, cluster, profile, refs, bounds>>

\* Second call: applyPostgresProfile(runtime).
applyRuntimeProfile ==
  /\ pass.pc = "runtime"
  /\ IF cluster = "absent"
       THEN Return /\ UNCHANGED profile
       ELSE AfterEffects /\ profile' = "runtime"
  /\ UNCHANGED <<opVars, job, nomVars, cluster, paused, refs, bounds>>

\* reconcileOperationDelete, last call: the finalizer goes and, with it, the
\* Operation.  The Job is left to the garbage collector.
removeOperationFinalizer ==
  /\ pass.pc = "finalize"
  /\ life' = [life EXCEPT ![pass.op] = "gone"]
  /\ fin' = [fin EXCEPT ![pass.op] = FALSE]
  /\ Return
  /\ UNCHANGED <<phase, why, jobRef, forced, job, nomVars, cnpgVars, refs, bounds>>

\* An API call fails or the operator restarts: the pass is lost.
FailCall ==
  /\ pass.pc # "idle"
  /\ faults < MaxFaults
  /\ faults' = faults + 1
  /\ Return
  /\ UNCHANGED <<opVars, job, nomVars, cnpgVars, refs, deletes, edits>>

PassStep ==
  \/ claimWritePlane \/ enforceRegionGates
  \/ applyPreJobCNPGEffects \/ applyImportProfile
  \/ waitForJobPrerequisites \/ ensureJob \/ syncStatusFromJob
  \/ failOperation \/ syncParentSideEffects
  \/ deleteUnref \/ applyTerminalCNPGEffects \/ applyRuntimeProfile
  \/ removeOperationFinalizer

-----------------------------------------------------------------------------
(* Users.                                                                  *)

CreateOperation(o) ==
  /\ life[o] = "new"
  /\ life' = [life EXCEPT ![o] = "live"]
  /\ UNCHANGED <<fin, phase, why, jobRef, forced, job, nomVars, cnpgVars, refs, pass, bounds>>

\* DELETE on a set of Operations: those with a finalizer start terminating,
\* the others go at once.  The object changes under a pass that read it.
DeleteSet(S) ==
  /\ life' = [o \in Ops |-> IF o \notin S THEN life[o]
                            ELSE IF fin[o] THEN "deleting" ELSE "gone"]
  /\ pass' = [pass EXCEPT !.stale = pass.stale \/ pass.op \in S]

DeleteOperation(o) ==
  /\ life[o] = "live"
  /\ deletes < MaxDeletes
  /\ deletes' = deletes + 1
  /\ DeleteSet({o})
  /\ UNCHANGED <<fin, phase, why, jobRef, forced, job, nomVars, cnpgVars, refs, faults, edits>>

DeleteInstance ==
  /\ parent = "live"
  /\ deletes < MaxDeletes
  /\ deletes' = deletes + 1
  /\ parent' = "deleting"
  /\ UNCHANGED <<opVars, job, attached, impact, observed, cnpgVars, refs, pass, faults, edits>>

EditPolicy(i) ==
  /\ edits < MaxEdits
  /\ parent = "live"
  /\ i # impact
  /\ edits' = edits + 1
  /\ impact' = i
  /\ UNCHANGED <<opVars, job, parent, attached, observed, cnpgVars, refs, pass, faults, deletes>>

DeleteJob(o) ==
  /\ edits < MaxEdits
  /\ job[o].exists
  /\ edits' = edits + 1
  /\ job' = [job EXCEPT ![o] = NoJob]
  /\ UNCHANGED <<opVars, nomVars, cnpgVars, refs, pass, faults, deletes>>

\* The Cluster object disappears (deleted by a user or with its namespace).
DeleteCluster ==
  /\ edits < MaxEdits
  /\ cluster # "absent"
  /\ edits' = edits + 1
  /\ cluster' = "absent" /\ paused' = FALSE /\ profile' = "runtime"
  /\ UNCHANGED <<opVars, job, nomVars, refs, pass, faults, deletes>>

-----------------------------------------------------------------------------
(* The Instance controller, as far as Operations depend on it.             *)

\* reconcileDatabase, and the write of status.database that follows it.
reconcileDatabase ==
  /\ parent = "live"
  /\ ~attached \/ (Mode = "ClusterManaged" /\ cluster = "absent")
  /\ Mode = "ClusterAttached" => cluster # "absent"
  /\ attached' = TRUE
  /\ cluster' = IF Mode = "ClusterManaged" /\ cluster = "absent" THEN "starting" ELSE cluster
  /\ UNCHANGED <<opVars, job, parent, impact, observed, paused, profile, refs, pass, bounds>>

\* observeRegionsFromSucceededOps, persisted by syncStatus.
observeBootstrap ==
  /\ parent = "live"
  /\ RegionsConfigured /\ ~observed
  /\ bootstrapComplete
  /\ observed' = TRUE
  /\ UNCHANGED <<opVars, job, parent, attached, impact, cnpgVars, refs, pass, bounds>>

\* Mutant: the drain forgets Operations that are already terminal.
drainOnlyActive ==
  /\ parent = "deleting"
  /\ \E o \in Ops : life[o] = "live" /\ isActiveOperationPhase(phase[o]) /\ DeleteSet({o})
  /\ UNCHANGED <<fin, phase, why, jobRef, forced, job, nomVars, cnpgVars, refs, bounds>>

\* One DELETE after the other; a pass may end between two of them.
drainChildOperations ==
  /\ parent = "deleting"
  /\ \E o \in Ops : life[o] = "live" /\ DeleteSet({o})
  /\ UNCHANGED <<fin, phase, why, jobRef, forced, job, nomVars, cnpgVars, refs, bounds>>

\* Only once no Operation is left; clusterRef Clusters are never deleted.
deleteOwnedCNPGResources ==
  /\ parent = "deleting"
  /\ Peers = {}
  /\ Mode = "ClusterManaged" /\ cluster # "absent"
  /\ cluster' = "absent" /\ paused' = FALSE /\ profile' = "runtime"
  /\ UNCHANGED <<opVars, job, nomVars, refs, pass, bounds>>

removeInstanceFinalizer ==
  /\ parent = "deleting"
  /\ Peers = {}
  /\ Mode = "ClusterManaged" => cluster = "absent"
  /\ parent' = "gone" /\ refs' = {}
  /\ UNCHANGED <<opVars, job, attached, impact, observed, cnpgVars, pass, bounds>>

InstanceStep ==
  reconcileDatabase \/ observeBootstrap \/ drainChildOperations
    \/ deleteOwnedCNPGResources \/ removeInstanceFinalizer

-----------------------------------------------------------------------------
(* The Job controller, the garbage collector and CloudNativePG (external). *)

\* A pod is started until one succeeds or BackoffLimit + 1 have failed.
StartPod(o) ==
  /\ job[o].exists /\ job[o].active = 0 /\ job[o].succeeded = 0
  /\ job[o].failed <= BackoffLimit
  /\ job' = [job EXCEPT ![o] = JobWith(1, 0, job[o].failed)]
  /\ UNCHANGED <<opVars, nomVars, cnpgVars, refs, pass, bounds>>

FailPod(o) ==
  /\ job[o].exists /\ job[o].active = 1
  /\ job' = [job EXCEPT ![o] = JobWith(0, job[o].succeeded, job[o].failed + 1)]
  /\ UNCHANGED <<opVars, nomVars, cnpgVars, refs, pass, bounds>>

FinishPod(o) ==
  /\ job[o].exists /\ job[o].active = 1
  /\ job' = [job EXCEPT ![o] = JobWith(0, 1, job[o].failed)]
  /\ UNCHANGED <<opVars, nomVars, cnpgVars, refs, pass, bounds>>

\* The owner is gone: the Job and its pods follow.
CollectJob(o) ==
  /\ life[o] = "gone"
  /\ job[o].exists
  /\ job' = [job EXCEPT ![o] = NoJob]
  /\ UNCHANGED <<opVars, nomVars, cnpgVars, refs, pass, bounds>>

ClusterBecomesReady ==
  /\ cluster = "starting"
  /\ cluster' = "ready"
  /\ UNCHANGED <<opVars, job, nomVars, paused, profile, refs, pass, bounds>>

JobStep(o) == StartPod(o) \/ FailPod(o) \/ FinishPod(o) \/ CollectJob(o)

-----------------------------------------------------------------------------

Next ==
  \/ \E o \in Ops : StartPass(o)
  \/ PassStep
  \/ FailCall
  \/ \E o \in Ops : CreateOperation(o) \/ DeleteOperation(o) \/ DeleteJob(o)
  \/ DeleteInstance \/ DeleteCluster
  \/ \E i \in Impacts : EditPolicy(i)
  \/ InstanceStep
  \/ \E o \in Ops : JobStep(o)
  \/ ClusterBecomesReady

Spec == Init /\ [][Next]_vars

(***************************************************************************)
(* The workqueue is FIFO and every key comes back through a watch event, a *)
(* requeue, back-off or the periodic resync, so each Operation is given    *)
(* the worker again and again although others use it in between: strong    *)
(* fairness.  The worker, the Instance controller, the Job controller, the *)
(* garbage collector and CloudNativePG are not stopped for ever.  Users    *)
(* owe nothing.                                                            *)
(***************************************************************************)
Fairness ==
  /\ \A o \in Ops : SF_vars(StartPass(o))
  /\ WF_vars(PassStep)
  /\ WF_vars(InstanceStep)
  /\ \A o \in Ops : WF_vars(JobStep(o))
  /\ WF_vars(ClusterBecomesReady)

FairSpec == Spec /\ Fairness

-----------------------------------------------------------------------------
(* Properties.                                                             *)

TypeOK ==
  /\ life \in [Ops -> Lives]
  /\ fin \in [Ops -> BOOLEAN]
  /\ phase \in [Ops -> Phases]
  /\ why \in [Ops -> Reasons]
  /\ jobRef \in [Ops -> BOOLEAN]
  /\ job \in [Ops -> Jobs]
  /\ parent \in {"live", "deleting", "gone"}
  /\ attached \in BOOLEAN
  /\ cluster \in {"absent", "starting", "ready"}
  /\ impact \in Impacts
  /\ observed \in BOOLEAN
  /\ refs \subseteq Ops
  /\ paused \in BOOLEAN
  /\ profile \in {"import", "runtime"}
  /\ pass \in Passes
  /\ (pass.pc = "idle" <=> pass.op = NoOp)
  /\ forced \subseteq Ops
  /\ faults \in Nat /\ deletes \in Nat /\ edits \in Nat

(* Two Operations that conflict never both hold the write plane in their   *)
(* status (Running, or active with a Job armed): the claim of              *)
(* claimWritePlane, across crashes, deletions and retried Jobs.  Excepted  *)
(* are Operations that failOperation marked Failed although a Job was      *)
(* armed: reconcileTerminalOperation reads such a Job again and can turn   *)
(* the Operation back to Running after a peer has claimed.                 *)
StatusMutex ==
  \A a, b \in Ops \ forced :
    operationsMutexConflict(a, b) => ~(Holds(a) /\ Holds(b))

(* The same without the exception: "At most one write-heavy Operation ...  *)
(* may be Pending or Running per NominatimInstance", read as holding.      *)
StatusMutexAlways ==
  \A a, b \in Ops : operationsMutexConflict(a, b) => ~(Holds(a) /\ Holds(b))

(* What the mutex is for: the worker pods of two conflicting Operations    *)
(* never write at the same time (docs/operations.md, Concurrency).         *)
JobMutex ==
  \A a, b \in Ops :
    operationsMutexConflict(a, b) => ~(Writing(a) /\ Writing(b))

(* Refresh against update-style work, which the mutex does not cover       *)
(* although docs/operations.md says the two must not overlap.              *)
RefreshAlone ==
  \A a, b \in Ops :
    OpType[a] = "Refresh" /\ OpType[b] \in {"Update", "CatchUp", "AddRegions"}
      => ~(Writing(a) /\ Writing(b))

(* An Operation failed with Conflict has no Job: the policy comment of     *)
(* isWriteHeavyOperation ("no Job created") and reconcileTerminalOperation *)
(* ("Conflict failures have no Job").                                      *)
ConflictHasNoJob ==
  \A o \in Ops : Exists(o) /\ why[o] = "Conflict" => ~job[o].exists

(* status.activeOperationRefs, from which the Instance controller decides  *)
(* whether to suspend the API, names every live Operation that holds the   *)
(* write plane and never one that is gone, whatever pass was cut short.    *)
RefsAgree ==
  /\ \A o \in Ops \ forced : Holds(o) /\ life[o] = "live" => o \in refs
  /\ \A o \in refs : Exists(o)

(* Backups stay paused and the import profile stays on for as long as a    *)
(* live Operation the policy covers holds the write plane, in spite of     *)
(* peers that end, fail with Conflict or are deleted meanwhile             *)
(* (applyTerminalCNPGEffects and hasOtherActiveMatchingImpactOps).         *)
PausedWhileHeld ==
  \A o \in Ops \ forced :
    Holds(o) /\ life[o] = "live" /\ operationImpactMatches(impact, OpType[o])
      /\ Mode # "ConnectionSecret"
      => paused /\ profile = "import"

(* A terminal phase read from the Job is final, except that Failed may     *)
(* become Succeeded when the Job's own retry succeeds (phaseFromJob under  *)
(* backoffLimit).                                                          *)
TerminalIsFinal ==
  [][\A o \in Ops \ forced :
       isTerminalOperationPhase(phase[o]) /\ phase'[o] # phase[o]
         => phase[o] = "Failed" /\ phase'[o] = "Succeeded"]_vars

(* Teardown deletes the owned Cluster only after the Operations and their  *)
(* Jobs (docs/configuration.md, Deleting an instance): no worker pod is    *)
(* still writing when deleteOwnedCNPGResources takes the Cluster away.     *)
TeardownAfterJobs ==
  [][parent = "deleting" /\ cluster # "absent" /\ cluster' = "absent"
       => \A o \in Ops : ~Writing(o)]_vars

(* Every Operation ends: an active one is in time Succeeded, Failed or     *)
(* deleted, whether it wins the creation race, waits in it or loses it.    *)
OperationsEnd ==
  \A o \in Ops :
    (life[o] = "live" /\ isActiveOperationPhase(phase[o]))
      ~> (life[o] # "live" \/ isTerminalOperationPhase(phase[o]))

(* A pause is not orphaned: whoever set it, backups are resumed, although  *)
(* passes fail, Operations are deleted mid-flight and peers overlap.       *)
PauseReleased == paused ~> ~paused

(* A reference to a finished or deleted Operation is dropped in time, so   *)
(* the API is not kept suspended by it.                                    *)
RefsReleased ==
  \A o \in Ops :
    (o \in refs /\ (isTerminalOperationPhase(phase[o]) \/ life[o] = "gone"))
      ~> (o \notin refs \/ parent = "gone")

(* Deleting the Instance ends: its Operations are drained, their           *)
(* finalizers and then its own removed (reconcileDelete).                  *)
TeardownEnds == (parent = "deleting") ~> (parent = "gone")

(* The same for a teardown nothing interferes with: no Operation appears   *)
(* any more and the Cluster outlives the drain.                            *)
DrainEnds ==
  (parent = "deleting" /\ cluster # "absent" /\ \A o \in Ops : life[o] # "new")
    ~> (parent = "gone")

-----------------------------------------------------------------------------
(* The statuses the controller writes implement the abstract lock: an      *)
(* Operation becomes a holder only while no conflicting one is, and        *)
(* holders come and go one at a time.                                      *)

Holders == {o \in Ops \ forced : Holds(o)}

Mutex == INSTANCE WriteMutex WITH holders <- Holders

ImplementsWriteMutex == Mutex!MutexSpec

-----------------------------------------------------------------------------
(* The inductive invariant behind StatusMutex.                             *)

\* The steps between a successful claim and the status write that makes the
\* Operation a holder.
Claimed == {"gate", "pause", "import", "await", "job", "sync"}

\* phaseFromJob gives a terminal phase, now and later.
Settled(j) == ~j.exists \/ j.succeeded > 0 \/ j.failed > 0

(* While a pass is between its claim and its status write, no conflicting  *)
(* Operation holds the write plane: the worker is the only one that makes  *)
(* holders.                                                                *)
ClaimIsExclusive ==
  pass.pc \in Claimed =>
    \A p \in Ops : operationsMutexConflict(pass.op, p) => ~Holds(p)

(* What a pass knows of the Operation it works on at each step.  The       *)
(* finalizer keeps the object there until the pass that removes it.        *)
PassKnows ==
  /\ pass.pc # "idle" => Exists(pass.op) /\ fin[pass.op]
  /\ pass.pc \in Claimed \union {"claim", "fail"} =>
       isActiveOperationPhase(phase[pass.op])
  /\ pass.pc = "resync" =>
       isTerminalOperationPhase(phase[pass.op]) /\ jobRef[pass.op]

(* An Operation that does not exist yet has an empty status; one that is   *)
(* terminating still has its finalizer.                                    *)
LifeAgrees ==
  \A o \in Ops : /\ life[o] = "new" => phase[o] = "" /\ ~jobRef[o]
                 /\ life[o] = "deleting" => fin[o]

(* A terminal Operation with a Job armed owes its phase to that Job,       *)
(* unless failOperation was called on it: reading the Job again cannot     *)
(* bring it back to the write plane.                                       *)
TerminalIsSettled ==
  \A o \in Ops \ forced :
    isTerminalOperationPhase(phase[o]) /\ jobRef[o] => Settled(job[o])

MutexInv ==
  /\ TypeOK
  /\ ClaimIsExclusive
  /\ PassKnows
  /\ LifeAgrees
  /\ TerminalIsSettled
  /\ StatusMutex

-----------------------------------------------------------------------------
(* What the other safety properties need besides MutexInv.                 *)

(* Succeeded is backed by the Job for as long as there is one, and an      *)
(* Operation with a status or a Job armed carries its finalizer, so a      *)
(* DELETE never makes a holder vanish.                                     *)
StatusInv ==
  /\ \A o \in Ops : phase[o] = "Succeeded" => ~job[o].exists \/ job[o].succeeded > 0
  /\ \A o \in Ops : Exists(o) /\ (phase[o] # "" \/ jobRef[o]) => fin[o]

(* What a pass knows of the parent's references.  A claim is entered in    *)
(* them before the status write; the delete path has removed the entry     *)
(* when it comes to the finalizer.                                         *)
PassRefs ==
  /\ pass.pc \in Claimed => pass.op \in refs
  /\ pass.pc \in Claimed \union {"claim"} => parent # "gone"
  /\ pass.pc \in {"unref", "finalize"} => pass.deleting
  /\ pass.deleting => /\ pass.pc \in {"unref", "resume", "runtime", "finalize"}
                      /\ life[pass.op] = "deleting"
                      /\ pass.pc # "unref" => pass.op \notin refs

RefsInv ==
  /\ MutexInv
  /\ RefsAgree
  /\ PassRefs
  /\ \A o \in refs : fin[o]
  /\ parent = "gone" => refs = {}

(* While nobody edits the policy or deletes the Cluster: a pass past the   *)
(* CNPG steps has left the Cluster paused if the policy covers its         *)
(* Operation, and one about to restore the runtime profile leaves no       *)
(* covered holder behind.                                                  *)
Covered(o) == Mode # "ConnectionSecret" /\ operationImpactMatches(impact, OpType[o])

PassPauses ==
  /\ pass.pc # "idle" => pass.impact = impact
  /\ pass.pc = "import" /\ Covered(pass.op) => paused
  /\ (pass.pc = "await" /\ pass.attached) \/ pass.pc \in {"job", "sync"} =>
       (Covered(pass.op) => paused /\ profile = "import")
  /\ pass.pc \in {"resume", "runtime"} =>
       isTerminalOperationPhase(phase[pass.op]) \/ life[pass.op] = "deleting"
  /\ pass.pc = "runtime" =>
       \A o \in Ops \ forced : Covered(o) => ~(Holds(o) /\ life[o] = "live")

PauseInv == RefsInv /\ (edits = 0 => PausedWhileHeld /\ PassPauses)

(* While no call has failed and nothing has been deleted: every Job is     *)
(* recorded in the status of its Operation, except in the step between     *)
(* its creation and that write, and no Operation fails with a Job armed.   *)
Calm == faults = 0 /\ deletes = 0

\* No early return or gate will fail the Operation on a later pass.
Accepted(o) ==
  isOperationTypeImplemented(OpType[o]) /\ ~(OpType[o] = "Rebuild" /\ RebuildRefused)

GateOpen(o) ==
  requiresRegionGate(OpType[o]) =>
    /\ ~RegionsConfigured => o \in HasRegions
    /\ RegionsConfigured => bootstrapComplete

JobsRecorded ==
  /\ parent = "live" /\ forced = {} /\ ~pass.stale
  /\ \A o \in Ops : life[o] \in {"new", "live"}
  /\ \A o \in Ops : job[o].exists => jobRef[o] \/ (pass.op = o /\ pass.pc = "sync")
  /\ \A o \in Ops : jobRef[o] => Accepted(o) /\ GateOpen(o)
  /\ \A o \in Ops : why[o] = "Conflict" => isTerminalOperationPhase(phase[o]) /\ ~jobRef[o]

PassGates ==
  /\ pass.complete => bootstrapComplete
  /\ pass.pc \in Claimed \union {"claim"} => Accepted(pass.op)
  /\ pass.pc \in {"claim", "gate"} /\ jobRef[pass.op] /\ RegionsConfigured
       /\ requiresRegionGate(OpType[pass.op]) => pass.complete
  /\ pass.pc \in Claimed \ {"gate"} => GateOpen(pass.op)
  /\ pass.pc = "fail" => ~jobRef[pass.op]

PodsBounded ==
  \A o \in Ops : job[o].active > 0 =>
    job[o].exists /\ job[o].succeeded = 0 /\ job[o].failed <= BackoffLimit

CalmInv ==
  /\ RefsInv
  /\ StatusInv
  /\ PodsBounded
  /\ Calm => JobsRecorded /\ PassGates

(* The first pods of two conflicting Operations never write to the         *)
(* database together before a call has failed or an Operation or the       *)
(* Instance was deleted, however often their Jobs retry afterwards         *)
(* (claimWritePlane, ensureJob).                                           *)
FirstPodMutex ==
  Calm => \A a, b \in Ops :
    operationsMutexConflict(a, b) /\ job[a].failed = 0 /\ job[b].failed = 0
      => ~(Writing(a) /\ Writing(b))

=============================================================================
