----------------------------- MODULE BlueGreen -----------------------------
(***************************************************************************)
(* A BlueGreen Rebuild of an owned CNPG Cluster: the sibling Cluster is    *)
(* provisioned, a Job imports into it, and the swap machine of             *)
(* rebuild_bluegreen.go moves the API over and retires the old Cluster     *)
(* after a rollback window.  The Instance controller reconciles the live   *)
(* Cluster and writes status.database back meanwhile.                      *)
(*                                                                         *)
(* Rebuilds run one after the other (the write plane sees to that, see     *)
(* Operations).  PVCs, Secrets and Database objects follow their Cluster.  *)
(***************************************************************************)
EXTENDS Naturals

CONSTANTS
  Drives,        \* ways to drive the swap, see DriveRecords
  MaxBackoff,    \* bound: retries of the import Job in any of them
  MaxRebuilds,   \* bound: Rebuild Operations created in any of them
  MaxFaults      \* bound: failed calls and operator restarts

\* resetsPhase: TRUE, Reconcile as it is; FALSE, the swap handler as its unit
\* test drives it, without the write of Importing in each pass; backoff: retries
\* of the import Job (spec.backoffLimit); rebuilds: Operations created.
DriveRecords == [resetsPhase : BOOLEAN, backoff : 0..MaxBackoff, rebuilds : 0..MaxRebuilds]

ASSUME BlueGreenAssumption ==
  Drives \subseteq DriveRecords /\ MaxBackoff \in Nat /\ MaxRebuilds \in Nat /\ MaxFaults \in Nat

VARIABLES
  cur,       \* number of the current Rebuild, 0 before the first
  phase,     \* its status.phase
  job,       \* its Job
  rebuild,   \* parent.status.rebuild
  live,      \* parent.status.database.clusterName
  clusters,  \* the two Clusters of the Instance
  api,       \* the Cluster whose Secret the API Deployment uses
  target,    \* the Cluster whose Secret the Job uses
  elapsed,   \* rollbackUntil lies in the past
  pass,      \* the Operation controller's pass and its copy of the parent
  inst,      \* the Instance controller's pass and its copy of the parent
  faults,
  drive      \* how the swap is driven in this behaviour

opVars == <<cur, phase, job, target>>
nomVars == <<rebuild, live>>
bounds == <<faults, drive>>
vars == <<cur, phase, job, rebuild, live, clusters, api, target, elapsed, pass, inst, faults, drive>>

WP == INSTANCE WritePlane
        WITH Ops <- 1..MaxRebuilds, OpType <- [r \in 1..MaxRebuilds |-> "Rebuild"]

-----------------------------------------------------------------------------

\* OwnedCNPGClusterName and BlueGreenClusterName.
Names == {"def", "bg"}

Sibling(c) == IF c = "bg" THEN "def" ELSE "bg"

ClusterStates == {"absent", "starting", "ready"}

RebuildPhases ==
  {"none", "Provisioning", "Importing", "ReadyToCutover", "Cutover",
   "RollbackWindow", "GarbageCollect", "Succeeded", "Failed"}

\* "none" stands for a nil status.rebuild; until: rollbackUntil is set.
Rebuilds == [phase : RebuildPhases, pending : Names, until : BOOLEAN]

NoRebuild == [phase |-> "none", pending |-> "bg", until |-> FALSE]

Jobs == [exists : BOOLEAN, active : 0..1, succeeded : 0..1, failed : 0..(drive.backoff + 1)]

NoJob == [exists |-> FALSE, active |-> 0, succeeded |-> 0, failed |-> 0]

\* No pod runs and none will be started.
JobOver == ~job.exists \/ job.succeeded > 0 \/ job.failed > drive.backoff

Steps == {"idle", "pending", "provision", "importing", "job", "sync", "swap",
          "patch", "status", "resync"}

\* rebuild, live: the pass's copy of status.rebuild and of the attachment.
Passes == [pc : Steps, rebuild : Rebuilds, live : Names]

InstPasses == [pc : {"idle", "cluster", "persist", "api"}, live : Names]

IdlePass == [pc |-> "idle", rebuild |-> NoRebuild, live |-> "def"]

IdleInst == [pc |-> "idle", live |-> "def"]

TypeOK ==
  /\ cur \in 0..MaxRebuilds
  /\ phase \in WP!Phases
  /\ job \in Jobs
  /\ rebuild \in Rebuilds
  /\ live \in Names /\ api \in Names /\ target \in Names
  /\ clusters \in [Names -> ClusterStates]
  /\ elapsed \in BOOLEAN
  /\ pass \in Passes /\ inst \in InstPasses
  /\ faults \in 0..MaxFaults /\ drive \in Drives

\* A bootstrapped Instance serving from its first Cluster.
Init ==
  /\ cur = 0 /\ phase = "Succeeded" /\ job = NoJob
  /\ rebuild = NoRebuild
  /\ live = "def" /\ api = "def" /\ target = "def"
  /\ clusters = [c \in Names |-> IF c = "def" THEN "ready" ELSE "absent"]
  /\ elapsed = FALSE
  /\ pass = IdlePass /\ inst = IdleInst
  /\ faults = 0 /\ drive \in Drives

-----------------------------------------------------------------------------
(* The swap machine.                                                       *)

Result(ph, until, act) == [phase |-> ph, until |-> until, act |-> act]

\* Mutant: blue is collected as soon as the API has been retargeted.
advanceNoWindow(ph, failed, imported, cutoverReady, blueGone, until, over) ==
  CASE failed -> Result("Failed", until, "gcGreen")
    [] ~failed /\ ph = "Importing" -> Result("ReadyToCutover", until, "none")
    [] ~failed /\ ph = "ReadyToCutover" -> Result("Cutover", until, "cutover")
    [] ~failed /\ ph = "Cutover" -> Result("GarbageCollect", TRUE, "gcBlue")
    [] ~failed /\ ph = "GarbageCollect" ->
         IF blueGone THEN Result("Succeeded", until, "none") ELSE Result(ph, until, "gcBlue")
    [] OTHER -> Result(ph, until, "none")

\* Mutant: a failed import ends the swap without collecting green.
advanceKeepsGreen(ph, failed, imported, cutoverReady, blueGone, until, over) ==
  Result(IF failed THEN "Failed" ELSE ph, until, "none")

\* advanceBlueGreen: the next phase and the side effect asked for.
advanceBlueGreen(ph, failed, imported, cutoverReady, blueGone, until, over) ==
  IF failed /\ ph \notin {"Cutover", "RollbackWindow", "GarbageCollect", "Succeeded"}
  THEN Result("Failed", until, "gcGreen")
  ELSE CASE ph = "Importing" ->
              Result(IF imported THEN "ReadyToCutover" ELSE ph, until, "none")
         [] ph = "ReadyToCutover" -> Result("Cutover", until, "cutover")
         [] ph = "Cutover" ->
              IF cutoverReady THEN Result("RollbackWindow", TRUE, "none")
                              ELSE Result(ph, until, "cutover")
         [] ph = "RollbackWindow" ->
              IF until /\ over THEN Result("GarbageCollect", until, "gcBlue")
                               ELSE Result(ph, until, "none")
         [] ph = "GarbageCollect" ->
              IF blueGone THEN Result("Succeeded", until, "none")
                          ELSE Result(ph, until, "gcBlue")
         [] OTHER -> Result(ph, until, "none")

\* Mutant: the Cluster the swap started from is the retired one.
retiredIsDefault(serving) == "def"

\* blueGreenRetiredClusterName: the one of the two that is not live.
blueGreenRetiredClusterName(serving) == Sibling(serving)

-----------------------------------------------------------------------------
(* The Operation controller's pass.                                        *)

Goto(step) == pass' = [pass EXCEPT !.pc = step]
Return == pass' = IdlePass

StartPass ==
  /\ pass.pc = "idle" /\ cur > 0
  /\ pass' = [pc |-> IF WP!isTerminalOperationPhase(phase) THEN "resync" ELSE "pending",
              rebuild |-> rebuild, live |-> live]
  /\ UNCHANGED <<opVars, nomVars, clusters, api, elapsed, inst, bounds>>

\* reconcileTerminalOperation reads the Job again and no more.
reconcileTerminalOperation ==
  /\ pass.pc = "resync"
  /\ phase' = IF job.exists THEN WP!phaseFromJob(job.succeeded, job.failed, job.active) ELSE phase
  /\ Return
  /\ UNCHANGED <<cur, job, target, nomVars, clusters, api, elapsed, inst, bounds>>

\* patchParentRebuildStatus: the pass's copy of status.rebuild and of the
\* attachment replace what the parent has by now.
Patch(rb, serving) == rebuild' = rb /\ live' = serving

\* Mutant: the live Cluster is taken for the pending one.
seedOnLive == [phase |-> "Provisioning", pending |-> pass.live, until |-> FALSE]

seedBlueGreenRebuildStatus ==
  [phase |-> "Provisioning", pending |-> Sibling(pass.live), until |-> FALSE]

\* ensureBlueGreenPending, first half: a nil status.rebuild is seeded.
ensureBlueGreenPending ==
  /\ pass.pc = "pending"
  /\ IF pass.rebuild.phase = "none"
       THEN /\ pass' = [pass EXCEPT !.pc = "provision", !.rebuild = seedBlueGreenRebuildStatus]
            /\ Patch(seedBlueGreenRebuildStatus, pass.live)
       ELSE Goto("provision") /\ UNCHANGED nomVars
  /\ UNCHANGED <<opVars, clusters, api, elapsed, inst, bounds>>

\* Second half: the sibling is created or kept, and must be ready.
blueGreenPendingReady ==
  /\ pass.pc = "provision"
  /\ LET c == pass.rebuild.pending
     IN  /\ clusters' = IF clusters[c] = "absent" THEN [clusters EXCEPT ![c] = "starting"]
                                                  ELSE clusters
         /\ IF clusters[c] = "ready" THEN Goto("importing") ELSE Return
  /\ UNCHANGED <<opVars, nomVars, api, elapsed, inst, bounds>>

\* The failure of the patch in waitForJobPrerequisites is ignored: the pass goes
\* on with its own copy.
PatchOrLose(rb, serving) ==
  \/ Patch(rb, serving) /\ UNCHANGED faults
  \/ faults < MaxFaults /\ faults' = faults + 1 /\ UNCHANGED nomVars

\* waitForJobPrerequisites writes Importing whenever the sibling is ready.
waitForJobPrerequisites ==
  /\ pass.pc = "importing"
  /\ IF drive.resetsPhase \/ pass.rebuild.phase = "Provisioning"
       THEN LET rb == [pass.rebuild EXCEPT !.phase = "Importing"]
            IN  pass' = [pass EXCEPT !.pc = "job", !.rebuild = rb] /\ PatchOrLose(rb, pass.live)
       ELSE Goto("job") /\ UNCHANGED <<nomVars, faults>>
  /\ UNCHANGED <<opVars, clusters, api, elapsed, inst, drive>>

\* ensureJob: the Job gets the Secret of the pending Cluster.
ensureJob ==
  /\ pass.pc = "job"
  /\ IF job.exists
       THEN UNCHANGED <<job, target>>
       ELSE job' = [NoJob EXCEPT !.exists = TRUE] /\ target' = pass.rebuild.pending
  /\ Goto("sync")
  /\ UNCHANGED <<cur, phase, nomVars, clusters, api, elapsed, inst, bounds>>

\* syncStatusFromJob; a finished import goes on to the swap.
syncStatusFromJob ==
  /\ pass.pc = "sync"
  /\ LET ph == WP!phaseFromJob(job.succeeded, job.failed, job.active)
     IN  /\ phase' = ph
         /\ IF WP!isTerminalOperationPhase(ph) THEN Goto("swap") ELSE Return
  /\ UNCHANGED <<cur, job, target, nomVars, clusters, api, elapsed, inst, bounds>>

\* reconcileBlueGreenAfterImport up to the patch: the machine is advanced on
\* the pass's copy of the parent, the copy is cut over, Clusters are deleted.
reconcileBlueGreenAfterImport ==
  /\ pass.pc = "swap"
  /\ LET rb      == pass.rebuild
         early   == rb.phase \in {"none", "Provisioning", "Importing"}
         ph      == IF early THEN "Importing" ELSE rb.phase
         failed  == phase = "Failed" /\ (early \/ rb.phase = "ReadyToCutover")
         retired == blueGreenRetiredClusterName(pass.live)
         out     == advanceBlueGreen(ph, failed, phase # "Failed", pass.live = rb.pending,
                                     clusters[retired] = "absent", rb.until, elapsed)
         next    == [phase |-> out.phase, pending |-> rb.pending, until |-> out.until]
     IN  /\ pass' = [pc |-> "patch", rebuild |-> next,
                     live |-> IF out.act = "cutover" THEN rb.pending ELSE pass.live]
         /\ clusters' =
              CASE out.act = "gcBlue"  -> [clusters EXCEPT ![retired] = "absent"]
                [] out.act = "gcGreen" -> [clusters EXCEPT ![rb.pending] = "absent"]
                [] OTHER               -> clusters
  /\ UNCHANGED <<opVars, nomVars, api, elapsed, inst, bounds>>

patchParentRebuildStatus ==
  /\ pass.pc = "patch"
  /\ Patch(pass.rebuild, pass.live)
  /\ Goto("status")
  /\ UNCHANGED <<opVars, clusters, api, elapsed, inst, bounds>>

\* syncBlueGreenOperationStatus: Running until the swap is over.
syncBlueGreenOperationStatus ==
  /\ pass.pc = "status"
  /\ phase' = IF pass.rebuild.phase \in {"Succeeded", "Failed"} THEN pass.rebuild.phase
              ELSE "Running"
  /\ Return
  /\ UNCHANGED <<cur, job, target, nomVars, clusters, api, elapsed, inst, bounds>>

FailCall ==
  /\ pass.pc # "idle"
  /\ faults < MaxFaults
  /\ faults' = faults + 1
  /\ Return
  /\ UNCHANGED <<opVars, nomVars, clusters, api, elapsed, inst, drive>>

PassStep ==
  \/ reconcileTerminalOperation \/ ensureBlueGreenPending \/ blueGreenPendingReady
  \/ waitForJobPrerequisites \/ ensureJob \/ syncStatusFromJob
  \/ reconcileBlueGreenAfterImport \/ patchParentRebuildStatus
  \/ syncBlueGreenOperationStatus

-----------------------------------------------------------------------------
(* The Instance controller's pass.                                         *)

instStart ==
  /\ inst.pc = "idle"
  /\ inst' = [pc |-> "cluster", live |-> live]
  /\ UNCHANGED <<opVars, nomVars, clusters, api, elapsed, pass, bounds>>

\* reconcileDatabaseClusterCreate on the live name read at the start.
reconcileDatabaseClusterCreate ==
  /\ inst.pc = "cluster"
  /\ clusters' = IF clusters[inst.live] = "absent" THEN [clusters EXCEPT ![inst.live] = "starting"]
                                                   ELSE clusters
  /\ inst' = [inst EXCEPT !.pc = "persist"]
  /\ UNCHANGED <<opVars, nomVars, api, elapsed, pass, bounds>>

\* The write of status.database that follows, with the value computed above.
persistDatabaseStatus ==
  /\ inst.pc = "persist"
  /\ live' = inst.live
  /\ inst' = [inst EXCEPT !.pc = "api"]
  /\ UNCHANGED <<opVars, rebuild, clusters, api, elapsed, pass, bounds>>

reconcileAPI ==
  /\ inst.pc = "api"
  /\ api' = inst.live
  /\ inst' = IdleInst
  /\ UNCHANGED <<opVars, nomVars, clusters, elapsed, pass, bounds>>

InstanceStep ==
  instStart \/ reconcileDatabaseClusterCreate \/ persistDatabaseStatus \/ reconcileAPI

-----------------------------------------------------------------------------
(* Users, time, CloudNativePG and the Job controller (external).           *)

CreateRebuild ==
  /\ cur < drive.rebuilds /\ pass.pc = "idle"
  /\ WP!isTerminalOperationPhase(phase) /\ JobOver
  /\ cur' = cur + 1 /\ phase' = "" /\ job' = NoJob
  /\ UNCHANGED <<target, nomVars, clusters, api, elapsed, pass, inst, bounds>>

\* An hour has passed: far longer than any pass of either controller.
WindowElapses ==
  /\ rebuild.until /\ ~elapsed
  /\ pass.pc = "idle" /\ inst.pc = "idle" /\ api = live
  /\ elapsed' = TRUE
  /\ UNCHANGED <<opVars, nomVars, clusters, api, pass, inst, bounds>>

ClusterBecomesReady ==
  \E c \in Names :
    /\ clusters[c] = "starting"
    /\ clusters' = [clusters EXCEPT ![c] = "ready"]
    /\ UNCHANGED <<opVars, nomVars, api, elapsed, pass, inst, bounds>>

StartPod ==
  /\ job.exists /\ job.active = 0 /\ ~JobOver
  /\ job' = [job EXCEPT !.active = 1]
  /\ UNCHANGED <<cur, phase, target, nomVars, clusters, api, elapsed, pass, inst, bounds>>

EndPod ==
  /\ job.active = 1
  /\ \/ job' = [job EXCEPT !.active = 0, !.succeeded = 1]
     \/ job' = [job EXCEPT !.active = 0, !.failed = job.failed + 1]
  /\ UNCHANGED <<cur, phase, target, nomVars, clusters, api, elapsed, pass, inst, bounds>>

Next ==
  \/ StartPass \/ PassStep \/ FailCall \/ InstanceStep
  \/ CreateRebuild \/ WindowElapses \/ ClusterBecomesReady \/ StartPod \/ EndPod

Spec == Init /\ [][Next]_vars

\* Both controllers, CloudNativePG, the Job controller and time go on.
FairSpec ==
  /\ Spec
  /\ WF_vars(StartPass) /\ WF_vars(PassStep) /\ WF_vars(InstanceStep)
  /\ WF_vars(ClusterBecomesReady) /\ WF_vars(StartPod) /\ WF_vars(EndPod)
  /\ SF_vars(WindowElapses)

-----------------------------------------------------------------------------
(* Properties.                                                             *)

(* The API never points at a Cluster that BlueGreen has taken away, at any *)
(* point of the swap, of a failed import or of a crash between the calls   *)
(* of reconcileBlueGreenAfterImport.                                       *)
ApiServes == clusters[api] = "ready"

(* The import runs on a sibling (docs/operations.md): a BlueGreen Job is   *)
(* never given the Cluster the API is using.                               *)
ImportBesideLive == job.active = 1 => target # api

\* A step that retires a Cluster after an import without a failed pod comes
\* after the window, when the API has left the Cluster.
RetiresLate ==
  \A c \in Names :
    clusters[c] # "absent" /\ clusters'[c] = "absent" /\ job.succeeded > 0 /\ job.failed = 0
      => elapsed /\ api # c

(* After an import without a failed pod the old Cluster is retired only    *)
(* when the rollback window is over and the API has left it                *)
(* (advanceBlueGreen).                                                     *)
RetiredAfterWindow == [][RetiresLate]_vars

(* An Operation that rests in Succeeded has finished its swap: "Job        *)
(* success is only the import step - keep the Operation Running through    *)
(* cutover, rollback window, and blue GC" (Reconcile).                     *)
SucceededMeansSwapped ==
  cur > 0 /\ pass.pc = "idle" /\ phase = "Succeeded" => rebuild.phase = "Succeeded"

(* Once the import is done traffic cuts over (docs/operations.md).         *)
CutsOver == (job.succeeded > 0) ~> (live = target)

(* "Job failure GCs the green sibling" (Reconcile): once the import Job    *)
(* has failed for good, the half-imported Cluster goes.                    *)
FailedImportCollected == (job.failed > drive.backoff) ~> (clusters[target] = "absent")

(* status.rebuild is "cleared when idle (no active BlueGreen work and      *)
(* terminal state has been observed)" (RebuildStatus).                     *)
RebuildCleared == (rebuild.phase \in {"Succeeded", "Failed"}) ~> (rebuild.phase = "none")

-----------------------------------------------------------------------------
(* Inductive invariants, which the proofs of the properties rest on.       *)

ControlOK ==
  /\ rebuild \in Rebuilds /\ live \in Names /\ api \in Names
  /\ clusters \in [Names -> ClusterStates] /\ elapsed \in BOOLEAN
  /\ pass \in Passes /\ inst \in InstPasses /\ drive \in Drives

\* Phases from the cutover on, and from the rollback window on.
Swapped(rb) == rb.phase \in {"Cutover", "RollbackWindow", "GarbageCollect", "Succeeded"}
Late(rb) == rb.phase \in {"RollbackWindow", "GarbageCollect", "Succeeded"}

\* The pass's copy says Importing and the parent, whose patch was lost, may not.
ImportingLost ==
  /\ pass.rebuild.phase = "Importing" /\ pass.rebuild.until = rebuild.until
  /\ rebuild.phase \notin {"Cutover", "RollbackWindow", "GarbageCollect", "Succeeded"}

\* The pass holds the parent's status.rebuild, but for a patch of Importing that
\* was lost and for the moment between the swap and its patch, when it may be
\* ahead.
CopiesAgree ==
  /\ rebuild.pending = "bg" /\ pass.rebuild.pending = "bg"
  /\ pass.pc = "idle" => pass.rebuild = NoRebuild /\ pass.live = "def"
  /\ pass.pc \notin {"idle", "patch"} =>
       pass.rebuild = rebuild \/ (pass.pc \in {"job", "sync", "swap"} /\ ImportingLost)
  /\ pass.pc # "idle" /\ Swapped(rebuild) => Swapped(pass.rebuild)

\* What Reconcile as it is leaves of the swap: the phase is back at Importing
\* whenever the machine is advanced.
NeverSwapped ==
  drive.resetsPhase =>
    /\ ~Swapped(rebuild) /\ ~Swapped(pass.rebuild)
    /\ pass.pc \in {"job", "sync", "swap"} => pass.rebuild.phase = "Importing"

\* Everything stays with the first Cluster until the cutover.
BeforeCutover ==
  /\ ~Swapped(rebuild) => live = "def" /\ api = "def" /\ inst.live = "def"
  /\ ~Swapped(pass.rebuild) => pass.live = "def"

\* Until the window is over both Clusters serve.
BothServe ==
  ~elapsed =>
    /\ clusters["def"] = "ready"
    /\ Swapped(rebuild) \/ Swapped(pass.rebuild) => clusters["bg"] = "ready"

GreenReady == pass.pc \in {"importing", "job", "sync", "swap"} => clusters["bg"] = "ready"

\* The window is set when it begins, and blue is collected after it.
WindowKept ==
  \A rb \in {rebuild, pass.rebuild} :
    /\ rb.until => Late(rb)
    /\ rb.phase \in {"GarbageCollect", "Succeeded"} => elapsed

\* Once the window is over nobody holds an older idea of the live Cluster.
AfterWindow ==
  elapsed =>
    /\ Late(rebuild) /\ api = live /\ clusters[live] = "ready"
    /\ pass.pc # "idle" => pass.live = live /\ Late(pass.rebuild)
    /\ inst.pc # "idle" => inst.live = live

SwapInv ==
  /\ ControlOK /\ CopiesAgree /\ NeverSwapped /\ BeforeCutover /\ BothServe
  /\ GreenReady /\ WindowKept /\ AfterWindow

\* Jobs without the bound of their counters.
JobRecords == [exists : BOOLEAN, active : Nat, succeeded : Nat, failed : Nat]

\* The phase that the machine is advanced on is that of the Job.
PhaseFromJob ==
  /\ job \in JobRecords
  /\ pass.pc = "swap" => \/ phase = "Failed" /\ job.failed > 0
                         \/ phase = "Succeeded" /\ job.succeeded > 0

\* At most one Rebuild where the swap gets past the cutover: status.rebuild is
\* never cleared, so that the next Rebuild would find its own phases done and
\* take the live Cluster for the pending one.
OneSwap == \A d \in Drives : d.resetsPhase \/ d.rebuilds <= 1

\* The Job imports into the sibling and is over before the cutover.
ImportInv ==
  /\ SwapInv /\ PhaseFromJob
  /\ job.exists => target = "bg"
  /\ job.active = 1 => job.exists /\ job.succeeded = 0
  /\ job.succeeded > 0 => job.exists
  /\ Swapped(rebuild) \/ Swapped(pass.rebuild) => job.succeeded > 0
  /\ cur \in Nat /\ (rebuild.phase # "none" \/ pass.pc # "idle" => cur > 0)

=============================================================================
