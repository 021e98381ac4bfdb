---------------------------- MODULE RebuildReset ----------------------------
(***************************************************************************)
(* The in-place Rebuild handshake: before a Rebuild Job is created the     *)
(* Operation controller scales the API down, deletes the owned CNPG        *)
(* Database so that CloudNativePG drops the database, and recreates it,    *)
(* keeping its progress in two annotations on the Operation.  Meanwhile    *)
(* the Instance controller reconciles the same Database and the same API   *)
(* Deployment, and other Operations claim the write plane.                 *)
(*                                                                         *)
(* Statuses, references and Jobs are as in Operations, reduced to what the *)
(* handshake needs: a pass that ends an Operation is one step here, a Job  *)
(* has one pod, and clusterRef and BlueGreen parents do not occur.         *)
(***************************************************************************)
EXTENDS WritePlane

CONSTANTS
  NoOp,        \* the worker is idle
  MaxUID,      \* bound: incarnations of the Database object
  MaxFaults,   \* bound: failed calls and operator restarts
  MaxDeletes   \* bound: Operations deleted by a user

ASSUME ResetAssumption ==
  NoOp \notin Ops /\ MaxUID \in Nat \ {0} /\ MaxFaults \in Nat /\ MaxDeletes \in Nat

VARIABLES
  life,      \* new, live or gone
  phase, jobRef,
  job,       \* none, running, succeeded or failed
  reset,     \* annotation rebuild-db-reset: "", pending or done
  prevUID,   \* annotation rebuild-db-prev-uid
  refs,      \* parent.status.activeOperationRefs
  db,        \* the owned CNPG Database object
  lastUID,   \* the UID given to the latest Database object
  rows,      \* the Postgres database: absent, empty or filled
  apiWant,   \* the API Deployment asks for replicas
  apiUp,     \* API pods run and hold connections
  pass,      \* the Operation controller's pass
  inst,      \* the Instance controller's pass
  faults, deletes,
  preempted  \* history: an Operation was granted the write plane in mid-reset

opVars == <<life, phase, jobRef, job, reset, prevUID>>
dbVars == <<db, lastUID, rows>>
apiVars == <<apiWant, apiUp>>
bounds == <<faults, deletes, preempted>>
vars == <<life, phase, jobRef, job, reset, prevUID, refs, db, lastUID, rows,
          apiWant, apiUp, pass, inst, faults, deletes, preempted>>

\* Values of the prev-uid annotation and of db.uid besides real UIDs.
Unset == 0
NoneUID == 1
UIDs == 2..(MaxUID + 1)

NoDB == [uid |-> Unset, applied |-> FALSE, terminating |-> FALSE]

Idle == [op |-> NoOp, pc |-> "idle", uid |-> Unset]

InstIdle == [pc |-> "idle", pending |-> FALSE, suspend |-> FALSE]

Databases == [uid : UIDs \union {Unset}, applied : BOOLEAN, terminating : BOOLEAN]

Steps == {"idle", "claim", "quiesce", "reset", "delete", "annotate", "ready", "job", "sync"}

Passes == [op : Ops \union {NoOp}, uid : UIDs \union {Unset}, pc : Steps]

InstPasses == [pc : {"idle", "database", "refs", "api"}, pending : BOOLEAN, suspend : BOOLEAN]

TypeOK ==
  /\ life \in [Ops -> {"new", "live", "gone"}]
  /\ phase \in [Ops -> Phases]
  /\ jobRef \in [Ops -> BOOLEAN]
  /\ job \in [Ops -> {"none", "running", "succeeded", "failed"}]
  /\ reset \in [Ops -> {"", "pending", "done"}]
  /\ prevUID \in [Ops -> UIDs \union {Unset, NoneUID}]
  /\ refs \subseteq Ops
  /\ db \in Databases
  /\ lastUID \in UIDs
  /\ rows \in {"absent", "empty", "filled"}
  /\ apiWant \in BOOLEAN /\ apiUp \in BOOLEAN
  /\ pass \in Passes /\ inst \in InstPasses
  /\ faults \in 0..MaxFaults /\ deletes \in 0..MaxDeletes /\ preempted \in BOOLEAN

\* A bootstrapped Instance that serves: its Database holds an import.
Init ==
  /\ life = [o \in Ops |-> "new"]
  /\ phase = [o \in Ops |-> ""]
  /\ jobRef = [o \in Ops |-> FALSE]
  /\ job = [o \in Ops |-> "none"]
  /\ reset = [o \in Ops |-> ""]
  /\ prevUID = [o \in Ops |-> Unset]
  /\ refs = {}
  /\ db = [uid |-> 2, applied |-> TRUE, terminating |-> FALSE]
  /\ lastUID = 2
  /\ rows = "filled"
  /\ apiWant = TRUE /\ apiUp = TRUE
  /\ pass = Idle
  /\ inst = InstIdle
  /\ faults = 0 /\ deletes = 0 /\ preempted = FALSE

-----------------------------------------------------------------------------

Live == {o \in Ops : life[o] = "live"}

Goto(step) == pass' = [pass EXCEPT !.pc = step]
Return == pass' = Idle

\* The status of a finished Job, or the pass ends because it is still running.
JobPhase(j) ==
  CASE j = "succeeded" -> "Succeeded"
    [] j = "failed"    -> "Failed"
    [] OTHER           -> "Running"

StartPass(o) ==
  /\ pass.pc = "idle"
  /\ life[o] = "live"
  /\ ~isTerminalOperationPhase(phase[o])
  /\ pass' = [op |-> o, pc |-> "claim", uid |-> Unset]
  /\ UNCHANGED <<opVars, refs, dbVars, apiVars, inst, bounds>>

\* b has begun to reset the Database and has no Job yet, which is no reason for
\* a claim to wait when the claiming Operation has a smaller name.
MidReset(b) ==
  /\ b \in Live /\ OpType[b] = "Rebuild" /\ isActiveOperationPhase(phase[b])
  /\ reset[b] # "" /\ job[b] = "none"

\* claimWritePlane, the region gate and the pause left aside.
claimWritePlane ==
  /\ pass.pc = "claim"
  /\ LET decision == evaluateWritePlane(pass.op, Live, phase, jobRef)
     IN  \/ /\ decision = "Hold"
            /\ phase' = [phase EXCEPT ![pass.op] = "Failed"]
            /\ refs' = refs \ {pass.op}
            /\ Return
            /\ UNCHANGED preempted
         \/ /\ decision = "RaceWait"
            /\ Return
            /\ UNCHANGED <<phase, refs, preempted>>
         \/ /\ decision = "OK"
            /\ refs' = refs \union {pass.op}
            /\ Goto(IF OpType[pass.op] = "Rebuild" THEN "quiesce" ELSE "ready")
            /\ preempted' = (preempted \/ \E b \in Ops \ {pass.op} : MidReset(b))
            /\ UNCHANGED phase
  /\ UNCHANGED <<life, jobRef, job, reset, prevUID, dbVars, apiVars, inst, faults, deletes>>

\* apiQuiescedForRebuild: scale to zero, then wait for the last pod.
apiQuiescedForRebuild ==
  /\ pass.pc = "quiesce"
  /\ \/ /\ reset[pass.op] = "done"
        /\ Goto("ready") /\ UNCHANGED apiWant
     \/ /\ reset[pass.op] # "done"
        /\ IF apiWant THEN Return /\ apiWant' = FALSE
           ELSE IF apiUp THEN Return /\ UNCHANGED apiWant
           ELSE Goto("reset") /\ UNCHANGED apiWant
  /\ UNCHANGED <<opVars, refs, dbVars, apiUp, inst, bounds>>

\* patchRebuildResetAnnotations; an Operation deleted meanwhile is an error.
Annotate(value, uid) ==
  /\ reset' = IF life[pass.op] = "live" THEN [reset EXCEPT ![pass.op] = value] ELSE reset
  /\ prevUID' = IF life[pass.op] = "live" THEN [prevUID EXCEPT ![pass.op] = uid] ELSE prevUID

\* ensureOwnedCNPGDatabase when the object is missing: a new incarnation.
CreateDatabase ==
  /\ lastUID <= MaxUID
  /\ lastUID' = lastUID + 1
  /\ db' = [uid |-> lastUID + 1, applied |-> FALSE, terminating |-> FALSE]

\* Mutant: any applied Database is accepted, the old one included.
resetAcceptsOldUID ==
  /\ pass.pc = "reset"
  /\ \/ /\ prevUID[pass.op] = Unset
        /\ pass' = [pass EXCEPT !.pc = "delete", !.uid = db.uid]
        /\ UNCHANGED <<reset, prevUID, db, lastUID>>
     \/ /\ prevUID[pass.op] # Unset /\ db.uid = Unset
        /\ Return /\ CreateDatabase /\ UNCHANGED <<reset, prevUID>>
     \/ /\ prevUID[pass.op] # Unset /\ db.uid # Unset
        /\ IF db.applied THEN Goto("ready") /\ Annotate("done", prevUID[pass.op])
           ELSE Return /\ UNCHANGED <<reset, prevUID>>
        /\ UNCHANGED <<db, lastUID>>
  /\ UNCHANGED <<life, phase, jobRef, job, refs, rows, apiVars, inst, bounds>>

\* Mutant: the dropped Database is left to the Instance controller to recreate.
resetWaitsForInstance ==
  /\ pass.pc = "reset"
  /\ \/ /\ prevUID[pass.op] = Unset
        /\ pass' = [pass EXCEPT !.pc = "delete", !.uid = db.uid]
        /\ UNCHANGED <<reset, prevUID>>
     \/ /\ prevUID[pass.op] # Unset
        /\ IF db.uid # prevUID[pass.op] /\ db.applied
             THEN Goto("ready") /\ Annotate("done", prevUID[pass.op])
             ELSE Return /\ UNCHANGED <<reset, prevUID>>
  /\ UNCHANGED <<life, phase, jobRef, job, refs, dbVars, apiVars, inst, bounds>>

\* ensureRebuildDatabaseReset after the quiesce: read the Database once and
\* decide by the annotations.
ensureRebuildDatabaseReset ==
  /\ pass.pc = "reset"
  /\ \/ /\ prevUID[pass.op] = Unset
        /\ IF db.uid = Unset
             THEN Return /\ Annotate("pending", NoneUID)
             ELSE /\ pass' = [pass EXCEPT !.pc = "delete", !.uid = db.uid]
                  /\ UNCHANGED <<reset, prevUID>>
        /\ UNCHANGED <<db, lastUID>>
     \/ /\ prevUID[pass.op] # Unset /\ db.uid = Unset
        /\ Return
        /\ CreateDatabase
        /\ UNCHANGED <<reset, prevUID>>
     \/ /\ prevUID[pass.op] # Unset /\ db.uid # Unset
        /\ IF db.uid # prevUID[pass.op] /\ db.applied
             THEN Goto("ready") /\ Annotate("done", prevUID[pass.op])
             ELSE Return /\ UNCHANGED <<reset, prevUID>>
        /\ UNCHANGED <<db, lastUID>>
  /\ UNCHANGED <<life, phase, jobRef, job, refs, rows, apiVars, inst, bounds>>

\* The Database is read again and deleted; the object may be another one by
\* now, or gone.  Its finalizer keeps it until CloudNativePG has dropped it.
deleteDatabase ==
  /\ pass.pc = "delete"
  /\ db' = IF db.uid = Unset THEN db ELSE [db EXCEPT !.terminating = TRUE]
  /\ Goto("annotate")
  /\ UNCHANGED <<opVars, refs, lastUID, rows, apiVars, inst, bounds>>

\* Mutant: the UID of the deleted Database is not recorded.
annotateWithoutUID ==
  /\ pass.pc = "annotate"
  /\ Annotate("pending", Unset)
  /\ Return
  /\ UNCHANGED <<life, phase, jobRef, job, refs, dbVars, apiVars, inst, bounds>>

annotatePending ==
  /\ pass.pc = "annotate"
  /\ Annotate("pending", pass.uid)
  /\ Return
  /\ UNCHANGED <<life, phase, jobRef, job, refs, dbVars, apiVars, inst, bounds>>

\* cnpgClusterReadyForJobs: the owned Database reports applied.
cnpgClusterReadyForJobs ==
  /\ pass.pc = "ready"
  /\ IF db.uid # Unset /\ db.applied THEN Goto("job") ELSE Return
  /\ UNCHANGED <<opVars, refs, dbVars, apiVars, inst, bounds>>

ensureJob ==
  /\ pass.pc = "job"
  /\ job' = IF job[pass.op] = "none" /\ life[pass.op] = "live"
              THEN [job EXCEPT ![pass.op] = "running"] ELSE job
  /\ Goto("sync")
  /\ UNCHANGED <<life, phase, jobRef, reset, prevUID, refs, dbVars, apiVars, inst, bounds>>

\* syncStatusFromJob and syncParentSideEffects.
syncStatusFromJob ==
  /\ pass.pc = "sync"
  /\ IF life[pass.op] = "live"
       THEN /\ phase' = [phase EXCEPT ![pass.op] = JobPhase(job[pass.op])]
            /\ jobRef' = [jobRef EXCEPT ![pass.op] = TRUE]
            /\ refs' = IF job[pass.op] = "running" THEN refs ELSE refs \ {pass.op}
       ELSE UNCHANGED <<phase, jobRef, refs>>
  /\ Return
  /\ UNCHANGED <<life, job, reset, prevUID, dbVars, apiVars, inst, bounds>>

FailCall ==
  /\ pass.pc # "idle"
  /\ faults < MaxFaults
  /\ faults' = faults + 1
  /\ Return
  /\ UNCHANGED <<opVars, refs, dbVars, apiVars, inst, deletes, preempted>>

PassStep ==
  \/ claimWritePlane \/ apiQuiescedForRebuild \/ ensureRebuildDatabaseReset
  \/ deleteDatabase \/ annotatePending \/ cnpgClusterReadyForJobs
  \/ ensureJob \/ syncStatusFromJob

-----------------------------------------------------------------------------
(* The Instance controller's pass over the same objects.                   *)

\* Mutant: a Rebuild that has ended or is gone still counts.
pendingForever ==
  \E o \in Ops : OpType[o] = "Rebuild" /\ reset[o] = "pending"

hasPendingRebuildDatabaseReset ==
  \E o \in Live : /\ OpType[o] = "Rebuild"
                  /\ isActiveOperationPhase(phase[o])
                  /\ reset[o] = "pending"

instStart ==
  /\ inst.pc = "idle"
  /\ inst' = [pc |-> "database", pending |-> hasPendingRebuildDatabaseReset, suspend |-> FALSE]
  /\ UNCHANGED <<opVars, refs, dbVars, apiVars, pass, bounds>>

\* reconcileOwnedCNPGDatabase: skipped while a reset was pending at the read;
\* an existing object, terminating or not, is left as it is.
reconcileOwnedCNPGDatabase ==
  /\ inst.pc = "database"
  /\ inst' = [inst EXCEPT !.pc = "refs"]
  /\ IF ~inst.pending /\ db.uid = Unset THEN CreateDatabase ELSE UNCHANGED <<db, lastUID>>
  /\ UNCHANGED <<opVars, refs, rows, apiVars, pass, bounds>>

\* shouldSuspendAPI on the references of the parent as just written back.
shouldSuspendAPI ==
  /\ inst.pc = "refs"
  /\ inst' = [inst EXCEPT !.pc = "api",
                          !.suspend = \E o \in refs \intersect Live : OpType[o] = "Rebuild"]
  /\ UNCHANGED <<opVars, refs, dbVars, apiVars, pass, bounds>>

\* Mutant: replicas are only ever scaled down.
reconcileAPIOnlyDown ==
  /\ inst.pc = "api"
  /\ apiWant' = (apiWant /\ ~inst.suspend)
  /\ inst' = InstIdle
  /\ UNCHANGED <<opVars, refs, dbVars, apiUp, pass, bounds>>

reconcileAPI ==
  /\ inst.pc = "api"
  /\ apiWant' = ~inst.suspend
  /\ inst' = InstIdle
  /\ UNCHANGED <<opVars, refs, dbVars, apiUp, pass, bounds>>

InstanceStep == instStart \/ reconcileOwnedCNPGDatabase \/ shouldSuspendAPI \/ reconcileAPI

-----------------------------------------------------------------------------
(* Users, CloudNativePG, the Deployment and Job controllers (external).    *)

CreateOperation(o) ==
  /\ life[o] = "new"
  /\ life' = [life EXCEPT ![o] = "live"]
  /\ UNCHANGED <<phase, jobRef, job, reset, prevUID, refs, dbVars, apiVars, pass, inst, bounds>>

\* A user deletes the Operation; reconcileOperationDelete, once the worker is
\* free, drops its reference and the garbage collector its Job.
DeleteOperation(o) ==
  /\ life[o] = "live" /\ pass.pc = "idle"
  /\ deletes < MaxDeletes
  /\ deletes' = deletes + 1
  /\ life' = [life EXCEPT ![o] = "gone"]
  /\ refs' = refs \ {o}
  /\ job' = [job EXCEPT ![o] = "none"]
  /\ UNCHANGED <<phase, jobRef, reset, prevUID, dbVars, apiVars, pass, inst, faults, preempted>>

\* DROP DATABASE waits for the last connection the API holds to it.
DropDatabase ==
  /\ db.terminating
  /\ ~apiUp \/ rows = "absent"
  /\ db' = NoDB
  /\ rows' = "absent"
  /\ UNCHANGED <<opVars, refs, lastUID, apiVars, pass, inst, bounds>>

ApplyDatabase ==
  /\ db.uid # Unset /\ ~db.applied /\ ~db.terminating
  /\ db' = [db EXCEPT !.applied = TRUE]
  /\ rows' = IF rows = "absent" THEN "empty" ELSE rows
  /\ UNCHANGED <<opVars, refs, lastUID, apiVars, pass, inst, bounds>>

ScalePods ==
  /\ apiUp # apiWant
  /\ apiUp' = apiWant
  /\ UNCHANGED <<opVars, refs, dbVars, apiWant, pass, inst, bounds>>

EndJob(o) ==
  /\ job[o] = "running"
  /\ \/ /\ job' = [job EXCEPT ![o] = "succeeded"]
        /\ rows' = IF rows = "absent" THEN rows ELSE "filled"
     \/ /\ job' = [job EXCEPT ![o] = "failed"]
        /\ rows' \in IF rows = "absent" THEN {rows} ELSE {rows, "filled"}
  /\ UNCHANGED <<life, phase, jobRef, reset, prevUID, refs, db, lastUID, apiVars, pass, inst, bounds>>

Next ==
  \/ \E o \in Ops : StartPass(o) \/ CreateOperation(o) \/ DeleteOperation(o) \/ EndJob(o)
  \/ PassStep \/ FailCall
  \/ InstanceStep
  \/ DropDatabase \/ ApplyDatabase \/ ScalePods

Spec == Init /\ [][Next]_vars

(* As in Operations: the FIFO workqueue gives every Operation the worker   *)
(* again; controllers, kubelets and Jobs keep running.                     *)
FairSpec ==
  /\ Spec
  /\ \A o \in Ops : SF_vars(StartPass(o)) /\ WF_vars(EndJob(o))
  /\ WF_vars(PassStep) /\ WF_vars(InstanceStep)
  /\ SF_vars(DropDatabase) /\ WF_vars(ApplyDatabase) /\ SF_vars(ScalePods)

-----------------------------------------------------------------------------
(* Properties.                                                             *)

(* The annotations carry the handshake over restarts: a reset is pending   *)
(* only with the UID it replaces, and a Rebuild has a Job only after its   *)
(* reset is done (patchRebuildResetAnnotations).                           *)
ResetInv ==
  /\ TypeOK
  /\ \A o \in Ops : (reset[o] = "") <=> (prevUID[o] = Unset)
  /\ \A o \in Ops : OpType[o] = "Rebuild" /\ job[o] # "none" => reset[o] = "done"

\* So far no call has failed, no Operation was deleted and none was granted the
\* write plane in the middle of a reset.
Undisturbed == faults = 0 /\ deletes = 0 /\ ~preempted

StartsEmpty ==
  \A o \in Ops : OpType[o] = "Rebuild" /\ job[o] = "none" /\ job'[o] = "running" => rows = "empty"

(* Until a call fails, an Operation is deleted or one is granted the write *)
(* plane in mid-reset, a Rebuild Job is created only on a database that    *)
(* was dropped and recreated for it: CloudNativePG has applied the new     *)
(* object and no earlier import is left in it                              *)
(* (ensureRebuildDatabaseReset).                                           *)
RebuildStartsEmpty == [][Undisturbed => StartsEmpty]_vars

(* The same after a failed call or a preempted reset, which the code does  *)
(* not keep (ensureRebuildDatabaseReset).                                  *)
RebuildAlwaysStartsEmpty == [][StartsEmpty]_vars

\* A Rebuild is under way that has no Job yet, and no other Job runs.
DropJustified ==
  /\ \A o \in Ops : job[o] # "running"
  /\ \E o \in Live : /\ OpType[o] = "Rebuild" /\ job[o] = "none"
                     /\ isActiveOperationPhase(phase[o])

(* As long, imported data is dropped only for a Rebuild in progress, one   *)
(* that still exists, is not terminal and has not started to import, and   *)
(* never under the Job of any Operation (ensureRebuildDatabaseReset).      *)
DropOnlyForRebuild ==
  [][Undisturbed /\ rows # "absent" /\ rows' = "absent" => DropJustified]_vars

(* Every Operation ends ("a finite workflow", docs/concepts.md).           *)
OperationsEnd ==
  \A o \in Ops :
    (life[o] = "live" /\ isActiveOperationPhase(phase[o]))
      ~> (life[o] # "live" \/ isTerminalOperationPhase(phase[o]))

(* Whatever happens to the Rebuild - done, failed, deleted in mid-reset -  *)
(* the Database that was dropped comes back and is applied.                *)
DatabaseReturns == (db.uid = Unset) ~> (db.uid # Unset /\ db.applied)

(* The API that was scaled down for the reset is served again.             *)
ServesAgain == ~apiUp ~> apiUp

-----------------------------------------------------------------------------
(* Inductive invariants, which the proofs of ResetInv, RebuildStartsEmpty  *)
(* and DropOnlyForRebuild rest on.                                         *)

\* The pass has been given the write plane by its claim.
Past(o) == pass.op = o /\ pass.pc \notin {"idle", "claim"}

\* What the pass relies on: its Operation exists, is in the phase of the
\* handshake that the annotations say, and a Rebuild gets to its Job only when
\* the reset is done.
PassInv ==
  /\ pass.pc # "idle" =>
       pass.op \in Ops /\ life[pass.op] = "live" /\ isActiveOperationPhase(phase[pass.op])
  /\ pass.pc \in {"quiesce", "reset", "delete", "annotate"} => OpType[pass.op] = "Rebuild"
  /\ pass.pc \in {"reset", "delete", "annotate"} => reset[pass.op] # "done"
  /\ pass.pc \in {"delete", "annotate"} => pass.uid \in UIDs /\ prevUID[pass.op] = Unset
  /\ pass.pc \in {"ready", "job", "sync"} =>
       (OpType[pass.op] = "Rebuild" => reset[pass.op] = "done")
  /\ pass.pc = "sync" => job[pass.op] # "none"

HandshakeInv == ResetInv /\ PassInv

\* An Operation that holds the write plane, or whose pass was just granted it.
Granted(o) ==
  \/ life[o] = "live" /\ peerHoldsWritePlane(phase[o], jobRef[o])
  \/ Past(o)

\* Two conflicting Operations are never both granted the write plane; one that
\* has not been created has no status.
GrantInv ==
  /\ \A o \in Ops : life[o] = "new" => phase[o] = "" /\ ~jobRef[o]
  /\ \A o, p \in Ops : operationsMutexConflict(o, p) => ~(Granted(o) /\ Granted(p))

\* The Database object and the Postgres database behind it; UIDs only grow.
DatabaseInv ==
  /\ db.uid = Unset => ~db.applied /\ ~db.terminating
  /\ ~db.applied <=> rows = "absent"
  /\ db.uid <= lastUID /\ pass.uid <= lastUID
  /\ \A o \in Ops : prevUID[o] <= lastUID

\* The reset of Rebuild b is under way or done.
Begun(b) == reset[b] # "" \/ Past(b)

\* While nothing goes wrong every running Job is recorded, or about to be.
JobsRecorded ==
  \A o \in Ops : job[o] = "running" =>
    life[o] = "live" /\ ((phase[o] = "Running" /\ jobRef[o]) \/ (Past(o) /\ pass.pc = "sync"))

\* Once b has begun, and until its Job, nobody else is granted the write plane
\* and no other Rebuild is in mid-reset.
BegunAlone(b) ==
  Begun(b) /\ job[b] = "none" =>
    /\ life[b] = "live" /\ isActiveOperationPhase(phase[b])
    /\ \A p \in Ops : p # b => ~Granted(p)
    /\ \A p \in Ops : p # b /\ OpType[p] = "Rebuild" /\ job[p] = "none" => ~Begun(p)

\* Only the incarnation that b replaces is ever deleted, and every other one
\* is fresh: what is applied in it is empty until the Job of b.
FreshFor(b) ==
  /\ Past(b) /\ pass.pc = "delete" => db.uid = pass.uid /\ ~db.terminating
  /\ Past(b) /\ pass.pc = "annotate" /\ db.applied /\ db.uid # pass.uid => rows = "empty"
  /\ reset[b] # "" /\ job[b] = "none" /\ db.applied /\ db.uid # prevUID[b] => rows = "empty"
  /\ reset[b] = "done" /\ job[b] = "none" => db.applied /\ db.uid # prevUID[b]

\* A terminating Database is the one a Rebuild is replacing.
DropHasRebuild ==
  db.terminating =>
    \E b \in Ops : /\ OpType[b] = "Rebuild"
                   /\ \/ reset[b] = "pending" /\ db.uid = prevUID[b]
                      \/ Past(b) /\ pass.pc = "annotate" /\ db.uid = pass.uid

(* The handshake while nothing disturbs it: the Database that a Rebuild    *)
(* resets stays its own up to the creation of its Job                      *)
(* (ensureRebuildDatabaseReset, ensureJob).                                *)
CleanReset ==
  Undisturbed =>
    /\ JobsRecorded /\ DropHasRebuild
    /\ \A b \in Ops : OpType[b] = "Rebuild" => BegunAlone(b) /\ FreshFor(b)

=============================================================================
