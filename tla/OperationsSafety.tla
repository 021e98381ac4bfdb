-------------------------- MODULE OperationsSafety --------------------------
(* What follows from MutexInv for the statuses and references that the     *)
(* Operation controller writes: terminal phases are final, the statuses    *)
(* implement the lock of WriteMutex, and status.activeOperationRefs agrees *)
(* with them.                                                              *)
EXTENDS OperationsProofs

-----------------------------------------------------------------------------
(* Which steps write which part of the state.                              *)

StatusFrame == UNCHANGED <<phase, jobRef, why, forced>> \/ syncStatusFromJob \/ failOperation

JobFrame == UNCHANGED job \/ ensureJob \/ \E o \in Ops : DeleteJob(o) \/ JobStep(o)

LifeFrame ==
  \/ UNCHANGED life
  \/ removeOperationFinalizer
  \/ drainChildOperations
  \/ \E o \in Ops : CreateOperation(o) \/ DeleteOperation(o)

FinFrame == UNCHANGED fin \/ removeOperationFinalizer \/ \E o \in Ops : StartLive(o)

RefsFrame ==
  \/ UNCHANGED refs
  \/ claimWritePlane
  \/ syncParentSideEffects
  \/ deleteUnref
  \/ removeInstanceFinalizer

Frames == StatusFrame /\ JobFrame /\ LifeFrame /\ FinFrame /\ RefsFrame

\* Each part of the state is written by the steps named above and no other.
LEMMA StepFrames == [Next]_vars => Frames
<1> SUFFICES ASSUME [Next]_vars PROVE Frames
    OBVIOUS
<1> USE DEF opVars, Frames, StatusFrame, JobFrame, LifeFrame, FinFrame, RefsFrame
<1>1. ASSUME NEW o \in Ops, StartPass(o) PROVE Frames
      BY <1>1 DEF StartPass, StartRefused, StartClaim, StartTerminal, StartDelete, StartLive
<1>2. CASE PassStep
      <2>1. CASE claimWritePlane \/ enforceRegionGates \/ applyPreJobCNPGEffects \/ applyImportProfile
            BY <2>1 DEF claimWritePlane, enforceRegionGates, applyPreJobCNPGEffects, applyImportProfile
      <2>2. CASE waitForJobPrerequisites \/ ensureJob \/ syncStatusFromJob \/ failOperation
            BY <2>2 DEF waitForJobPrerequisites, ensureJob, syncStatusFromJob, failOperation
      <2>3. CASE syncParentSideEffects \/ deleteUnref \/ removeOperationFinalizer
            BY <2>3 DEF syncParentSideEffects, deleteUnref, removeOperationFinalizer
      <2>4. CASE applyTerminalCNPGEffects \/ applyRuntimeProfile
            BY <2>4 DEF applyTerminalCNPGEffects, applyRuntimeProfile
      <2> QED BY <1>2, <2>1, <2>2, <2>3, <2>4 DEF PassStep
<1>3. CASE FailCall \/ DeleteInstance \/ DeleteCluster \/ ClusterBecomesReady \/ UNCHANGED vars
      BY <1>3 DEF FailCall, DeleteInstance, DeleteCluster, ClusterBecomesReady, vars
<1>4. ASSUME NEW o \in Ops, CreateOperation(o) \/ DeleteOperation(o) \/ DeleteJob(o)
      PROVE  Frames
      BY <1>4 DEF CreateOperation, DeleteOperation, DeleteJob
<1>5. ASSUME NEW i \in Impacts, EditPolicy(i) PROVE Frames
      BY <1>5 DEF EditPolicy
<1>6. CASE InstanceStep
      BY <1>6 DEF InstanceStep, reconcileDatabase, observeBootstrap, drainChildOperations,
         deleteOwnedCNPGResources, removeInstanceFinalizer
<1>7. ASSUME NEW o \in Ops, JobStep(o) PROVE Frames
      BY <1>7 DEF JobStep, StartPod, FailPod, FinishPod, CollectJob
<1> QED BY <1>1, <1>2, <1>3, <1>4, <1>5, <1>6, <1>7 DEF Next

\* What the two status writes do to the Operation the pass works on: a pass
\* that claimed may write any phase its Job gives; one that reads the Job of
\* a terminal Operation again writes a terminal phase; failOperation ends an
\* active Operation.
LEMMA StatusWrite ==
  ASSUME MutexInv, [Next]_vars, phase' # phase \/ jobRef' # jobRef \/ forced' # forced
  PROVE  /\ pass.op \in Ops /\ Exists(pass.op) /\ fin[pass.op]
         /\ UNCHANGED <<life, fin, job, refs, parent>>
         /\ pass'.pc = "ref" /\ pass'.op = pass.op /\ pass'.deleting = pass.deleting
         /\ \A p \in Ops \ {pass.op} :
              phase'[p] = phase[p] /\ jobRef'[p] = jobRef[p] /\ (p \in forced' <=> p \in forced)
         /\ \/ /\ pass.pc \in {"sync", "resync"} /\ job[pass.op].exists
               /\ phase'[pass.op] = phaseFromJob(job[pass.op].succeeded, job[pass.op].failed,
                                                 job[pass.op].active)
               /\ jobRef'[pass.op] = TRUE /\ forced' = forced
            \/ /\ pass.pc = "fail"
               /\ phase'[pass.op] = "Failed" /\ jobRef' = jobRef
               /\ forced' = IF jobRef[pass.op] THEN forced \union {pass.op} ELSE forced
<1> USE DEF MutexInv
<1>1. CASE syncStatusFromJob
      <2>1. pass.op \in Ops /\ Exists(pass.op) /\ fin[pass.op]
            BY <1>1 DEF syncStatusFromJob, PassKnows, TypeOK, Passes
      <2>2. /\ pass.pc \in {"sync", "resync"} /\ job[pass.op].exists /\ Goto("ref")
            /\ phase' = [phase EXCEPT ![pass.op] =
                 phaseFromJob(job[pass.op].succeeded, job[pass.op].failed, job[pass.op].active)]
            /\ jobRef' = [jobRef EXCEPT ![pass.op] = TRUE]
            /\ UNCHANGED <<life, fin, forced, job, refs, parent>>
            BY <1>1 DEF syncStatusFromJob, nomVars
      <2>3. pass'.pc = "ref" /\ pass'.op = pass.op /\ pass'.deleting = pass.deleting
            BY <2>2 DEF Goto, TypeOK, Passes
      <2> QED BY <2>1, <2>2, <2>3 DEF TypeOK
<1>2. CASE failOperation
      <2>1. pass.op \in Ops /\ Exists(pass.op) /\ fin[pass.op]
            BY <1>2 DEF failOperation, PassKnows, TypeOK, Passes
      <2>2. /\ pass.pc = "fail" /\ Goto("ref")
            /\ phase' = [phase EXCEPT ![pass.op] = "Failed"]
            /\ forced' = IF jobRef[pass.op] THEN forced \union {pass.op} ELSE forced
            /\ UNCHANGED <<life, fin, jobRef, job, refs, parent>>
            BY <1>2 DEF failOperation, nomVars
      <2>3. pass'.pc = "ref" /\ pass'.op = pass.op /\ pass'.deleting = pass.deleting
            BY <2>2 DEF Goto, TypeOK, Passes
      <2> QED BY <2>1, <2>2, <2>3 DEF TypeOK
<1> QED BY <1>1, <1>2, StepFrames DEF Frames, StatusFrame

-----------------------------------------------------------------------------
(* Terminal phases.                                                        *)

LEMMA InitStatusInv == Init => StatusInv
BY DEF Init, StatusInv, NoJob, Exists

\* Jobs come and go and pods run, but a Job whose pod has succeeded keeps
\* that success until it is deleted, and no terminal Operation is given one.
LEMMA SuccessKept ==
  ASSUME MutexInv, [Next]_vars, NEW o \in Ops, phase[o] = "Succeeded",
         ~job[o].exists \/ job[o].succeeded > 0
  PROVE  ~job'[o].exists \/ job'[o].succeeded > 0
<1> USE DEF MutexInv
<1>1. CASE UNCHANGED job
      BY <1>1
<1>2. CASE ensureJob
      <2>1. isActiveOperationPhase(phase[pass.op])
            BY <1>2 DEF ensureJob, PassKnows, Claimed
      <2>2. pass.op # o
            BY <2>1 DEF isActiveOperationPhase, ActivePhases
      <2> QED BY <1>2, <2>2 DEF ensureJob, TypeOK
<1>3. ASSUME NEW p \in Ops, DeleteJob(p) \/ JobStep(p)
      PROVE  ~job'[o].exists \/ job'[o].succeeded > 0
      BY <1>3 DEF DeleteJob, JobStep, StartPod, FailPod, FinishPod, CollectJob, NoJob,
                  JobWith, TypeOK
<1> QED BY <1>1, <1>2, <1>3, StepFrames DEF Frames, JobFrame

\* The finalizer of an Operation that exists is given up by nobody.
LEMMA FinalizerKept ==
  ASSUME MutexInv, [Next]_vars, NEW o \in Ops, fin[o], Exists(o)'
  PROVE  fin'[o]
<1> USE DEF MutexInv
<1>1. CASE UNCHANGED fin
      BY <1>1
<1>2. CASE removeOperationFinalizer
      <2>1. pass.op \in Ops
            BY <1>2 DEF removeOperationFinalizer, TypeOK, Passes
      <2>2. o # pass.op
            BY <1>2, <2>1 DEF removeOperationFinalizer, TypeOK, Exists
      <2> QED BY <1>2, <2>1, <2>2 DEF removeOperationFinalizer, TypeOK
<1>3. ASSUME NEW p \in Ops, StartLive(p) PROVE fin'[o]
      BY <1>3 DEF StartLive, TypeOK
<1> QED BY <1>1, <1>2, <1>3, StepFrames DEF Frames, FinFrame

\* An Operation with a status exists before the step if it does after it.
LEMMA NoRevival ==
  ASSUME MutexInv, [Next]_vars, NEW o \in Ops, Exists(o)', phase[o] # "" \/ jobRef[o]
  PROVE  Exists(o)
<1> USE DEF MutexInv, Exists
<1>1. CASE removeOperationFinalizer
      BY <1>1 DEF removeOperationFinalizer, TypeOK, Passes
<1>2. CASE drainChildOperations
      BY <1>2 DEF drainChildOperations, DeleteSet
<1>3. ASSUME NEW p \in Ops, CreateOperation(p) PROVE Exists(o)
      BY <1>3 DEF CreateOperation, LifeAgrees, TypeOK
<1>4. ASSUME NEW p \in Ops, DeleteOperation(p) PROVE Exists(o)
      BY <1>4 DEF DeleteOperation, DeleteSet
<1> QED BY <1>1, <1>2, <1>3, <1>4, StepFrames DEF Frames, LifeFrame

LEMMA StatusInvStep == MutexInv /\ StatusInv /\ [Next]_vars => StatusInv'
<1> SUFFICES ASSUME MutexInv, StatusInv, [Next]_vars PROVE StatusInv'
    OBVIOUS
<1>1. CASE UNCHANGED <<phase, jobRef>>
      <2>1. ASSUME NEW o \in Ops, phase'[o] = "Succeeded"
            PROVE  ~job'[o].exists \/ job'[o].succeeded > 0
            BY <1>1, <2>1, SuccessKept DEF StatusInv
      <2>2. ASSUME NEW o \in Ops, Exists(o)', phase'[o] # "" \/ jobRef'[o]
            PROVE  fin'[o]
            BY <1>1, <2>2, NoRevival, FinalizerKept DEF StatusInv
      <2> QED BY <2>1, <2>2 DEF StatusInv
<1>2. CASE phase' # phase \/ jobRef' # jobRef
      <2> DEFINE o == pass.op
      <2>1. /\ o \in Ops /\ fin[o] /\ UNCHANGED <<life, fin, job>>
            /\ \A p \in Ops \ {o} : phase'[p] = phase[p] /\ jobRef'[p] = jobRef[p]
            BY <1>2, StatusWrite
      <2>2. phase'[o] = "Succeeded" => job[o].succeeded > 0
            <3>1. job[o].succeeded \in 0..1 /\ job[o].failed \in Nat /\ job[o].active \in 0..1
                  BY <2>1 DEF MutexInv, TypeOK, Jobs
            <3>2. phaseFromJob(job[o].succeeded, job[o].failed, job[o].active) = "Succeeded"
                    => job[o].succeeded > 0
                  BY <3>1 DEF phaseFromJob
            <3> QED BY <1>2, <3>2, StatusWrite
      <2>3. \A p \in Ops : Exists(p)' <=> Exists(p)
            BY <2>1 DEF Exists
      <2> QED BY <2>1, <2>2, <2>3 DEF StatusInv
<1> QED BY <1>1, <1>2

\* The step of the next theorem.
LEMMA FinalStep ==
  ASSUME MutexInv, StatusInv, [Next]_vars, NEW o \in Ops \ forced,
         isTerminalOperationPhase(phase[o]), phase'[o] # phase[o]
  PROVE  phase[o] = "Failed" /\ phase'[o] = "Succeeded"
<1>1. o = pass.op
      BY StatusWrite
<1>2. ~isActiveOperationPhase(phase[o])
      BY DEF isTerminalOperationPhase, isActiveOperationPhase, TerminalPhases, ActivePhases
<1>3. pass.pc \in {"sync", "resync"} /\ job[o].exists
      BY <1>1, <1>2, StatusWrite DEF MutexInv, PassKnows
<1>4. pass.pc = "resync" /\ jobRef[o]
      BY <1>1, <1>2, <1>3 DEF MutexInv, PassKnows, Claimed
<1>5. phase'[o] = phaseFromJob(job[o].succeeded, job[o].failed, job[o].active)
      BY <1>1, <1>3, StatusWrite
<1>6. job[o].succeeded \in 0..1 /\ job[o].failed \in Nat /\ job[o].active \in 0..1
      BY DEF MutexInv, TypeOK, Jobs
<1>7. job[o].succeeded > 0 \/ job[o].failed > 0
      BY <1>3, <1>4 DEF MutexInv, TerminalIsSettled, Settled
<1>8. phase'[o] \in {"Succeeded", "Failed"}
      BY <1>5, <1>6, <1>7 DEF phaseFromJob
<1>9. phase[o] = "Succeeded" => phase'[o] = "Succeeded"
      <2>1. phase[o] = "Succeeded" => job[o].succeeded > 0
            BY <1>3 DEF StatusInv
      <2> QED BY <1>5, <1>6, <2>1 DEF phaseFromJob
<1> QED BY <1>8, <1>9 DEF isTerminalOperationPhase, TerminalPhases

LEMMA StatusInvariant == Spec => []StatusInv
BY InitStatusInv, StatusInvStep, MutexInvariant, PTL DEF Spec

\* A phase read from the Job stays terminal, and Succeeded stays Succeeded,
\* through crashes, deletions, lost Jobs and retries: the only change ever
\* made to it is from Failed to Succeeded.
THEOREM TerminalPhaseIsFinal == Spec => TerminalIsFinal
<1> DEFINE Final(o) == isTerminalOperationPhase(phase[o]) /\ phase'[o] # phase[o]
                         => phase[o] = "Failed" /\ phase'[o] = "Succeeded"
<1>1. MutexInv /\ StatusInv /\ [Next]_vars => \A o \in Ops \ forced : Final(o)
      BY FinalStep
<1> QED BY <1>1, StatusInvariant, MutexInvariant, PTL DEF Spec, TerminalIsFinal

-----------------------------------------------------------------------------
(* The statuses implement the abstract lock.                               *)

\* Only the status write of a pass that claimed makes a holder.
LEMMA NewHolder ==
  ASSUME MutexInv, [Next]_vars, phase' # phase \/ jobRef' # jobRef \/ forced' # forced,
         NEW o \in Ops \ forced', o = pass.op, Holds(o)'
  PROVE  pass.pc = "sync"
<1> USE DEF MutexInv
<1>1. isActiveOperationPhase(phase'[o])
      BY DEF Holds, peerHoldsWritePlane
<1>2. phase'[o] # "Failed"
      BY <1>1 DEF isActiveOperationPhase, ActivePhases
<1>3. /\ pass.pc \in {"sync", "resync"} /\ job[o].exists /\ forced' = forced
      /\ phase'[o] = phaseFromJob(job[o].succeeded, job[o].failed, job[o].active)
      BY <1>2, StatusWrite
<1>4. job[o].succeeded \in 0..1 /\ job[o].failed \in Nat /\ job[o].active \in 0..1
      BY <1>1 DEF TypeOK, Jobs
<1>5. ~Settled(job[o])
      BY <1>1, <1>3, <1>4, PhaseFromJobFacts DEF Settled
<1> QED BY <1>1, <1>3, <1>5 DEF PassKnows, TerminalIsSettled

\* A step changes the holders by one Operation at most, and lets one in only
\* where no conflicting Operation holds.
LEMMA HoldersStep ==
  ASSUME MutexInv, StatusInv, [Next]_vars, Holders' # Holders
  PROVE  \E o \in Ops :
           \/ /\ o \notin Holders /\ Holders' = Holders \union {o}
              /\ \A h \in Holders : ~operationsMutexConflict(o, h)
           \/ o \in Holders /\ Holders' = Holders \ {o}
<1> USE DEF MutexInv
<1>1. CASE UNCHANGED <<phase, jobRef, forced>>
      <2>1. \A p \in Ops : Holds(p)' => Holds(p)
            BY <1>1, NoRevival DEF Holds, peerHoldsWritePlane
      <2>2. PICK o \in Ops \ forced : Holds(o) /\ ~Holds(o)'
            BY <1>1, <2>1 DEF Holders
      <2>3. removeOperationFinalizer /\ o = pass.op
            <3>1. Exists(o) /\ ~Exists(o)' /\ fin[o]
                  BY <1>1, <2>2 DEF Holds, peerHoldsWritePlane, StatusInv
            <3>2. ~drainChildOperations /\ \A p \in Ops : ~DeleteOperation(p) /\ ~CreateOperation(p)
                  BY <3>1 DEF drainChildOperations, DeleteOperation, CreateOperation, DeleteSet,
                              Exists, TypeOK
            <3>3. removeOperationFinalizer
                  BY <3>1, <3>2, StepFrames DEF Frames, LifeFrame, Exists
            <3> QED BY <3>1, <3>3 DEF removeOperationFinalizer, Exists, TypeOK
      <2>4. \A p \in Ops \ {o} : life'[p] = life[p]
            BY <2>3 DEF removeOperationFinalizer, TypeOK
      <2>5. \A p \in Ops \ {o} : Holds(p)' <=> Holds(p)
            BY <1>1, <2>4 DEF Holds, Exists
      <2>6. o \in Holders /\ Holders' = Holders \ {o}
            BY <1>1, <2>2, <2>5 DEF Holders
      <2> QED BY <2>6
<1>2. CASE phase' # phase \/ jobRef' # jobRef \/ forced' # forced
      <2>0. PICK o \in Ops : o = pass.op
            BY <1>2, StatusWrite
      <2>1. /\ UNCHANGED life
            /\ \A p \in Ops \ {o} :
                 phase'[p] = phase[p] /\ jobRef'[p] = jobRef[p] /\ (p \in forced' <=> p \in forced)
            BY <1>2, <2>0, StatusWrite
      <2>2. \A p \in Ops \ {o} : p \in Holders' <=> p \in Holders
            BY <2>1 DEF Holders, Holds, Exists
      <2>3. Holders \subseteq Ops /\ Holders' \subseteq Ops
            BY DEF Holders
      <2>4. CASE o \in Holders
            <3>1. Holders' = Holders \/ Holders' = Holders \ {o}
                  BY <2>2, <2>3, <2>4
            <3> QED BY <2>1, <2>4, <3>1
      <2>5. CASE o \notin Holders
            <3>1. Holders' = Holders \union {o} /\ o \in Holders'
                  BY <2>1, <2>2, <2>3, <2>5
            <3>2. pass.pc = "sync"
                  BY <1>2, <2>0, <3>1, NewHolder DEF Holders
            <3>3. \A p \in Ops : operationsMutexConflict(o, p) => ~Holds(p)
                  BY <2>0, <3>2 DEF ClaimIsExclusive, Claimed
            <3> QED BY <2>5, <3>1, <3>3 DEF Holders
      <2> QED BY <2>4, <2>5
<1> QED BY <1>1, <1>2

\* The statuses written by the controller, through crashes, deletions, the
\* drain of a deleted Instance and retried Jobs, behave as the abstract lock:
\* Operations enter one at a time and only beside Operations they do not
\* conflict with.
THEOREM StatusesImplementLock == Spec => ImplementsWriteMutex
<1>1. Init => Mutex!MutexInit
      BY DEF Init, Mutex!MutexInit, Holders, Holds, Exists
<1>2. MutexInv /\ StatusInv /\ [Next]_vars => [Mutex!MutexNext]_Holders
      <2> SUFFICES ASSUME MutexInv, StatusInv, [Next]_vars, Holders' # Holders
                   PROVE  Mutex!MutexNext
          OBVIOUS
      <2> QED BY HoldersStep DEF Mutex!MutexNext, Mutex!Acquire, Mutex!Release,
                 Mutex!operationsMutexConflict, operationsMutexConflict,
                 Mutex!isWriteHeavyOperation, isWriteHeavyOperation
<1> QED BY <1>1, <1>2, StatusInvariant, MutexInvariant, PTL DEF Spec, ImplementsWriteMutex, Mutex!MutexSpec

-----------------------------------------------------------------------------
(* The references on the parent.                                           *)

LEMMA InitRefsInv == Init => RefsInv
<1> SUFFICES ASSUME Init PROVE RefsInv
    OBVIOUS
<1>1. pass.pc = "idle" /\ pass.deleting = FALSE /\ refs = {}
      BY DEF Init, IdlePass
<1>2. \A o \in Ops : ~Holds(o)
      BY DEF Init, Holds, Exists
<1> QED BY <1>1, <1>2, InitMutexInv DEF RefsInv, RefsAgree, PassRefs, Claimed

\* A step that writes neither statuses nor references and leaves the worker
\* idle, where it was, or further on the same path.
LEMMA QuietRefs ==
  ASSUME RefsInv, MutexInv', UNCHANGED <<life, fin, phase, jobRef, forced, refs>>,
         parent' = parent \/ parent' # "gone",
         \/ pass'.pc = "idle" /\ ~pass'.deleting
         \/ /\ pass'.op = pass.op /\ pass'.deleting = pass.deleting
            /\ \/ pass'.pc = pass.pc
               \/ pass.pc \in Claimed /\ pass'.pc \in Claimed \union {"fail"}
               \/ /\ pass.pc \in {"resume", "runtime"} /\ pass'.pc \in {"runtime", "finalize"}
                  /\ pass'.pc = "finalize" => pass.deleting
  PROVE  RefsInv'
<1> USE DEF RefsInv
<1>1. \A o \in Ops : (Holds(o)' <=> Holds(o)) /\ (Exists(o)' <=> Exists(o))
      BY DEF Holds, Exists
<1>2. RefsAgree'
      BY <1>1 DEF RefsAgree, MutexInv, TypeOK
<1>3. PassRefs'
      BY DEF PassRefs, Claimed
<1> QED BY <1>2, <1>3

\* DELETE: an Operation the parent refers to carries its finalizer and stays.
LEMMA DeleteRefs ==
  ASSUME RefsInv, MutexInv', NEW S \in SUBSET {o \in Ops : life[o] = "live"}, DeleteSet(S),
         UNCHANGED <<fin, phase, jobRef, forced, refs, parent>>
  PROVE  RefsInv'
<1> USE DEF RefsInv, MutexInv
<1>1. \A o \in Ops : /\ life'[o] = "live" => life[o] = "live"
                     /\ life[o] = "deleting" => life'[o] = "deleting"
                     /\ Exists(o) /\ fin[o] => Exists(o)'
      BY DEF DeleteSet, TypeOK, Exists
<1>2. \A o \in Ops : Holds(o)' /\ life'[o] = "live" => Holds(o) /\ life[o] = "live"
      BY <1>1 DEF Holds, Exists
<1>3. RefsAgree'
      BY <1>1, <1>2 DEF RefsAgree, TypeOK
<1>4. pass'.pc = pass.pc /\ pass'.op = pass.op /\ pass'.deleting = pass.deleting
      BY DEF DeleteSet, TypeOK, Passes
<1>5. PassRefs'
      BY <1>1, <1>4 DEF PassRefs, TypeOK, Passes
<1> QED BY <1>3, <1>5

LEMMA StartRefs ==
  ASSUME RefsInv, MutexInv', NEW o \in Ops, StartPass(o)
  PROVE  RefsInv'
<1> USE DEF RefsInv, MutexInv
<1>1. UNCHANGED <<life, phase, jobRef, forced, refs, parent>>
      BY DEF StartPass, StartRefused, StartClaim, StartTerminal, StartDelete, StartLive, opVars, nomVars
<1>2. \A p \in Ops : fin[p] => fin'[p]
      BY DEF StartPass, StartRefused, StartClaim, StartTerminal, StartDelete, StartLive, opVars, TypeOK
<1>3. \A p \in Ops : (Holds(p)' <=> Holds(p)) /\ (Exists(p)' <=> Exists(p))
      BY <1>1 DEF Holds, Exists
<1>4. RefsAgree' /\ (\A p \in refs' : fin'[p]) /\ (parent' = "gone" => refs' = {})
      BY <1>1, <1>2, <1>3 DEF RefsAgree, TypeOK
<1>5. ASSUME NEW s, NEW r, StartAt(o, s, r)
      PROVE  pass'.op = o /\ pass'.pc = s /\ pass'.deleting = (life[o] = "deleting")
      BY <1>5 DEF StartAt
<1>6. CASE StartDelete(o)
      <2>1. pass'.op = o /\ pass'.pc = "unref" /\ life[o] = "deleting"
            BY <1>5, <1>6 DEF StartDelete
      <2>2. pass'.deleting
            BY <1>5, <1>6, <2>1, Zenon DEF StartDelete
      <2>3. PassRefs'
            BY <1>1, <2>1, <2>2 DEF PassRefs, Claimed
      <2> QED BY <1>4, <2>3
<1>7. CASE StartLive(o)
      <2>1. life[o] = "live" /\ pass'.op = o
            BY <1>5, <1>7 DEF StartLive, StartPass, StartRefused, StartClaim, StartTerminal, StartDelete
      <2>2. /\ pass'.pc \in {"fail", "claim", "resync", "ref"}
            /\ pass'.pc = "claim" => parent # "gone"
            BY <1>5, <1>7 DEF StartLive, StartPass, StartRefused, StartClaim, StartTerminal,
                              StartDelete, Refusal
      <2>3. ~pass'.deleting
            BY <1>5, <1>7, <2>1, Zenon DEF StartPass, StartRefused, StartClaim, StartTerminal, StartDelete
      <2>4. PassRefs'
            BY <1>1, <2>2, <2>3 DEF PassRefs, Claimed
      <2> QED BY <1>4, <2>4
<1> QED BY <1>6, <1>7 DEF StartPass, StartRefused, StartClaim, StartTerminal

\* The status writes: a pass that claimed is in the references already, and
\* one that reads the Job of a terminal Operation again makes no holder.
LEMMA StatusRefs ==
  ASSUME RefsInv, MutexInv', [Next]_vars, phase' # phase \/ jobRef' # jobRef \/ forced' # forced
  PROVE  RefsInv'
<1> USE DEF RefsInv
<1>0. PICK o \in Ops : o = pass.op
      BY StatusWrite
<1>1. /\ UNCHANGED <<life, fin, job, refs, parent>>
      /\ pass'.pc = "ref" /\ pass'.op = o /\ pass'.deleting = pass.deleting
      /\ pass.pc \in {"sync", "resync", "fail"}
      /\ \A p \in Ops \ {o} :
           phase'[p] = phase[p] /\ jobRef'[p] = jobRef[p] /\ (p \in forced' <=> p \in forced)
      BY <1>0, StatusWrite
<1>2. \A p \in Ops : Exists(p)' <=> Exists(p)
      BY <1>1 DEF Exists
<1>3. \A p \in Ops \ {o} : Holds(p)' <=> Holds(p)
      BY <1>1 DEF Holds, Exists
<1>4. Holds(o)' /\ o \notin forced' => o \in refs
      BY <1>0, NewHolder DEF PassRefs, Claimed
<1>5. RefsAgree'
      BY <1>1, <1>2, <1>3, <1>4 DEF RefsAgree, MutexInv, TypeOK
<1>6. PassRefs'
      BY <1>1 DEF PassRefs, Claimed
<1> QED BY <1>1, <1>5, <1>6

LEMMA RefsStep == RefsInv /\ [Next]_vars => RefsInv'
<1> SUFFICES ASSUME RefsInv, [Next]_vars PROVE RefsInv'
    OBVIOUS
<1> USE DEF opVars, nomVars
<1>m. MutexInv /\ MutexInv'
      BY MutexStep DEF RefsInv
<1>g. ASSUME NEW s \in Steps, Goto(s)
      PROVE  pass'.pc = s /\ pass'.op = pass.op /\ pass'.deleting = pass.deleting
      BY <1>g, <1>m DEF Goto, MutexInv, TypeOK, Passes
<1>r. Return => pass'.pc = "idle" /\ ~pass'.deleting
      <2>1. IdlePass.pc = "idle" /\ IdlePass.deleting = FALSE
            BY DEF IdlePass
      <2> QED BY <2>1 DEF Return
<1>o. pass.pc # "idle" => pass.op \in Ops /\ Exists(pass.op) /\ fin[pass.op]
      BY <1>m DEF MutexInv, PassKnows, TypeOK, Passes
<1>a. AfterEffects => \/ pass'.pc = "idle" /\ ~pass'.deleting
                      \/ /\ pass'.pc = "finalize" /\ pass.deleting
                         /\ pass'.op = pass.op /\ pass'.deleting = pass.deleting
      BY <1>g, <1>r DEF AfterEffects, Steps
<1>1. ASSUME NEW o \in Ops, StartPass(o) PROVE RefsInv'
      BY <1>1, <1>m, StartRefs
<1>2. CASE PassStep
      <2>1. CASE claimWritePlane
            <3>1. UNCHANGED <<life, fin, phase, jobRef, forced, parent>>
                  BY <2>1 DEF claimWritePlane
            <3>2. CASE UNCHANGED refs /\ pass'.pc = "idle" /\ ~pass'.deleting
                  BY <3>1, <3>2, <1>m, QuietRefs
            <3>3. CASE UNCHANGED refs /\ pass' = [pass EXCEPT !.pc = "fail", !.reason = "Conflict"]
                  <4>1. pass'.pc = "fail" /\ pass'.op = pass.op /\ pass'.deleting = pass.deleting
                        BY <3>3, <1>m DEF MutexInv, TypeOK, Passes
                  <4>2. PassRefs' /\ RefsAgree'
                        BY <2>1, <3>1, <3>3, <4>1 DEF claimWritePlane, RefsInv, PassRefs, RefsAgree,
                                                      Claimed, Holds, Exists
                  <4> QED BY <3>1, <3>3, <4>2, <1>m DEF RefsInv
            <3>4. CASE Goto("gate") /\ refs' = IF parent = "gone" THEN refs ELSE refs \union {pass.op}
                  <4>1. pass'.pc = "gate" /\ pass'.op = pass.op /\ pass'.deleting = pass.deleting
                        BY <3>4, <1>g DEF Steps
                  <4>2. parent # "gone" /\ refs' = refs \union {pass.op} /\ ~pass.deleting
                        BY <2>1, <3>4 DEF claimWritePlane, RefsInv, PassRefs
                  <4>3. pass.op \in Ops /\ Exists(pass.op) /\ fin[pass.op]
                        BY <2>1, <1>o DEF claimWritePlane
                  <4>4. RefsAgree'
                        BY <3>1, <4>2, <4>3 DEF RefsInv, RefsAgree, Holds, Exists
                  <4>5. PassRefs'
                        BY <3>1, <4>1, <4>2 DEF PassRefs
                  <4> QED BY <3>1, <4>2, <4>3, <4>4, <4>5, <1>m DEF RefsInv
            <3> QED BY <2>1, <3>2, <3>3, <3>4, <1>r DEF claimWritePlane
      <2>2. CASE enforceRegionGates
            <3>1. /\ pass.pc = "gate" /\ pass'.pc \in {"pause", "fail"}
                  /\ pass'.op = pass.op /\ pass'.deleting = pass.deleting
                  BY <2>2, <1>m DEF enforceRegionGates, MutexInv, TypeOK, Passes
            <3> QED BY <2>2, <3>1, <1>m, QuietRefs DEF enforceRegionGates, Claimed
      <2>3. CASE applyPreJobCNPGEffects
            <3>1. \/ pass'.pc = "idle" /\ ~pass'.deleting
                  \/ /\ pass'.pc \in {"await", "import"}
                     /\ pass'.op = pass.op /\ pass'.deleting = pass.deleting
                  BY <2>3, <1>g, <1>r DEF applyPreJobCNPGEffects, Steps
            <3> QED BY <2>3, <3>1, <1>m, QuietRefs DEF applyPreJobCNPGEffects, Claimed
      <2>4. CASE applyImportProfile
            <3>1. \/ pass'.pc = "idle" /\ ~pass'.deleting
                  \/ pass'.pc = "await" /\ pass'.op = pass.op /\ pass'.deleting = pass.deleting
                  BY <2>4, <1>g, <1>r DEF applyImportProfile, Steps
            <3> QED BY <2>4, <3>1, <1>m, QuietRefs DEF applyImportProfile, Claimed
      <2>5. CASE waitForJobPrerequisites
            <3>1. \/ pass'.pc = "idle" /\ ~pass'.deleting
                  \/ pass'.pc = "job" /\ pass'.op = pass.op /\ pass'.deleting = pass.deleting
                  BY <2>5, <1>g, <1>r DEF waitForJobPrerequisites, Steps
            <3> QED BY <2>5, <3>1, <1>m, QuietRefs DEF waitForJobPrerequisites, Claimed
      <2>6. CASE ensureJob
            <3>1. pass'.pc = "sync" /\ pass'.op = pass.op /\ pass'.deleting = pass.deleting
                  BY <2>6, <1>g DEF ensureJob, Steps
            <3> QED BY <2>6, <3>1, <1>m, QuietRefs DEF ensureJob, Claimed
      <2>7. CASE syncStatusFromJob \/ failOperation
            <3>1. CASE phase' # phase \/ jobRef' # jobRef \/ forced' # forced
                  BY <3>1, <1>m, StatusRefs
            <3>2. CASE UNCHANGED <<phase, jobRef, forced>>
                  <4>1. /\ UNCHANGED <<life, fin, refs, parent>>
                        /\ pass.pc \in {"sync", "resync", "fail"}
                        /\ Goto("ref") \/ Return
                        BY <2>7 DEF syncStatusFromJob, failOperation
                  <4>2. CASE Return
                        BY <3>2, <4>1, <4>2, <1>r, <1>m, QuietRefs
                  <4>3. CASE Goto("ref")
                        <5>1. pass'.pc = "ref" /\ pass'.deleting = pass.deleting
                              BY <4>3, <1>g DEF Steps
                        <5>2. PassRefs' /\ RefsAgree'
                              BY <3>2, <4>1, <5>1 DEF RefsInv, PassRefs, RefsAgree, Claimed, Holds, Exists
                        <5> QED BY <4>1, <5>2, <1>m DEF RefsInv
                  <4> QED BY <4>1, <4>2, <4>3
            <3> QED BY <3>1, <3>2
      <2>8. CASE syncParentSideEffects
            <3>1. /\ UNCHANGED <<life, fin, phase, jobRef, forced, parent>>
                  /\ pass.pc = "ref" /\ ~pass.deleting
                  BY <2>8 DEF syncParentSideEffects, RefsInv, PassRefs
            <3>2. pass.op \in Ops /\ Exists(pass.op) /\ fin[pass.op]
                  BY <3>1, <1>o
            <3>3. pass'.pc \in {"resume", "idle"} /\ ~pass'.deleting
                  BY <2>8, <3>1, <1>g, <1>r DEF syncParentSideEffects, Steps
            <3>4. /\ refs' \subseteq refs \union {pass.op}
                  /\ parent = "gone" => refs' = refs
                  /\ \A o \in refs : o \in refs' \/ (o = pass.op /\ ~isActiveOperationPhase(phase[o]))
                  BY <2>8 DEF syncParentSideEffects
            <3>5. RefsAgree'
                  <4>1. \A o \in Ops : Holds(o) => isActiveOperationPhase(phase[o])
                        BY DEF Holds, peerHoldsWritePlane
                  <4>2. \A o \in Ops : (Holds(o)' <=> Holds(o)) /\ (Exists(o)' <=> Exists(o))
                        BY <3>1 DEF Holds, Exists
                  <4> QED BY <3>1, <3>2, <3>4, <4>1, <4>2, <1>m DEF RefsInv, RefsAgree, MutexInv, TypeOK
            <3>6. PassRefs'
                  BY <3>3 DEF PassRefs, Claimed
            <3> QED BY <3>1, <3>2, <3>4, <3>5, <3>6, <1>m DEF RefsInv
      <2>9. CASE deleteUnref
            <3>1. UNCHANGED <<life, fin, phase, jobRef, forced, parent>> /\ pass.pc = "unref"
                  BY <2>9 DEF deleteUnref
            <3>2. pass'.pc = "resume" /\ pass'.op = pass.op /\ pass'.deleting = pass.deleting
                  BY <2>9, <1>g DEF deleteUnref, Steps
            <3>3. life[pass.op] = "deleting" /\ pass.deleting
                  BY <3>1 DEF RefsInv, PassRefs
            <3>4. refs' = refs \ {pass.op}
                  BY <2>9 DEF deleteUnref, RefsInv
            <3>5. RefsAgree'
                  BY <3>1, <3>3, <3>4 DEF RefsInv, RefsAgree, Holds, Exists
            <3>6. PassRefs'
                  BY <3>1, <3>2, <3>3, <3>4 DEF PassRefs, Claimed
            <3> QED BY <3>1, <3>4, <3>5, <3>6, <1>m DEF RefsInv
      <2>10. CASE applyTerminalCNPGEffects
            <3>1. \/ pass'.pc = "idle" /\ ~pass'.deleting
                  \/ /\ pass'.pc \in {"runtime", "finalize"} /\ pass'.op = pass.op
                     /\ pass'.deleting = pass.deleting /\ (pass'.pc = "finalize" => pass.deleting)
                  BY <2>10, <1>g, <1>r, <1>a DEF applyTerminalCNPGEffects, Steps
            <3> QED BY <2>10, <3>1, <1>m, QuietRefs DEF applyTerminalCNPGEffects
      <2>11. CASE applyRuntimeProfile
            <3>1. \/ pass'.pc = "idle" /\ ~pass'.deleting
                  \/ /\ pass'.pc = "finalize" /\ pass'.op = pass.op
                     /\ pass'.deleting = pass.deleting /\ pass.deleting
                  BY <2>11, <1>r, <1>a DEF applyRuntimeProfile
            <3> QED BY <2>11, <3>1, <1>m, QuietRefs DEF applyRuntimeProfile
      <2>12. CASE removeOperationFinalizer
            <3>1. /\ UNCHANGED <<phase, jobRef, forced, refs, parent>>
                  /\ life' = [life EXCEPT ![pass.op] = "gone"]
                  /\ fin' = [fin EXCEPT ![pass.op] = FALSE]
                  /\ pass'.pc = "idle" /\ ~pass'.deleting
                  BY <2>12, <1>r DEF removeOperationFinalizer
            <3>2. pass.op \notin refs
                  BY <2>12 DEF removeOperationFinalizer, RefsInv, PassRefs
            <3>3. \A o \in Ops \ {pass.op} : life'[o] = life[o] /\ fin'[o] = fin[o]
                  BY <3>1, <1>m DEF MutexInv, TypeOK
            <3>4. \A o \in Ops : life'[o] = "live" => o # pass.op
                  BY <3>1, <1>m DEF MutexInv, TypeOK
            <3>5. RefsAgree' /\ \A o \in refs' : fin'[o]
                  BY <3>1, <3>2, <3>3, <3>4, <1>m DEF RefsInv, RefsAgree, Holds, Exists, MutexInv, TypeOK
            <3>6. PassRefs'
                  BY <3>1 DEF PassRefs, Claimed
            <3> QED BY <3>1, <3>5, <3>6, <1>m DEF RefsInv
      <2> QED BY <1>2, <2>1, <2>2, <2>3, <2>4, <2>5, <2>6, <2>7, <2>8, <2>9,
                 <2>10, <2>11, <2>12 DEF PassStep
<1>3. CASE FailCall
      BY <1>3, <1>r, <1>m, QuietRefs DEF FailCall
<1>4. ASSUME NEW o \in Ops, CreateOperation(o) PROVE RefsInv'
      <2>1. /\ life[o] = "new" /\ life' = [life EXCEPT ![o] = "live"]
            /\ UNCHANGED <<fin, phase, jobRef, forced, refs, parent, pass>>
            BY <1>4 DEF CreateOperation
      <2>2. \A p \in Ops \ {o} : life'[p] = life[p]
            BY <2>1, <1>m DEF MutexInv, TypeOK
      <2>3. ~Holds(o)' /\ ~Exists(o)
            BY <2>1, <1>m DEF MutexInv, LifeAgrees, Holds, Exists, peerHoldsWritePlane
      <2>4. RefsAgree'
            BY <2>1, <2>2, <2>3, <1>m DEF RefsInv, RefsAgree, Holds, Exists, MutexInv, TypeOK
      <2>5. pass.deleting => pass.op \in Ops \ {o}
            BY <2>1, <1>o DEF RefsInv, PassRefs
      <2>6. PassRefs'
            BY <2>1, <2>2, <2>5 DEF RefsInv, PassRefs
      <2> QED BY <2>1, <2>4, <2>6, <1>m DEF RefsInv
<1>5. ASSUME NEW o \in Ops, DeleteOperation(o) PROVE RefsInv'
      BY <1>5, <1>m, DeleteRefs DEF DeleteOperation
<1>6. ASSUME NEW o \in Ops, DeleteJob(o) PROVE RefsInv'
      BY <1>6, <1>m, QuietRefs DEF DeleteJob
<1>7. CASE DeleteInstance
      BY <1>7, <1>m, QuietRefs DEF DeleteInstance
<1>8. CASE DeleteCluster
      BY <1>8, <1>m, QuietRefs DEF DeleteCluster
<1>9. ASSUME NEW i \in Impacts, EditPolicy(i) PROVE RefsInv'
      BY <1>9, <1>m, QuietRefs DEF EditPolicy
<1>10. CASE InstanceStep
      <2>1. CASE reconcileDatabase
            BY <2>1, <1>m, QuietRefs DEF reconcileDatabase
      <2>2. CASE observeBootstrap
            BY <2>2, <1>m, QuietRefs DEF observeBootstrap
      <2>3. CASE drainChildOperations
            BY <2>3, <1>m, DeleteRefs DEF drainChildOperations
      <2>4. CASE deleteOwnedCNPGResources
            BY <2>4, <1>m, QuietRefs DEF deleteOwnedCNPGResources
      <2>5. CASE removeInstanceFinalizer
            <3>1. /\ UNCHANGED <<life, fin, phase, jobRef, forced, pass>>
                  /\ refs' = {} /\ Peers = {}
                  BY <2>5 DEF removeInstanceFinalizer
            <3>2. \A o \in Ops : ~Exists(o) /\ ~Exists(o)'
                  BY <3>1 DEF Peers, Exists
            <3>3. pass.pc = "idle"
                  BY <3>2, <1>o
            <3>4. RefsAgree' /\ PassRefs'
                  BY <3>1, <3>2, <3>3 DEF RefsInv, RefsAgree, PassRefs, Claimed, Holds
            <3> QED BY <3>1, <3>4, <1>m DEF RefsInv
      <2> QED BY <1>10, <2>1, <2>2, <2>3, <2>4, <2>5 DEF InstanceStep
<1>11. ASSUME NEW o \in Ops, JobStep(o) PROVE RefsInv'
      <2>1. UNCHANGED <<life, fin, phase, jobRef, forced, pass, refs, parent>>
            BY <1>11 DEF JobStep, StartPod, FailPod, FinishPod, CollectJob
      <2> QED BY <2>1, <1>m, QuietRefs
<1>12. CASE ClusterBecomesReady
      BY <1>12, <1>m, QuietRefs DEF ClusterBecomesReady
<1>13. CASE UNCHANGED vars
      BY <1>13, <1>m, QuietRefs DEF vars
<1> QED BY <1>1, <1>2, <1>3, <1>4, <1>5, <1>6, <1>7, <1>8, <1>9, <1>10, <1>11,
           <1>12, <1>13 DEF Next

\* Whatever pass was cut short, the parent's status.activeOperationRefs names
\* every live Operation that holds the write plane and no Operation that is
\* gone; a deleted parent refers to nothing.
THEOREM RefsAlwaysAgree == Spec => []RefsAgree
<1>1. RefsInv => RefsAgree
      BY DEF RefsInv
<1> QED BY <1>1, InitRefsInv, RefsStep, PTL DEF Spec

=============================================================================
