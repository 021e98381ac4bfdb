-------------------------- MODULE OperationsProofs --------------------------
(* Machine-checked proofs about Operations, for every set of Operations,    *)
(* every assignment of types and every value of the bounds.                *)
EXTENDS Operations, TLAPS

USE OpsAssumption, OperationsAssumption

-----------------------------------------------------------------------------
(* Facts about the operators the model is built from.                      *)

\* phaseFromJob always yields a phase, never the empty one, and a terminal
\* one exactly when a pod has succeeded or failed.
LEMMA PhaseFromJobFacts ==
  ASSUME NEW s \in 0..1, NEW f \in Nat, NEW a \in 0..1
  PROVE  /\ phaseFromJob(s, f, a) \in Phases
         /\ isTerminalOperationPhase(phaseFromJob(s, f, a)) <=> (s > 0 \/ f > 0)
         /\ isActiveOperationPhase(phaseFromJob(s, f, a)) <=> ~(s > 0 \/ f > 0)
BY DEF phaseFromJob, Phases, ActivePhases, TerminalPhases,
       isTerminalOperationPhase, isActiveOperationPhase

\* The mutex conflict is symmetric and irreflexive.
LEMMA ConflictSymmetric ==
  ASSUME NEW a \in Ops, NEW b \in Ops
  PROVE  /\ operationsMutexConflict(a, b) <=> operationsMutexConflict(b, a)
         /\ ~operationsMutexConflict(a, a)
BY DEF operationsMutexConflict

\* A claim is granted only when no listed conflicting peer holds.
LEMMA ClaimOK ==
  ASSUME NEW o, NEW peers, NEW ph, NEW jr,
         evaluateWritePlane(o, peers, ph, jr) = "OK",
         NEW p \in peers, operationsMutexConflict(o, p)
  PROVE  ~peerHoldsWritePlane(ph[p], jr[p])
BY DEF evaluateWritePlane, peerHoldsWritePlane

-----------------------------------------------------------------------------
(* Type correctness.                                                       *)

LEMMA RecordsTyped ==
  /\ NoJob \in Jobs /\ FreshJob \in Jobs
  /\ IdlePass \in Passes /\ IdlePass.pc = "idle" /\ IdlePass.op = NoOp
BY DEF NoJob, FreshJob, JobWith, Jobs, IdlePass, Passes, Steps, Reasons, Impacts

LEMMA InitTyped == Init => TypeOK
<1> SUFFICES ASSUME Init PROVE TypeOK
    OBVIOUS
<1>1. job \in [Ops -> Jobs]
      BY RecordsTyped DEF Init
<1>2. pass \in Passes /\ (pass.pc = "idle" <=> pass.op = NoOp)
      BY RecordsTyped DEF Init
<1>3. phase \in [Ops -> Phases] /\ why \in [Ops -> Reasons] /\ life \in [Ops -> Lives]
      BY DEF Init, Phases, ActivePhases, Reasons, Lives
<1> QED BY <1>1, <1>2, <1>3 DEF Init, TypeOK

LEMMA TypeStep == TypeOK /\ [Next]_vars => TypeOK'
<1> SUFFICES ASSUME TypeOK, [Next]_vars PROVE TypeOK'
    OBVIOUS
<1> USE DEF TypeOK
<1>b. ASSUME NEW s \in Steps, s # "idle", pass.op \in Ops, Goto(s)
      PROVE  pass' \in Passes /\ pass'.pc = s /\ pass'.op = pass.op /\ pass'.pc # "idle"
      BY <1>b DEF Goto, Passes
<1>c. ASSUME NEW o \in Ops, NEW s \in Steps, NEW r \in Reasons, s # "idle", StartAt(o, s, r)
      PROVE  pass' \in Passes /\ pass'.pc # "idle" /\ pass'.op \in Ops
      <2>1. bootstrapComplete \in BOOLEAN /\ (life[o] = "deleting") \in BOOLEAN
            BY Zenon DEF bootstrapComplete
      <2> QED BY <1>c, <2>1 DEF StartAt, Passes
<1>d. pass.pc # "idle" => pass.op \in Ops
      BY DEF Passes
<1>e. Return => /\ pass' \in Passes
                /\ pass'.pc = "idle" /\ pass'.op = NoOp
      BY RecordsTyped DEF Return
<1>1. ASSUME NEW o \in Ops, StartPass(o) PROVE TypeOK'
      <2>1. CASE StartRefused(o)
            <3>1. Refusal(o) \in Reasons
                  BY DEF Refusal, Reasons
            <3> QED BY <2>1, <3>1, <1>c DEF StartRefused, StartLive, Steps, nomVars, cnpgVars, bounds
      <2>2. CASE StartClaim(o)
            BY <2>2, <1>c DEF StartClaim, StartLive, Steps, Reasons, nomVars, cnpgVars, bounds
      <2>3. CASE StartTerminal(o)
            BY <2>3, <1>c DEF StartTerminal, StartLive, Steps, Reasons, nomVars, cnpgVars, bounds
      <2>4. CASE StartDelete(o)
            BY <2>4, <1>c DEF StartDelete, Steps, Reasons, opVars, nomVars, cnpgVars, bounds
      <2> QED BY <1>1, <2>1, <2>2, <2>3, <2>4 DEF StartPass
<1>2. CASE PassStep
      <2> USE DEF opVars, nomVars, cnpgVars, bounds
      <2>1. CASE claimWritePlane
            <3>1. ASSUME pass' = [pass EXCEPT !.pc = "fail", !.reason = "Conflict"]
                  PROVE  pass' \in Passes /\ pass'.pc # "idle" /\ pass'.op \in Ops
                  BY <2>1, <3>1, <1>d DEF claimWritePlane, Passes, Steps, Reasons
            <3> QED BY <2>1, <3>1, <1>b, <1>d, <1>e DEF claimWritePlane, Steps
      <2>2. CASE enforceRegionGates
            <3>1. GateReason \in Reasons
                  BY DEF GateReason, Reasons
            <3>2. pass' \in Passes /\ pass'.pc # "idle" /\ pass'.op \in Ops
                  BY <2>2, <3>1, <1>d DEF enforceRegionGates, Passes, Steps
            <3> QED BY <2>2, <3>2 DEF enforceRegionGates
      <2>3. CASE applyPreJobCNPGEffects
            BY <2>3, <1>b, <1>d, <1>e DEF applyPreJobCNPGEffects, Steps
      <2>4. CASE applyImportProfile
            BY <2>4, <1>b, <1>d, <1>e DEF applyImportProfile, Steps
      <2>5. CASE waitForJobPrerequisites
            BY <2>5, <1>b, <1>d, <1>e DEF waitForJobPrerequisites, Steps
      <2>6. CASE ensureJob
            BY <2>6, <1>b, <1>d, RecordsTyped DEF ensureJob, Steps
      <2>7. CASE syncStatusFromJob
            <3>1. phaseFromJob(job[pass.op].succeeded, job[pass.op].failed, job[pass.op].active) \in Phases
                  <4>1. job[pass.op] \in Jobs
                        BY <2>7, <1>d DEF syncStatusFromJob
                  <4> QED BY <4>1, PhaseFromJobFacts DEF Jobs
            <3>2. phase' \in [Ops -> Phases] /\ jobRef' \in [Ops -> BOOLEAN] /\ why' \in [Ops -> Reasons]
                  <4>1. "" \in Reasons
                        BY DEF Reasons
                  <4>2. CASE UNCHANGED <<phase, jobRef, why>>
                        BY <4>2
                  <4>3. CASE /\ phase' = [phase EXCEPT ![pass.op] =
                                phaseFromJob(job[pass.op].succeeded, job[pass.op].failed, job[pass.op].active)]
                             /\ jobRef' = [jobRef EXCEPT ![pass.op] = TRUE]
                             /\ why' = [why EXCEPT ![pass.op] = ""]
                        BY <4>1, <4>3, <3>1
                  <4> QED BY <2>7, <4>2, <4>3 DEF syncStatusFromJob
            <3>3. pass' \in Passes /\ (pass'.pc = "idle" <=> pass'.op = NoOp)
                  <4>1. CASE Goto("ref")
                        BY <2>7, <4>1, <1>b, <1>d DEF syncStatusFromJob, Steps
                  <4>2. CASE Return
                        BY <4>2, <1>e
                  <4> QED BY <2>7, <4>1, <4>2 DEF syncStatusFromJob
            <3> QED BY <2>7, <3>2, <3>3 DEF syncStatusFromJob
      <2>8. CASE failOperation
            <3>1. pass.op \in Ops /\ pass.reason \in Reasons /\ "Failed" \in Phases
                  BY <2>8, <1>d DEF failOperation, Passes, Phases, TerminalPhases
            <3>2. CASE pass.stale
                  BY <2>8, <3>2, <1>e DEF failOperation
            <3>3. CASE ~pass.stale
                  <4>1. /\ phase' \in [Ops -> Phases] /\ why' \in [Ops -> Reasons]
                        /\ forced' \subseteq Ops
                        <5>1. /\ phase' = [phase EXCEPT ![pass.op] = "Failed"]
                              /\ why' = [why EXCEPT ![pass.op] = pass.reason]
                              /\ forced' = forced \/ forced' = forced \union {pass.op}
                              BY <2>8, <3>3, Zenon DEF failOperation
                        <5> QED BY <3>1, <5>1
                  <4>2. Goto("ref")
                        BY <2>8, <3>3 DEF failOperation
                  <4>3. pass' \in Passes /\ (pass'.pc = "idle" <=> pass'.op = NoOp)
                        BY <4>2, <3>1, <1>b DEF Steps
                  <4> QED BY <2>8, <4>1, <4>3 DEF failOperation
            <3> QED BY <3>2, <3>3
      <2>9. CASE syncParentSideEffects
            BY <2>9, <1>b, <1>d, <1>e DEF syncParentSideEffects, Steps
      <2>10. CASE deleteUnref
            BY <2>10, <1>b, <1>d DEF deleteUnref, Steps
      <2>11. CASE applyTerminalCNPGEffects
            BY <2>11, <1>b, <1>d, <1>e DEF applyTerminalCNPGEffects, AfterEffects, Steps
      <2>12. CASE applyRuntimeProfile
            BY <2>12, <1>b, <1>d, <1>e DEF applyRuntimeProfile, AfterEffects, Steps
      <2>13. CASE removeOperationFinalizer
            BY <2>13, <1>d, <1>e DEF removeOperationFinalizer, Lives
      <2> QED BY <1>2, <2>1, <2>2, <2>3, <2>4, <2>5, <2>6, <2>7, <2>8, <2>9,
                 <2>10, <2>11, <2>12, <2>13 DEF PassStep
<1> USE DEF opVars, nomVars, cnpgVars, bounds
<1>3. CASE FailCall
      BY <1>3, <1>e DEF FailCall
<1>f. ASSUME NEW S \in SUBSET Ops, DeleteSet(S)
      PROVE  /\ life' \in [Ops -> Lives]
             /\ pass' \in Passes /\ pass'.pc = pass.pc /\ pass'.op = pass.op
      <2>1. (pass.stale \/ pass.op \in S) \in BOOLEAN
            BY Zenon
      <2>2. pass' \in Passes /\ pass'.pc = pass.pc /\ pass'.op = pass.op
            BY <1>f, <2>1 DEF DeleteSet, Passes
      <2> QED BY <1>f, <2>2 DEF DeleteSet, Lives
<1>4. ASSUME NEW o \in Ops, CreateOperation(o) PROVE TypeOK'
      BY <1>4 DEF CreateOperation, Lives
<1>5. ASSUME NEW o \in Ops, DeleteOperation(o) PROVE TypeOK'
      BY <1>5, <1>f DEF DeleteOperation
<1>6. ASSUME NEW o \in Ops, DeleteJob(o) PROVE TypeOK'
      BY <1>6, RecordsTyped DEF DeleteJob
<1>7. CASE DeleteInstance
      BY <1>7 DEF DeleteInstance
<1>8. CASE DeleteCluster
      <2>1. edits' \in Nat
            BY <1>8 DEF DeleteCluster
      <2>2. /\ paused' \in BOOLEAN /\ profile' \in {"import", "runtime"}
            /\ cluster' \in {"absent", "starting", "ready"}
            BY <1>8 DEF DeleteCluster
      <2> QED BY <1>8, <2>1, <2>2 DEF DeleteCluster
<1>9. ASSUME NEW i \in Impacts, EditPolicy(i) PROVE TypeOK'
      BY <1>9 DEF EditPolicy
<1>10. CASE InstanceStep
      <2>1. CASE reconcileDatabase
            BY <2>1 DEF reconcileDatabase
      <2>2. CASE observeBootstrap
            BY <2>2 DEF observeBootstrap
      <2>3. CASE drainChildOperations
            BY <2>3, <1>f DEF drainChildOperations
      <2>4. CASE deleteOwnedCNPGResources
            BY <2>4 DEF deleteOwnedCNPGResources
      <2>5. CASE removeInstanceFinalizer
            BY <2>5 DEF removeInstanceFinalizer
      <2> QED BY <1>10, <2>1, <2>2, <2>3, <2>4, <2>5 DEF InstanceStep
<1>j. ASSUME NEW o \in Ops PROVE job[o] \in Jobs
      OBVIOUS
<1>11. ASSUME NEW o \in Ops, JobStep(o) PROVE TypeOK'
      <2>0. job[o].failed \in Nat /\ job[o].succeeded \in 0..1
            BY <1>j DEF Jobs
      <2>w. ASSUME NEW a \in 0..1, NEW s \in 0..1, NEW f \in Nat PROVE JobWith(a, s, f) \in Jobs
            BY DEF JobWith, Jobs
      <2>1. CASE StartPod(o)
            BY <2>0, <2>1, <2>w DEF StartPod
      <2>2. CASE FailPod(o)
            BY <2>0, <2>2, <2>w DEF FailPod
      <2>3. CASE FinishPod(o)
            BY <2>0, <2>3, <2>w DEF FinishPod
      <2>4. CASE CollectJob(o) BY <2>4, RecordsTyped DEF CollectJob
      <2> QED BY <1>11, <2>1, <2>2, <2>3, <2>4 DEF JobStep
<1>12. CASE ClusterBecomesReady
      BY <1>12 DEF ClusterBecomesReady
<1>13. CASE UNCHANGED vars
      BY <1>13 DEF vars
<1> QED BY <1>1, <1>2, <1>3, <1>4, <1>5, <1>6, <1>7, <1>8, <1>9, <1>10, <1>11,
           <1>12, <1>13 DEF Next

\* Every reachable state of the controller is well typed; in particular the
\* worker is idle exactly when no Operation is being reconciled.
THEOREM TypeCorrect == Spec => []TypeOK
BY InitTyped, TypeStep, PTL DEF Spec

-----------------------------------------------------------------------------
(* Mutual exclusion of the holders of the write plane.                     *)

LEMMA InitMutexInv == Init => MutexInv
<1> SUFFICES ASSUME Init PROVE MutexInv
    OBVIOUS
<1>1. TypeOK
      BY InitTyped
<1>2. pass.pc = "idle"
      BY RecordsTyped DEF Init
<1>3. \A o \in Ops : life[o] = "new" /\ phase[o] = "" /\ jobRef[o] = FALSE
      BY DEF Init
<1>4. \A o \in Ops : ~Holds(o)
      BY <1>3 DEF Holds, Exists
<1> QED BY <1>1, <1>2, <1>3, <1>4
        DEF MutexInv, ClaimIsExclusive, PassKnows, LifeAgrees, TerminalIsSettled,
            StatusMutex, Claimed

\* A step that writes no Operation status, un-settles no Job and leaves the
\* worker idle, where it was, or further on past the same claim.
LEMMA QuietStep ==
  ASSUME MutexInv, TypeOK',
         UNCHANGED <<life, fin, phase, jobRef, forced>>,
         \A o \in Ops : Settled(job[o]) /\ isTerminalOperationPhase(phase[o])
                          => Settled(job'[o]),
         \/ pass'.pc = "idle"
         \/ pass'.pc = pass.pc /\ pass'.op = pass.op
         \/ pass'.pc \in Claimed \union {"fail"} /\ pass.pc \in Claimed /\ pass'.op = pass.op
         \/ pass'.pc \in {"ref", "resume", "runtime", "finalize"} /\ pass.pc # "idle" /\ pass'.op = pass.op
  PROVE  MutexInv'
<1>1. \A o \in Ops : Holds(o)' <=> Holds(o)
      BY DEF Holds, Exists
<1>2. ClaimIsExclusive'
      BY <1>1 DEF MutexInv, ClaimIsExclusive, Claimed, TypeOK, Passes
<1>3. PassKnows'
      BY DEF MutexInv, PassKnows, Claimed, Exists
<1>4. LifeAgrees' /\ TerminalIsSettled'
      BY DEF MutexInv, LifeAgrees, TerminalIsSettled
<1>5. StatusMutex'
      BY <1>1 DEF MutexInv, StatusMutex
<1> QED BY <1>2, <1>3, <1>4, <1>5 DEF MutexInv

\* Deleting Operations makes no holder.
LEMMA DeleteStep ==
  ASSUME MutexInv, TypeOK', NEW S \in SUBSET {o \in Ops : life[o] = "live"}, DeleteSet(S),
         UNCHANGED <<fin, phase, jobRef, forced, job>>
  PROVE  MutexInv'
<1>1. \A o \in Ops : /\ Holds(o)' => Holds(o)
                     /\ life'[o] = "new" => life[o] = "new"
      BY DEF Holds, Exists, DeleteSet, MutexInv, TypeOK
<1>2. pass'.pc = pass.pc /\ pass'.op = pass.op
      BY DEF DeleteSet, MutexInv, TypeOK, Passes
<1>3. ClaimIsExclusive' /\ StatusMutex'
      BY <1>1, <1>2 DEF MutexInv, ClaimIsExclusive, StatusMutex
<1>4. \A o \in Ops : Exists(o) /\ fin[o] => Exists(o)' /\ fin'[o]
      BY DEF DeleteSet, Exists, MutexInv, TypeOK
<1>5. pass.pc # "idle" => pass.op \in Ops
      BY DEF MutexInv, TypeOK, Passes
<1>6. PassKnows'
      BY <1>2, <1>4, <1>5 DEF MutexInv, PassKnows
<1>7. LifeAgrees' /\ TerminalIsSettled'
      BY <1>1 DEF MutexInv, LifeAgrees, TerminalIsSettled, DeleteSet, TypeOK
<1> QED BY <1>3, <1>6, <1>7 DEF MutexInv

\* The claim: the worker passes it only when no conflicting peer holds.
LEMMA ClaimStep == MutexInv /\ TypeOK' /\ claimWritePlane => MutexInv'
<1> SUFFICES ASSUME MutexInv, TypeOK', claimWritePlane PROVE MutexInv'
    OBVIOUS
<1> USE DEF MutexInv
<1>0. pass.op \in Ops
      BY DEF claimWritePlane, TypeOK, Passes
<1>1. UNCHANGED <<life, fin, phase, jobRef, forced, job>>
      BY DEF claimWritePlane, opVars
<1>2. \A o \in Ops : (Holds(o)' <=> Holds(o)) /\ (Exists(o)' <=> Exists(o))
      BY <1>1 DEF Holds, Exists
<1>3. isActiveOperationPhase(phase[pass.op]) /\ Exists(pass.op) /\ fin[pass.op]
      BY <1>1 DEF claimWritePlane, PassKnows, Exists
<1>4. LifeAgrees' /\ TerminalIsSettled' /\ StatusMutex'
      BY <1>1, <1>2 DEF LifeAgrees, TerminalIsSettled, StatusMutex
<1>5. CASE pass' = [pass EXCEPT !.pc = "fail", !.reason = "Conflict"]
      <2>1. pass'.pc = "fail" /\ pass'.op = pass.op
            BY <1>5 DEF TypeOK, Passes
      <2> QED BY <2>1, <1>0, <1>1, <1>2, <1>3, <1>4 DEF ClaimIsExclusive, PassKnows, Claimed
<1>6. CASE Return
      <2>1. pass'.pc = "idle"
            BY <1>6, RecordsTyped DEF Return
      <2> QED BY <2>1, <1>4 DEF ClaimIsExclusive, PassKnows, Claimed
<1>7. CASE Goto("gate") /\ evaluateWritePlane(pass.op, Peers, phase, jobRef) = "OK"
      <2>1. pass'.pc = "gate" /\ pass'.op = pass.op
            BY <1>7 DEF Goto, TypeOK, Passes
      <2>2. ASSUME NEW p \in Ops, operationsMutexConflict(pass.op, p) PROVE ~Holds(p)
            <3>1. CASE p \in Peers
                  BY <1>7, <2>2, <3>1, ClaimOK DEF Holds
            <3>2. CASE p \notin Peers
                  BY <3>2 DEF Peers, Holds
            <3> QED BY <3>1, <3>2
      <2>3. ClaimIsExclusive'
            BY <2>1, <2>2, <1>2 DEF ClaimIsExclusive
      <2>4. PassKnows'
            BY <2>1, <1>0, <1>1, <1>2, <1>3 DEF PassKnows, Claimed
      <2> QED BY <2>3, <2>4, <1>4
<1> QED BY <1>5, <1>6, <1>7 DEF claimWritePlane

\* The status write: the only step that makes a holder, and it makes one of
\* the Operation whose pass has claimed, or of a forced one.
LEMMA SyncStep == MutexInv /\ TypeOK' /\ syncStatusFromJob => MutexInv'
<1> SUFFICES ASSUME MutexInv, TypeOK', syncStatusFromJob PROVE MutexInv'
    OBVIOUS
<1> USE DEF MutexInv
<1>0. PICK o \in Ops : o = pass.op
      BY DEF syncStatusFromJob, TypeOK, Passes
<1>1. UNCHANGED <<life, fin, forced, job>>
      BY DEF syncStatusFromJob
<1>2. CASE UNCHANGED <<phase, jobRef>> /\ (Goto("ref") \/ Return)
      <2>1. \/ pass'.pc = "idle"
            \/ pass'.pc = "ref" /\ pass.pc # "idle" /\ pass'.op = pass.op
            BY <1>2, RecordsTyped DEF Goto, Return, TypeOK, Passes, syncStatusFromJob
      <2> QED BY <1>1, <1>2, <2>1, QuietStep
<1>3. CASE /\ Goto("ref") /\ job[o].exists
           /\ phase' = [phase EXCEPT ![o] = phaseFromJob(job[o].succeeded, job[o].failed, job[o].active)]
           /\ jobRef' = [jobRef EXCEPT ![o] = TRUE]
      <2>1. pass'.pc = "ref" /\ pass'.op = o
            BY <1>0, <1>3 DEF Goto, TypeOK, Passes
      <2>2. job[o] \in Jobs
            BY <1>0 DEF TypeOK
      <2>3. job[o].succeeded \in 0..1 /\ job[o].failed \in Nat /\ job[o].active \in 0..1
            BY <2>2 DEF Jobs
      <2>4. /\ isTerminalOperationPhase(phase'[o]) => job[o].succeeded > 0 \/ job[o].failed > 0
            /\ isActiveOperationPhase(phase'[o]) => ~(job[o].succeeded > 0 \/ job[o].failed > 0)
            BY <1>0, <1>3, <2>3, PhaseFromJobFacts DEF TypeOK
      <2>5. \A p \in Ops \ {o} : phase'[p] = phase[p] /\ jobRef'[p] = jobRef[p]
            BY <1>3 DEF TypeOK
      <2>6. \A p \in Ops \ {o} : Holds(p)' <=> Holds(p)
            BY <2>5, <1>1 DEF Holds, Exists
      <2>8. Exists(o) /\ fin[o]
            BY <1>0 DEF PassKnows, syncStatusFromJob
      <2>7. ClaimIsExclusive' /\ PassKnows'
            BY <2>1, <2>8, <1>1 DEF ClaimIsExclusive, PassKnows, Claimed, Exists
      <2>9. TerminalIsSettled' /\ LifeAgrees'
            BY <2>4, <2>5, <2>8, <1>1 DEF TerminalIsSettled, Settled, LifeAgrees, Exists
      <2>10. CASE pass.pc = "sync"
            <3>1. \A p \in Ops : operationsMutexConflict(o, p) => ~Holds(p)
                  BY <1>0, <2>10 DEF ClaimIsExclusive, Claimed
            <3>2. StatusMutex'
                  BY <3>1, <2>6, <1>0, <1>1, ConflictSymmetric DEF StatusMutex
            <3> QED BY <3>2, <2>7, <2>9
      <2>11. CASE pass.pc = "resync"
            <3>1. o \notin forced => ~isActiveOperationPhase(phase'[o])
                  BY <2>11, <2>4, <1>0, <1>3 DEF PassKnows, TerminalIsSettled, Settled
            <3>2. o \notin forced => ~Holds(o)'
                  BY <3>1 DEF Holds, peerHoldsWritePlane
            <3>3. StatusMutex'
                  BY <3>2, <2>6, <1>0, <1>1 DEF StatusMutex
            <3> QED BY <3>3, <2>7, <2>9
      <2> QED BY <2>10, <2>11 DEF syncStatusFromJob
<1> QED BY <1>0, <1>2, <1>3 DEF syncStatusFromJob

\* failOperation: the Operation leaves the write plane.
LEMMA FailStep == MutexInv /\ TypeOK' /\ failOperation => MutexInv'
<1> SUFFICES ASSUME MutexInv, TypeOK', failOperation PROVE MutexInv'
    OBVIOUS
<1> USE DEF MutexInv
<1>0. PICK o \in Ops : o = pass.op
      BY DEF failOperation, TypeOK, Passes
<1>1. UNCHANGED <<life, fin, jobRef, job>>
      BY DEF failOperation
<1>2. CASE pass.stale
      <2>1. pass'.pc = "idle" /\ UNCHANGED <<phase, forced>>
            BY <1>2, RecordsTyped DEF failOperation, Return
      <2> QED BY <1>1, <2>1, QuietStep
<1>3. CASE ~pass.stale
      <2>1. pass'.pc = "ref" /\ pass'.op = o
            BY <1>0, <1>3 DEF failOperation, Goto, TypeOK, Passes
      <2>2. /\ phase' = [phase EXCEPT ![o] = "Failed"]
            /\ forced' = IF jobRef[o] THEN forced \union {o} ELSE forced
            BY <1>0, <1>3 DEF failOperation
      <2>3. phase'[o] = "Failed" /\ \A p \in Ops \ {o} : phase'[p] = phase[p]
            BY <2>2 DEF TypeOK
      <2>4. \A p \in Ops : Holds(p)' => Holds(p)
            BY <2>3, <1>1 DEF Holds, Exists, peerHoldsWritePlane, isActiveOperationPhase, ActivePhases
      <2>5. forced \subseteq forced' /\ (jobRef[o] => o \in forced')
            BY <2>2
      <2>6. StatusMutex'
            BY <2>4, <2>5 DEF StatusMutex
      <2>7. TerminalIsSettled'
            BY <2>3, <2>5, <1>1 DEF TerminalIsSettled
      <2>8. Exists(o) /\ fin[o]
            BY <1>0 DEF PassKnows, failOperation
      <2>9. ClaimIsExclusive' /\ PassKnows' /\ LifeAgrees'
            BY <2>1, <2>3, <2>8, <1>1 DEF ClaimIsExclusive, PassKnows, LifeAgrees, Claimed, Exists
      <2> QED BY <2>6, <2>7, <2>9
<1> QED BY <1>2, <1>3

\* A pass starts: nothing is claimed yet.
LEMMA StartStep ==
  ASSUME MutexInv, TypeOK', NEW o \in Ops, StartPass(o) PROVE MutexInv'
<1> USE DEF MutexInv
<1>1. UNCHANGED <<life, phase, jobRef, forced, job>>
      BY DEF StartPass, StartRefused, StartClaim, StartTerminal, StartDelete, StartLive, opVars
<1>2. \A p \in Ops : (Holds(p)' <=> Holds(p)) /\ (Exists(p)' <=> Exists(p))
      BY <1>1 DEF Holds, Exists
<1>3. fin'[o] /\ Exists(o) /\ \A p \in Ops : fin[p] => fin'[p]
      <2>1. CASE StartDelete(o)
            BY <2>1 DEF StartDelete, opVars, Exists, LifeAgrees
      <2>2. CASE StartLive(o)
            BY <2>2 DEF StartLive, Exists, TypeOK
      <2> QED BY <2>1, <2>2 DEF StartPass, StartRefused, StartClaim, StartTerminal
<1>4. LifeAgrees' /\ TerminalIsSettled' /\ StatusMutex'
      BY <1>1, <1>2, <1>3 DEF LifeAgrees, TerminalIsSettled, StatusMutex
<1>5. /\ pass'.op = o
      /\ \/ pass'.pc \in {"fail", "claim"} /\ ~isTerminalOperationPhase(phase[o])
         \/ pass'.pc = "resync" /\ isTerminalOperationPhase(phase[o]) /\ jobRef[o]
         \/ pass'.pc \in {"ref", "unref"}
      <2>1. ASSUME NEW s, NEW r, StartAt(o, s, r) PROVE pass'.op = o /\ pass'.pc = s
            BY <2>1 DEF StartAt
      <2>2. CASE StartRefused(o)
            BY <2>1, <2>2 DEF StartRefused
      <2>3. CASE StartClaim(o)
            BY <2>1, <2>3 DEF StartClaim
      <2>4. CASE StartTerminal(o)
            BY <2>1, <2>4 DEF StartTerminal
      <2>5. CASE StartDelete(o)
            BY <2>1, <2>5 DEF StartDelete
      <2> QED BY <2>2, <2>3, <2>4, <2>5 DEF StartPass
<1>6. ~isTerminalOperationPhase(phase[o]) => isActiveOperationPhase(phase[o])
      BY DEF TypeOK, Phases, isTerminalOperationPhase, isActiveOperationPhase
<1>7. ClaimIsExclusive' /\ PassKnows'
      BY <1>1, <1>2, <1>3, <1>5, <1>6 DEF ClaimIsExclusive, PassKnows, Claimed
<1> QED BY <1>4, <1>7

LEMMA MutexStep == MutexInv /\ [Next]_vars => MutexInv'
<1> SUFFICES ASSUME MutexInv, [Next]_vars PROVE MutexInv'
    OBVIOUS
<1>t. TypeOK'
      BY TypeStep DEF MutexInv
<1>g. ASSUME NEW s \in Steps, Goto(s) PROVE pass'.pc = s /\ pass'.op = pass.op
      BY <1>g DEF Goto, MutexInv, TypeOK, Passes
<1>r. Return => pass'.pc = "idle"
      BY RecordsTyped DEF Return
<1> USE DEF opVars
<1>1. ASSUME NEW o \in Ops, StartPass(o) PROVE MutexInv'
      BY <1>1, <1>t, StartStep
<1>2. CASE PassStep
      <2>1. CASE claimWritePlane
            BY <2>1, <1>t, ClaimStep
      <2>2. CASE enforceRegionGates
            <3>1. pass'.pc \in {"pause", "fail"} /\ pass'.op = pass.op
                  BY <2>2 DEF enforceRegionGates, MutexInv, TypeOK, Passes
            <3> QED BY <2>2, <3>1, <1>t, QuietStep DEF enforceRegionGates, Claimed
      <2>3. CASE applyPreJobCNPGEffects
            <3>1. pass'.pc = "idle" \/ (pass'.pc \in {"await", "import"} /\ pass'.op = pass.op)
                  BY <2>3, <1>g, <1>r DEF applyPreJobCNPGEffects, Steps
            <3> QED BY <2>3, <3>1, <1>t, QuietStep DEF applyPreJobCNPGEffects, Claimed
      <2>4. CASE applyImportProfile
            <3>1. pass'.pc = "idle" \/ (pass'.pc = "await" /\ pass'.op = pass.op)
                  BY <2>4, <1>g, <1>r DEF applyImportProfile, Steps
            <3> QED BY <2>4, <3>1, <1>t, QuietStep DEF applyImportProfile, Claimed
      <2>5. CASE waitForJobPrerequisites
            <3>1. pass'.pc = "idle" \/ (pass'.pc = "job" /\ pass'.op = pass.op)
                  BY <2>5, <1>g, <1>r DEF waitForJobPrerequisites, Steps
            <3> QED BY <2>5, <3>1, <1>t, QuietStep DEF waitForJobPrerequisites, Claimed
      <2>6. CASE ensureJob
            <3>1. pass'.pc = "sync" /\ pass'.op = pass.op
                  BY <2>6, <1>g DEF ensureJob, Steps
            <3>2. isActiveOperationPhase(phase[pass.op]) /\ pass.op \in Ops
                  BY <2>6 DEF ensureJob, MutexInv, PassKnows, Claimed, TypeOK, Passes
            <3>3. ~isTerminalOperationPhase(phase[pass.op])
                  BY <3>2 DEF isActiveOperationPhase, isTerminalOperationPhase, ActivePhases, TerminalPhases
            <3>4. \A o \in Ops : Settled(job[o]) /\ isTerminalOperationPhase(phase[o]) => Settled(job'[o])
                  BY <2>6, <3>3 DEF ensureJob, MutexInv, TypeOK
            <3> QED BY <2>6, <3>1, <3>4, <1>t, QuietStep DEF ensureJob, Claimed
      <2>7. CASE syncStatusFromJob
            BY <2>7, <1>t, SyncStep
      <2>8. CASE failOperation
            BY <2>8, <1>t, FailStep
      <2>9. CASE syncParentSideEffects
            <3>1. pass'.pc = "idle" \/ (pass'.pc = "resume" /\ pass'.op = pass.op)
                  BY <2>9, <1>g, <1>r DEF syncParentSideEffects, Steps
            <3> QED BY <2>9, <3>1, <1>t, QuietStep DEF syncParentSideEffects
      <2>10. CASE deleteUnref
            <3>1. pass'.pc = "resume" /\ pass'.op = pass.op
                  BY <2>10, <1>g DEF deleteUnref, Steps
            <3> QED BY <2>10, <3>1, <1>t, QuietStep DEF deleteUnref
      <2>11. CASE applyTerminalCNPGEffects
            <3>1. pass'.pc = "idle" \/ (pass'.pc \in {"runtime", "finalize"} /\ pass'.op = pass.op)
                  BY <2>11, <1>g, <1>r DEF applyTerminalCNPGEffects, AfterEffects, Steps
            <3> QED BY <2>11, <3>1, <1>t, QuietStep DEF applyTerminalCNPGEffects
      <2>12. CASE applyRuntimeProfile
            <3>1. pass'.pc = "idle" \/ (pass'.pc = "finalize" /\ pass'.op = pass.op)
                  BY <2>12, <1>g, <1>r DEF applyRuntimeProfile, AfterEffects, Steps
            <3> QED BY <2>12, <3>1, <1>t, QuietStep DEF applyRuntimeProfile
      <2>13. CASE removeOperationFinalizer
            <3>1. /\ pass'.pc = "idle"
                  /\ UNCHANGED <<phase, jobRef, forced, job>>
                  BY <2>13, <1>r DEF removeOperationFinalizer
            <3>2. /\ life' = [life EXCEPT ![pass.op] = "gone"]
                  /\ fin' = [fin EXCEPT ![pass.op] = FALSE]
                  BY <2>13 DEF removeOperationFinalizer
            <3>3. \A o \in Ops : Holds(o)' => Holds(o)
                  BY <3>1, <3>2 DEF Holds, Exists, MutexInv, TypeOK
            <3>4. LifeAgrees' /\ TerminalIsSettled'
                  BY <3>1, <3>2 DEF MutexInv, LifeAgrees, TerminalIsSettled, TypeOK
            <3>5. StatusMutex' /\ ClaimIsExclusive' /\ PassKnows'
                  BY <3>1, <3>3 DEF MutexInv, StatusMutex, ClaimIsExclusive, PassKnows, Claimed
            <3> QED BY <3>4, <3>5, <1>t DEF MutexInv
      <2> QED BY <1>2, <2>1, <2>2, <2>3, <2>4, <2>5, <2>6, <2>7, <2>8, <2>9,
                 <2>10, <2>11, <2>12, <2>13 DEF PassStep
<1>3. CASE FailCall
      BY <1>3, <1>r, <1>t, QuietStep DEF FailCall
<1>4. ASSUME NEW o \in Ops, CreateOperation(o) PROVE MutexInv'
      <2>1. /\ life[o] = "new" /\ life' = [life EXCEPT ![o] = "live"]
            /\ UNCHANGED <<fin, phase, jobRef, forced, job, pass>>
            BY <1>4 DEF CreateOperation
      <2>2. \A p \in Ops \ {o} : life'[p] = life[p]
            BY <2>1 DEF MutexInv, TypeOK
      <2>3. \A p \in Ops : Holds(p)' => Holds(p)
            BY <2>1, <2>2 DEF MutexInv, LifeAgrees, Holds, Exists, peerHoldsWritePlane
      <2>4. ClaimIsExclusive' /\ StatusMutex' /\ TerminalIsSettled'
            BY <2>1, <2>3 DEF MutexInv, ClaimIsExclusive, StatusMutex, TerminalIsSettled
      <2>5. PassKnows' /\ LifeAgrees'
            BY <2>1, <2>2 DEF MutexInv, PassKnows, LifeAgrees, Exists, TypeOK, Passes
      <2> QED BY <2>4, <2>5, <1>t DEF MutexInv
<1>5. ASSUME NEW o \in Ops, DeleteOperation(o) PROVE MutexInv'
      BY <1>5, <1>t, DeleteStep DEF DeleteOperation
<1>6. ASSUME NEW o \in Ops, DeleteJob(o) PROVE MutexInv'
      <2>1. \A p \in Ops : Settled(job[p]) => Settled(job'[p])
            BY <1>6 DEF DeleteJob, Settled, NoJob, MutexInv, TypeOK
      <2> QED BY <1>6, <2>1, <1>t, QuietStep DEF DeleteJob
<1>7. CASE DeleteInstance
      BY <1>7, <1>t, QuietStep DEF DeleteInstance
<1>8. CASE DeleteCluster
      BY <1>8, <1>t, QuietStep DEF DeleteCluster
<1>9. ASSUME NEW i \in Impacts, EditPolicy(i) PROVE MutexInv'
      BY <1>9, <1>t, QuietStep DEF EditPolicy
<1>10. CASE InstanceStep
      <2>1. CASE reconcileDatabase
            BY <2>1, <1>t, QuietStep DEF reconcileDatabase
      <2>2. CASE observeBootstrap
            BY <2>2, <1>t, QuietStep DEF observeBootstrap
      <2>3. CASE drainChildOperations
            BY <2>3, <1>t, DeleteStep DEF drainChildOperations
      <2>4. CASE deleteOwnedCNPGResources
            BY <2>4, <1>t, QuietStep DEF deleteOwnedCNPGResources
      <2>5. CASE removeInstanceFinalizer
            BY <2>5, <1>t, QuietStep DEF removeInstanceFinalizer
      <2> QED BY <1>10, <2>1, <2>2, <2>3, <2>4, <2>5 DEF InstanceStep
<1>11. ASSUME NEW o \in Ops, JobStep(o) PROVE MutexInv'
      <2>0. job[o].failed \in Nat /\ job[o].succeeded \in 0..1
            BY DEF MutexInv, TypeOK, Jobs
      <2>1. \A p \in Ops : Settled(job[p]) => Settled(job'[p])
            BY <1>11, <2>0 DEF JobStep, StartPod, FailPod, FinishPod, CollectJob, Settled,
                               JobWith, NoJob, MutexInv, TypeOK
      <2>2. UNCHANGED <<life, fin, phase, jobRef, forced, pass>>
            BY <1>11 DEF JobStep, StartPod, FailPod, FinishPod, CollectJob
      <2> QED BY <2>1, <2>2, <1>t, QuietStep
<1>12. CASE ClusterBecomesReady
      BY <1>12, <1>t, QuietStep DEF ClusterBecomesReady
<1>13. CASE UNCHANGED vars
      BY <1>13, <1>t, QuietStep DEF vars
<1> QED BY <1>1, <1>2, <1>3, <1>4, <1>5, <1>6, <1>7, <1>8, <1>9, <1>10, <1>11,
           <1>12, <1>13 DEF Next

\* The inductive invariant holds in every reachable state.
THEOREM MutexInvariant == Spec => []MutexInv
BY InitMutexInv, MutexStep, PTL DEF Spec

\* Two conflicting Operations never both hold the write plane, for any
\* number of Operations, crashes, deletions and Job retries, unless
\* failOperation was called on one of them with its Job armed.
THEOREM StatusMutexHolds == Spec => []StatusMutex
<1>1. MutexInv => StatusMutex
      BY DEF MutexInv
<1> QED BY <1>1, MutexInvariant, PTL

=============================================================================
