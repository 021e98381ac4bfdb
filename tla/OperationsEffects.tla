-------------------------- MODULE OperationsEffects -------------------------
(* What the Operation controller does outside the Operations' own status:  *)
(* the pause of the CNPG Cluster and the worker Jobs.                      *)
EXTENDS OperationsSafety

-----------------------------------------------------------------------------
(* The counters of faults, deletions and edits stay within their bounds.   *)

WithinBounds == faults <= MaxFaults /\ deletes <= MaxDeletes /\ edits <= MaxEdits

LEMMA CountersStep ==
  ASSUME TypeOK, [Next]_vars
  PROVE  /\ faults <= faults' /\ deletes <= deletes'
         /\ WithinBounds => WithinBounds'
<1> USE DEF bounds, WithinBounds, TypeOK
<1> DEFINE Goal == faults <= faults' /\ deletes <= deletes' /\ (WithinBounds => WithinBounds')
<1>0. UNCHANGED bounds => Goal
      OBVIOUS
<1>1. ASSUME NEW o \in Ops, StartPass(o) PROVE UNCHANGED bounds
      BY <1>1 DEF StartPass, StartRefused, StartClaim, StartTerminal, StartDelete, StartLive
<1>2. ASSUME PassStep PROVE UNCHANGED bounds
      BY <1>2 DEF PassStep, claimWritePlane, enforceRegionGates, applyPreJobCNPGEffects,
         applyImportProfile, waitForJobPrerequisites, ensureJob, syncStatusFromJob,
         failOperation, syncParentSideEffects, deleteUnref, removeOperationFinalizer,
         applyTerminalCNPGEffects, applyRuntimeProfile
<1>3. CASE FailCall \/ DeleteInstance \/ DeleteCluster
      BY <1>3, OperationsAssumption DEF FailCall, DeleteInstance, DeleteCluster
<1>4. ASSUME NEW o \in Ops, CreateOperation(o) \/ DeleteOperation(o) \/ DeleteJob(o)
      PROVE  Goal
      BY <1>4, OperationsAssumption DEF CreateOperation, DeleteOperation, DeleteJob
<1>5. ASSUME NEW i \in Impacts, EditPolicy(i) PROVE Goal
      BY <1>5, OperationsAssumption DEF EditPolicy
<1>6. ASSUME InstanceStep \/ ClusterBecomesReady \/ UNCHANGED vars PROVE UNCHANGED bounds
      BY <1>6 DEF InstanceStep, reconcileDatabase, observeBootstrap, drainChildOperations,
         deleteOwnedCNPGResources, removeInstanceFinalizer, ClusterBecomesReady, vars
<1>7. ASSUME NEW o \in Ops, JobStep(o) PROVE UNCHANGED bounds
      BY <1>7 DEF JobStep, StartPod, FailPod, FinishPod, CollectJob
<1> QED BY <1>0, <1>1, <1>2, <1>3, <1>4, <1>5, <1>6, <1>7 DEF Next

LEMMA BoundsKept == Spec => []WithinBounds
<1>1. Init => WithinBounds
      <2>1. Init => faults = 0 /\ deletes = 0 /\ edits = 0
            BY DEF Init
      <2> QED BY <2>1, OperationsAssumption DEF WithinBounds
<1>2. TypeOK /\ WithinBounds /\ [Next]_vars => WithinBounds'
      BY CountersStep
<1> QED BY <1>1, <1>2, TypeCorrect, PTL DEF Spec

-----------------------------------------------------------------------------
(* The pause.                                                              *)

EffectFrame ==
  \/ UNCHANGED <<paused, profile>>
  \/ applyPreJobCNPGEffects \/ applyImportProfile
  \/ applyTerminalCNPGEffects \/ applyRuntimeProfile
  \/ deleteOwnedCNPGResources

\* Before the first edit nobody but the five steps above writes to the Cluster's
\* annotation and parameters, and the policy is the initial one.
LEMMA UneditedStep ==
  ASSUME TypeOK, [Next]_vars, edits' = 0
  PROVE  edits = 0 /\ impact' = impact /\ EffectFrame
<1> USE DEF TypeOK, opVars, nomVars, cnpgVars, bounds, EffectFrame
<1> DEFINE Goal == edits = 0 /\ impact' = impact /\ EffectFrame
<1>1. ASSUME NEW o \in Ops, StartPass(o) PROVE Goal
      BY <1>1 DEF StartPass, StartRefused, StartClaim, StartTerminal, StartDelete, StartLive
<1>2. CASE PassStep
      <2>1. CASE claimWritePlane \/ enforceRegionGates \/ applyPreJobCNPGEffects \/ applyImportProfile
            BY <2>1 DEF claimWritePlane, enforceRegionGates, applyPreJobCNPGEffects, applyImportProfile
      <2>2. CASE waitForJobPrerequisites \/ ensureJob \/ syncStatusFromJob \/ failOperation
            BY <2>2 DEF waitForJobPrerequisites, ensureJob, syncStatusFromJob, failOperation
      <2>3. CASE syncParentSideEffects \/ deleteUnref \/ removeOperationFinalizer
            BY <2>3 DEF syncParentSideEffects, deleteUnref, removeOperationFinalizer
      <2>4. CASE applyTerminalCNPGEffects \/ applyRuntimeProfile
            BY <2>4 DEF applyTerminalCNPGEffects, applyRuntimeProfile
      <2> QED BY <1>2, <2>1, <2>2, <2>3, <2>4 DEF PassStep
<1>3. CASE FailCall \/ DeleteInstance \/ ClusterBecomesReady \/ UNCHANGED vars
      BY <1>3 DEF FailCall, DeleteInstance, ClusterBecomesReady, vars
<1>4. ASSUME NEW o \in Ops, CreateOperation(o) \/ DeleteOperation(o)
      PROVE  Goal
      BY <1>4 DEF CreateOperation, DeleteOperation
<1>5. ASSUME DeleteCluster \/ (\E i \in Impacts : EditPolicy(i)) \/ (\E o \in Ops : DeleteJob(o))
      PROVE  FALSE
      BY <1>5 DEF DeleteCluster, EditPolicy, DeleteJob
<1>6. CASE InstanceStep
      BY <1>6 DEF InstanceStep, reconcileDatabase, observeBootstrap, drainChildOperations,
         deleteOwnedCNPGResources, removeInstanceFinalizer
<1>7. ASSUME NEW o \in Ops, JobStep(o) PROVE Goal
      BY <1>7 DEF JobStep, StartPod, FailPod, FinishPod, CollectJob
<1> QED BY <1>1, <1>2, <1>3, <1>4, <1>5, <1>6, <1>7 DEF Next

\* Without a status write no live holder appears.
LEMMA NoNewHolder ==
  ASSUME MutexInv, [Next]_vars, UNCHANGED <<phase, jobRef>>,
         NEW o \in Ops, Holds(o)', life'[o] = "live"
  PROVE  Holds(o) /\ life[o] = "live"
<1> USE DEF MutexInv
<1>1. phase[o] # "" \/ jobRef[o]
      BY DEF Holds, peerHoldsWritePlane
<1>2. Exists(o)
      BY <1>1, NoRevival DEF Holds
<1>3. life[o] = "live"
      <2>1. CASE removeOperationFinalizer
            BY <2>1 DEF removeOperationFinalizer, TypeOK, Passes
      <2>2. CASE drainChildOperations
            BY <2>2 DEF drainChildOperations, DeleteSet
      <2>3. ASSUME NEW p \in Ops, CreateOperation(p) PROVE life[o] = "live"
            BY <2>3, <1>2 DEF CreateOperation, Exists, TypeOK
      <2>4. ASSUME NEW p \in Ops, DeleteOperation(p) PROVE life[o] = "live"
            BY <2>4 DEF DeleteOperation, DeleteSet
      <2> QED BY <2>1, <2>2, <2>3, <2>4, StepFrames DEF Frames, LifeFrame
<1> QED BY <1>2, <1>3 DEF Holds

LEMMA PausedStep ==
  ASSUME RefsInv, PausedWhileHeld, PassPauses, [Next]_vars, edits' = 0
  PROVE  PausedWhileHeld'
<1>m. MutexInv /\ TypeOK
      BY DEF RefsInv, MutexInv
<1>u. impact' = impact /\ EffectFrame
      BY <1>m, UneditedStep
<1> SUFFICES ASSUME NEW o \in Ops, o \notin forced', Holds(o)', life'[o] = "live",
                    operationImpactMatches(impact, OpType[o]), Mode # "ConnectionSecret"
             PROVE  paused' /\ profile' = "import"
    BY <1>u DEF PausedWhileHeld
<1>c. Covered(o)
      BY DEF Covered
<1>1. CASE phase' # phase \/ jobRef' # jobRef \/ forced' # forced
      <2>1. UNCHANGED <<paused, profile, life>>
            BY <1>1, <1>m, StepFrames DEF Frames, StatusFrame, syncStatusFromJob, failOperation, cnpgVars
      <2>2. CASE o = pass.op
            <3>1. pass.pc = "sync"
                  BY <1>1, <1>m, <2>2, NewHolder
            <3> QED BY <3>1, <2>1, <2>2, <1>c DEF PassPauses
      <2>3. CASE o # pass.op
            <3>1. Holds(o) /\ life[o] = "live" /\ o \notin forced
                  BY <1>1, <1>m, <2>1, <2>3, StatusWrite DEF Holds, Exists
            <3> QED BY <3>1, <2>1 DEF PausedWhileHeld
      <2> QED BY <2>2, <2>3
<1>2. CASE UNCHANGED <<phase, jobRef, forced>>
      <2>1. Holds(o) /\ life[o] = "live" /\ o \notin forced
            BY <1>2, <1>m, NoNewHolder
      <2>2. paused /\ profile = "import"
            BY <2>1 DEF PausedWhileHeld
      <2>3. CASE UNCHANGED <<paused, profile>>
            BY <2>2, <2>3
      <2>4. CASE applyPreJobCNPGEffects \/ applyImportProfile
            BY <2>2, <2>4 DEF applyPreJobCNPGEffects, applyImportProfile
      <2>5. CASE applyTerminalCNPGEffects
            <3>1. CASE ResumeDue
                  <4>1. isActiveOperationPhase(phase[o]) /\ o \in Peers
                        BY <2>1 DEF Holds, Peers, peerHoldsWritePlane
                  <4>2. o = pass.op
                        BY <3>1, <4>1 DEF ResumeDue, hasOtherActiveMatchingImpactOps
                  <4>3. ~isTerminalOperationPhase(phase[o]) /\ life[o] # "deleting"
                        BY <4>1, <2>1 DEF isActiveOperationPhase, isTerminalOperationPhase,
                                          ActivePhases, TerminalPhases
                  <4> QED BY <2>5, <4>2, <4>3 DEF applyTerminalCNPGEffects, PassPauses
            <3>2. CASE ~ResumeDue
                  BY <2>2, <2>5, <3>2 DEF applyTerminalCNPGEffects
            <3> QED BY <3>1, <3>2
      <2>6. CASE applyRuntimeProfile
            BY <2>1, <2>6, <1>c DEF applyRuntimeProfile, PassPauses
      <2>7. CASE deleteOwnedCNPGResources
            BY <2>1, <2>7 DEF deleteOwnedCNPGResources, Peers, Holds
      <2> QED BY <2>3, <2>4, <2>5, <2>6, <2>7, <1>u DEF EffectFrame
<1> QED BY <1>1, <1>2

\* A step that leaves the Cluster's annotation and parameters alone, writes no
\* status, and leaves the pass where it was or ends it.
LEMMA QuietPause ==
  ASSUME RefsInv, RefsInv', PassPauses, [Next]_vars,
         UNCHANGED <<phase, jobRef, forced, paused, profile, impact>>,
         \/ pass'.pc = "idle"
         \/ /\ pass'.pc = pass.pc /\ pass'.op = pass.op
            /\ pass'.impact = pass.impact /\ pass'.attached = pass.attached
  PROVE  PassPauses'
<1>m. MutexInv /\ MutexInv'
      BY DEF RefsInv
<1>1. CASE pass'.pc = "idle"
      BY <1>1 DEF PassPauses
<1>2. CASE pass'.pc = pass.pc /\ pass.pc # "idle"
      <2>0. PICK o \in Ops : o = pass.op /\ o = pass'.op
            BY <1>2, <1>m DEF MutexInv, TypeOK, Passes
      <2>1. Exists(o)'
            BY <1>2, <1>m, <2>0 DEF MutexInv, PassKnows, Exists
      <2>2. life[o] = "deleting" => life'[o] = "deleting"
            <3>1. CASE removeOperationFinalizer
                  BY <1>2, <2>0, <2>1, <3>1, <1>m DEF removeOperationFinalizer, MutexInv, TypeOK, Exists
            <3>2. CASE drainChildOperations
                  BY <3>2 DEF drainChildOperations, DeleteSet
            <3>3. ASSUME NEW p \in Ops, CreateOperation(p) \/ DeleteOperation(p)
                  PROVE  life[o] = "deleting" => life'[o] = "deleting"
                  BY <3>3, <1>m DEF CreateOperation, DeleteOperation, DeleteSet, MutexInv, TypeOK
            <3> QED BY <3>1, <3>2, <3>3, StepFrames DEF Frames, LifeFrame
      <2>3. \A p \in Ops \ forced : Holds(p)' /\ life'[p] = "live" => Holds(p) /\ life[p] = "live"
            BY <1>m, NoNewHolder
      <2>4. \A p \in Ops : Covered(p)' <=> Covered(p)
            BY DEF Covered
      <2> QED BY <1>2, <2>0, <2>2, <2>3, <2>4 DEF PassPauses
<1> QED BY <1>1, <1>2

LEMMA PassPausesStep ==
  ASSUME RefsInv, RefsInv', PassPauses, [Next]_vars, edits' = 0
  PROVE  PassPauses'
<1>m. MutexInv /\ MutexInv' /\ TypeOK
      BY DEF RefsInv, MutexInv
<1>u. impact' = impact
      BY <1>m, UneditedStep
<1>v. \A p \in Ops : Covered(p)' <=> Covered(p)
      BY <1>u DEF Covered
<1> DEFINE Same == /\ pass'.op = pass.op /\ pass'.impact = pass.impact
                   /\ pass'.attached = pass.attached
<1>g. ASSUME NEW s \in Steps, Goto(s) PROVE pass'.pc = s /\ Same
      BY <1>g, <1>m DEF Goto, TypeOK, Passes
<1>r. Return => pass'.pc = "idle"
      BY RecordsTyped DEF Return
<1>a. AfterEffects => pass'.pc = "idle" \/ (pass'.pc = "finalize" /\ Same)
      BY <1>g, <1>r DEF AfterEffects, Steps
<1>o. pass.pc # "idle" => pass.op \in Ops
      BY <1>m DEF TypeOK, Passes
<1>e. pass'.pc = "idle" => PassPauses'
      BY DEF PassPauses
\* At these steps nothing but the policy the pass has read matters.
<1>k. ASSUME pass'.pc \in {"claim", "fail", "gate", "pause", "resync", "ref", "unref", "finalize"},
             pass'.impact = impact'
      PROVE  PassPauses'
      BY <1>k DEF PassPauses
<1> USE DEF opVars, nomVars, cnpgVars
<1>1. ASSUME NEW o \in Ops, StartPass(o) PROVE PassPauses'
      <2>1. ASSUME NEW s, NEW r, StartAt(o, s, r) PROVE pass'.pc = s /\ pass'.impact = impact
            BY <2>1 DEF StartAt
      <2>2. pass'.pc \in {"fail", "claim", "resync", "ref", "unref"} /\ pass'.impact = impact'
            BY <1>1, <1>u, <2>1 DEF StartPass, StartRefused, StartClaim, StartTerminal, StartDelete
      <2> QED BY <2>2, <1>k
<1>2. CASE PassStep
      <2>i. ASSUME pass.pc # "idle", Same PROVE pass'.impact = impact'
            BY <2>i, <1>u DEF PassPauses
      <2>1. CASE claimWritePlane
            <3>1. \/ pass'.pc = "idle"
                  \/ pass'.pc \in {"fail", "gate"} /\ Same
                  <4>1. pass' = [pass EXCEPT !.pc = "fail", !.reason = "Conflict"]
                          => pass'.pc = "fail" /\ Same
                        BY <1>m DEF TypeOK, Passes
                  <4> QED BY <2>1, <4>1, <1>g, <1>r DEF claimWritePlane, Steps
            <3> QED BY <2>1, <3>1, <2>i, <1>e, <1>k DEF claimWritePlane
      <2>2. CASE enforceRegionGates
            <3>1. pass'.pc \in {"pause", "fail"} /\ Same
                  BY <2>2, <1>m DEF enforceRegionGates, TypeOK, Passes
            <3> QED BY <2>2, <3>1, <2>i, <1>k DEF enforceRegionGates
      <2>3. CASE applyPreJobCNPGEffects
            <3>1. pass.pc = "pause" /\ pass.impact = impact /\ pass.op \in Ops
                  BY <2>3, <1>o DEF applyPreJobCNPGEffects, PassPauses
            <3>2. CASE Goto("await") /\ (~operationImpactMatches(pass.impact, OpType[pass.op])
                                           \/ skipCNPGClusterEffects(pass.attached))
                  <4>1. pass'.pc = "await" /\ Same
                        BY <3>2, <1>g DEF Steps
                  <4>2. pass.attached => ~Covered(pass.op)
                        BY <3>1, <3>2 DEF Covered, skipCNPGClusterEffects
                  <4> QED BY <3>1, <4>1, <4>2, <2>i, <1>v DEF PassPauses
            <3>3. CASE Goto("import") /\ paused' = TRUE
                  <4>1. pass'.pc = "import" /\ Same
                        BY <3>3, <1>g DEF Steps
                  <4> QED BY <3>1, <3>3, <4>1, <2>i DEF PassPauses
            <3> QED BY <2>3, <3>2, <3>3, <1>e, <1>r DEF applyPreJobCNPGEffects
      <2>4. CASE applyImportProfile
            <3>1. CASE cluster = "absent"
                  BY <2>4, <3>1, <1>e, <1>r DEF applyImportProfile
            <3>2. CASE cluster # "absent"
                  <4>1. pass'.pc = "await" /\ Same /\ profile' = "import" /\ paused' = paused
                        BY <2>4, <3>2, <1>g DEF applyImportProfile, Steps
                  <4>2. pass.pc = "import" /\ pass.op \in Ops
                        BY <2>4, <1>o DEF applyImportProfile
                  <4> QED BY <4>1, <4>2, <2>i, <1>v DEF PassPauses
            <3> QED BY <3>1, <3>2
      <2>5. CASE waitForJobPrerequisites
            <3>1. CASE pass.attached /\ Goto("job")
                  <4>1. pass'.pc = "job" /\ Same /\ UNCHANGED <<paused, profile>>
                        BY <2>5, <3>1, <1>g DEF waitForJobPrerequisites, Steps
                  <4>2. pass.pc = "await" /\ pass.op \in Ops
                        BY <2>5, <1>o DEF waitForJobPrerequisites
                  <4> QED BY <3>1, <4>1, <4>2, <2>i, <1>v DEF PassPauses
            <3> QED BY <2>5, <3>1, <1>e, <1>r DEF waitForJobPrerequisites
      <2>6. CASE ensureJob
            <3>1. pass'.pc = "sync" /\ Same /\ UNCHANGED <<paused, profile>>
                  BY <2>6, <1>g DEF ensureJob, Steps
            <3>2. pass.pc = "job" /\ pass.op \in Ops
                  BY <2>6, <1>o DEF ensureJob
            <3> QED BY <3>1, <3>2, <2>i, <1>v DEF PassPauses
      <2>7. CASE syncStatusFromJob
            <3>1. pass'.pc = "idle" \/ (pass'.pc = "ref" /\ Same)
                  BY <2>7, <1>g, <1>r DEF syncStatusFromJob, Steps
            <3> QED BY <2>7, <3>1, <2>i, <1>e, <1>k DEF syncStatusFromJob
      <2>8. CASE failOperation
            <3>1. pass'.pc = "idle" \/ (pass'.pc = "ref" /\ Same)
                  BY <2>8, <1>g, <1>r DEF failOperation, Steps
            <3> QED BY <2>8, <3>1, <2>i, <1>e, <1>k DEF failOperation
      <2>9. CASE syncParentSideEffects
            <3>1. CASE isTerminalOperationPhase(phase[pass.op]) /\ Goto("resume")
                  <4>1. pass'.pc = "resume" /\ Same /\ UNCHANGED <<phase, life>>
                        BY <2>9, <3>1, <1>g DEF syncParentSideEffects, Steps
                  <4>2. pass.pc = "ref"
                        BY <2>9 DEF syncParentSideEffects
                  <4> QED BY <3>1, <4>1, <4>2, <2>i DEF PassPauses
            <3> QED BY <2>9, <3>1, <1>e, <1>r DEF syncParentSideEffects
      <2>10. CASE deleteUnref
            <3>1. pass'.pc = "resume" /\ Same /\ UNCHANGED <<phase, life>>
                  BY <2>10, <1>g DEF deleteUnref, Steps
            <3>2. pass.pc = "unref" /\ life[pass.op] = "deleting"
                  BY <2>10 DEF deleteUnref, RefsInv, PassRefs
            <3> QED BY <3>1, <3>2, <2>i DEF PassPauses
      <2>11. CASE applyTerminalCNPGEffects
            <3>1. pass.pc = "resume" /\ UNCHANGED <<phase, life, jobRef, forced>> /\ pass.op \in Ops
                  BY <2>11, <1>o DEF applyTerminalCNPGEffects
            <3>2. CASE ResumeDue /\ Goto("runtime")
                  <4>1. pass'.pc = "runtime" /\ Same
                        BY <3>2, <1>g DEF Steps
                  <4>2. isTerminalOperationPhase(phase[pass.op]) \/ life[pass.op] = "deleting"
                        BY <3>1 DEF PassPauses
                  <4>3. ASSUME NEW o \in Ops, Holds(o), life[o] = "live", Covered(o) PROVE FALSE
                        <5>1. isActiveOperationPhase(phase[o]) /\ o \in Peers
                              BY <4>3 DEF Holds, Peers, peerHoldsWritePlane
                        <5>2. o = pass.op
                              BY <3>2, <4>3, <5>1 DEF ResumeDue, hasOtherActiveMatchingImpactOps, Covered
                        <5> QED BY <4>2, <4>3, <5>1, <5>2
                                DEF isActiveOperationPhase, isTerminalOperationPhase,
                                    ActivePhases, TerminalPhases
                  <4>4. \A o \in Ops : Holds(o)' <=> Holds(o)
                        BY <3>1 DEF Holds, Exists
                  <4> QED BY <3>1, <4>1, <4>2, <4>3, <4>4, <2>i, <1>v DEF PassPauses
            <3> QED BY <2>11, <3>1, <3>2, <2>i, <1>a, <1>e, <1>k, <1>r DEF applyTerminalCNPGEffects
      <2>12. CASE applyRuntimeProfile
            BY <2>12, <2>i, <1>a, <1>e, <1>k, <1>r DEF applyRuntimeProfile
      <2>13. CASE removeOperationFinalizer
            BY <2>13, <1>e, <1>r DEF removeOperationFinalizer
      <2> QED BY <1>2, <2>1, <2>2, <2>3, <2>4, <2>5, <2>6, <2>7, <2>8, <2>9,
                 <2>10, <2>11, <2>12, <2>13 DEF PassStep
<1>3. CASE FailCall
      BY <1>3, <1>e, <1>r DEF FailCall
<1>4. ASSUME NEW o \in Ops, CreateOperation(o) PROVE PassPauses'
      BY <1>4, <1>u, QuietPause DEF CreateOperation
<1>d. ASSUME NEW S, DeleteSet(S) PROVE pass'.pc = pass.pc /\ Same
      BY <1>d, <1>m DEF DeleteSet, TypeOK, Passes
<1>5. ASSUME NEW o \in Ops, DeleteOperation(o) PROVE PassPauses'
      BY <1>5, <1>d, <1>u, QuietPause DEF DeleteOperation
<1>6. ASSUME NEW o \in Ops, JobStep(o) \/ DeleteJob(o) PROVE PassPauses'
      <2>1. UNCHANGED <<phase, jobRef, forced, paused, profile, pass>>
            BY <1>6 DEF JobStep, StartPod, FailPod, FinishPod, CollectJob, DeleteJob
      <2> QED BY <2>1, <1>u, QuietPause
<1>7. CASE DeleteInstance
      BY <1>7, <1>u, QuietPause DEF DeleteInstance
<1>8. CASE DeleteCluster
      BY <1>8, <1>m DEF DeleteCluster, TypeOK
<1>9. ASSUME NEW i \in Impacts, EditPolicy(i) PROVE PassPauses'
      BY <1>9, <1>m DEF EditPolicy, TypeOK
<1>10. CASE InstanceStep
      <2>1. CASE reconcileDatabase
            BY <2>1, <1>u, QuietPause DEF reconcileDatabase
      <2>2. CASE observeBootstrap
            BY <2>2, <1>u, QuietPause DEF observeBootstrap
      <2>3. CASE drainChildOperations
            BY <2>3, <1>d, <1>u, QuietPause DEF drainChildOperations
      <2>4. CASE deleteOwnedCNPGResources
            <3>1. pass.pc = "idle" /\ UNCHANGED pass
                  BY <2>4, <1>m, <1>o DEF deleteOwnedCNPGResources, Peers, MutexInv, PassKnows
            <3> QED BY <3>1, <1>e
      <2>5. CASE removeInstanceFinalizer
            BY <2>5, <1>u, QuietPause DEF removeInstanceFinalizer
      <2> QED BY <1>10, <2>1, <2>2, <2>3, <2>4, <2>5 DEF InstanceStep
<1>12. CASE ClusterBecomesReady
      BY <1>12, <1>u, QuietPause DEF ClusterBecomesReady
<1>13. CASE UNCHANGED vars
      BY <1>13, <1>u, QuietPause DEF vars
<1> QED BY <1>1, <1>2, <1>3, <1>4, <1>5, <1>6, <1>7, <1>8, <1>9, <1>10,
           <1>12, <1>13 DEF Next

LEMMA InitPauseInv == Init => PauseInv
<1> SUFFICES ASSUME Init PROVE PauseInv
    OBVIOUS
<1>1. pass.pc = "idle"
      BY RecordsTyped DEF Init
<1>2. \A o \in Ops : ~Holds(o)
      BY DEF Init, Holds, Exists
<1> QED BY <1>1, <1>2, InitRefsInv DEF PauseInv, PausedWhileHeld, PassPauses

LEMMA PauseStep == PauseInv /\ [Next]_vars => PauseInv'
<1> SUFFICES ASSUME PauseInv, [Next]_vars PROVE PauseInv'
    OBVIOUS
<1>1. RefsInv /\ RefsInv' /\ TypeOK
      BY RefsStep DEF PauseInv, RefsInv, MutexInv
<1>2. ASSUME edits' = 0 PROVE PausedWhileHeld' /\ PassPauses'
      BY <1>1, <1>2, UneditedStep, PausedStep, PassPausesStep DEF PauseInv
<1> QED BY <1>1, <1>2 DEF PauseInv

\* Until the policy or the Cluster is changed under the controller, backups
\* stay paused and the import profile stays on while an Operation covered by
\* the policy holds the write plane, through crashes between the two patches,
\* peers that end or are deleted meanwhile, and restarts.
THEOREM PausedUntilEdited == Spec => [](edits = 0 => PausedWhileHeld)
<1>1. PauseInv => (edits = 0 => PausedWhileHeld)
      BY DEF PauseInv
<1> QED BY <1>1, InitPauseInv, PauseStep, PTL DEF Spec

\* In particular where no such edit ever happens.
THEOREM PausedWithoutEdits ==
  ASSUME MaxEdits = 0
  PROVE  Spec => []PausedWhileHeld
<1>1. TypeOK /\ WithinBounds => edits = 0
      BY MaxEdits = 0 DEF TypeOK, WithinBounds
<1> QED BY <1>1, TypeCorrect, BoundsKept, PausedUntilEdited, PTL

-----------------------------------------------------------------------------
(* The worker Jobs, while no call has failed and nothing was deleted.      *)

\* Pods run only under a Job that has not succeeded or used up its retries.
LEMMA PodsBoundedStep == TypeOK /\ PodsBounded /\ [Next]_vars => PodsBounded'
<1> SUFFICES ASSUME TypeOK, PodsBounded, [Next]_vars PROVE PodsBounded'
    OBVIOUS
<1> USE DEF TypeOK
<1>1. CASE UNCHANGED job
      BY <1>1 DEF PodsBounded
<1>2. CASE ensureJob
      BY <1>2 DEF ensureJob, FreshJob, JobWith, PodsBounded
<1>3. ASSUME NEW o \in Ops, DeleteJob(o) \/ JobStep(o) PROVE PodsBounded'
      <2>1. \A p \in Ops \ {o} : job'[p] = job[p]
            BY <1>3 DEF DeleteJob, JobStep, StartPod, FailPod, FinishPod, CollectJob
      <2>2. job'[o].active > 0 => /\ job'[o].exists /\ job'[o].succeeded = 0
                                  /\ job'[o].failed <= BackoffLimit
            BY <1>3 DEF DeleteJob, JobStep, StartPod, FailPod, FinishPod, CollectJob, JobWith, NoJob
      <2> QED BY <2>1, <2>2 DEF PodsBounded
<1> QED BY <1>1, <1>2, <1>3, StepFrames DEF Frames, JobFrame

\* Up to here nothing was deleted: the parent and every Operation are live,
\* no pass was lost and what the region gate waits for does not go away.
LEMMA CalmStep ==
  ASSUME RefsInv, Calm => JobsRecorded, [Next]_vars, Calm'
  PROVE  /\ Calm /\ parent' = "live" /\ (observed => observed')
         /\ ~FailCall /\ ~removeOperationFinalizer /\ ~drainChildOperations
         /\ \A o \in Ops : ~DeleteOperation(o)
<1>t. TypeOK
      BY DEF RefsInv, MutexInv
<1>c. Calm
      <2>1. faults \in Nat /\ deletes \in Nat /\ faults <= faults' /\ deletes <= deletes'
            BY <1>t, CountersStep DEF TypeOK
      <2> QED BY <2>1 DEF Calm
<1>1. ~FailCall /\ ~DeleteInstance /\ \A o \in Ops : ~DeleteOperation(o)
      BY <1>t, <1>c DEF Calm, FailCall, DeleteOperation, DeleteInstance, TypeOK
<1>2. JobsRecorded
      BY <1>c
<1>3. ~drainChildOperations /\ ~removeInstanceFinalizer
      BY <1>2 DEF JobsRecorded, drainChildOperations, removeInstanceFinalizer
<1>4. ~removeOperationFinalizer
      <2>1. ASSUME pass.pc = "finalize" PROVE FALSE
            <3>1. life[pass.op] = "deleting"
                  BY <2>1 DEF RefsInv, PassRefs
            <3>2. pass.op \in Ops
                  BY <2>1, <1>t DEF TypeOK, Passes
            <3> QED BY <1>2, <3>1, <3>2 DEF JobsRecorded
      <2> QED BY <2>1 DEF removeOperationFinalizer
<1>5. parent' = parent /\ (observed => observed')
      <2> USE DEF nomVars
      <2>1. ASSUME NEW o \in Ops, StartPass(o) PROVE UNCHANGED nomVars
            BY <2>1 DEF StartPass, StartRefused, StartClaim, StartTerminal, StartDelete, StartLive
      <2>2. ASSUME PassStep PROVE UNCHANGED nomVars
            BY <2>2 DEF PassStep, claimWritePlane, enforceRegionGates, applyPreJobCNPGEffects,
               applyImportProfile, waitForJobPrerequisites, ensureJob, syncStatusFromJob,
               failOperation, syncParentSideEffects, deleteUnref, removeOperationFinalizer,
               applyTerminalCNPGEffects, applyRuntimeProfile
      <2>3. CASE DeleteCluster \/ ClusterBecomesReady \/ UNCHANGED vars
            BY <2>3 DEF DeleteCluster, ClusterBecomesReady, vars
      <2>4. CASE \E o \in Ops : CreateOperation(o) \/ DeleteJob(o)
            BY <2>4 DEF CreateOperation, DeleteJob
      <2>5. CASE \E i \in Impacts : EditPolicy(i)
            BY <2>5 DEF EditPolicy
      <2>6. CASE InstanceStep
            BY <1>3, <2>6 DEF InstanceStep, reconcileDatabase, observeBootstrap, deleteOwnedCNPGResources
      <2>7. ASSUME NEW o \in Ops, JobStep(o) PROVE UNCHANGED nomVars
            BY <2>7 DEF JobStep, StartPod, FailPod, FinishPod, CollectJob
      <2> QED BY <1>1, <2>1, <2>2, <2>3, <2>4, <2>5, <2>6, <2>7 DEF Next
<1> QED BY <1>c, <1>1, <1>2, <1>3, <1>4, <1>5 DEF JobsRecorded

\* Operations that exist stay, and a Bootstrap that has Succeeded counts on.
LEMMA GateStaysOpen ==
  ASSUME RefsInv, StatusInv, Calm => JobsRecorded, [Next]_vars, Calm'
  PROVE  /\ bootstrapComplete => bootstrapComplete'
         /\ \A o \in Ops : GateOpen(o) => GateOpen(o)'
         /\ \A o \in Ops : life'[o] \in {"new", "live"} /\ (life[o] = "live" => life'[o] = "live")
<1>m. MutexInv
      BY DEF RefsInv
<1>1. JobsRecorded
      BY CalmStep
<1>2. \A o \in Ops : life'[o] \in {"new", "live"} /\ (life[o] = "live" => life'[o] = "live")
      <2>1. ASSUME NEW p \in Ops, CreateOperation(p)
            PROVE  \A o \in Ops : life'[o] \in {"new", "live"} /\ (life[o] = "live" => life'[o] = "live")
            BY <1>m, <1>1, <2>1 DEF CreateOperation, JobsRecorded, MutexInv, TypeOK
      <2>2. CASE UNCHANGED life
            BY <1>1, <2>2 DEF JobsRecorded
      <2> QED BY <2>1, <2>2, CalmStep, StepFrames DEF Frames, LifeFrame
<1>3. \A p \in Ops : phase[p] = "Succeeded" => phase'[p] = "Succeeded"
      BY <1>m, <1>1, FinalStep DEF JobsRecorded, isTerminalOperationPhase, TerminalPhases
<1>4. ASSUME bootstrapComplete PROVE bootstrapComplete'
      <2>1. CASE observed
            BY <2>1, CalmStep DEF bootstrapComplete
      <2>2. ASSUME NEW p \in Peers, OpType[p] = "Bootstrap", phase[p] = "Succeeded"
            PROVE  bootstrapComplete'
            <3>1. p \in Ops /\ Exists(p)
                  BY DEF Peers
            <3>2. life[p] = "live"
                  BY <1>1, <3>1 DEF JobsRecorded, Exists
            <3>3. p \in Peers' /\ phase'[p] = "Succeeded"
                  BY <1>2, <1>3, <2>2, <3>1, <3>2 DEF Peers, Exists
            <3> QED BY <2>2, <3>3 DEF bootstrapComplete
      <2> QED BY <1>4, <2>1, <2>2 DEF bootstrapComplete
<1>5. \A o \in Ops : GateOpen(o) => GateOpen(o)'
      BY <1>4 DEF GateOpen
<1> QED BY <1>2, <1>4, <1>5

CalmState == JobsRecorded /\ PassGates

\* A step that writes no status, creates no Job, and ends the pass or takes it
\* further past its gate, but not past the write that records the Job.
LEMMA QuietCalm ==
  ASSUME CalmInv, [Next]_vars, Calm', RefsInv',
         UNCHANGED <<phase, jobRef, why, forced>>, ~pass'.stale,
         \A o \in Ops : job'[o].exists => job[o].exists,
         \/ pass'.pc = "idle" /\ pass'.complete = FALSE /\ pass.pc # "sync"
         \/ /\ pass'.op = pass.op /\ pass'.complete = pass.complete
            /\ \/ pass'.pc = pass.pc
               \/ pass.pc \in Claimed \ {"gate", "sync"} /\ pass'.pc \in Claimed \ {"gate"}
               \/ pass.pc # "sync" /\ pass'.pc \in {"ref", "resume", "runtime", "finalize"}
  PROVE  CalmState'
<1>1. RefsInv /\ StatusInv /\ JobsRecorded /\ PassGates
      BY CalmStep DEF CalmInv
<1>2. /\ bootstrapComplete => bootstrapComplete'
      /\ \A o \in Ops : GateOpen(o) => GateOpen(o)'
      /\ \A o \in Ops : life'[o] \in {"new", "live"}
      BY <1>1, GateStaysOpen
<1>3. JobsRecorded'
      BY <1>1, <1>2, CalmStep DEF JobsRecorded, Accepted
<1>4. PassGates'
      <2>1. pass.pc # "idle" => pass.op \in Ops
            BY <1>1 DEF RefsInv, MutexInv, TypeOK, Passes
      <2>2. CASE pass'.pc = "idle" /\ pass'.complete = FALSE
            BY <2>2 DEF PassGates, Claimed
      <2>3. CASE pass'.op = pass.op /\ pass'.complete = pass.complete
            <3>1. pass'.complete => bootstrapComplete'
                  BY <1>1, <1>2, <2>3, Zenon DEF PassGates
            <3>2. pass'.pc \in {"claim", "gate"} \/ pass'.pc = "fail" => pass'.pc = pass.pc
                  BY DEF Claimed
            <3>3. pass'.pc \in Claimed \union {"claim"} =>
                    pass.pc \in Claimed \union {"claim"} /\ Accepted(pass.op)
                  BY <1>1 DEF PassGates, Claimed
            <3>4. pass'.pc \in Claimed \ {"gate"} => GateOpen(pass.op)'
                  <4>1. pass'.pc \in Claimed \ {"gate"} => pass.pc \in Claimed \ {"gate"}
                        BY DEF Claimed
                  <4>2. ASSUME pass'.pc \in Claimed \ {"gate"} PROVE GateOpen(pass.op)'
                        <5>1. PICK o \in Ops : o = pass.op
                              BY <2>1, <4>1, <4>2 DEF Claimed
                        <5>2. GateOpen(o)'
                              BY <1>1, <1>2, <4>1, <4>2, <5>1 DEF PassGates
                        <5> QED BY <2>3, <5>1, <5>2
                  <4> QED BY <4>2
            <3> QED BY <1>1, <2>3, <3>1, <3>2, <3>3, <3>4 DEF PassGates, Accepted
      <2> QED BY <2>2, <2>3
<1> QED BY <1>3, <1>4 DEF CalmState

LEMMA CalmInvStep == CalmInv /\ [Next]_vars => CalmInv'
<1> SUFFICES ASSUME CalmInv, [Next]_vars PROVE CalmInv'
    OBVIOUS
<1>i. RefsInv /\ RefsInv' /\ StatusInv /\ MutexInv /\ TypeOK /\ MutexInv'
      BY RefsStep DEF CalmInv, RefsInv, MutexInv
<1>j. StatusInv' /\ PodsBounded'
      BY <1>i, StatusInvStep, PodsBoundedStep DEF CalmInv
<1> SUFFICES ASSUME Calm' PROVE CalmState'
    BY <1>i, <1>j DEF CalmInv, CalmState
<1>c. JobsRecorded /\ PassGates /\ parent' = "live"
      BY CalmStep DEF CalmInv
<1>d. /\ bootstrapComplete => bootstrapComplete'
      /\ \A o \in Ops : GateOpen(o) => GateOpen(o)'
      /\ \A o \in Ops : life'[o] \in {"new", "live"}
      BY <1>i, GateStaysOpen DEF CalmInv
<1> DEFINE Same == /\ pass'.op = pass.op /\ pass'.complete = pass.complete
                   /\ pass'.stale = pass.stale
<1>g. ASSUME NEW s \in Steps, Goto(s) PROVE pass'.pc = s /\ Same
      BY <1>g, <1>i DEF Goto, TypeOK, Passes
<1>r. Return => pass'.pc = "idle" /\ pass'.complete = FALSE /\ ~pass'.stale
      <2>1. IdlePass.pc = "idle" /\ IdlePass.complete = FALSE /\ IdlePass.stale = FALSE
            BY DEF IdlePass
      <2> QED BY <2>1 DEF Return
<1>a. AfterEffects => \/ pass'.pc = "idle" /\ pass'.complete = FALSE /\ ~pass'.stale
                      \/ pass'.pc = "finalize" /\ Same
      BY <1>g, <1>r DEF AfterEffects, Steps
<1>o. pass.pc # "idle" => pass.op \in Ops
      BY <1>i DEF TypeOK, Passes
<1>f. ~pass.stale /\ (Same => ~pass'.stale)
      BY <1>c DEF JobsRecorded
<1> USE DEF opVars
<1>1. ASSUME NEW o \in Ops, StartPass(o) PROVE CalmState'
      <2>1. /\ UNCHANGED <<phase, jobRef, why, forced, job, life, observed>>
            /\ pass.pc = "idle"
            BY <1>1 DEF StartPass, StartRefused, StartClaim, StartTerminal, StartDelete, StartLive, nomVars
      <2>2. ASSUME NEW s, NEW r, StartAt(o, s, r)
            PROVE  /\ pass'.op = o /\ pass'.pc = s /\ pass'.complete = bootstrapComplete
                   /\ pass'.stale = FALSE
            BY <2>2 DEF StartAt
      <2>3. /\ pass'.op = o /\ pass'.complete = bootstrapComplete /\ pass'.stale = FALSE
            /\ \/ pass'.pc = "fail" /\ Refusal(o) # ""
               \/ pass'.pc = "claim" /\ Refusal(o) = ""
               \/ pass'.pc \in {"resync", "ref", "unref"}
            BY <1>1, <2>2 DEF StartPass, StartRefused, StartClaim, StartTerminal, StartDelete
      <2>4. Refusal(o) = "" <=> Accepted(o)
            <3>1. parent = "live"
                  BY <1>c DEF JobsRecorded
            <3> QED BY <3>1 DEF Refusal, Accepted
      <2>5. jobRef[o] => Accepted(o) /\ GateOpen(o)
            BY <1>c DEF JobsRecorded
      <2>6. JobsRecorded'
            BY <1>c, <1>d, <2>1, <2>3 DEF JobsRecorded, Accepted
      <2>7. pass'.complete => bootstrapComplete'
            BY <1>d, <2>3, Zenon
      <2>8. jobRef[o] /\ RegionsConfigured /\ requiresRegionGate(OpType[o]) => pass'.complete
            BY <2>3, <2>5, Zenon DEF GateOpen
      <2>9. PassGates'
            BY <2>1, <2>3, <2>4, <2>5, <2>7, <2>8 DEF PassGates, Claimed, Accepted
      <2> QED BY <2>6, <2>9 DEF CalmState
<1>2. CASE PassStep
      <2>1. CASE claimWritePlane
            <3>1. UNCHANGED <<phase, jobRef, why, forced, job>> /\ pass.pc = "claim"
                  BY <2>1 DEF claimWritePlane
            <3>2. PICK o \in Ops : o = pass.op
                  BY <3>1, <1>o
            <3>3. CASE Return
                  BY <3>1, <3>3, <1>r, <1>i, QuietCalm
            <3>4. CASE /\ evaluateWritePlane(pass.op, Peers, phase, jobRef) = "Hold"
                       /\ pass' = [pass EXCEPT !.pc = "fail", !.reason = "Conflict"]
                  <4>1. pass'.pc = "fail" /\ Same
                        BY <3>4, <1>i DEF TypeOK, Passes
                  <4>2. PICK p \in Ops : operationsMutexConflict(o, p) /\ Holds(p)
                        BY <3>2, <3>4 DEF evaluateWritePlane, Peers, Holds
                  <4>3. ~Holds(o)
                        BY <4>2, <1>c, <1>i DEF JobsRecorded, MutexInv, StatusMutex
                  <4>4. ~jobRef[o]
                        BY <3>1, <3>2, <4>3, <1>i DEF Holds, peerHoldsWritePlane, MutexInv, PassKnows
                  <4>5. JobsRecorded'
                        BY <1>c, <1>d, <1>f, <3>1, <4>1 DEF JobsRecorded, Accepted
                  <4>6. pass'.complete => bootstrapComplete'
                        BY <1>c, <1>d, <4>1, Zenon DEF PassGates
                  <4>7. PassGates'
                        BY <3>1, <3>2, <4>1, <4>4, <4>6 DEF PassGates, Claimed
                  <4> QED BY <4>5, <4>7 DEF CalmState
            <3>5. CASE Goto("gate")
                  <4>1. pass'.pc = "gate" /\ Same
                        BY <3>5, <1>g DEF Steps
                  <4>2. JobsRecorded'
                        BY <1>c, <1>d, <1>f, <3>1, <4>1 DEF JobsRecorded, Accepted
                  <4>3. pass'.complete => bootstrapComplete'
                        BY <1>c, <1>d, <4>1, Zenon DEF PassGates
                  <4>4. PassGates'
                        BY <1>c, <3>1, <4>1, <4>3 DEF PassGates, Claimed, Accepted
                  <4> QED BY <4>2, <4>4 DEF CalmState
            <3> QED BY <2>1, <3>3, <3>4, <3>5 DEF claimWritePlane
      <2>2. CASE enforceRegionGates
            <3>1. UNCHANGED <<phase, jobRef, why, forced, job>> /\ pass.pc = "gate"
                  BY <2>2 DEF enforceRegionGates
            <3>2. PICK o \in Ops : o = pass.op
                  BY <3>1, <1>o
            <3>3. /\ pass'.pc = (IF GateReason = "" THEN "pause" ELSE "fail") /\ Same
                  BY <2>2, <1>i DEF enforceRegionGates, TypeOK, Passes
            <3>4. JobsRecorded'
                  BY <1>c, <1>d, <1>f, <3>1, <3>3 DEF JobsRecorded, Accepted
            <3>5. pass'.complete => bootstrapComplete'
                  BY <1>c, <1>d, <3>3, Zenon DEF PassGates
            <3>6. CASE GateReason = ""
                  <4>1. GateOpen(o)
                        BY <1>c, <3>2, <3>6 DEF GateReason, GateOpen, PassGates
                  <4>2. GateOpen(o)' /\ Accepted(o) /\ pass'.pc = "pause"
                        BY <4>1, <3>1, <3>2, <3>3, <3>6, <1>c, <1>d DEF PassGates, Claimed
                  <4>3. PassGates'
                        BY <3>2, <3>3, <3>5, <4>2 DEF PassGates, Claimed, Accepted
                  <4> QED BY <3>4, <4>3 DEF CalmState
            <3>7. CASE GateReason # ""
                  <4>1. ~jobRef[o]
                        BY <1>c, <3>1, <3>2, <3>7 DEF GateReason, PassGates, JobsRecorded, GateOpen
                  <4>2. PassGates'
                        BY <3>1, <3>2, <3>3, <3>5, <3>7, <4>1 DEF PassGates, Claimed
                  <4> QED BY <3>4, <4>2 DEF CalmState
            <3> QED BY <3>6, <3>7
      <2>3. CASE applyPreJobCNPGEffects
            <3>1. \/ pass'.pc = "idle" /\ pass'.complete = FALSE /\ ~pass'.stale
                  \/ pass'.pc \in {"await", "import"} /\ Same
                  BY <2>3, <1>g, <1>r DEF applyPreJobCNPGEffects, Steps
            <3> QED BY <2>3, <3>1, <1>f, <1>i, QuietCalm DEF applyPreJobCNPGEffects, Claimed
      <2>4. CASE applyImportProfile
            <3>1. \/ pass'.pc = "idle" /\ pass'.complete = FALSE /\ ~pass'.stale
                  \/ pass'.pc = "await" /\ Same
                  BY <2>4, <1>g, <1>r DEF applyImportProfile, Steps
            <3> QED BY <2>4, <3>1, <1>f, <1>i, QuietCalm DEF applyImportProfile, Claimed
      <2>5. CASE waitForJobPrerequisites
            <3>1. \/ pass'.pc = "idle" /\ pass'.complete = FALSE /\ ~pass'.stale
                  \/ pass'.pc = "job" /\ Same
                  BY <2>5, <1>g, <1>r DEF waitForJobPrerequisites, Steps
            <3> QED BY <2>5, <3>1, <1>f, <1>i, QuietCalm DEF waitForJobPrerequisites, Claimed
      <2>6. CASE ensureJob
            <3>1. pass'.pc = "sync" /\ Same /\ pass.pc = "job"
                  BY <2>6, <1>g DEF ensureJob, Steps
            <3>2. PICK o \in Ops : o = pass.op
                  BY <3>1, <1>o
            <3>3. UNCHANGED <<phase, jobRef, why, forced>> /\ \A p \in Ops \ {o} : job'[p] = job[p]
                  BY <2>6, <3>2, <1>i DEF ensureJob, TypeOK
            <3>4. JobsRecorded'
                  BY <1>c, <1>d, <1>f, <3>1, <3>2, <3>3 DEF JobsRecorded, Accepted
            <3>5. pass'.complete => bootstrapComplete'
                  BY <1>c, <1>d, <3>1, Zenon DEF PassGates
            <3>6. Accepted(o) /\ GateOpen(o)'
                  BY <1>c, <1>d, <3>1, <3>2 DEF PassGates, Claimed
            <3>7. PassGates'
                  BY <3>1, <3>2, <3>5, <3>6 DEF PassGates, Claimed, Accepted
            <3> QED BY <3>4, <3>7 DEF CalmState
      <2>7. CASE syncStatusFromJob
            <3>1. pass.pc \in {"sync", "resync"} /\ UNCHANGED job
                  BY <2>7 DEF syncStatusFromJob
            <3>2. PICK o \in Ops : o = pass.op
                  BY <3>1, <1>o
            <3>3. pass'.pc = "ref" /\ Same
                  BY <2>7, <1>f, <1>g DEF syncStatusFromJob, Steps
            <3>4. pass'.complete => bootstrapComplete'
                  BY <1>c, <1>d, <3>3, Zenon DEF PassGates
            <3>5. PassGates'
                  BY <3>3, <3>4 DEF PassGates, Claimed
            <3>6. CASE ~job[o].exists
                  <4>1. UNCHANGED <<phase, jobRef, why, forced>>
                        BY <2>7, <3>2, <3>6 DEF syncStatusFromJob
                  <4>2. JobsRecorded'
                        BY <1>c, <1>d, <1>f, <3>1, <3>2, <3>3, <3>6, <4>1 DEF JobsRecorded, Accepted
                  <4> QED BY <3>5, <4>2 DEF CalmState
            <3>7. CASE job[o].exists
                  <4>1. /\ jobRef' = [jobRef EXCEPT ![o] = TRUE]
                        /\ why' = [why EXCEPT ![o] = ""] /\ forced' = forced
                        /\ \E ph : phase' = [phase EXCEPT ![o] = ph]
                        BY <2>7, <3>2, <3>7, <1>f DEF syncStatusFromJob
                  <4>2. /\ jobRef'[o] = TRUE /\ why'[o] = ""
                        /\ \A p \in Ops \ {o} : /\ jobRef'[p] = jobRef[p]
                                                /\ why'[p] = why[p] /\ phase'[p] = phase[p]
                        BY <4>1, <1>i DEF TypeOK
                  <4>3. Accepted(o) /\ GateOpen(o)
                        BY <1>c, <1>i, <3>1, <3>2 DEF PassGates, JobsRecorded, Claimed, MutexInv, PassKnows
                  <4>4. JobsRecorded'
                        <5>1. parent' = "live" /\ forced' = {} /\ ~pass'.stale
                              BY <1>c, <1>f, <3>3, <4>1 DEF JobsRecorded
                        <5>2. \A p \in Ops : job'[p].exists => jobRef'[p]
                              BY <1>c, <3>1, <3>2, <4>2 DEF JobsRecorded
                        <5>3. \A p \in Ops : jobRef'[p] => Accepted(p) /\ GateOpen(p)'
                              BY <1>c, <1>d, <4>2, <4>3 DEF JobsRecorded
                        <5>4. \A p \in Ops : why'[p] = "Conflict" =>
                                isTerminalOperationPhase(phase'[p]) /\ ~jobRef'[p]
                              BY <1>c, <4>2 DEF JobsRecorded
                        <5> QED BY <1>d, <5>1, <5>2, <5>3, <5>4 DEF JobsRecorded, Accepted
                  <4> QED BY <3>5, <4>4 DEF CalmState
            <3> QED BY <3>6, <3>7
      <2>8. CASE failOperation
            <3>1. pass.pc = "fail" /\ UNCHANGED <<jobRef, job>>
                  BY <2>8 DEF failOperation
            <3>2. PICK o \in Ops : o = pass.op
                  BY <3>1, <1>o
            <3>3. pass'.pc = "ref" /\ Same
                  BY <2>8, <1>f, <1>g DEF failOperation, Steps
            <3>4. pass'.complete => bootstrapComplete'
                  BY <1>c, <1>d, <3>3, Zenon DEF PassGates
            <3>5. PassGates'
                  BY <3>3, <3>4 DEF PassGates, Claimed
            <3>6. ~jobRef[o]
                  BY <1>c, <3>1, <3>2 DEF PassGates
            <3>7. /\ phase' = [phase EXCEPT ![o] = "Failed"] /\ forced' = forced
                  /\ why' = [why EXCEPT ![o] = pass.reason]
                  BY <2>8, <1>f, <3>2, <3>6 DEF failOperation
            <3>8. /\ phase'[o] = "Failed"
                  /\ \A p \in Ops \ {o} : why'[p] = why[p] /\ phase'[p] = phase[p]
                  BY <3>7, <1>i DEF TypeOK
            <3>9. JobsRecorded'
                  BY <1>c, <1>d, <1>f, <3>1, <3>2, <3>3, <3>6, <3>7, <3>8
                     DEF JobsRecorded, Accepted, isTerminalOperationPhase, TerminalPhases
            <3> QED BY <3>5, <3>9 DEF CalmState
      <2>9. CASE syncParentSideEffects
            <3>1. \/ pass'.pc = "idle" /\ pass'.complete = FALSE /\ ~pass'.stale
                  \/ pass'.pc = "resume" /\ Same
                  BY <2>9, <1>g, <1>r DEF syncParentSideEffects, Steps
            <3> QED BY <2>9, <3>1, <1>f, <1>i, QuietCalm DEF syncParentSideEffects
      <2>10. CASE deleteUnref
            <3>1. pass'.pc = "resume" /\ Same
                  BY <2>10, <1>g DEF deleteUnref, Steps
            <3> QED BY <2>10, <3>1, <1>f, <1>i, QuietCalm DEF deleteUnref
      <2>11. CASE applyTerminalCNPGEffects
            <3>1. \/ pass'.pc = "idle" /\ pass'.complete = FALSE /\ ~pass'.stale
                  \/ pass'.pc \in {"runtime", "finalize"} /\ Same
                  BY <2>11, <1>a, <1>g, <1>r DEF applyTerminalCNPGEffects, Steps
            <3> QED BY <2>11, <3>1, <1>f, <1>i, QuietCalm DEF applyTerminalCNPGEffects
      <2>12. CASE applyRuntimeProfile
            <3>1. \/ pass'.pc = "idle" /\ pass'.complete = FALSE /\ ~pass'.stale
                  \/ pass'.pc = "finalize" /\ Same
                  BY <2>12, <1>a, <1>r DEF applyRuntimeProfile
            <3> QED BY <2>12, <3>1, <1>f, <1>i, QuietCalm DEF applyRuntimeProfile
      <2> QED BY <1>2, <2>1, <2>2, <2>3, <2>4, <2>5, <2>6, <2>7, <2>8, <2>9,
                 <2>10, <2>11, <2>12, CalmStep DEF PassStep, CalmInv
<1>q. ASSUME UNCHANGED <<phase, jobRef, why, forced, pass>>,
             \A o \in Ops : job'[o].exists => job[o].exists
      PROVE  CalmState'
      BY <1>q, <1>f, <1>i, QuietCalm
<1>4. ASSUME NEW o \in Ops, CreateOperation(o) PROVE CalmState'
      BY <1>4, <1>q DEF CreateOperation
<1>5. ASSUME NEW o \in Ops, DeleteJob(o) \/ JobStep(o) PROVE CalmState'
      <2>1. UNCHANGED <<phase, jobRef, why, forced, pass>>
            BY <1>5 DEF DeleteJob, JobStep, StartPod, FailPod, FinishPod, CollectJob
      <2>2. \A p \in Ops : job'[p].exists => job[p].exists
            BY <1>5, <1>i DEF DeleteJob, JobStep, StartPod, FailPod, FinishPod, CollectJob,
                              NoJob, JobWith, TypeOK
      <2> QED BY <2>1, <2>2, <1>q
<1>6. ~DeleteInstance
      BY <1>c DEF DeleteInstance
<1>7. CASE DeleteCluster \/ ClusterBecomesReady \/ UNCHANGED vars
      BY <1>7, <1>q DEF DeleteCluster, ClusterBecomesReady, vars
<1>8. ASSUME NEW i \in Impacts, EditPolicy(i) PROVE CalmState'
      BY <1>8, <1>q DEF EditPolicy
<1>9. CASE InstanceStep
      <2>1. ~drainChildOperations /\ ~deleteOwnedCNPGResources /\ ~removeInstanceFinalizer
            BY <1>c DEF JobsRecorded, drainChildOperations, deleteOwnedCNPGResources,
                        removeInstanceFinalizer
      <2> QED BY <1>9, <2>1, <1>q DEF InstanceStep, reconcileDatabase, observeBootstrap
<1> QED BY <1>1, <1>2, <1>4, <1>5, <1>6, <1>7, <1>8, <1>9, CalmStep DEF Next, CalmInv

LEMMA CalmInvariant == Spec => []CalmInv
<1>1. Init => CalmInv
      <2> SUFFICES ASSUME Init PROVE CalmInv
          OBVIOUS
      <2>1. pass.pc = "idle" /\ pass.complete = FALSE /\ pass.stale = FALSE
            BY DEF Init, IdlePass
      <2>2. \A o \in Ops : /\ job[o].exists = FALSE /\ job[o].active = 0 /\ jobRef[o] = FALSE
                           /\ why[o] = "" /\ life[o] = "new"
            BY DEF Init, NoJob
      <2>3. JobsRecorded /\ PassGates /\ PodsBounded
            <3>1. parent = "live" /\ forced = {}
                  BY DEF Init
            <3>2. JobsRecorded
                  BY <2>1, <2>2, <3>1 DEF JobsRecorded
            <3>3. PassGates
                  BY <2>1 DEF PassGates, Claimed
            <3>4. PodsBounded
                  <4>1. NoJob.active = 0 /\ \A o \in Ops : job[o] = NoJob
                        BY DEF Init, NoJob
                  <4>2. ~(NoJob.active > 0)
                        BY <4>1
                  <4> QED BY <4>1, <4>2, Zenon DEF PodsBounded
            <3> QED BY <3>2, <3>3, <3>4
      <2> QED BY <2>3, InitRefsInv, InitStatusInv DEF CalmInv
<1> QED BY <1>1, CalmInvStep, PTL DEF Spec

\* Every Job that has a running first pod belongs to a holder, or to the pass
\* that has claimed and is about to record it.
LEMMA FirstPodHolds ==
  ASSUME CalmInv, Calm, NEW o \in Ops, Writing(o), job[o].failed = 0
  PROVE  Holds(o) \/ (pass.op = o /\ pass.pc = "sync")
<1>1. JobsRecorded /\ MutexInv /\ job[o].exists /\ job[o].succeeded = 0
      BY DEF CalmInv, RefsInv, PodsBounded, Writing
<1>2. CASE jobRef[o]
      <2>1. ~isTerminalOperationPhase(phase[o])
            BY <1>1, <1>2 DEF MutexInv, TerminalIsSettled, Settled, JobsRecorded
      <2>2. isActiveOperationPhase(phase[o])
            BY <1>1, <2>1 DEF MutexInv, TypeOK, Phases, isTerminalOperationPhase, isActiveOperationPhase
      <2>3. life[o] = "live"
            BY <1>1, <1>2 DEF MutexInv, LifeAgrees, JobsRecorded
      <2> QED BY <1>2, <2>2, <2>3 DEF Holds, Exists, peerHoldsWritePlane
<1> QED BY <1>1, <1>2 DEF JobsRecorded

\* Until a call has failed or an Operation was deleted, the first pods of two
\* conflicting Operations never write to the database together, however often
\* the Jobs retry or are deleted, the policy is edited or the Cluster is lost.
\* It holds for every backoffLimit: a retried pod is what ends it, for the
\* phase of its Operation is Failed already (claimWritePlane, phaseFromJob).
THEOREM FirstPodsExclusive == Spec => []FirstPodMutex
<1>1. CalmInv => FirstPodMutex
      <2> SUFFICES ASSUME CalmInv, Calm, NEW a \in Ops, NEW b \in Ops,
                          operationsMutexConflict(a, b), job[a].failed = 0, job[b].failed = 0,
                          Writing(a), Writing(b)
                   PROVE  FALSE
          BY DEF FirstPodMutex
      <2>1. MutexInv /\ forced = {}
            BY DEF CalmInv, RefsInv, JobsRecorded
      <2>2. a # b /\ operationsMutexConflict(b, a)
            BY ConflictSymmetric DEF operationsMutexConflict
      <2>3. CASE Holds(a) /\ Holds(b)
            BY <2>1, <2>3 DEF MutexInv, StatusMutex
      <2>4. CASE pass.op = a /\ pass.pc = "sync"
            BY <2>1, <2>2, <2>4, FirstPodHolds DEF MutexInv, ClaimIsExclusive, Claimed
      <2>5. CASE pass.op = b /\ pass.pc = "sync"
            BY <2>1, <2>2, <2>5, FirstPodHolds DEF MutexInv, ClaimIsExclusive, Claimed
      <2> QED BY <2>3, <2>4, <2>5, FirstPodHolds
<1> QED BY <1>1, CalmInvariant, PTL

\* An Operation that lost the write plane to a holder has no Job, wherever no
\* call fails and nothing is deleted: the Conflict was decided before a Job
\* was created, and its terminal phase keeps a later pass from creating one.
THEOREM ConflictHasNoJobHolds ==
  ASSUME MaxFaults = 0, MaxDeletes = 0
  PROVE  Spec => []ConflictHasNoJob
<1>1. TypeOK /\ WithinBounds => Calm
      BY MaxFaults = 0, MaxDeletes = 0 DEF TypeOK, WithinBounds, Calm
<1>2. CalmInv /\ Calm => ConflictHasNoJob
      <2> SUFFICES ASSUME CalmInv, Calm, NEW o \in Ops, why[o] = "Conflict", job[o].exists PROVE FALSE
          BY DEF ConflictHasNoJob
      <2>1. isTerminalOperationPhase(phase[o]) /\ pass.op = o /\ pass.pc = "sync"
            BY DEF CalmInv, JobsRecorded
      <2>2. isActiveOperationPhase(phase[o])
            BY <2>1 DEF CalmInv, RefsInv, MutexInv, PassKnows, Claimed
      <2> QED BY <2>1, <2>2 DEF isTerminalOperationPhase, isActiveOperationPhase,
                                TerminalPhases, ActivePhases
<1> QED BY <1>1, <1>2, TypeCorrect, BoundsKept, CalmInvariant, PTL

=============================================================================
