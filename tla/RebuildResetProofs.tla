------------------------- MODULE RebuildResetProofs -------------------------
(* Machine-checked proofs about RebuildReset, for every set of Operations, *)
(* every assignment of types and every value of the bounds.                *)
EXTENDS RebuildReset, TLAPS

USE OpsAssumption, ResetAssumption

-----------------------------------------------------------------------------
(* Type correctness and the annotations.                                   *)

LEMMA UIDFacts ==
  /\ UIDs \subseteq Nat /\ Unset \in Nat /\ NoneUID \in Nat
  /\ Unset \notin UIDs /\ NoneUID \notin UIDs /\ Unset # NoneUID
  /\ 2 \in UIDs
  /\ \A u \in UIDs : u <= MaxUID => u + 1 \in UIDs
BY DEF UIDs, Unset, NoneUID

\* A counter below its bound may be incremented.
LEMMA WithinBounds ==
  ASSUME NEW n \in Nat, NEW k \in 0..n, k < n
  PROVE  k + 1 \in 0..n
OBVIOUS

LEMMA RecordsTyped ==
  /\ Idle \in Passes /\ Idle.pc = "idle" /\ Idle.op = NoOp /\ Idle.uid = Unset
  /\ InstIdle \in InstPasses
  /\ NoDB \in Databases /\ NoDB.uid = Unset /\ ~NoDB.applied /\ ~NoDB.terminating
BY DEF Idle, Passes, Steps, InstIdle, InstPasses, NoDB, Databases

\* The steps of a pass.
LEMMA PassSteps ==
  ASSUME TypeOK
  PROVE  /\ Return => pass'.pc = "idle" /\ pass'.op = NoOp /\ pass'.uid = Unset
         /\ \A s : Goto(s) => pass'.pc = s /\ pass'.op = pass.op /\ pass'.uid = pass.uid
BY RecordsTyped DEF Return, Goto, TypeOK, Passes

\* JobPhase yields a phase, Running for a Job that runs.
LEMMA JobPhaseFacts ==
  ASSUME NEW j
  PROVE  /\ JobPhase(j) \in Phases
         /\ j = "running" => JobPhase(j) = "Running"
BY DEF JobPhase, Phases, ActivePhases, TerminalPhases

LEMMA HandshakeInit == Init => HandshakeInv
<1> SUFFICES ASSUME Init PROVE HandshakeInv
    OBVIOUS
<1>1. TypeOK
  <2>1. pass \in Passes
        BY RecordsTyped DEF Init
  <2>2. inst \in InstPasses
        BY RecordsTyped DEF Init
  <2>3. db \in Databases
        BY UIDFacts DEF Init, Databases
  <2>4. phase \in [Ops -> Phases]
        BY DEF Init, Phases, ActivePhases
  <2>5. /\ refs \subseteq Ops /\ lastUID \in UIDs /\ faults \in 0..MaxFaults /\ deletes \in 0..MaxDeletes
        /\ preempted \in BOOLEAN
    <3>1. 0 \in 0..MaxFaults /\ 0 \in 0..MaxDeletes
          OBVIOUS
    <3> QED BY <3>1, UIDFacts, Zenon DEF Init
  <2>6. /\ life \in [Ops -> {"new", "live", "gone"}] /\ jobRef \in [Ops -> BOOLEAN]
        /\ job \in [Ops -> {"none", "running", "succeeded", "failed"}]
        /\ reset \in [Ops -> {"", "pending", "done"}]
        /\ prevUID \in [Ops -> UIDs \union {Unset, NoneUID}]
        BY DEF Init
  <2> QED BY <2>1, <2>2, <2>3, <2>4, <2>5, <2>6, Zenon DEF Init, TypeOK
<1>2. pass.pc = "idle"
      BY DEF Init, Idle
<1> QED BY <1>1, <1>2 DEF Init, HandshakeInv, ResetInv, PassInv

\* The type invariant is kept by every step.
LEMMA TypeStep == HandshakeInv /\ [Next]_vars => TypeOK'
<1> SUFFICES ASSUME HandshakeInv, [Next]_vars PROVE TypeOK'
    OBVIOUS
<1>t. TypeOK
      BY DEF HandshakeInv, ResetInv
<1>p. pass.pc # "idle" => pass.op \in Ops
      BY DEF HandshakeInv, PassInv
<1>u. pass.pc = "annotate" => pass.uid \in UIDs
      BY DEF HandshakeInv, PassInv
<1> USE <1>t DEF opVars, dbVars, apiVars, bounds
<1>r. Return => pass' \in Passes
      BY RecordsTyped DEF Return
<1>g. ASSUME NEW s \in {"ready", "quiesce", "reset", "annotate", "job", "sync"}, Goto(s)
      PROVE  pass' \in Passes
      BY <1>g DEF Goto, TypeOK, Passes, Steps
<1>a. ASSUME NEW v \in {"pending", "done"}, NEW u \in UIDs \union {NoneUID, Unset}, Annotate(v, u)
      PROVE  /\ reset' \in [Ops -> {"", "pending", "done"}]
             /\ prevUID' \in [Ops -> UIDs \union {Unset, NoneUID}]
      BY <1>a DEF Annotate, TypeOK
<1>c. CreateDatabase => /\ db' \in Databases
                        /\ lastUID' \in UIDs
  <2>0. lastUID \in UIDs
        BY DEF TypeOK
  <2>1. CreateDatabase => lastUID + 1 \in UIDs
        BY <2>0, UIDFacts DEF CreateDatabase
  <2> QED BY <2>1 DEF CreateDatabase, Databases
<1>f. faults < MaxFaults => faults + 1 \in 0..MaxFaults
  <2>1. faults \in 0..MaxFaults
        BY DEF TypeOK
  <2> QED BY <2>1, WithinBounds
<1>d. deletes < MaxDeletes => deletes + 1 \in 0..MaxDeletes
  <2>1. deletes \in 0..MaxDeletes
        BY DEF TypeOK
  <2> QED BY <2>1, WithinBounds
<1>1. ASSUME NEW o \in Ops, StartPass(o) PROVE TypeOK'
      <2>1. pass' \in Passes
            BY <1>1 DEF StartPass, Passes, Steps
      <2> QED BY <1>1, <2>1 DEF StartPass, TypeOK
<1>2. ASSUME NEW o \in Ops, CreateOperation(o) PROVE TypeOK'
      BY <1>2 DEF CreateOperation, TypeOK
<1>3. ASSUME NEW o \in Ops, DeleteOperation(o) PROVE TypeOK'
      <2>1. deletes' \in 0..MaxDeletes /\ faults' \in 0..MaxFaults
            BY <1>3, <1>d DEF DeleteOperation, TypeOK
      <2> QED BY <1>3, <2>1 DEF DeleteOperation, TypeOK
<1>4. ASSUME NEW o \in Ops, EndJob(o) PROVE TypeOK'
      BY <1>4 DEF EndJob, TypeOK
<1>5. CASE claimWritePlane
  <2>1. pass.op \in Ops /\ preempted' \in BOOLEAN
        BY <1>5, <1>p DEF claimWritePlane, TypeOK
  <2>2. phase' \in [Ops -> Phases] /\ refs' \subseteq Ops /\ pass' \in Passes
    <3>1. CASE /\ phase' = [phase EXCEPT ![pass.op] = "Failed"]
               /\ refs' = refs \ {pass.op} /\ Return
          BY <3>1, <1>r DEF TypeOK, Phases, TerminalPhases
    <3>2. CASE Return /\ UNCHANGED <<phase, refs>>
          BY <3>2, <1>r DEF TypeOK
    <3>3. CASE /\ refs' = refs \union {pass.op}
               /\ Goto(IF OpType[pass.op] = "Rebuild" THEN "quiesce" ELSE "ready")
               /\ UNCHANGED phase
      <4>1. pass' \in Passes
            BY <3>3, <1>g
      <4> QED BY <3>3, <4>1, <2>1 DEF TypeOK
    <3> QED BY <1>5, <3>1, <3>2, <3>3 DEF claimWritePlane
  <2> QED BY <1>5, <2>2 DEF claimWritePlane, TypeOK
<1>6. CASE apiQuiescedForRebuild
      <2>1. pass' \in Passes
            BY <1>6, <1>r, <1>g DEF apiQuiescedForRebuild
      <2>2. apiWant' \in BOOLEAN
            BY <1>6 DEF apiQuiescedForRebuild, TypeOK
      <2> QED BY <1>6, <2>1, <2>2 DEF apiQuiescedForRebuild, TypeOK
<1>7. CASE ensureRebuildDatabaseReset
  <2>1. pass' \in Passes
    <3>1. CASE pass' = [pass EXCEPT !.pc = "delete", !.uid = db.uid]
          BY <3>1 DEF TypeOK, Passes, Steps, Databases
    <3> QED BY <1>7, <3>1, <1>r, <1>g DEF ensureRebuildDatabaseReset
  <2>2. /\ reset' \in [Ops -> {"", "pending", "done"}]
        /\ prevUID' \in [Ops -> UIDs \union {Unset, NoneUID}]
    <3>1. pass.op \in Ops /\ prevUID[pass.op] \in UIDs \union {NoneUID, Unset}
          BY <1>7, <1>p DEF ensureRebuildDatabaseReset, TypeOK
    <3> QED BY <1>7, <3>1, <1>a DEF ensureRebuildDatabaseReset, TypeOK
  <2>3. /\ db' \in Databases
        /\ lastUID' \in UIDs
        BY <1>7, <1>c DEF ensureRebuildDatabaseReset, TypeOK
  <2> QED BY <1>7, <2>1, <2>2, <2>3 DEF ensureRebuildDatabaseReset, TypeOK
<1>8. CASE deleteDatabase
      <2>1. pass' \in Passes
            BY <1>8, <1>g DEF deleteDatabase
      <2> QED BY <1>8, <2>1 DEF deleteDatabase, TypeOK, Databases
<1>9. CASE annotatePending
  <2>1. pass.op \in Ops /\ pass.uid \in UIDs
        BY <1>9, <1>p, <1>u DEF annotatePending
  <2> QED BY <1>9, <2>1, <1>a, <1>r DEF annotatePending, TypeOK
<1>10. CASE cnpgClusterReadyForJobs
       <2>1. pass' \in Passes
             BY <1>10, <1>r, <1>g DEF cnpgClusterReadyForJobs
       <2> QED BY <1>10, <2>1 DEF cnpgClusterReadyForJobs, TypeOK
<1>11. CASE ensureJob
       <2>1. pass' \in Passes
             BY <1>11, <1>g DEF ensureJob
       <2> QED BY <1>11, <2>1, <1>p DEF ensureJob, TypeOK
<1>12. CASE syncStatusFromJob
       <2>1. pass.op \in Ops
             BY <1>12, <1>p DEF syncStatusFromJob
       <2>0. phase \in [Ops -> Phases] /\ jobRef \in [Ops -> BOOLEAN] /\ refs \subseteq Ops
             BY DEF TypeOK
       <2>2. phase' \in [Ops -> Phases]
             BY <1>12, <2>0, JobPhaseFacts DEF syncStatusFromJob
       <2>3. jobRef' \in [Ops -> BOOLEAN] /\ refs' \subseteq Ops
             BY <1>12, <2>0 DEF syncStatusFromJob
       <2> QED BY <1>12, <2>2, <2>3, <1>r DEF syncStatusFromJob, TypeOK
<1>13. CASE FailCall
       <2>1. faults' \in 0..MaxFaults /\ deletes' \in 0..MaxDeletes
             BY <1>13, <1>f DEF FailCall, TypeOK
       <2> QED BY <1>13, <2>1, <1>r DEF FailCall, TypeOK
<1>14. CASE instStart
       <2>1. hasPendingRebuildDatabaseReset \in BOOLEAN
             BY Zenon DEF hasPendingRebuildDatabaseReset
       <2> QED BY <1>14, <2>1 DEF instStart, TypeOK, InstPasses
<1>15. CASE reconcileOwnedCNPGDatabase
       BY <1>15, <1>c DEF reconcileOwnedCNPGDatabase, TypeOK, InstPasses
<1>16. CASE shouldSuspendAPI
       <2>1. (\E o \in refs \intersect Live : OpType[o] = "Rebuild") \in BOOLEAN
             OBVIOUS
       <2> QED BY <1>16, <2>1 DEF shouldSuspendAPI, TypeOK, InstPasses
<1>17. CASE reconcileAPI
       BY <1>17, RecordsTyped DEF reconcileAPI, TypeOK
<1>18. CASE DropDatabase
       BY <1>18, RecordsTyped DEF DropDatabase, TypeOK
<1>19. CASE ApplyDatabase
       BY <1>19 DEF ApplyDatabase, TypeOK, Databases
<1>20. CASE ScalePods
       BY <1>20 DEF ScalePods, TypeOK
<1>21. CASE UNCHANGED vars
       BY <1>21 DEF vars, TypeOK
<1> QED BY <1>1, <1>2, <1>3, <1>4, <1>5, <1>6, <1>7, <1>8, <1>9, <1>10, <1>11, <1>12,
           <1>13, <1>14, <1>15, <1>16, <1>17, <1>18, <1>19, <1>20, <1>21
        DEF Next, PassStep, InstanceStep

\* A step that leaves the Operations, the Database and the pass alone.
Quiet == UNCHANGED <<opVars, dbVars, pass, bounds>>

\* The steps that are not quiet.
LEMMA Actions ==
  [Next]_vars =>
    \/ \E o \in Ops : StartPass(o) \/ CreateOperation(o) \/ DeleteOperation(o) \/ EndJob(o)
    \/ claimWritePlane \/ apiQuiescedForRebuild \/ ensureRebuildDatabaseReset
    \/ deleteDatabase \/ annotatePending \/ cnpgClusterReadyForJobs
    \/ ensureJob \/ syncStatusFromJob \/ FailCall
    \/ reconcileOwnedCNPGDatabase \/ DropDatabase \/ ApplyDatabase \/ Quiet
<1>1. instStart => Quiet
      BY DEF instStart, Quiet
<1>2. shouldSuspendAPI => Quiet
      BY DEF shouldSuspendAPI, Quiet
<1>3. reconcileAPI => Quiet
      BY DEF reconcileAPI, Quiet
<1>4. ScalePods => Quiet
      BY DEF ScalePods, Quiet
<1>5. UNCHANGED vars => Quiet
      BY DEF vars, Quiet, opVars, dbVars, bounds
<1> QED BY <1>1, <1>2, <1>3, <1>4, <1>5 DEF Next, PassStep, InstanceStep

\* The annotations only change in these two ways.
LEMMA AnnotateFacts ==
  ASSUME TypeOK, pass.op \in Ops, life[pass.op] = "live", NEW v, NEW u, Annotate(v, u),
         NEW o \in Ops
  PROVE  /\ reset'[o] = IF o = pass.op THEN v ELSE reset[o]
         /\ prevUID'[o] = IF o = pass.op THEN u ELSE prevUID[o]
BY DEF Annotate, TypeOK

\* The annotations agree and a Rebuild has no Job before its reset is done.
LEMMA AnnotationsStep ==
  HandshakeInv /\ [Next]_vars =>
    /\ \A o \in Ops : (reset'[o] = "") <=> (prevUID'[o] = Unset)
    /\ \A o \in Ops : OpType[o] = "Rebuild" /\ job'[o] # "none" => reset'[o] = "done"
<1> SUFFICES ASSUME HandshakeInv, [Next]_vars, NEW o \in Ops
             PROVE  /\ (reset'[o] = "") <=> (prevUID'[o] = Unset)
                    /\ OpType[o] = "Rebuild" /\ job'[o] # "none" => reset'[o] = "done"
    OBVIOUS
<1>t. TypeOK
      BY DEF HandshakeInv, ResetInv
<1>i. /\ (reset[o] = "") <=> (prevUID[o] = Unset)
      /\ OpType[o] = "Rebuild" /\ job[o] # "none" => reset[o] = "done"
      BY DEF HandshakeInv, ResetInv
<1>p. PassInv
      BY DEF HandshakeInv
<1>1. CASE UNCHANGED <<reset, prevUID, job>>
      BY <1>1, <1>i
<1>2. ASSUME NEW x \in Ops, DeleteOperation(x) PROVE UNCHANGED <<reset, prevUID>> /\ (job'[o] # "none" => job[o] # "none")
      BY <1>2, <1>t DEF DeleteOperation, TypeOK
<1>3. ASSUME NEW x \in Ops, EndJob(x) PROVE UNCHANGED <<reset, prevUID>> /\ (job'[o] # "none" => job[o] # "none")
      BY <1>3, <1>t DEF EndJob, TypeOK
<1>4. CASE ensureJob
  <2>1. UNCHANGED <<reset, prevUID>> /\ (job'[o] # "none" => job[o] # "none" \/ o = pass.op)
        BY <1>4, <1>t DEF ensureJob, TypeOK
  <2>2. OpType[pass.op] = "Rebuild" => reset[pass.op] = "done"
        BY <1>4, <1>p DEF ensureJob, PassInv
  <2> QED BY <2>1, <2>2, <1>i
<1>5. CASE annotatePending
  <2>1. /\ pass.op \in Ops /\ life[pass.op] = "live" /\ pass.uid # Unset
        /\ reset[pass.op] # "done" /\ OpType[pass.op] = "Rebuild"
        BY <1>5, <1>p, UIDFacts DEF annotatePending, PassInv
  <2>2. /\ reset'[o] = IF o = pass.op THEN "pending" ELSE reset[o]
        /\ prevUID'[o] = IF o = pass.op THEN pass.uid ELSE prevUID[o]
        BY <1>5, <2>1, <1>t, AnnotateFacts DEF annotatePending
  <2>3. job' = job
        BY <1>5 DEF annotatePending
  <2> QED BY <2>1, <2>2, <2>3, <1>i
<1>6. CASE ensureRebuildDatabaseReset
  <2>1. /\ pass.op \in Ops /\ life[pass.op] = "live"
        /\ reset[pass.op] # "done" /\ OpType[pass.op] = "Rebuild"
        BY <1>6, <1>p DEF ensureRebuildDatabaseReset, PassInv
  <2>2. job' = job
        BY <1>6 DEF ensureRebuildDatabaseReset
  <2>3. CASE Annotate("pending", NoneUID)
    <3>1. /\ reset'[o] = IF o = pass.op THEN "pending" ELSE reset[o]
          /\ prevUID'[o] = IF o = pass.op THEN NoneUID ELSE prevUID[o]
          BY <2>1, <2>3, <1>t, AnnotateFacts
    <3> QED BY <2>1, <2>2, <3>1, <1>i, UIDFacts
  <2>4. CASE prevUID[pass.op] # Unset /\ Annotate("done", prevUID[pass.op])
    <3>1. /\ reset'[o] = IF o = pass.op THEN "done" ELSE reset[o]
          /\ prevUID'[o] = prevUID[o]
          BY <2>1, <2>4, <1>t, AnnotateFacts
    <3> QED BY <2>1, <2>2, <2>4, <3>1, <1>i
  <2>5. CASE UNCHANGED <<reset, prevUID>>
        BY <2>2, <2>5, <1>i
  <2> QED BY <1>6, <2>3, <2>4, <2>5 DEF ensureRebuildDatabaseReset
<1>7. UNCHANGED <<reset, prevUID, job>> \/ ensureJob \/ annotatePending \/ ensureRebuildDatabaseReset
      \/ (\E x \in Ops : DeleteOperation(x) \/ EndJob(x))
      BY Actions DEF StartPass, CreateOperation, claimWritePlane, apiQuiescedForRebuild, deleteDatabase,
         cnpgClusterReadyForJobs, syncStatusFromJob, FailCall, reconcileOwnedCNPGDatabase,
         DropDatabase, ApplyDatabase, Quiet, opVars
<1> QED BY <1>1, <1>2, <1>3, <1>4, <1>5, <1>6, <1>7, <1>i

\* What a pass relies on stays true while it runs: only the pass itself changes
\* the annotations, and its Operation is not deleted under it.
LEMMA PassInvStep == HandshakeInv /\ [Next]_vars => PassInv'
<1> SUFFICES ASSUME HandshakeInv, [Next]_vars PROVE PassInv'
    OBVIOUS
<1>t. TypeOK
      BY DEF HandshakeInv, ResetInv
<1>p. PassInv
      BY DEF HandshakeInv
<1>i. \A o \in Ops : (reset[o] = "") <=> (prevUID[o] = Unset)
      BY DEF HandshakeInv, ResetInv
<1>r. ASSUME pass'.pc = "idle" PROVE PassInv'
      BY <1>r DEF PassInv
<1>n. ASSUME Return PROVE PassInv'
      BY <1>n, <1>t, <1>r, PassSteps
<1>1. ASSUME NEW o \in Ops, StartPass(o) PROVE PassInv'
      <2>1. pass'.pc = "claim" /\ pass'.op = o /\ life'[o] = "live" /\ isActiveOperationPhase(phase'[o])
            BY <1>1, <1>t DEF StartPass, opVars, TypeOK, Phases, isTerminalOperationPhase, isActiveOperationPhase
      <2> QED BY <2>1 DEF PassInv
<1>2. ASSUME NEW o \in Ops, CreateOperation(o) PROVE PassInv'
      <2>1. pass' = pass /\ reset' = reset /\ prevUID' = prevUID /\ job' = job /\ phase' = phase
            BY <1>2 DEF CreateOperation
      <2>2. pass.pc # "idle" => life'[pass.op] = "live"
            BY <1>2, <1>p, <1>t DEF CreateOperation, PassInv, TypeOK
      <2> QED BY <2>1, <2>2, <1>p DEF PassInv
<1>3. ASSUME NEW o \in Ops, DeleteOperation(o) PROVE PassInv'
      BY <1>3, <1>r DEF DeleteOperation
<1>4. ASSUME NEW o \in Ops, EndJob(o) PROVE PassInv'
      <2>1. pass' = pass /\ reset' = reset /\ prevUID' = prevUID /\ life' = life /\ phase' = phase
            BY <1>4 DEF EndJob
      <2>2. pass.pc = "sync" => job'[pass.op] # "none"
            BY <1>4, <1>p, <1>t DEF EndJob, PassInv, TypeOK
      <2> QED BY <2>1, <2>2, <1>p DEF PassInv
<1>5. CASE claimWritePlane
  <2>1. CASE Goto(IF OpType[pass.op] = "Rebuild" THEN "quiesce" ELSE "ready") /\ UNCHANGED phase
    <3>1. /\ pass'.pc = IF OpType[pass.op] = "Rebuild" THEN "quiesce" ELSE "ready"
          /\ pass'.op = pass.op
          BY <2>1, <1>t, PassSteps
    <3>2. /\ life' = life /\ pass.op \in Ops /\ life[pass.op] = "live"
          /\ phase' = phase /\ isActiveOperationPhase(phase[pass.op])
          BY <1>5, <2>1, <1>p DEF claimWritePlane, PassInv
    <3> QED BY <3>1, <3>2 DEF PassInv
  <2> QED BY <1>5, <2>1, <1>n DEF claimWritePlane
<1>6. CASE apiQuiescedForRebuild
  <2>1. /\ life' = life /\ reset' = reset /\ pass.op \in Ops /\ life[pass.op] = "live"
        /\ phase' = phase /\ isActiveOperationPhase(phase[pass.op])
        /\ OpType[pass.op] = "Rebuild"
        BY <1>6, <1>p DEF apiQuiescedForRebuild, PassInv, opVars
  <2>2. CASE reset[pass.op] = "done" /\ Goto("ready")
        <3>1. pass'.pc = "ready" /\ pass'.op = pass.op
              BY <2>2, <1>t, PassSteps
        <3> QED BY <2>1, <2>2, <3>1 DEF PassInv
  <2>3. CASE reset[pass.op] # "done" /\ Goto("reset")
        <3>1. pass'.pc = "reset" /\ pass'.op = pass.op
              BY <2>3, <1>t, PassSteps
        <3> QED BY <2>1, <2>3, <3>1 DEF PassInv
  <2> QED BY <1>6, <2>2, <2>3, <1>n DEF apiQuiescedForRebuild
<1>7. CASE ensureRebuildDatabaseReset
  <2>1. /\ life' = life /\ pass.op \in Ops /\ life[pass.op] = "live"
        /\ phase' = phase /\ isActiveOperationPhase(phase[pass.op])
        /\ OpType[pass.op] = "Rebuild" /\ reset[pass.op] # "done"
        BY <1>7, <1>p DEF ensureRebuildDatabaseReset, PassInv
  <2>2. CASE /\ prevUID[pass.op] = Unset /\ db.uid # Unset
             /\ pass' = [pass EXCEPT !.pc = "delete", !.uid = db.uid]
             /\ UNCHANGED <<reset, prevUID>>
    <3>1. db.uid \in UIDs
          BY <2>2, <1>t DEF TypeOK, Databases
    <3>2. pass'.pc = "delete" /\ pass'.op = pass.op /\ pass'.uid = db.uid
          BY <2>2, <1>t DEF TypeOK, Passes
    <3> QED BY <2>1, <2>2, <3>1, <3>2 DEF PassInv
  <2>3. CASE Goto("ready") /\ Annotate("done", prevUID[pass.op])
    <3>1. pass'.pc = "ready" /\ pass'.op = pass.op
          BY <2>3, <1>t, PassSteps
    <3>2. reset'[pass.op] = "done"
          BY <2>1, <2>3, <1>t, AnnotateFacts
    <3> QED BY <2>1, <3>1, <3>2 DEF PassInv
  <2> QED BY <1>7, <2>2, <2>3, <1>n DEF ensureRebuildDatabaseReset
<1>8. CASE deleteDatabase
  <2>1. pass'.pc = "annotate" /\ pass'.op = pass.op /\ pass'.uid = pass.uid
        BY <1>8, <1>t, PassSteps DEF deleteDatabase
  <2>2. /\ life' = life /\ phase' = phase /\ reset' = reset /\ prevUID' = prevUID
        /\ pass.pc = "delete"
        BY <1>8 DEF deleteDatabase, opVars
  <2> QED BY <2>1, <2>2, <1>p DEF PassInv
<1>9. CASE annotatePending
      BY <1>9, <1>n DEF annotatePending
<1>10. CASE cnpgClusterReadyForJobs
  <2>1. life' = life /\ phase' = phase /\ reset' = reset /\ pass.pc = "ready"
        BY <1>10 DEF cnpgClusterReadyForJobs, opVars
  <2>2. CASE Goto("job")
        <3>1. pass'.pc = "job" /\ pass'.op = pass.op
              BY <2>2, <1>t, PassSteps
        <3> QED BY <2>1, <3>1, <1>p DEF PassInv
  <2> QED BY <1>10, <2>2, <1>n DEF cnpgClusterReadyForJobs
<1>11. CASE ensureJob
  <2>1. life' = life /\ phase' = phase /\ reset' = reset /\ pass.pc = "job"
        BY <1>11 DEF ensureJob
  <2>2. pass'.pc = "sync" /\ pass'.op = pass.op
        BY <1>11, <1>t, PassSteps DEF ensureJob
  <2>3. job'[pass.op] # "none"
        BY <1>11, <1>p, <1>t DEF ensureJob, PassInv, TypeOK
  <2> QED BY <2>1, <2>2, <2>3, <1>p DEF PassInv
<1>12. CASE syncStatusFromJob
       BY <1>12, <1>n DEF syncStatusFromJob
<1>13. CASE FailCall
       BY <1>13, <1>n DEF FailCall
<1>14. CASE UNCHANGED <<life, phase, reset, prevUID, job, pass>>
       BY <1>14, <1>p DEF PassInv
<1>15. reconcileOwnedCNPGDatabase \/ DropDatabase \/ ApplyDatabase \/ Quiet
         => UNCHANGED <<life, phase, reset, prevUID, job, pass>>
       BY DEF reconcileOwnedCNPGDatabase, DropDatabase, ApplyDatabase, Quiet, opVars
<1> QED BY <1>1, <1>2, <1>3, <1>4, <1>5, <1>6, <1>7, <1>8, <1>9, <1>10, <1>11, <1>12,
           <1>13, <1>14, <1>15, Actions

\* HandshakeInv is inductive.
LEMMA HandshakeInvariant == Spec => []HandshakeInv
<1>1. HandshakeInv /\ [Next]_vars => HandshakeInv'
      BY TypeStep, AnnotationsStep, PassInvStep DEF HandshakeInv, ResetInv
<1> QED BY <1>1, HandshakeInit, PTL DEF Spec

(* The annotations carry the handshake of a Rebuild over failed calls,     *)
(* restarts and deletions: a reset is pending only with the UID it         *)
(* replaces, and no Rebuild has a Job before its reset is done.            *)
THEOREM ResetInvariant == Spec => []ResetInv
<1>1. HandshakeInv => ResetInv
      BY DEF HandshakeInv
<1> QED BY <1>1, HandshakeInvariant, PTL

-----------------------------------------------------------------------------
(* The write plane, as this model claims it.                               *)

\* A claim that is granted finds no listed conflicting holder, and waits for
\* every active one with a smaller name.
LEMMA ClaimOK ==
  ASSUME NEW o, evaluateWritePlane(o, Live, phase, jobRef) = "OK",
         NEW p \in Ops, life[p] = "live", operationsMutexConflict(o, p)
  PROVE  /\ ~peerHoldsWritePlane(phase[p], jobRef[p])
         /\ isActiveOperationPhase(phase[p]) => ~(p < o)
BY DEF evaluateWritePlane, peerHoldsWritePlane, Live

\* A claim is refused for a conflicting holder only.
LEMMA ClaimHold ==
  ASSUME NEW o, evaluateWritePlane(o, Live, phase, jobRef) = "Hold"
  PROVE  \E p \in Ops : /\ life[p] = "live" /\ operationsMutexConflict(o, p)
                        /\ peerHoldsWritePlane(phase[p], jobRef[p])
BY DEF evaluateWritePlane, peerHoldsWritePlane, Live

\* The pass gets past its claim by a granted claim only.
LEMMA NewPast ==
  ASSUME HandshakeInv, [Next]_vars, NEW o \in Ops, Past(o)'
  PROVE  \/ Past(o)
         \/ /\ claimWritePlane /\ pass.op = o /\ UNCHANGED <<life, phase, jobRef>>
            /\ evaluateWritePlane(o, Live, phase, jobRef) = "OK"
<1>t. TypeOK
      BY DEF HandshakeInv, ResetInv
<1>o. pass'.op = o /\ pass'.pc \notin {"idle", "claim"}
      BY DEF Past
<1>r. ~Return
      BY <1>o, <1>t, PassSteps
<1>1. CASE pass' = pass
      BY <1>1, <1>o DEF Past
<1>2. ASSUME NEW x \in Ops, StartPass(x) PROVE FALSE
      BY <1>2, <1>o DEF StartPass
<1>3. CASE claimWritePlane
      <2>1. /\ evaluateWritePlane(pass.op, Live, phase, jobRef) = "OK"
            /\ Goto(IF OpType[pass.op] = "Rebuild" THEN "quiesce" ELSE "ready")
            /\ UNCHANGED <<life, phase, jobRef>>
            BY <1>3, <1>r DEF claimWritePlane
      <2>2. pass.op = o
            BY <2>1, <1>o, <1>t, PassSteps
      <2> QED BY <1>3, <2>1, <2>2
<1>4. CASE pass.pc \notin {"idle", "claim"} /\ pass'.op = pass.op
      BY <1>4, <1>o DEF Past
<1>5. ASSUME NEW s, Goto(s) PROVE pass'.op = pass.op
      BY <1>5, <1>t, PassSteps
<1>6. ASSUME pass' = [pass EXCEPT !.pc = "delete", !.uid = db.uid] PROVE pass'.op = pass.op
      BY <1>6, <1>t DEF TypeOK, Passes
<1>7. CASE apiQuiescedForRebuild
      BY <1>7, <1>r, <1>4, <1>5 DEF apiQuiescedForRebuild
<1>8. CASE ensureRebuildDatabaseReset
      BY <1>8, <1>r, <1>4, <1>5, <1>6 DEF ensureRebuildDatabaseReset
<1>9. CASE deleteDatabase
      BY <1>9, <1>4, <1>5 DEF deleteDatabase
<1>10. CASE cnpgClusterReadyForJobs
       BY <1>10, <1>r, <1>4, <1>5 DEF cnpgClusterReadyForJobs
<1>11. CASE ensureJob
       BY <1>11, <1>4, <1>5 DEF ensureJob
<1>12. CASE annotatePending \/ syncStatusFromJob \/ FailCall
       BY <1>12, <1>r DEF annotatePending, syncStatusFromJob, FailCall
<1>13. (\E x \in Ops : CreateOperation(x) \/ DeleteOperation(x) \/ EndJob(x))
       \/ reconcileOwnedCNPGDatabase \/ DropDatabase \/ ApplyDatabase \/ Quiet => pass' = pass
       BY DEF CreateOperation, DeleteOperation, EndJob, reconcileOwnedCNPGDatabase,
              DropDatabase, ApplyDatabase, Quiet
<1> QED BY <1>1, <1>2, <1>3, <1>7, <1>8, <1>9, <1>10, <1>11, <1>12, <1>13, Actions

\* Statuses are written by the pass only, and Operations created without one.
LEMMA StatusFrame ==
  ASSUME HandshakeInv, [Next]_vars, NEW o \in Ops
  PROVE  /\ \/ phase'[o] = phase[o] /\ jobRef'[o] = jobRef[o]
            \/ /\ claimWritePlane /\ pass.op = o /\ phase'[o] = "Failed"
               /\ evaluateWritePlane(o, Live, phase, jobRef) = "Hold"
               /\ jobRef'[o] = jobRef[o]
            \/ /\ syncStatusFromJob /\ pass.op = o /\ pass.pc = "sync" /\ life[o] = "live"
               /\ phase'[o] = JobPhase(job[o]) /\ jobRef'[o]
         /\ life'[o] = life[o] \/ CreateOperation(o) \/ DeleteOperation(o)
<1>t. TypeOK
      BY DEF HandshakeInv, ResetInv
<1>1. (phase' = phase /\ jobRef' = jobRef) \/ claimWritePlane \/ syncStatusFromJob
      BY Actions DEF StartPass, CreateOperation, DeleteOperation, EndJob, apiQuiescedForRebuild,
         ensureRebuildDatabaseReset, deleteDatabase, annotatePending, cnpgClusterReadyForJobs,
         ensureJob, FailCall, reconcileOwnedCNPGDatabase, DropDatabase, ApplyDatabase, Quiet, opVars
<1>2. life' = life \/ \E x \in Ops : CreateOperation(x) \/ DeleteOperation(x)
      BY Actions DEF StartPass, EndJob, claimWritePlane, apiQuiescedForRebuild, syncStatusFromJob,
         ensureRebuildDatabaseReset, deleteDatabase, annotatePending, cnpgClusterReadyForJobs,
         ensureJob, FailCall, reconcileOwnedCNPGDatabase, DropDatabase, ApplyDatabase, Quiet, opVars
<1>3. ASSUME NEW x \in Ops, CreateOperation(x) \/ DeleteOperation(x)
      PROVE  life'[o] = life[o] \/ CreateOperation(o) \/ DeleteOperation(o)
      BY <1>3, <1>t DEF CreateOperation, DeleteOperation, TypeOK
<1>4. ASSUME claimWritePlane
      PROVE  \/ phase'[o] = phase[o] /\ jobRef'[o] = jobRef[o]
             \/ /\ pass.op = o /\ phase'[o] = "Failed" /\ jobRef'[o] = jobRef[o]
                /\ evaluateWritePlane(o, Live, phase, jobRef) = "Hold"
      BY <1>4, <1>t DEF claimWritePlane, TypeOK
<1>5. ASSUME syncStatusFromJob
      PROVE  \/ phase'[o] = phase[o] /\ jobRef'[o] = jobRef[o]
             \/ /\ pass.op = o /\ pass.pc = "sync" /\ life[o] = "live"
                /\ phase'[o] = JobPhase(job[o]) /\ jobRef'[o]
  <2>1. CASE pass.op = o /\ life[o] = "live"
        BY <2>1, <1>5, <1>t DEF syncStatusFromJob, TypeOK
  <2>2. CASE pass.op # o
        BY <2>2, <1>5, <1>t DEF syncStatusFromJob, TypeOK
  <2>3. CASE life[o] # "live"
        BY <2>3, <1>5, <1>t DEF syncStatusFromJob, TypeOK
  <2> QED BY <2>1, <2>2, <2>3
<1> QED BY <1>1, <1>2, <1>3, <1>4, <1>5

\* An Operation comes by the write plane through a granted claim only.
LEMMA NewGrant ==
  ASSUME HandshakeInv, GrantInv, [Next]_vars, NEW o \in Ops, Granted(o)'
  PROVE  \/ Granted(o)
         \/ /\ claimWritePlane /\ pass.op = o /\ UNCHANGED <<life, phase, jobRef>>
            /\ evaluateWritePlane(o, Live, phase, jobRef) = "OK"
<1>1. CASE Past(o)'
      BY <1>1, NewPast DEF Granted
<1>2. CASE life'[o] = "live" /\ peerHoldsWritePlane(phase'[o], jobRef'[o])
  <2>1. CASE phase'[o] = phase[o] /\ jobRef'[o] = jobRef[o]
    <3>1. CASE life[o] = "live"
          BY <1>2, <2>1, <3>1 DEF Granted
    <3>2. CASE life[o] # "live"
      <4>1. ~DeleteOperation(o)
            BY <3>2 DEF DeleteOperation
      <4>2. life[o] = "new"
            BY <4>1, <3>2, <1>2, StatusFrame DEF CreateOperation
      <4>3. phase[o] = "" /\ ~jobRef[o]
            BY <4>2 DEF GrantInv
      <4> QED BY <4>3, <2>1, <1>2 DEF peerHoldsWritePlane
    <3> QED BY <3>1, <3>2
  <2>2. CASE phase'[o] = "Failed"
        BY <2>2, <1>2 DEF peerHoldsWritePlane, isActiveOperationPhase, ActivePhases
  <2>3. CASE pass.op = o /\ pass.pc = "sync"
        BY <2>3 DEF Granted, Past
  <2> QED BY <2>1, <2>2, <2>3, StatusFrame
<1> QED BY <1>1, <1>2 DEF Granted

LEMMA GrantStep == HandshakeInv /\ GrantInv /\ [Next]_vars => GrantInv'
<1> SUFFICES ASSUME HandshakeInv, GrantInv, [Next]_vars PROVE GrantInv'
    OBVIOUS
<1>t. TypeOK
      BY DEF HandshakeInv, ResetInv
<1>1. ASSUME NEW o \in Ops, life'[o] = "new" PROVE phase'[o] = "" /\ ~jobRef'[o]
  <2>1. ~CreateOperation(o) /\ ~DeleteOperation(o)
        BY <1>1, <1>t DEF CreateOperation, DeleteOperation, TypeOK
  <2>2. life[o] = "new" /\ phase[o] = "" /\ ~jobRef[o]
        BY <2>1, <1>1, StatusFrame DEF GrantInv
  <2>3. claimWritePlane => pass.op # o
        BY <2>2 DEF claimWritePlane, HandshakeInv, PassInv
  <2> QED BY <2>2, <2>3, StatusFrame
<1>2. ASSUME NEW o \in Ops, NEW p \in Ops, operationsMutexConflict(o, p),
             claimWritePlane, pass.op = o, evaluateWritePlane(o, Live, phase, jobRef) = "OK",
             Granted(p)
      PROVE  FALSE
  <2>1. o # p
        BY <1>2 DEF operationsMutexConflict
  <2>2. life[p] = "live" /\ peerHoldsWritePlane(phase[p], jobRef[p])
        BY <1>2, <2>1 DEF Granted, Past
  <2> QED BY <1>2, <2>2, ClaimOK
<1>3. ASSUME NEW o \in Ops, NEW p \in Ops, operationsMutexConflict(o, p), Granted(o)', Granted(p)'
      PROVE  FALSE
  <2>1. operationsMutexConflict(p, o) /\ o # p
        BY <1>3 DEF operationsMutexConflict
  <2>2. ~(Granted(o) /\ Granted(p))
        BY <1>3 DEF GrantInv
  <2> QED BY <1>3, <2>1, <2>2, <1>2, NewGrant
<1> QED BY <1>1, <1>3 DEF GrantInv

-----------------------------------------------------------------------------
(* The Database object.                                                    *)

\* What a step may do to the Database.
LEMMA DatabaseFrame ==
  ASSUME HandshakeInv, [Next]_vars
  PROVE  \/ UNCHANGED <<db, lastUID>>
         \/ /\ db.uid = Unset /\ CreateDatabase /\ rows' = rows
            /\ ensureRebuildDatabaseReset \/ reconcileOwnedCNPGDatabase
         \/ deleteDatabase \/ DropDatabase \/ ApplyDatabase
BY Actions DEF StartPass, CreateOperation, DeleteOperation, EndJob, claimWritePlane,
   apiQuiescedForRebuild, ensureRebuildDatabaseReset, annotatePending, cnpgClusterReadyForJobs,
   ensureJob, syncStatusFromJob, FailCall, reconcileOwnedCNPGDatabase, Quiet, dbVars

\* What a step may do to the data.
LEMMA RowsFrame ==
  ASSUME HandshakeInv, [Next]_vars
  PROVE  \/ rows' = rows
         \/ DropDatabase \/ ApplyDatabase
         \/ \E o \in Ops : /\ EndJob(o) /\ UNCHANGED <<db, lastUID>>
                           /\ rows # "absent" /\ rows' # "absent"
BY Actions DEF StartPass, CreateOperation, DeleteOperation, EndJob, claimWritePlane,
   apiQuiescedForRebuild, ensureRebuildDatabaseReset, annotatePending, cnpgClusterReadyForJobs,
   ensureJob, syncStatusFromJob, FailCall, reconcileOwnedCNPGDatabase, deleteDatabase, Quiet,
   dbVars, HandshakeInv, ResetInv, TypeOK

\* What a step may do to the UIDs a pass or an annotation remembers.
LEMMA MemoryFrame ==
  ASSUME HandshakeInv, [Next]_vars
  PROVE  /\ pass'.uid \in {pass.uid, db.uid, Unset}
         /\ \A o \in Ops : prevUID'[o] \in {prevUID[o], NoneUID} \/ prevUID'[o] = pass.uid
<1>t. TypeOK
      BY DEF HandshakeInv, ResetInv
<1>p. pass.pc # "idle" => pass.op \in Ops /\ life[pass.op] = "live"
      BY DEF HandshakeInv, PassInv
<1>g. \A s : Goto(s) => pass'.uid = pass.uid
      BY <1>t, PassSteps
<1>r. Return => pass'.uid = Unset
      BY <1>t, PassSteps
<1>d. pass' = [pass EXCEPT !.pc = "delete", !.uid = db.uid] => pass'.uid = db.uid
      BY <1>t DEF TypeOK, Passes
<1>1. pass'.uid \in {pass.uid, db.uid, Unset}
  <2>1. ASSUME NEW x \in Ops, StartPass(x) PROVE pass'.uid = Unset
        BY <2>1 DEF StartPass
  <2> QED BY <2>1, <1>g, <1>r, <1>d, Actions DEF CreateOperation, DeleteOperation, EndJob, claimWritePlane,
        apiQuiescedForRebuild, ensureRebuildDatabaseReset, annotatePending, cnpgClusterReadyForJobs,
        ensureJob, syncStatusFromJob, FailCall, reconcileOwnedCNPGDatabase, deleteDatabase,
        DropDatabase, ApplyDatabase, Quiet
<1>2. prevUID' = prevUID \/ annotatePending \/ ensureRebuildDatabaseReset
      BY Actions DEF StartPass, CreateOperation, DeleteOperation, EndJob, claimWritePlane,
         apiQuiescedForRebuild, cnpgClusterReadyForJobs, ensureJob, syncStatusFromJob, FailCall,
         reconcileOwnedCNPGDatabase, deleteDatabase, DropDatabase, ApplyDatabase, Quiet, opVars
<1>3. ASSUME annotatePending, NEW o \in Ops PROVE prevUID'[o] = prevUID[o] \/ prevUID'[o] = pass.uid
      BY <1>3, <1>p, <1>t, AnnotateFacts DEF annotatePending
<1>4. ASSUME ensureRebuildDatabaseReset, NEW o \in Ops PROVE prevUID'[o] \in {prevUID[o], NoneUID}
      BY <1>4, <1>p, <1>t, AnnotateFacts DEF ensureRebuildDatabaseReset
<1> QED BY <1>1, <1>2, <1>3, <1>4

LEMMA DatabaseStep == HandshakeInv /\ DatabaseInv /\ [Next]_vars => DatabaseInv'
<1> SUFFICES ASSUME HandshakeInv, DatabaseInv, [Next]_vars PROVE DatabaseInv'
    OBVIOUS
<1>t. TypeOK /\ db \in Databases /\ lastUID \in UIDs /\ pass \in Passes
      BY DEF HandshakeInv, ResetInv, TypeOK
<1>1. /\ db'.uid = Unset => ~db'.applied /\ ~db'.terminating
      /\ ~db'.applied <=> rows' = "absent"
      /\ lastUID <= lastUID' /\ (db'.uid \in {db.uid, Unset} \/ db'.uid = lastUID')
      /\ lastUID' \in Nat
  <2>n. lastUID \in Nat
        BY <1>t, UIDFacts
  <2>1. CASE DropDatabase
    <3>1. db' = NoDB /\ rows' = "absent" /\ lastUID' = lastUID
          BY <2>1 DEF DropDatabase
    <3> QED BY <3>1, <2>n, RecordsTyped
  <2>2. CASE ApplyDatabase
    <3>1. /\ db'.uid = db.uid /\ db'.applied /\ db.uid # Unset /\ rows' # "absent"
          /\ lastUID' = lastUID
          BY <2>2, <1>t DEF ApplyDatabase, Databases
    <3> QED BY <3>1, <2>n
  <2>3. CASE deleteDatabase
    <3>1. /\ db'.uid = db.uid /\ db'.applied = db.applied /\ rows' = rows /\ lastUID' = lastUID
          /\ db.uid = Unset => db' = db
          BY <2>3, <1>t DEF deleteDatabase, Databases
    <3> QED BY <3>1, <2>n DEF DatabaseInv
  <2>4. CASE db.uid = Unset /\ CreateDatabase /\ rows' = rows
    <3>1. /\ db'.uid = lastUID + 1 /\ ~db'.applied /\ lastUID' = lastUID + 1
          /\ rows = "absent"
          BY <2>4 DEF CreateDatabase, DatabaseInv
    <3>2. lastUID + 1 # Unset
          BY <2>n DEF Unset
    <3> QED BY <3>1, <3>2, <2>4, <2>n
  <2>5. CASE UNCHANGED <<db, lastUID>> /\ ~DropDatabase /\ ~ApplyDatabase
    <3>1. rows' = "absent" <=> rows = "absent"
          BY <2>5, RowsFrame
    <3> QED BY <2>5, <2>n, <3>1 DEF DatabaseInv
  <2> QED BY <2>1, <2>2, <2>3, <2>4, <2>5, DatabaseFrame
<1>2. /\ db.uid \in Nat /\ pass.uid \in Nat /\ lastUID \in Nat /\ Unset <= lastUID /\ NoneUID <= lastUID
      /\ db.uid <= lastUID /\ pass.uid <= lastUID
      BY <1>t, UIDFacts DEF Databases, Passes, UIDs, Unset, NoneUID, DatabaseInv
<1>3. ASSUME NEW u \in Nat, u <= lastUID PROVE u <= lastUID'
      BY <1>3, <1>1, <1>2
<1>4. db'.uid <= lastUID' /\ pass'.uid <= lastUID'
      BY <1>1, <1>2, <1>3, MemoryFrame, UIDFacts
<1>5. ASSUME NEW o \in Ops PROVE prevUID'[o] <= lastUID'
  <2>1. prevUID[o] \in Nat /\ prevUID[o] <= lastUID
        BY <1>t, UIDFacts DEF TypeOK, DatabaseInv
  <2> QED BY <2>1, <1>2, <1>3, MemoryFrame, UIDFacts
<1> QED BY <1>1, <1>4, <1>5 DEF DatabaseInv

\* The three invariants that hold whatever goes wrong.
ProtocolInv == HandshakeInv /\ GrantInv /\ DatabaseInv

LEMMA ProtocolInit == Init => ProtocolInv
<1> SUFFICES ASSUME Init PROVE GrantInv /\ DatabaseInv
    BY HandshakeInit DEF ProtocolInv
<1>1. pass.pc = "idle" /\ pass.uid = Unset
      BY RecordsTyped DEF Init
<1>2. \A o \in Ops : phase[o] = "" /\ ~jobRef[o] /\ life[o] = "new" /\ prevUID[o] = Unset
      BY DEF Init
<1>3. \A o \in Ops : ~Granted(o)
      BY <1>1, <1>2 DEF Granted, Past
<1>4. GrantInv
      BY <1>2, <1>3 DEF GrantInv
<1>5. db.uid = 2 /\ db.applied /\ rows = "filled" /\ lastUID = 2
      BY DEF Init
<1>6. db.uid # Unset /\ db.uid <= lastUID /\ Unset <= lastUID
      BY <1>5 DEF Unset
<1>7. DatabaseInv
      BY <1>1, <1>2, <1>5, <1>6 DEF DatabaseInv
<1> QED BY <1>4, <1>7

LEMMA ProtocolStep == ProtocolInv /\ [Next]_vars => ProtocolInv'
BY TypeStep, AnnotationsStep, PassInvStep, GrantStep, DatabaseStep
   DEF ProtocolInv, HandshakeInv, ResetInv

-----------------------------------------------------------------------------
(* While nothing goes wrong.                                               *)

\* The first fault, deletion or preemption ends it, for good.
LEMMA UndisturbedStep ==
  ASSUME HandshakeInv, [Next]_vars, Undisturbed'
  PROVE  /\ Undisturbed /\ ~FailCall /\ \A o \in Ops : ~DeleteOperation(o)
         /\ claimWritePlane /\ evaluateWritePlane(pass.op, Live, phase, jobRef) = "OK"
              => \A b \in Ops \ {pass.op} : ~MidReset(b)
<1>t. faults \in Nat /\ deletes \in Nat
  <2>1. faults \in 0..MaxFaults /\ deletes \in 0..MaxDeletes
        BY DEF HandshakeInv, ResetInv, TypeOK
  <2> QED BY <2>1
<1>1. FailCall => faults' = faults + 1
      BY DEF FailCall
<1>2. ASSUME NEW o \in Ops, DeleteOperation(o) PROVE deletes' = deletes + 1
      BY <1>2 DEF DeleteOperation
<1>3. UNCHANGED bounds \/ claimWritePlane \/ FailCall \/ \E o \in Ops : DeleteOperation(o)
      BY Actions DEF StartPass, CreateOperation, EndJob, apiQuiescedForRebuild,
         ensureRebuildDatabaseReset, deleteDatabase, annotatePending, cnpgClusterReadyForJobs,
         ensureJob, syncStatusFromJob, reconcileOwnedCNPGDatabase, DropDatabase, ApplyDatabase, Quiet
<1>4. ~FailCall /\ \A o \in Ops : ~DeleteOperation(o)
      BY <1>t, <1>1, <1>2 DEF Undisturbed
<1>5. ASSUME claimWritePlane, preempted \/ \E b \in Ops \ {pass.op} : MidReset(b),
             preempted \/ evaluateWritePlane(pass.op, Live, phase, jobRef) = "OK"
      PROVE  FALSE
  <2>1. ~preempted'
        BY DEF Undisturbed
  <2>2. evaluateWritePlane(pass.op, Live, phase, jobRef) = "OK" =>
          preempted' = (preempted \/ \E b \in Ops \ {pass.op} : MidReset(b))
        BY <1>5 DEF claimWritePlane
  <2>3. evaluateWritePlane(pass.op, Live, phase, jobRef) # "OK" => preempted' = preempted
        BY <1>5 DEF claimWritePlane
  <2> QED BY <1>5, <2>1, <2>2, <2>3
<1>6. claimWritePlane => UNCHANGED <<faults, deletes>>
      BY DEF claimWritePlane
<1>7. Undisturbed
      BY <1>3, <1>4, <1>5, <1>6 DEF Undisturbed, bounds
<1> QED BY <1>4, <1>5, <1>7

\* Jobs are created by ensureJob and end.
LEMMA JobFrame ==
  ASSUME HandshakeInv, [Next]_vars, NEW o \in Ops, ~DeleteOperation(o)
  PROVE  /\ job[o] # "none" => job'[o] # "none"
         /\ job'[o] = "running" /\ job[o] # "running" =>
              job[o] = "none" /\ ensureJob /\ pass.op = o /\ life[o] = "live"
<1>t. TypeOK
      BY DEF HandshakeInv, ResetInv
<1>1. job' = job \/ ensureJob \/ \E x \in Ops : DeleteOperation(x) \/ EndJob(x)
      BY Actions DEF StartPass, CreateOperation, claimWritePlane, apiQuiescedForRebuild,
         ensureRebuildDatabaseReset, deleteDatabase, annotatePending, cnpgClusterReadyForJobs,
         syncStatusFromJob, FailCall, reconcileOwnedCNPGDatabase, DropDatabase, ApplyDatabase,
         Quiet, opVars
<1>2. ASSUME NEW x \in Ops, DeleteOperation(x) PROVE job'[o] = job[o]
      BY <1>2, <1>t DEF DeleteOperation, TypeOK
<1>3. ASSUME NEW x \in Ops, EndJob(x) PROVE job'[o] = job[o] \/ job'[o] \in {"succeeded", "failed"}
      BY <1>3, <1>t DEF EndJob, TypeOK
<1>4. CASE ensureJob
      BY <1>4, <1>t DEF ensureJob, TypeOK
<1> QED BY <1>1, <1>2, <1>3, <1>4

\* Between two of its own steps a pass stays where it is.
LEMMA PassFrame ==
  ASSUME HandshakeInv, [Next]_vars, ~FailCall
  PROVE  /\ pass.pc = "sync" => pass' = pass \/ syncStatusFromJob
         /\ pass.pc = "annotate" => pass' = pass \/ annotatePending
         /\ pass.pc = "delete" => pass' = pass \/ deleteDatabase
BY Actions DEF StartPass, CreateOperation, DeleteOperation, EndJob, claimWritePlane,
   apiQuiescedForRebuild, ensureRebuildDatabaseReset, deleteDatabase, annotatePending,
   cnpgClusterReadyForJobs, ensureJob, syncStatusFromJob, reconcileOwnedCNPGDatabase,
   DropDatabase, ApplyDatabase, Quiet

\* A conflicting holder would be granted the write plane as well.
LEMMA NoHold ==
  ASSUME HandshakeInv, GrantInv, NEW o \in Ops, Granted(o)
  PROVE  evaluateWritePlane(o, Live, phase, jobRef) # "Hold"
<1> SUFFICES ASSUME evaluateWritePlane(o, Live, phase, jobRef) = "Hold" PROVE FALSE
    OBVIOUS
<1>1. PICK p \in Ops : /\ life[p] = "live" /\ operationsMutexConflict(o, p)
                       /\ peerHoldsWritePlane(phase[p], jobRef[p])
      BY ClaimHold
<1> QED BY <1>1 DEF Granted, GrantInv

LEMMA RecordedStep ==
  ASSUME ProtocolInv, [Next]_vars, Undisturbed', JobsRecorded
  PROVE  JobsRecorded'
<1> SUFFICES ASSUME NEW o \in Ops, job'[o] = "running"
             PROVE  /\ life'[o] = "live"
                    /\ \/ phase'[o] = "Running" /\ jobRef'[o]
                       \/ (Past(o) /\ pass.pc = "sync")'
    BY DEF JobsRecorded
<1>h. HandshakeInv /\ GrantInv /\ TypeOK
      BY DEF ProtocolInv, HandshakeInv, ResetInv
<1>u. ~FailCall /\ ~DeleteOperation(o)
      BY <1>h, UndisturbedStep
<1>1. CASE job[o] = "running"
  <2>1. life[o] = "live" /\ ((phase[o] = "Running" /\ jobRef[o]) \/ (Past(o) /\ pass.pc = "sync"))
        BY <1>1 DEF JobsRecorded
  <2>2. life'[o] = "live"
        BY <2>1, <1>h, <1>u, StatusFrame DEF CreateOperation
  <2>3. Granted(o)
        BY <2>1 DEF Granted, peerHoldsWritePlane, isActiveOperationPhase, ActivePhases
  <2>4. \/ phase'[o] = phase[o] /\ jobRef'[o] = jobRef[o]
        \/ phase'[o] = "Running" /\ jobRef'[o]
        BY <1>1, <1>h, <2>3, NoHold, StatusFrame, JobPhaseFacts
  <2>5. CASE Past(o) /\ pass.pc = "sync" /\ pass' # pass
    <3>1. syncStatusFromJob /\ pass.op = o
          BY <2>5, <1>h, <1>u, PassFrame DEF Past
    <3>2. phase'[o] = JobPhase(job[o]) /\ jobRef'[o]
          BY <3>1, <2>1, <1>h DEF syncStatusFromJob, TypeOK
    <3> QED BY <3>2, <2>2, <1>1, JobPhaseFacts
  <2>6. CASE Past(o) /\ pass.pc = "sync" /\ pass' = pass
        BY <2>6, <2>2 DEF Past
  <2> QED BY <2>1, <2>2, <2>4, <2>5, <2>6
<1>2. CASE job[o] # "running"
  <2>1. ensureJob /\ pass.op = o /\ life[o] = "live"
        BY <1>2, <1>h, <1>u, JobFrame
  <2>2. pass'.pc = "sync" /\ pass'.op = o /\ life' = life
        BY <2>1, <1>h, PassSteps DEF ensureJob
  <2> QED BY <2>1, <2>2 DEF Past
<1> QED BY <1>1, <1>2

\* A reset begins with a granted claim.
LEMMA NewBegun ==
  ASSUME ProtocolInv, [Next]_vars, NEW b \in Ops, Begun(b)', ~Begun(b)
  PROVE  /\ Past(b)'
         /\ claimWritePlane /\ pass.op = b /\ UNCHANGED <<life, phase, jobRef>>
         /\ evaluateWritePlane(b, Live, phase, jobRef) = "OK"
<1>h. HandshakeInv /\ TypeOK
      BY DEF ProtocolInv, HandshakeInv, ResetInv
<1>1. Past(b)'
  <2> SUFFICES ASSUME reset'[b] # "" PROVE FALSE
      BY DEF Begun
  <2>1. reset[b] = "" /\ ~Past(b)
        BY DEF Begun
  <2>2. reset' = reset \/ annotatePending \/ ensureRebuildDatabaseReset
        BY Actions DEF StartPass, CreateOperation, DeleteOperation, EndJob, claimWritePlane,
           apiQuiescedForRebuild, cnpgClusterReadyForJobs, ensureJob, syncStatusFromJob, FailCall,
           reconcileOwnedCNPGDatabase, deleteDatabase, DropDatabase, ApplyDatabase, Quiet, opVars
  <2>3. annotatePending \/ ensureRebuildDatabaseReset => pass.op # b
        BY <2>1 DEF annotatePending, ensureRebuildDatabaseReset, Past
  <2>4. annotatePending \/ ensureRebuildDatabaseReset => reset'[b] = reset[b]
        BY <2>3, <1>h DEF annotatePending, ensureRebuildDatabaseReset, Annotate, TypeOK
  <2> QED BY <2>1, <2>2, <2>4
<1> QED BY <1>1, <1>h, NewPast DEF Begun

\* While b resets the Database nobody else is granted the write plane: that
\* would be a preemption.
LEMMA AloneStep ==
  ASSUME ProtocolInv, [Next]_vars, Undisturbed',
         \A x \in Ops : OpType[x] = "Rebuild" => BegunAlone(x),
         NEW b \in Ops, OpType[b] = "Rebuild"
  PROVE  BegunAlone(b)'
<1> SUFFICES ASSUME Begun(b)', job'[b] = "none"
             PROVE  /\ life'[b] = "live" /\ isActiveOperationPhase(phase'[b])
                    /\ \A p \in Ops : p # b => ~Granted(p)'
                    /\ \A p \in Ops : p # b /\ OpType[p] = "Rebuild" /\ job'[p] = "none" => ~Begun(p)'
    BY DEF BegunAlone
<1>h. HandshakeInv /\ GrantInv /\ TypeOK /\ PassInv
      BY DEF ProtocolInv, HandshakeInv, ResetInv
<1>u. ~FailCall /\ \A o \in Ops : ~DeleteOperation(o)
      BY <1>h, UndisturbedStep
<1>j. \A o \in Ops : job'[o] = "none" => job[o] = "none"
      BY <1>h, <1>u, JobFrame
<1>c. \A p \in Ops : p # b => operationsMutexConflict(b, p)
      BY DEF operationsMutexConflict, isWriteHeavyOperation
\* Nobody is granted the write plane while a Rebuild is between its claim and
\* its Job.
<1>a. ASSUME NEW x \in Ops, OpType[x] = "Rebuild", Begun(x), job[x] = "none", NEW p \in Ops, p # x,
             claimWritePlane, pass.op = p, evaluateWritePlane(p, Live, phase, jobRef) = "OK"
      PROVE  FALSE
  <2>1. life[x] = "live" /\ isActiveOperationPhase(phase[x])
        BY <1>a DEF BegunAlone
  <2>2. reset[x] # ""
        BY <1>a DEF Begun, Past
  <2>3. MidReset(x)
        BY <1>a, <2>1, <2>2 DEF MidReset, Live
  <2> QED BY <1>a, <1>h, <2>3, UndisturbedStep
<1>1. CASE Begun(b)
  <2>1. /\ life[b] = "live" /\ isActiveOperationPhase(phase[b])
        /\ \A p \in Ops : p # b => ~Granted(p)
        /\ \A p \in Ops : p # b /\ OpType[p] = "Rebuild" /\ job[p] = "none" => ~Begun(p)
        BY <1>1, <1>j DEF BegunAlone
  <2>2. life'[b] = "live"
        BY <2>1, <1>h, <1>u, StatusFrame DEF CreateOperation
  <2>3. evaluateWritePlane(b, Live, phase, jobRef) # "Hold"
    <3> SUFFICES ASSUME evaluateWritePlane(b, Live, phase, jobRef) = "Hold" PROVE FALSE
        OBVIOUS
    <3>1. PICK p \in Ops : /\ life[p] = "live" /\ operationsMutexConflict(b, p)
                           /\ peerHoldsWritePlane(phase[p], jobRef[p])
          BY ClaimHold
    <3> QED BY <3>1, <2>1 DEF Granted, operationsMutexConflict
  <2>4. ~(pass.op = b /\ pass.pc = "sync")
        BY <1>h, <1>j DEF PassInv
  <2>5. isActiveOperationPhase(phase'[b])
        BY <2>1, <2>3, <2>4, <1>h, StatusFrame
  <2>6. ASSUME NEW p \in Ops, p # b, Granted(p)' PROVE FALSE
        BY <2>6, <2>1, <1>h, <1>j, <1>1, <1>a, NewGrant
  <2>7. ASSUME NEW p \in Ops, p # b, OpType[p] = "Rebuild", Begun(p)', job'[p] = "none" PROVE FALSE
        BY <2>7, <2>1, <1>j, <1>1, <1>a, NewBegun
  <2> QED BY <2>2, <2>5, <2>6, <2>7
<1>2. CASE ~Begun(b)
  <2>1. /\ Past(b)' /\ claimWritePlane /\ pass.op = b /\ UNCHANGED <<life, phase, jobRef>>
        /\ evaluateWritePlane(b, Live, phase, jobRef) = "OK"
        BY <1>2, NewBegun
  <2>3. life'[b] = "live" /\ isActiveOperationPhase(phase'[b])
        BY <2>1, <1>h DEF claimWritePlane, PassInv
  <2>4. ASSUME NEW p \in Ops, p # b, Granted(p)' PROVE FALSE
    <3>1. ~Past(p)'
          BY <2>1, <2>4 DEF Past
    <3>2. life[p] = "live" /\ peerHoldsWritePlane(phase[p], jobRef[p])
          BY <2>1, <2>4, <3>1 DEF Granted
    <3> QED BY <2>1, <2>4, <3>2, <1>c, ClaimOK
  <2>5. ASSUME NEW p \in Ops, p # b, OpType[p] = "Rebuild", Begun(p)', job'[p] = "none" PROVE FALSE
    <3>1. Begun(p)
          BY <2>5, <2>1, NewBegun
    <3> QED BY <2>1, <2>5, <3>1, <1>j, <1>a
  <2> QED BY <2>3, <2>4, <2>5
<1> QED BY <1>1, <1>2

\* The annotations of b are written by its own pass, at two places.
LEMMA ResetFrame ==
  ASSUME HandshakeInv, [Next]_vars, NEW b \in Ops
  PROVE  \/ reset'[b] = reset[b] /\ prevUID'[b] = prevUID[b]
         \/ /\ annotatePending /\ Past(b) /\ pass.pc = "annotate"
            /\ reset'[b] = "pending" /\ prevUID'[b] = pass.uid
            /\ UNCHANGED <<db, rows, job>>
         \/ /\ ensureRebuildDatabaseReset /\ Past(b) /\ pass.pc = "reset"
            /\ prevUID[b] = Unset /\ db.uid = Unset
            /\ reset'[b] = "pending" /\ UNCHANGED <<db, rows, job>>
         \/ /\ ensureRebuildDatabaseReset /\ Past(b) /\ pass.pc = "reset"
            /\ prevUID[b] # Unset /\ db.uid # prevUID[b] /\ db.applied
            /\ reset'[b] = "done" /\ prevUID'[b] = prevUID[b] /\ UNCHANGED <<db, rows, job>>
<1>t. TypeOK
      BY DEF HandshakeInv, ResetInv
<1>p. pass.pc # "idle" => pass.op \in Ops /\ life[pass.op] = "live"
      BY DEF HandshakeInv, PassInv
<1>1. UNCHANGED <<reset, prevUID>> \/ annotatePending \/ ensureRebuildDatabaseReset
      BY Actions DEF StartPass, CreateOperation, DeleteOperation, EndJob, claimWritePlane,
         apiQuiescedForRebuild, cnpgClusterReadyForJobs, ensureJob, syncStatusFromJob, FailCall,
         reconcileOwnedCNPGDatabase, deleteDatabase, DropDatabase, ApplyDatabase, Quiet, opVars
<1>2. CASE annotatePending
  <2>1. /\ reset'[b] = IF b = pass.op THEN "pending" ELSE reset[b]
        /\ prevUID'[b] = IF b = pass.op THEN pass.uid ELSE prevUID[b]
        BY <1>2, <1>p, <1>t, AnnotateFacts DEF annotatePending
  <2> QED BY <1>2, <2>1 DEF annotatePending, Past, dbVars
<1>3. CASE ensureRebuildDatabaseReset
  <2>1. pass.op \in Ops /\ life[pass.op] = "live" /\ pass.pc = "reset"
        BY <1>3, <1>p DEF ensureRebuildDatabaseReset
  <2>2. CASE UNCHANGED <<reset, prevUID>>
        BY <2>2
  <2>3. CASE /\ prevUID[pass.op] = Unset /\ db.uid = Unset /\ Annotate("pending", NoneUID)
             /\ UNCHANGED <<db, lastUID>>
    <3>1. reset'[b] = IF b = pass.op THEN "pending" ELSE reset[b]
          BY <2>1, <2>3, <1>t, AnnotateFacts
    <3>2. b # pass.op => prevUID'[b] = prevUID[b]
          BY <2>1, <2>3, <1>t, AnnotateFacts
    <3> QED BY <1>3, <2>1, <2>3, <3>1, <3>2 DEF ensureRebuildDatabaseReset, Past
  <2>4. CASE /\ prevUID[pass.op] # Unset /\ db.uid # prevUID[pass.op] /\ db.applied
             /\ Annotate("done", prevUID[pass.op]) /\ UNCHANGED <<db, lastUID>>
    <3>1. /\ reset'[b] = IF b = pass.op THEN "done" ELSE reset[b]
          /\ prevUID'[b] = prevUID[b]
          BY <2>1, <2>4, <1>t, AnnotateFacts
    <3> QED BY <1>3, <2>1, <2>4, <3>1 DEF ensureRebuildDatabaseReset, Past
  <2> QED BY <1>3, <2>2, <2>3, <2>4 DEF ensureRebuildDatabaseReset
<1> QED BY <1>1, <1>2, <1>3

\* No Job ends while b is between its claim and its own Job.
LEMMA NoJobEnds ==
  ASSUME JobsRecorded, NEW b \in Ops, BegunAlone(b), Begun(b), job[b] = "none", NEW o \in Ops
  PROVE  ~EndJob(o)
<1> SUFFICES ASSUME EndJob(o) PROVE FALSE
    OBVIOUS
<1>1. job[o] = "running" /\ o # b
      BY DEF EndJob
<1>2. Granted(o)
      BY <1>1 DEF JobsRecorded, Granted, peerHoldsWritePlane, isActiveOperationPhase, ActivePhases
<1> QED BY <1>1, <1>2 DEF BegunAlone

\* While b is under way the data changes with the Database only: a drop leaves
\* nothing applied, and what is applied after it is empty.
LEMMA RowsStep ==
  ASSUME ProtocolInv, JobsRecorded, [Next]_vars, NEW b \in Ops, BegunAlone(b), Begun(b), job[b] = "none"
  PROVE  \/ ~db'.applied
         \/ rows' = "empty" /\ ApplyDatabase
         \/ rows' = rows /\ db'.applied = db.applied /\ db'.uid = db.uid
<1>h. HandshakeInv /\ db \in Databases /\ DatabaseInv
      BY DEF ProtocolInv, HandshakeInv, ResetInv, TypeOK
<1>1. CASE DropDatabase
      BY <1>1, RecordsTyped DEF DropDatabase
<1>2. CASE ApplyDatabase
      BY <1>2, <1>h DEF ApplyDatabase, DatabaseInv
<1>3. CASE CreateDatabase
      BY <1>3 DEF CreateDatabase
<1>4. CASE deleteDatabase
      BY <1>4, <1>h DEF deleteDatabase, Databases
<1>5. CASE db' = db /\ ~DropDatabase /\ ~ApplyDatabase
      BY <1>5, <1>h, NoJobEnds, RowsFrame
<1> QED BY <1>1, <1>2, <1>3, <1>4, <1>5, <1>h, DatabaseFrame

\* A Database that b is not replacing is neither dropped nor created anew.
LEMMA KeptDatabase ==
  ASSUME ProtocolInv, [Next]_vars, db.applied, ~db.terminating
  PROVE  db'.applied /\ db'.uid = db.uid /\ (~db'.terminating \/ deleteDatabase)
<1>h. HandshakeInv /\ db \in Databases /\ DatabaseInv
      BY DEF ProtocolInv, HandshakeInv, ResetInv, TypeOK
<1>1. db.uid # Unset /\ ~DropDatabase /\ ~ApplyDatabase
      BY <1>h DEF DatabaseInv, DropDatabase, ApplyDatabase
<1>2. CASE deleteDatabase
      BY <1>2, <1>h DEF deleteDatabase, Databases
<1> QED BY <1>1, <1>2, <1>h, DatabaseFrame

\* While b resets the Database, a terminating one is the one b is replacing.
LEMMA DropIsFor ==
  ASSUME HandshakeInv, DropHasRebuild, db.terminating,
         NEW b \in Ops, OpType[b] = "Rebuild", BegunAlone(b), Begun(b), job[b] = "none"
  PROVE  \/ reset[b] = "pending" /\ db.uid = prevUID[b]
         \/ Past(b) /\ pass.pc = "annotate" /\ db.uid = pass.uid
<1>1. PICK x \in Ops : /\ OpType[x] = "Rebuild"
                       /\ \/ reset[x] = "pending" /\ db.uid = prevUID[x]
                          \/ Past(x) /\ pass.pc = "annotate" /\ db.uid = pass.uid
      BY DEF DropHasRebuild
<1>2. Begun(x) /\ reset[x] # "done"
      BY <1>1 DEF Begun, Past, HandshakeInv, PassInv
<1>3. job[x] = "none"
      BY <1>1, <1>2 DEF HandshakeInv, ResetInv
<1>4. x = b
      BY <1>1, <1>2, <1>3 DEF BegunAlone
<1> QED BY <1>1, <1>4

LEMMA FreshStep ==
  ASSUME ProtocolInv, [Next]_vars, Undisturbed', JobsRecorded, DropHasRebuild,
         NEW b \in Ops, OpType[b] = "Rebuild", BegunAlone(b), FreshFor(b)
  PROVE  FreshFor(b)'
<1>h. HandshakeInv /\ PassInv /\ TypeOK /\ DatabaseInv /\ db \in Databases
      BY DEF ProtocolInv, HandshakeInv, ResetInv, TypeOK
<1>u. ~FailCall /\ ~DeleteOperation(b)
      BY <1>h, UndisturbedStep
<1>a. /\ (reset[b] = "") <=> (prevUID[b] = Unset)
      /\ job[b] # "none" => reset[b] = "done"
      BY <1>h DEF HandshakeInv, ResetInv
<1>1. ASSUME Past(b)', pass'.pc = "delete"
      PROVE  db'.uid = pass'.uid /\ ~db'.terminating
  <2>1. CASE pass' = pass
    <3>1. Past(b) /\ pass.pc = "delete" /\ ~deleteDatabase
          BY <2>1, <1>1, <1>h, PassSteps DEF Past, deleteDatabase
    <3>2. db.uid = pass.uid /\ ~db.terminating /\ db.uid # Unset
          BY <3>1, <1>h, UIDFacts DEF FreshFor, PassInv
    <3>3. ApplyDatabase => db'.uid = db.uid /\ ~db'.terminating
          BY <1>h DEF ApplyDatabase, Databases
    <3>4. ~DropDatabase
          BY <3>2 DEF DropDatabase
    <3> QED BY <2>1, <3>1, <3>2, <3>3, <3>4, <1>h, DatabaseFrame
  <2>2. CASE pass' # pass
    <3>1. /\ ensureRebuildDatabaseReset /\ pass' = [pass EXCEPT !.pc = "delete", !.uid = db.uid]
          /\ prevUID[pass.op] = Unset /\ db' = db /\ pass.pc = "reset"
      <4>r. ~Return
            BY <1>1, <1>h, PassSteps
      <4>g. \A q : Goto(q) => q = "delete"
            BY <1>1, <1>h, PassSteps
      <4>s. ASSUME NEW x \in Ops PROVE ~StartPass(x)
            BY <1>1 DEF StartPass
      <4> QED BY <2>2, <4>r, <4>g, <4>s, Actions DEF CreateOperation, DeleteOperation, EndJob, claimWritePlane,
            apiQuiescedForRebuild, ensureRebuildDatabaseReset, annotatePending, cnpgClusterReadyForJobs,
            ensureJob, syncStatusFromJob, FailCall, reconcileOwnedCNPGDatabase, deleteDatabase,
            DropDatabase, ApplyDatabase, Quiet
    <3>2. pass'.uid = db.uid /\ pass'.op = pass.op
          BY <3>1, <1>h DEF TypeOK, Passes
    <3>3. pass.op = b
          BY <3>2, <1>1 DEF Past
    <3>4. ~db.terminating
      <4>1. Past(b) /\ reset[b] # "done"
            BY <3>1, <3>3, <1>h DEF Past, PassInv
      <4> QED BY <4>1, <3>1, <3>3, <1>h, <1>a, DropIsFor DEF Begun
    <3> QED BY <3>1, <3>2, <3>4
  <2> QED BY <2>1, <2>2
<1>2. ASSUME Past(b)', pass'.pc = "annotate", db'.applied, db'.uid # pass'.uid
      PROVE  rows' = "empty"
  <2>1. CASE pass' = pass
    <3>1. Past(b) /\ pass.pc = "annotate"
          BY <2>1, <1>2 DEF Past
    <3>2. Begun(b) /\ job[b] = "none"
          BY <3>1, <1>h, <1>a DEF Begun, PassInv, Past
    <3> QED BY <2>1, <1>2, <3>1, <3>2, RowsStep DEF FreshFor
  <2>2. CASE pass' # pass
    <3>1. deleteDatabase
      <4>r. ~Return
            BY <1>2, <1>h, PassSteps
      <4>g. \A q : Goto(q) => q = "annotate"
            BY <1>2, <1>h, PassSteps
      <4>s. ASSUME NEW x \in Ops PROVE ~StartPass(x)
            BY <1>2 DEF StartPass
      <4>d. pass' # [pass EXCEPT !.pc = "delete", !.uid = db.uid]
            BY <1>2, <1>h DEF TypeOK, Passes
      <4> QED BY <2>2, <4>r, <4>g, <4>s, <4>d, Actions DEF CreateOperation, DeleteOperation, EndJob, claimWritePlane,
            apiQuiescedForRebuild, ensureRebuildDatabaseReset, annotatePending, cnpgClusterReadyForJobs,
            ensureJob, syncStatusFromJob, FailCall, reconcileOwnedCNPGDatabase,
            DropDatabase, ApplyDatabase, Quiet
    <3>2. pass'.uid = pass.uid /\ pass'.op = pass.op /\ pass.pc = "delete"
          BY <3>1, <1>h, PassSteps DEF deleteDatabase
    <3>3. db'.uid = db.uid
          BY <3>1, <1>h DEF deleteDatabase, Databases
    <3>4. db.uid = pass.uid
          BY <3>2, <1>2 DEF FreshFor, Past
    <3> QED BY <3>2, <3>3, <3>4, <1>2
  <2> QED BY <2>1, <2>2
<1>3. ASSUME reset'[b] # "", job'[b] = "none", db'.applied, db'.uid # prevUID'[b]
      PROVE  rows' = "empty"
  <2>j. job[b] = "none"
        BY <1>3, <1>h, <1>u, JobFrame
  <2>1. CASE reset'[b] = reset[b] /\ prevUID'[b] = prevUID[b]
        BY <1>3, <2>1, <2>j, RowsStep DEF FreshFor, Begun
  <2>2. CASE reset'[b] # reset[b] \/ prevUID'[b] # prevUID[b]
    <3>1. Past(b)
          BY <2>2, <1>h, ResetFrame
    <3>2. db.uid # Unset
          BY <1>3, <2>2, <1>h, ResetFrame DEF DatabaseInv
    <3> QED BY <1>3, <2>2, <2>j, <3>1, <3>2, <1>h, <1>a, ResetFrame DEF FreshFor
  <2> QED BY <2>1, <2>2
<1>4. ASSUME reset'[b] = "done", job'[b] = "none" PROVE db'.applied /\ db'.uid # prevUID'[b]
  <2>j. job[b] = "none"
        BY <1>4, <1>h, <1>u, JobFrame
  <2>1. CASE reset[b] = "done"
    <3>1. ~Past(b) \/ pass.pc \notin {"annotate", "reset", "delete"}
          BY <2>1, <1>h DEF Past, PassInv
    <3>2. reset'[b] = reset[b] /\ prevUID'[b] = prevUID[b]
          BY <3>1, <1>h, ResetFrame
    <3>3. ~db.terminating /\ db.applied /\ db.uid # prevUID[b]
          BY <2>1, <2>j, <3>1, <1>h, DropIsFor DEF FreshFor, Begun
    <3> QED BY <3>2, <3>3, KeptDatabase
  <2>2. CASE reset[b] # "done"
        BY <1>4, <2>2, <1>h, ResetFrame
  <2> QED BY <2>1, <2>2
<1> QED BY <1>1, <1>2, <1>3, <1>4 DEF FreshFor

LEMMA DropStep ==
  ASSUME ProtocolInv, [Next]_vars, Undisturbed', DropHasRebuild,
         \A b \in Ops : OpType[b] = "Rebuild" => FreshFor(b), db'.terminating
  PROVE  \E b \in Ops : /\ OpType[b] = "Rebuild"
                        /\ \/ reset'[b] = "pending" /\ db'.uid = prevUID'[b]
                           \/ Past(b)' /\ pass'.pc = "annotate" /\ db'.uid = pass'.uid
<1>h. HandshakeInv /\ PassInv /\ TypeOK /\ DatabaseInv /\ db \in Databases
      BY DEF ProtocolInv, HandshakeInv, ResetInv, TypeOK
<1>u. ~FailCall
      BY <1>h, UndisturbedStep
<1>1. CASE deleteDatabase
  <2>1. /\ pass.pc = "delete" /\ pass.op \in Ops /\ OpType[pass.op] = "Rebuild"
        BY <1>1, <1>h DEF deleteDatabase, PassInv
  <2>2. PICK b \in Ops : b = pass.op
        BY <2>1
  <2>3. pass'.pc = "annotate" /\ pass'.op = b /\ pass'.uid = pass.uid
        BY <1>1, <2>2, <1>h, PassSteps DEF deleteDatabase
  <2>4. db.uid = pass.uid
        BY <2>1, <2>2 DEF FreshFor, Past
  <2>5. db'.uid = db.uid
        BY <1>1, <1>h DEF deleteDatabase, Databases
  <2>6. Past(b)'
        BY <2>3 DEF Past
  <2> QED BY <2>1, <2>2, <2>3, <2>4, <2>5, <2>6
<1>2. CASE ~deleteDatabase
  <2>1. ~DropDatabase
        BY RecordsTyped DEF DropDatabase
  <2>2. ~ApplyDatabase
        BY <1>h DEF ApplyDatabase, Databases
  <2>3. ~CreateDatabase
        BY DEF CreateDatabase
  <2>4. db' = db /\ db.terminating
        BY <1>2, <2>1, <2>2, <2>3, <1>h, DatabaseFrame
  <2>5. PICK b \in Ops : /\ OpType[b] = "Rebuild"
                         /\ \/ reset[b] = "pending" /\ db.uid = prevUID[b]
                            \/ Past(b) /\ pass.pc = "annotate" /\ db.uid = pass.uid
        BY <2>4 DEF DropHasRebuild
  <2>a. (reset[b] = "") <=> (prevUID[b] = Unset)
        BY <1>h DEF HandshakeInv, ResetInv
  <2>6. CASE reset[b] = "pending" /\ db.uid = prevUID[b]
    <3>1. Past(b) => pass.pc # "annotate"
          BY <2>6, <2>a, <1>h DEF PassInv, Past
    <3>2. reset'[b] = reset[b] /\ prevUID'[b] = prevUID[b]
          BY <2>6, <2>a, <3>1, <1>h, ResetFrame
    <3> QED BY <2>4, <2>5, <2>6, <3>2
  <2>7. CASE Past(b) /\ pass.pc = "annotate" /\ db.uid = pass.uid /\ pass' = pass
        BY <2>4, <2>5, <2>7 DEF Past
  <2>8. CASE Past(b) /\ pass.pc = "annotate" /\ db.uid = pass.uid /\ pass' # pass
    <3>1. annotatePending
          BY <2>8, <1>h, <1>u, PassFrame
    <3>2. reset'[b] = "pending" /\ prevUID'[b] = pass.uid
          BY <3>1, <2>8, <1>h, AnnotateFacts DEF annotatePending, Past, PassInv
    <3> QED BY <2>4, <2>5, <2>8, <3>2
  <2> QED BY <2>5, <2>6, <2>7, <2>8
<1> QED BY <1>1, <1>2

\* The handshake undisturbed, one invariant for every Rebuild.
LEMMA CleanResetStep ==
  ASSUME ProtocolInv, CleanReset, [Next]_vars
  PROVE  CleanReset'
<1> SUFFICES ASSUME Undisturbed'
             PROVE  /\ JobsRecorded' /\ DropHasRebuild'
                    /\ \A b \in Ops : OpType[b] = "Rebuild" => BegunAlone(b)' /\ FreshFor(b)'
    BY DEF CleanReset
<1>1. /\ JobsRecorded /\ DropHasRebuild
      /\ \A b \in Ops : OpType[b] = "Rebuild" => BegunAlone(b) /\ FreshFor(b)
      BY UndisturbedStep DEF CleanReset, ProtocolInv
<1>2. JobsRecorded'
      BY <1>1, RecordedStep
<1>3. DropHasRebuild'
      BY <1>1, DropStep DEF DropHasRebuild
<1>4. ASSUME NEW b \in Ops, OpType[b] = "Rebuild" PROVE BegunAlone(b)' /\ FreshFor(b)'
      BY <1>1, <1>4, AloneStep, FreshStep
<1> QED BY <1>2, <1>3, <1>4

LEMMA CleanResetInit == Init => CleanReset
<1> SUFFICES ASSUME Init PROVE CleanReset
    OBVIOUS
<1>1. pass.pc = "idle"
      BY RecordsTyped DEF Init
<1>2. \A o \in Ops : job[o] = "none" /\ reset[o] = ""
      BY DEF Init
<1>3. ~db.terminating
      BY DEF Init
<1>4. \A b \in Ops : ~Begun(b) /\ ~Past(b)
      BY <1>1, <1>2 DEF Begun, Past
<1> QED BY <1>2, <1>3, <1>4 DEF CleanReset, JobsRecorded, DropHasRebuild, BegunAlone, FreshFor

\* Every reachable state.
CleanInv == ProtocolInv /\ CleanReset

LEMMA CleanInvariant == Spec => []CleanInv
<1>1. Init => CleanInv
      BY ProtocolInit, CleanResetInit DEF CleanInv
<1>2. CleanInv /\ [Next]_vars => CleanInv'
      BY ProtocolStep, CleanResetStep DEF CleanInv
<1> QED BY <1>1, <1>2, PTL DEF Spec

(* Whatever the Operations are, whatever their names and however many of   *)
(* them are Rebuilds, a Rebuild creates its Job on an empty database: the  *)
(* data of the import before it is dropped and nobody has filled the new   *)
(* database.  This ends with the first failed call, deleted Operation or   *)
(* claim granted in mid-reset (ensureRebuildDatabaseReset,                 *)
(* cnpgClusterReadyForJobs, ensureJob).                                    *)
THEOREM RebuildStartsEmptyHolds == Spec => RebuildStartsEmpty
<1>1. CleanInv /\ [Next]_vars => [Undisturbed => StartsEmpty]_vars
  <2> SUFFICES ASSUME CleanInv, [Next]_vars, Undisturbed, NEW o \in Ops,
                      OpType[o] = "Rebuild", job[o] = "none", job'[o] = "running"
               PROVE  rows = "empty"
      BY DEF StartsEmpty
  <2>h. HandshakeInv /\ PassInv
        BY DEF CleanInv, ProtocolInv, HandshakeInv
  <2>1. ~DeleteOperation(o)
        <3>1. DeleteOperation(o) => job'[o] = "none"
              BY <2>h DEF DeleteOperation, HandshakeInv, ResetInv, TypeOK
        <3> QED BY <3>1
  <2>2. ensureJob /\ pass.op = o
        BY <2>1, <2>h, JobFrame
  <2>3. reset[o] = "done"
        BY <2>2, <2>h DEF ensureJob, PassInv
  <2>4. FreshFor(o)
        BY DEF CleanInv, CleanReset
  <2> QED BY <2>3, <2>4 DEF FreshFor
<1> QED BY <1>1, CleanInvariant, PTL DEF Spec, RebuildStartsEmpty

(* The data of an Instance is dropped for a Rebuild only that exists, is   *)
(* active and has not started to import, and never under a running Job,    *)
(* whatever the Operations are and as long as for the theorem before       *)
(* (ensureRebuildDatabaseReset; the finalizer of the CNPG Database).       *)
THEOREM DropOnlyForRebuildHolds == Spec => DropOnlyForRebuild
<1>1. CleanInv /\ [Next]_vars
        => [Undisturbed /\ rows # "absent" /\ rows' = "absent" => DropJustified]_vars
  <2> SUFFICES ASSUME CleanInv, [Next]_vars, Undisturbed, rows # "absent", rows' = "absent"
               PROVE  DropJustified
      OBVIOUS
  <2>h. HandshakeInv /\ PassInv
        BY DEF CleanInv, ProtocolInv, HandshakeInv
  <2>1. DropDatabase
        BY <2>h, RowsFrame DEF ApplyDatabase
  <2>2. PICK b \in Ops : /\ OpType[b] = "Rebuild"
                         /\ \/ reset[b] = "pending" /\ db.uid = prevUID[b]
                            \/ Past(b) /\ pass.pc = "annotate" /\ db.uid = pass.uid
        BY <2>1 DEF DropDatabase, CleanInv, CleanReset, DropHasRebuild
  <2>3. Begun(b) /\ reset[b] # "done"
        BY <2>2, <2>h DEF Begun, PassInv, Past
  <2>4. job[b] = "none"
        BY <2>2, <2>3, <2>h DEF HandshakeInv, ResetInv
  <2>5. BegunAlone(b) /\ JobsRecorded
        BY <2>2 DEF CleanInv, CleanReset
  <2>6. b \in Live /\ isActiveOperationPhase(phase[b])
        BY <2>3, <2>4, <2>5 DEF BegunAlone, Live
  <2>7. ASSUME NEW o \in Ops, job[o] = "running" PROVE FALSE
    <3>1. Granted(o) /\ o # b
          BY <2>4, <2>5, <2>7 DEF JobsRecorded, Granted, peerHoldsWritePlane,
             isActiveOperationPhase, ActivePhases
    <3> QED BY <3>1, <2>3, <2>4, <2>5 DEF BegunAlone
  <2> QED BY <2>2, <2>4, <2>6, <2>7 DEF DropJustified
<1> QED BY <1>1, CleanInvariant, PTL DEF Spec, DropOnlyForRebuild

=============================================================================
