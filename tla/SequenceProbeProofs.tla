------------------------- MODULE SequenceProbeProofs ------------------------
(* Machine-checked proofs about SequenceProbe, for every set of Operations *)
(* and regions and every value of the bounds.                              *)
EXTENDS SequenceProbe, TLAPS

USE SequenceProbeAssumption

-----------------------------------------------------------------------------
(* The records.                                                            *)

LEMMA RecordsTyped ==
  /\ IsProbe(NoProbe) /\ ~NoProbe.exists /\ ~NoProbe.succeeded /\ NoProbe.failed = 0
  /\ NoProbe.pod = "none"
  /\ IsPass(Idle) /\ Idle.pc = "idle"
BY DEF NoProbe, IsProbe, Idle, IsPass, Steps

\* The steps of a pass.
LEMMA PassSteps ==
  ASSUME ControlOK
  PROVE  /\ pass' = Idle => IsPass(pass') /\ pass'.pc = "idle"
         /\ \A s \in Steps : Goto(s) => IsPass(pass') /\ pass'.pc = s
         /\ \A o \in Ops : NextProbe(o) => IsPass(pass') /\ pass'.pc = pass.pc
<1>1. IsPass(pass)
      BY DEF ControlOK
<1>2. pass' = Idle => IsPass(pass') /\ pass'.pc = "idle"
      BY RecordsTyped
<1>3. ASSUME NEW s \in Steps, Goto(s) PROVE IsPass(pass') /\ pass'.pc = s
      BY <1>1, <1>3 DEF Goto, IsPass
<1>4. ASSUME NEW o \in Ops, NextProbe(o) PROVE IsPass(pass') /\ pass'.pc = pass.pc
      BY <1>1, <1>4 DEF NextProbe, IsPass
<1> QED BY <1>2, <1>3, <1>4

\* The updates of a probe keep it one, and the first and the last one leave
\* alone what counts for its end.
LEMMA ProbeCreated ==
  ASSUME NEW p, IsProbe(p)
  PROVE  /\ IsProbe([p EXCEPT !.exists = TRUE])
         /\ [p EXCEPT !.exists = TRUE].succeeded = p.succeeded
         /\ [p EXCEPT !.exists = TRUE].failed = p.failed
         /\ [p EXCEPT !.exists = TRUE].pod = p.pod
         /\ [p EXCEPT !.exists = TRUE].exists
BY DEF IsProbe

LEMMA PodStarted ==
  ASSUME NEW p, IsProbe(p), NEW pd \in {"list", "exit"}, NEW q,
         q = [p EXCEPT !.pod = pd, !.report = NoReport, !.aux = "unknown"]
  PROVE  IsProbe(q) /\ q.exists = p.exists /\ q.succeeded = p.succeeded /\ q.failed = p.failed
BY DEF IsProbe

LEMMA FilesListed ==
  ASSUME NEW p, IsProbe(p), NEW rd, NEW q, q = [p EXCEPT !.pod = "read", !.read = rd]
  PROVE  IsProbe(q) /\ q.exists = p.exists /\ q.succeeded = p.succeeded /\ q.failed = p.failed
BY DEF IsProbe

LEMMA FileRead ==
  ASSUME NEW p, IsProbe(p), NEW q, q = AfterRead(p)
  PROVE  IsProbe(q) /\ q.exists = p.exists /\ q.succeeded = p.succeeded /\ q.failed = p.failed
<1>1. CASE p.read = {}
  <2>1. PICK a : a = files.aux
        OBVIOUS
  <2>2. q = [p EXCEPT !.pod = "patch", !.aux = a]
        BY <1>1, <2>1 DEF AfterRead
  <2> QED BY <2>2 DEF IsProbe
<1>2. CASE p.read # {}
  <2>1. PICK rd, rep : q = [p EXCEPT !.read = rd, !.report = rep]
        BY <1>2 DEF AfterRead
  <2> QED BY <2>1 DEF IsProbe
<1> QED BY <1>1, <1>2

LEMMA ReportPatched ==
  ASSUME NEW p, IsProbe(p), NEW q, q = [p EXCEPT !.pod = "exit"]
  PROVE  IsProbe(q) /\ q.exists = p.exists /\ q.succeeded = p.succeeded /\ q.failed = p.failed
BY DEF IsProbe

LEMMA PodEnded ==
  ASSUME NEW p, IsProbe(p), NEW q,
         \/ q = [NoProbe EXCEPT !.exists = TRUE, !.succeeded = TRUE, !.failed = p.failed]
         \/ q = [NoProbe EXCEPT !.exists = TRUE, !.failed = p.failed + 1]
  PROVE  IsProbe(q) /\ q.exists /\ q.pod = "none"
<1>1. p.failed \in Nat
      BY DEF IsProbe
<1>2. CASE q = [NoProbe EXCEPT !.exists = TRUE, !.succeeded = TRUE, !.failed = p.failed]
      BY <1>1, <1>2 DEF IsProbe, NoProbe
<1>3. CASE q = [NoProbe EXCEPT !.exists = TRUE, !.failed = p.failed + 1]
      <2>1. PICK n \in Nat : n = p.failed + 1
            BY <1>1
      <2> QED BY <2>1, <1>3 DEF IsProbe, NoProbe
<1> QED BY <1>2, <1>3

\* What a step may do to the probe of o.
ProbeChange(o) ==
  \/ probe'[o] = probe[o]
  \/ createSequenceProbeJob(o) /\ probe'[o] = [probe[o] EXCEPT !.exists = TRUE]
  \/ /\ StartProbePod(o) \/ ListState(o) \/ ReadState(o) \/ PatchReport(o)
     /\ probe'[o].exists = probe[o].exists /\ probe'[o].succeeded = probe[o].succeeded
     /\ probe'[o].failed = probe[o].failed
  \/ /\ EndProbePod(o) \/ ReadRaises(o) \/ FailProbePod(o)
     /\ probe'[o].exists /\ probe'[o].pod = "none" /\ o \in ran'
  \/ ExpireProbe(o) /\ probe'[o] = NoProbe

LEMMA ProbeFrame ==
  ASSUME ControlOK, [Next]_vars
  PROVE  /\ DOMAIN probe' = Ops
         /\ \A o \in Ops : IsProbe(probe'[o]) /\ ProbeChange(o)
<1> DEFINE Goal == DOMAIN probe' = Ops /\ \A o \in Ops : IsProbe(probe'[o]) /\ ProbeChange(o)
<1>p. DOMAIN probe = Ops /\ \A o \in Ops : IsProbe(probe[o])
      BY DEF ControlOK
<1>1. ASSUME probe' = probe PROVE Goal
      BY <1>1, <1>p DEF ProbeChange
<1>x. ASSUME NEW x \in Ops, NEW new, probe' = [probe EXCEPT ![x] = new], IsProbe(new), ProbeChange(x)
      PROVE  Goal
      BY <1>x, <1>p DEF ProbeChange
<1>y. ASSUME NEW x \in Ops, NEW new, probe' = [probe EXCEPT ![x] = new] PROVE probe'[x] = new
      BY <1>y, <1>p
<1>2. ASSUME NEW x \in Ops, createSequenceProbeJob(x) PROVE Goal
  <2> DEFINE new == [probe[x] EXCEPT !.exists = TRUE]
  <2>1. CASE probe' = [probe EXCEPT ![x] = new]
    <3>1. IsProbe(new)
          BY <1>p, ProbeCreated
    <3>2. ProbeChange(x)
          BY <1>2, <2>1, <1>y DEF ProbeChange
    <3> QED BY <2>1, <3>1, <3>2, <1>x
  <2>2. probe' = probe \/ probe' = [probe EXCEPT ![x] = new]
        BY <1>2, <1>p DEF createSequenceProbeJob
  <2> QED BY <2>1, <2>2, <1>1
<1>3. ASSUME NEW x \in Ops, StartProbePod(x) PROVE Goal
  <2>0. PICK pd \in {"list", "exit"} : pd = IF files.dir THEN "list" ELSE "exit"
        OBVIOUS
  <2> DEFINE new == [probe[x] EXCEPT !.pod = pd, !.report = NoReport, !.aux = "unknown"]
  <2>1. probe' = [probe EXCEPT ![x] = new]
        BY <1>3, <2>0 DEF StartProbePod
  <2>2. /\ IsProbe(new) /\ new.exists = probe[x].exists /\ new.succeeded = probe[x].succeeded
        /\ new.failed = probe[x].failed
        BY <1>p, PodStarted
  <2> HIDE DEF new
  <2>3. ProbeChange(x)
        BY <1>3, <2>1, <2>2, <1>y DEF ProbeChange
  <2> QED BY <2>1, <2>2, <2>3, <1>x
<1>9. ASSUME NEW x \in Ops, ListState(x) PROVE Goal
  <2>0. PICK rd : rd = {r \in RegionPaths : files.seq[r] # 0}
        OBVIOUS
  <2> DEFINE new == [probe[x] EXCEPT !.pod = "read", !.read = rd]
  <2>1. probe' = [probe EXCEPT ![x] = new]
        BY <1>9, <2>0 DEF ListState
  <2>p. IsProbe(probe[x])
        BY <1>p
  <2>2. /\ IsProbe(new) /\ new.exists = probe[x].exists /\ new.succeeded = probe[x].succeeded
        /\ new.failed = probe[x].failed
        BY <2>p, FilesListed, Zenon
  <2> HIDE DEF new
  <2>3. ProbeChange(x)
        BY <1>9, <2>1, <2>2, <1>y DEF ProbeChange
  <2> QED BY <2>1, <2>2, <2>3, <1>x
<1>4. ASSUME NEW x \in Ops, ReadState(x) PROVE Goal
  <2>0. PICK new : new = AfterRead(probe[x])
        OBVIOUS
  <2>1. probe' = [probe EXCEPT ![x] = new]
        BY <1>4, <2>0 DEF ReadState
  <2>2. /\ IsProbe(new) /\ new.exists = probe[x].exists /\ new.succeeded = probe[x].succeeded
        /\ new.failed = probe[x].failed
        BY <2>0, <1>p, FileRead
  <2>3. ProbeChange(x)
        BY <1>4, <2>1, <2>2, <1>y DEF ProbeChange
  <2> QED BY <2>1, <2>2, <2>3, <1>x
<1>5. ASSUME NEW x \in Ops, PatchReport(x) PROVE Goal
  <2> DEFINE new == [probe[x] EXCEPT !.pod = "exit"]
  <2>1. probe' = [probe EXCEPT ![x] = new]
        BY <1>5 DEF PatchReport
  <2>2. /\ IsProbe(new) /\ new.exists = probe[x].exists /\ new.succeeded = probe[x].succeeded
        /\ new.failed = probe[x].failed
        BY <1>p, ReportPatched
  <2> HIDE DEF new
  <2>3. ProbeChange(x)
        BY <1>5, <2>1, <2>2, <1>y DEF ProbeChange
  <2> QED BY <2>1, <2>2, <2>3, <1>x
<1>6. ASSUME NEW x \in Ops, EndProbePod(x) \/ ReadRaises(x) \/ FailProbePod(x) PROVE Goal
  <2>1. PICK new : /\ probe' = [probe EXCEPT ![x] = new]
                   /\ \/ new = [NoProbe EXCEPT !.exists = TRUE, !.succeeded = TRUE, !.failed = probe[x].failed]
                      \/ new = [NoProbe EXCEPT !.exists = TRUE, !.failed = probe[x].failed + 1]
        BY <1>6 DEF EndProbePod, ReadRaises, FailProbePod, PodFailed
  <2>2. IsProbe(new) /\ new.exists /\ new.pod = "none"
        BY <2>1, <1>p, PodEnded
  <2>3. x \in ran'
        BY <1>6 DEF EndProbePod, ReadRaises, FailProbePod
  <2>4. ProbeChange(x)
        BY <1>6, <2>1, <2>2, <2>3, <1>y DEF ProbeChange
  <2> QED BY <2>1, <2>2, <2>4, <1>x
<1>7. ASSUME NEW x \in Ops, ExpireProbe(x) PROVE Goal
  <2>1. probe' = [probe EXCEPT ![x] = NoProbe]
        BY <1>7 DEF ExpireProbe
  <2>2. ProbeChange(x)
        BY <1>7, <2>1, <1>y DEF ProbeChange
  <2> QED BY <2>1, <2>2, <1>x, RecordsTyped
<1>8. \/ probe' = probe
      \/ \E x \in Ops : \/ createSequenceProbeJob(x) \/ StartProbePod(x) \/ ListState(x) \/ ReadState(x)
                        \/ PatchReport(x) \/ EndProbePod(x) \/ ReadRaises(x) \/ FailProbePod(x) \/ ExpireProbe(x)
      BY DEF Next, PassStep, FailPass, Publish, ProbeStep, OperationStep, vars, StartPass,
         ensureSequenceProbeRBAC, ensureSequenceReportConfigMap, markSequenceObserved, ProbesEnsured,
         applySequenceReportConfigMap, syncStatus, StartOperation, MakeDirectory, WriteState,
         OperationSucceeds
<1> QED BY <1>1, <1>2, <1>3, <1>4, <1>5, <1>6, <1>7, <1>8, <1>9

-----------------------------------------------------------------------------
(* What a step may do to the other variables.                              *)

\* Marks are set by markSequenceObserved alone.
LEMMA OpsFrame ==
  ASSUME ControlOK, [Next]_vars
  PROVE  /\ ops' \in [Ops -> Operations]
         /\ \A o \in Ops :
              ops'[o].observed => ops[o].observed \/ (markSequenceObserved(o) /\ probeDone(o))
<1>1. ops \in [Ops -> Operations]
      BY DEF ControlOK
<1>2. CASE ops' = ops
      BY <1>1, <1>2
<1>3. ASSUME NEW x \in Ops, markSequenceObserved(x), ops' # ops
      PROVE  probeDone(x) /\ ops' = [ops EXCEPT ![x].observed = TRUE]
      BY <1>3 DEF markSequenceObserved
<1>4. ASSUME NEW x \in Ops, markSequenceObserved(x), ops' # ops
      PROVE  /\ ops' \in [Ops -> Operations]
             /\ \A o \in Ops : o # x => ops'[o] = ops[o]
  <2>1. ops[x] \in Operations
        BY <1>1
  <2>2. PICK new : new = [ops[x] EXCEPT !.observed = TRUE]
        OBVIOUS
  <2>3. new \in Operations
        BY <2>1, <2>2 DEF Operations
  <2>4. ops' = [ops EXCEPT ![x] = new]
        BY <1>3, <1>4, <2>2
  <2> QED BY <1>1, <2>3, <2>4
<1>5. ASSUME NEW x \in Ops, NEW ph \in {"Running", "Succeeded"}, ops' = [ops EXCEPT ![x].phase = ph]
      PROVE  ops' \in [Ops -> Operations] /\ \A o \in Ops : ops'[o].observed = ops[o].observed
      BY <1>1, <1>5 DEF Operations
<1>6. ASSUME NEW x \in Ops, NEW r, ops' = [ops EXCEPT ![x].todo = @ \ {r}]
      PROVE  ops' \in [Ops -> Operations] /\ \A o \in Ops : ops'[o].observed = ops[o].observed
      BY <1>1, <1>6 DEF Operations
<1>7. \/ ops' = ops
      \/ \E x \in Ops : \/ markSequenceObserved(x) \/ StartOperation(x) \/ WriteState(x)
                        \/ OperationSucceeds(x)
      BY DEF Next, PassStep, FailPass, Publish, ProbeStep, OperationStep, vars, StartPass,
         ensureSequenceProbeRBAC, ensureSequenceReportConfigMap, createSequenceProbeJob, ProbesEnsured,
         applySequenceReportConfigMap, syncStatus, MakeDirectory, StartProbePod, ListState, ReadState,
         PatchReport, EndProbePod, ReadRaises, FailProbePod, ExpireProbe
<1>8. ASSUME NEW x \in Ops, StartOperation(x) \/ OperationSucceeds(x)
      PROVE  \E ph \in {"Running", "Succeeded"} : ops' = [ops EXCEPT ![x].phase = ph]
      BY <1>8 DEF StartOperation, OperationSucceeds
<1>9. ASSUME NEW x \in Ops, WriteState(x) PROVE \E r : ops' = [ops EXCEPT ![x].todo = @ \ {r}]
      BY <1>9 DEF WriteState
<1>10. ASSUME NEW x \in Ops, markSequenceObserved(x), ops' # ops
       PROVE  \A o \in Ops :
                ops'[o].observed => ops[o].observed \/ (markSequenceObserved(o) /\ probeDone(o))
  <2> SUFFICES ASSUME NEW o \in Ops, ops'[o].observed, ~ops[o].observed
               PROVE  markSequenceObserved(o) /\ probeDone(o)
      OBVIOUS
  <2>1. o = x
        BY <1>4, <1>10, Zenon
  <2> QED BY <1>3, <1>10, <2>1, Zenon
<1>11. CASE \E x \in Ops : markSequenceObserved(x) /\ ops' # ops
       BY <1>4, <1>10, <1>11, Zenon
<1>12. CASE \E x \in Ops : StartOperation(x) \/ OperationSucceeds(x)
  <2>1. PICK x \in Ops, ph \in {"Running", "Succeeded"} : ops' = [ops EXCEPT ![x].phase = ph]
        BY <1>8, <1>12
  <2>2. ops' \in [Ops -> Operations] /\ \A o \in Ops : ops'[o].observed = ops[o].observed
        BY <1>5, <2>1
  <2> QED BY <2>2, Zenon
<1>13. CASE \E x \in Ops : WriteState(x)
  <2>0. PICK x \in Ops : WriteState(x)
        BY <1>13
  <2>1. PICK r : ops' = [ops EXCEPT ![x].todo = @ \ {r}]
        BY <1>9, <2>0
  <2>2. ops' \in [Ops -> Operations] /\ \A o \in Ops : ops'[o].observed = ops[o].observed
        BY <1>6, <2>1
  <2> QED BY <2>2, Zenon
<1> QED BY <1>2, <1>7, <1>11, <1>12, <1>13, Zenon

\* The ConfigMap is never removed, and a pass leaves the step that creates it
\* only when it exists.
LEMMA ConfigMapFrame ==
  ASSUME ControlOK, [Next]_vars
  PROVE  /\ IsConfigMap(cm') /\ (cm.exists => cm'.exists)
         /\ ensureSequenceReportConfigMap => cm'.exists
<1>1. IsConfigMap(cm)
      BY DEF ControlOK
<1>2. CASE cm' = cm /\ ~ensureSequenceReportConfigMap
      BY <1>1, <1>2
<1>3. CASE ensureSequenceReportConfigMap
      BY <1>1, <1>3 DEF ensureSequenceReportConfigMap, IsConfigMap
<1>4. ASSUME NEW x \in Ops, PatchReport(x), cm' # cm PROVE IsConfigMap(cm') /\ cm'.exists = cm.exists
  <2>1. PICK a, b : cm' = [cm EXCEPT !.report = a, !.aux = b]
        BY <1>4 DEF PatchReport
  <2> QED BY <1>1, <2>1 DEF IsConfigMap
<1>5. cm' = cm \/ ensureSequenceReportConfigMap \/ \E x \in Ops : PatchReport(x)
      BY DEF Next, PassStep, FailPass, Publish, ProbeStep, OperationStep, vars, StartPass,
         ensureSequenceProbeRBAC, markSequenceObserved, createSequenceProbeJob, ProbesEnsured,
         applySequenceReportConfigMap, syncStatus, MakeDirectory, StartProbePod, ListState, ReadState,
         EndProbePod, ReadRaises, FailProbePod, ExpireProbe, StartOperation, WriteState, OperationSucceeds
<1> QED BY <1>2, <1>3, <1>4, <1>5

\* Grants are never taken back, and ran only grows.
LEMMA GrantsFrame ==
  ASSUME ControlOK, [Next]_vars
  PROVE  grants' \subseteq Grants /\ grants \subseteq grants' /\ ran' \subseteq Ops /\ ran \subseteq ran'
<1>1. grants \subseteq Grants /\ ran \subseteq Ops
      BY DEF ControlOK
<1>2. grants' = grants \/ \E g \in Grants : grants' = grants \union {g}
      BY DEF Next, PassStep, FailPass, Publish, ProbeStep, OperationStep, vars, StartPass,
         ensureSequenceProbeRBAC, ensureSequenceReportConfigMap, markSequenceObserved,
         createSequenceProbeJob, ProbesEnsured, applySequenceReportConfigMap, syncStatus,
         MakeDirectory, StartProbePod, ListState, ReadState, PatchReport, EndProbePod, ReadRaises, FailProbePod,
         ExpireProbe, StartOperation, WriteState, OperationSucceeds, Grants
<1>3. ran' = ran \/ \E x \in Ops : ran' = ran \union {x}
      BY DEF Next, PassStep, FailPass, Publish, ProbeStep, OperationStep, vars, StartPass,
         ensureSequenceProbeRBAC, ensureSequenceReportConfigMap, markSequenceObserved,
         createSequenceProbeJob, ProbesEnsured, applySequenceReportConfigMap, syncStatus,
         MakeDirectory, StartProbePod, ListState, ReadState, PatchReport, EndProbePod, ReadRaises, FailProbePod,
         ExpireProbe, StartOperation, WriteState, OperationSucceeds
<1> QED BY <1>1, <1>2, <1>3

\* How a pass gets to each of its steps.
PassChange ==
  \/ pass'.pc = pass.pc
  \/ pass'.pc \in {"idle", "ServiceAccount", "apply", "sync"}
  \/ ensureSequenceProbeRBAC("ServiceAccount", "Role") /\ pass'.pc = "Role"
  \/ ensureSequenceProbeRBAC("Role", "RoleBinding") /\ pass'.pc = "RoleBinding"
  \/ ensureSequenceProbeRBAC("RoleBinding", "ConfigMap") /\ pass'.pc = "ConfigMap"
  \/ ensureSequenceReportConfigMap /\ pass'.pc = "probes"

LEMMA PassFrame ==
  ASSUME ControlOK, [Next]_vars
  PROVE  IsPass(pass') /\ PassChange
<1>1. IsPass(pass)
      BY DEF ControlOK
<1>2. CASE pass' = pass
      BY <1>1, <1>2 DEF PassChange
<1>3. CASE StartPass
  <2>0. PICK st : st = observeRegionsFromSucceededOps
        OBVIOUS
  <2>1. PICK td \in SUBSET Ops :
          pass' = [pc |-> IF st.regions = {} THEN "sync" ELSE "ServiceAccount", status |-> st, todo |-> td]
        BY <1>3, <2>0 DEF StartPass
  <2>2. PICK s \in {"sync", "ServiceAccount"} : pass' = [pc |-> s, status |-> st, todo |-> td]
        BY <2>1
  <2> QED BY <2>2 DEF IsPass, PassChange, Steps
<1>4. CASE pass' = Idle
      BY <1>4, PassSteps DEF PassChange
<1>5. ASSUME NEW o \in Ops, NextProbe(o) PROVE IsPass(pass') /\ PassChange
      BY <1>5, PassSteps DEF PassChange
<1>6. CASE applySequenceReportConfigMap
  <2>1. PICK st : pass' = [pass EXCEPT !.pc = "sync", !.status = st]
        BY <1>6 DEF applySequenceReportConfigMap
  <2> QED BY <1>1, <2>1 DEF IsPass, PassChange, Steps
<1>7. CASE ProbesEnsured
  <2>1. Goto("apply") /\ "apply" \in Steps
        BY <1>7 DEF ProbesEnsured, Steps
  <2> QED BY <2>1, PassSteps DEF PassChange
<1>8. CASE ensureSequenceReportConfigMap
  <2>1. Goto("probes") /\ "probes" \in Steps
        BY <1>8 DEF ensureSequenceReportConfigMap, Steps
  <2> QED BY <2>1, <1>8, PassSteps DEF PassChange
<1>9. ASSUME NEW g, NEW next \in Steps, ensureSequenceProbeRBAC(g, next)
      PROVE  IsPass(pass') /\ pass'.pc = next
      BY <1>9, PassSteps DEF ensureSequenceProbeRBAC
<1>10. CASE \/ ensureSequenceProbeRBAC("ServiceAccount", "Role")
            \/ ensureSequenceProbeRBAC("Role", "RoleBinding")
            \/ ensureSequenceProbeRBAC("RoleBinding", "ConfigMap")
  <2>1. {"Role", "RoleBinding", "ConfigMap"} \subseteq Steps
        BY DEF Steps
  <2> QED BY <1>9, <1>10, <2>1 DEF PassChange
<1>11. \/ pass' = pass \/ StartPass \/ pass' = Idle \/ applySequenceReportConfigMap
       \/ ProbesEnsured \/ ensureSequenceReportConfigMap
       \/ ensureSequenceProbeRBAC("ServiceAccount", "Role")
       \/ ensureSequenceProbeRBAC("Role", "RoleBinding")
       \/ ensureSequenceProbeRBAC("RoleBinding", "ConfigMap")
       \/ \E o \in Ops : NextProbe(o)
      BY DEF Next, PassStep, FailPass, Publish, ProbeStep, OperationStep, vars, markSequenceObserved,
         createSequenceProbeJob, syncStatus, MakeDirectory, StartProbePod, ListState, ReadState, PatchReport,
         EndProbePod, ReadRaises, FailProbePod, ExpireProbe, StartOperation, WriteState, OperationSucceeds
<1> QED BY <1>2, <1>3, <1>4, <1>5, <1>6, <1>7, <1>8, <1>10, <1>11

LEMMA ControlInit == Init => ControlOK
<1> SUFFICES ASSUME Init PROVE ControlOK
    OBVIOUS
<1>1. ops \in [Ops -> Operations]
      BY DEF Init, Operations
<1>2. DOMAIN probe = Ops /\ \A o \in Ops : IsProbe(probe[o])
      BY RecordsTyped DEF Init
<1>3. IsConfigMap(cm)
      BY DEF Init, IsConfigMap
<1>4. IsPass(pass) /\ grants \subseteq Grants /\ ran \subseteq Ops
      BY RecordsTyped DEF Init
<1> QED BY <1>1, <1>2, <1>3, <1>4 DEF ControlOK

LEMMA ControlStep ==
  ASSUME ControlOK, [Next]_vars
  PROVE  ControlOK'
BY ProbeFrame, OpsFrame, ConfigMapFrame, GrantsFrame, PassFrame DEF ControlOK, IsProbe, IsConfigMap, IsPass

-----------------------------------------------------------------------------
(* Marks.                                                                  *)

LEMMA ProbedStep ==
  ASSUME ProbedInv, [Next]_vars
  PROVE  ProbedInv'
<1>1. ControlOK /\ EndedMeansRan /\ MarkedMeansRan
      BY DEF ProbedInv
<1>2. ran \subseteq ran'
      BY <1>1, GrantsFrame
<1>3. EndedMeansRan'
  <2> SUFFICES ASSUME NEW o \in Ops, probe'[o].succeeded \/ probe'[o].failed > 0 PROVE o \in ran'
      BY DEF EndedMeansRan
  <2>1. ProbeChange(o) /\ IsProbe(probe[o])
        BY <1>1, ProbeFrame DEF ControlOK
  <2>2. CASE EndProbePod(o) \/ ReadRaises(o) \/ FailProbePod(o)
        BY <2>2 DEF EndProbePod, ReadRaises, FailProbePod
  <2>3. CASE probe'[o] = NoProbe
        BY <2>3, RecordsTyped
  <2>4. CASE probe'[o].succeeded = probe[o].succeeded /\ probe'[o].failed = probe[o].failed
        BY <1>1, <1>2, <2>4 DEF EndedMeansRan
  <2>5. CASE probe'[o] = [probe[o] EXCEPT !.exists = TRUE]
        BY <2>1, <2>4, <2>5, ProbeCreated
  <2> QED BY <2>1, <2>2, <2>3, <2>4, <2>5 DEF ProbeChange
<1>4. MarkedMeansRan'
  <2> SUFFICES ASSUME NEW o \in Ops, ops'[o].observed
               PROVE  o \in ran' \/ sequenceProbeJobName(o) = "worker"
      BY DEF MarkedMeansRan, sequenceProbeJobName
  <2>1. CASE ops[o].observed
        BY <1>1, <1>2, <2>1 DEF MarkedMeansRan
  <2>2. CASE probeDone(o)
        BY <1>1, <1>2, <2>2 DEF probeDone, EndedMeansRan
  <2> QED BY <1>1, <2>1, <2>2, OpsFrame
<1> QED BY <1>1, <1>3, <1>4, ControlStep DEF ProbedInv

(* A mark rests on a probe that ran, unless the name of the Operation is   *)
(* one of those that sequenceProbeJobName cuts down to the worker's Job.   *)
THEOREM MarksRestOnProbes == Spec => []ProbedInv
<1>1. Init => ProbedInv
  <2> SUFFICES ASSUME Init PROVE ProbedInv
      OBVIOUS
  <2>1. \A o \in Ops : probe[o] = NoProbe /\ ~ops[o].observed
        BY DEF Init
  <2>2. EndedMeansRan
        BY <2>1, RecordsTyped DEF EndedMeansRan
  <2>3. MarkedMeansRan
        BY <2>1, Zenon DEF MarkedMeansRan
  <2> QED BY <2>2, <2>3, ControlInit DEF ProbedInv
<1>2. ProbedInv /\ [Next]_vars => ProbedInv'
      BY ProbedStep
<1> QED BY <1>1, <1>2, PTL DEF Spec

(* An Operation is marked as observed (markSequenceObserved) only after a  *)
(* pod of its own probe has ended, when no name has the 63 characters that *)
(* leave no room for the suffix of the probe.                              *)
THEOREM ObservedMeansProbedHolds ==
  ASSUME \A o \in Ops : NameLen[o] # 63
  PROVE  Spec => []ObservedMeansProbed
<1>1. ProbedInv => ObservedMeansProbed
      BY DEF ProbedInv, MarkedMeansRan, ObservedMeansProbed, sequenceProbeJobName
<1> QED BY <1>1, MarksRestOnProbes, PTL

-----------------------------------------------------------------------------
(* The target of the reports.                                              *)

LEMMA EnsuredStep ==
  ASSUME TargetInv, [Next]_vars
  PROVE  Ensured'
<1>1. ControlOK /\ Ensured
      BY DEF TargetInv
<1>2. grants \subseteq grants' /\ (cm.exists => cm'.exists)
      BY <1>1, GrantsFrame, ConfigMapFrame
<1>3. CASE pass'.pc = pass.pc
      BY <1>1, <1>2, <1>3 DEF Ensured
<1>4. CASE pass'.pc \in {"idle", "ServiceAccount", "apply", "sync"}
      BY <1>4 DEF Ensured
<1>5. CASE ensureSequenceProbeRBAC("ServiceAccount", "Role") /\ pass'.pc = "Role"
      BY <1>5 DEF Ensured, ensureSequenceProbeRBAC
<1>6. CASE ensureSequenceProbeRBAC("Role", "RoleBinding") /\ pass'.pc = "RoleBinding"
      BY <1>1, <1>6 DEF Ensured, ensureSequenceProbeRBAC
<1>7. CASE ensureSequenceProbeRBAC("RoleBinding", "ConfigMap") /\ pass'.pc = "ConfigMap"
      BY <1>1, <1>7 DEF Ensured, ensureSequenceProbeRBAC
<1>8. CASE ensureSequenceReportConfigMap /\ pass'.pc = "probes"
  <2>1. cm'.exists /\ grants' = grants /\ pass.pc = "ConfigMap"
        BY <1>1, <1>8, ConfigMapFrame DEF ensureSequenceReportConfigMap
  <2> QED BY <1>1, <1>8, <2>1 DEF Ensured
<1> QED BY <1>1, <1>3, <1>4, <1>5, <1>6, <1>7, <1>8, PassFrame DEF PassChange

LEMMA TargetStep ==
  ASSUME TargetInv, [Next]_vars
  PROVE  TargetInv'
<1>1. /\ ControlOK /\ Ensured
      /\ \A o \in Ops : probe[o].pod # "none" => probe[o].exists
      /\ \A o \in Ops : probe[o].exists => cm.exists /\ grants = Grants
      BY DEF TargetInv
<1>2. grants \subseteq grants' /\ grants' \subseteq Grants /\ (cm.exists => cm'.exists)
      BY <1>1, GrantsFrame, ConfigMapFrame
<1>3. ASSUME NEW o \in Ops
      PROVE  /\ probe'[o].pod # "none" => probe'[o].exists
             /\ probe'[o].exists => cm'.exists /\ grants' = Grants
  <2>1. ProbeChange(o) /\ IsProbe(probe[o])
        BY <1>1, ProbeFrame DEF ControlOK
  <2>2. CASE probe'[o] = probe[o]
        BY <1>1, <1>2, <2>2
  <2>3. CASE createSequenceProbeJob(o) /\ probe'[o] = [probe[o] EXCEPT !.exists = TRUE]
    <3>1. pass.pc = "probes"
          BY <2>3 DEF createSequenceProbeJob, Visited
    <3>2. cm.exists /\ Grants \subseteq grants
          BY <1>1, <3>1 DEF Ensured, Grants
    <3> QED BY <1>2, <2>1, <2>3, <3>2, ProbeCreated
  <2>4. CASE /\ StartProbePod(o) \/ ListState(o) \/ ReadState(o) \/ PatchReport(o)
             /\ probe'[o].exists = probe[o].exists
    <3>1. probe[o].exists
          BY <1>1, <2>4 DEF StartProbePod, ListState, ReadState, PatchReport
    <3> QED BY <1>1, <1>2, <2>4, <3>1
  <2>5. CASE /\ EndProbePod(o) \/ ReadRaises(o) \/ FailProbePod(o)
             /\ probe'[o].exists /\ probe'[o].pod = "none"
    <3>1. probe[o].exists
          BY <1>1, <2>5 DEF EndProbePod, ReadRaises, FailProbePod
    <3> QED BY <1>1, <1>2, <2>5, <3>1
  <2>6. CASE probe'[o] = NoProbe
        BY <2>6, RecordsTyped
  <2> QED BY <2>1, <2>2, <2>3, <2>4, <2>5, <2>6 DEF ProbeChange
<1>4. ControlOK'
      BY <1>1, ControlStep
<1> QED BY <1>3, <1>4, EnsuredStep DEF TargetInv

(* A probe that has something to report (PatchReport) finds the ConfigMap  *)
(* and the Role it needs, whatever pass of the controller created them and *)
(* however many passes have failed in between.                             *)
THEOREM ReportAlwaysHasTarget == Spec => []ReportHasTarget
<1>1. Init => TargetInv
  <2> SUFFICES ASSUME Init PROVE TargetInv
      OBVIOUS
  <2>1. \A o \in Ops : probe[o] = NoProbe
        BY DEF Init
  <2>2. Ensured
        BY RecordsTyped DEF Init, Ensured
  <2> QED BY <2>1, <2>2, ControlInit, RecordsTyped DEF TargetInv
<1>2. TargetInv /\ [Next]_vars => TargetInv'
      BY TargetStep
<1>3. TargetInv => ReportHasTarget
      BY DEF TargetInv, ReportHasTarget
<1> QED BY <1>1, <1>2, <1>3, PTL DEF Spec

=============================================================================
