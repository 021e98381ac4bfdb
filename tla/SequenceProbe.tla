---------------------------- MODULE SequenceProbe ----------------------------
(***************************************************************************)
(* Observation of the update cursors: after a write Operation has          *)
(* Succeeded, the Instance controller runs a probe Job that reads the      *)
(* sequence files on the project volume and patches them into a ConfigMap; *)
(* a pass of the controller copies them into status.regions.  Operations   *)
(* go on writing the files meanwhile.                                      *)
(*                                                                         *)
(* Simplifications.  A sequence identity is the number in it.  The three   *)
(* auxiliary data sets are one, which is wanted.  An Operation that fails  *)
(* is not probed and not modelled.  Operations that conflict on the write  *)
(* plane do not run together (Operations).  Reads see the API server.      *)
(***************************************************************************)
EXTENDS Naturals, FiniteSets, FiniteSetsExt

CONSTANTS
  Ops,          \* Operations, numbered in the order of their names
  OpType,       \* spec.type of each of them
  OpRegions,    \* spec.regions of each of them, a set
  NameLen,      \* length of the name of each of them
  Plans,        \* sets of Operations, one of which is created in a behaviour
  RegionPaths,  \* regions the download server offers
  MaxSeq,       \* bound: sequence number of the last diff that is published
  MaxFaults     \* bound: failed pods of probes, lost PATCH requests, Jobs deleted after
                \* ttlSecondsAfterFinished, failed passes of the controller

WP == INSTANCE WritePlane

ASSUME SequenceProbeAssumption ==
  /\ Ops \subseteq Nat /\ OpType \in [Ops -> WP!ImplementedTypes]
  /\ OpRegions \in [Ops -> SUBSET RegionPaths] /\ RegionPaths \subseteq Nat
  /\ NameLen \in [Ops -> 1..63] /\ Plans \subseteq SUBSET Ops
  /\ MaxSeq \in Nat \ {0} /\ MaxFaults \in Nat

VARIABLES
  head,      \* number of the latest diff on the download server
  files,     \* the project volume
  ops,       \* the Operations and how far their workers are
  probe,     \* the probe Job of each Operation and its pod
  ran,       \* history: Operations of whose probe a pod has ended
  cm,        \* the report ConfigMap
  grants,    \* ServiceAccount, Role and RoleBinding of the probe that exist
  status,    \* status of the Instance
  pass,      \* the Instance controller's pass and its copies
  dirty,     \* the Instance is in the controller's queue
  budget     \* faults left

vars == <<head, files, ops, probe, ran, cm, grants, status, pass, dirty, budget>>

-----------------------------------------------------------------------------
(* State.                                                                  *)

\* The sequence of each region, 0 for none.
Reports == [RegionPaths -> 0..MaxSeq]
NoReport == [r \in RegionPaths |-> 0]

Tristate == {"unknown", "absent", "present"}

\* dir: the update directory exists; seq: sequenceNumber in the state files;
\* aux: the auxiliary data was copied to the project volume.
Files == [dir : BOOLEAN, seq : Reports, aux : {"absent", "present"}]

\* todo: regions whose state file the worker has not written yet; observed: the
\* sequence-observed annotation.
Operations ==
  [phase : {"unplanned", "Pending", "Running", "Succeeded"}, todo : SUBSET RegionPaths,
   observed : BOOLEAN]

\* failed: pods that failed (backoffLimit 1); read: regions the pod has still
\* to read; report, aux: what it has read.
Probes ==
  [exists : BOOLEAN, succeeded : BOOLEAN, failed : 0..2, pod : {"none", "list", "read", "patch", "exit"},
   read : SUBSET RegionPaths, report : Reports, aux : Tristate]

NoProbe ==
  [exists |-> FALSE, succeeded |-> FALSE, failed |-> 0, pod |-> "none",
   read |-> {}, report |-> NoReport, aux |-> "unknown"]

\* report: report.json, aux: aux-data.json.
ConfigMaps == [exists : BOOLEAN, report : Reports, aux : Tristate]

Grants == {"ServiceAccount", "Role", "RoleBinding"}

Statuses == [regions : SUBSET RegionPaths, seq : Reports, aux : Tristate]

Steps == {"idle", "ServiceAccount", "Role", "RoleBinding", "ConfigMap", "probes", "apply", "sync"}

\* todo: listed Operations that the loop over those Succeeded and not observed
\* has still to visit; status: the copy of the status.
Passes == [pc : Steps, todo : SUBSET Ops, status : Statuses]

NoStatus == [regions |-> {}, seq |-> NoReport, aux |-> "unknown"]

Idle == [pc |-> "idle", todo |-> {}, status |-> NoStatus]

TypeOK ==
  /\ head \in 1..MaxSeq /\ files \in Files
  /\ ops \in [Ops -> Operations] /\ probe \in [Ops -> Probes] /\ ran \subseteq Ops
  /\ cm \in ConfigMaps /\ grants \subseteq Grants
  /\ status \in Statuses /\ pass \in Passes /\ dirty \in BOOLEAN
  /\ budget \in 0..MaxFaults

Init ==
  /\ head = 1 /\ files = [dir |-> FALSE, seq |-> NoReport, aux |-> "absent"]
  /\ \E plan \in Plans :
       ops = [o \in Ops |-> [phase |-> IF o \in plan THEN "Pending" ELSE "unplanned",
                             todo |-> OpRegions[o], observed |-> FALSE]]
  /\ probe = [o \in Ops |-> NoProbe] /\ ran = {}
  /\ cm = [exists |-> FALSE, report |-> NoReport, aux |-> "unknown"] /\ grants = {}
  /\ status = NoStatus /\ pass = Idle /\ dirty = TRUE
  /\ budget = MaxFaults

world == <<head, files>>

-----------------------------------------------------------------------------
(* A pass of the Instance controller.                                      *)

Succeeded(o) == ops[o].phase = "Succeeded"

\* syncRegionsFromBootstrap: an empty status takes the regions of the first
\* Succeeded Bootstrap.
syncRegionsFromBootstrap(st) ==
  LET done == {o \in Ops : Succeeded(o) /\ OpType[o] = "Bootstrap" /\ OpRegions[o] # {}}
  IN  IF st.regions = {} /\ done # {} THEN [st EXCEPT !.regions = OpRegions[Min(done)]] ELSE st

\* One Operation of syncRegionsFromDriftOps: AddRegions merges, Rebuild
\* replaces the entries and so forgets their sequences, in every pass.
syncRegionsFromDriftOp(st, o) ==
  CASE Succeeded(o) /\ OpType[o] = "AddRegions" -> [st EXCEPT !.regions = @ \union OpRegions[o]]
    [] Succeeded(o) /\ OpType[o] = "Rebuild"    -> [st EXCEPT !.regions = OpRegions[o], !.seq = NoReport]
    [] OTHER                                    -> st

observeRegionsFromSucceededOps ==
  LET sync[k \in 0..Max(Ops \union {0})] ==
        IF k = 0 THEN syncRegionsFromBootstrap(status)
        ELSE IF k \in Ops THEN syncRegionsFromDriftOp(sync[k - 1], k) ELSE sync[k - 1]
  IN  sync[Max(Ops \union {0})]

sequenceProbeOperation(o) ==
  Succeeded(o) /\ OpType[o] \in {"Bootstrap", "AddRegions", "Rebuild", "Update", "CatchUp"}

Goto(pc) == pass' = [pass EXCEPT !.pc = pc]

\* The pass reads the Instance and lists its Operations; without regions there
\* is nothing to probe.
StartPass ==
  /\ pass.pc = "idle" /\ dirty
  /\ dirty' = FALSE
  /\ LET st == observeRegionsFromSucceededOps
     IN  pass' = [pc |-> IF st.regions = {} THEN "sync" ELSE "ServiceAccount", status |-> st,
                  todo |-> {o \in Ops : sequenceProbeOperation(o) /\ ~ops[o].observed}]
  /\ UNCHANGED <<world, ops, probe, ran, cm, grants, status, budget>>

\* One object of ensureSequenceProbeRBAC; none of them is watched.
ensureSequenceProbeRBAC(g, next) ==
  /\ pass.pc = g
  /\ grants' = grants \union {g}
  /\ Goto(next)
  /\ UNCHANGED <<world, ops, probe, ran, cm, status, dirty, budget>>

\* Mutant: the ConfigMap is left to the probe, whose PATCH cannot create it.
reportConfigMapSkipped ==
  /\ pass.pc = "ConfigMap"
  /\ Goto("probes")
  /\ UNCHANGED <<world, ops, probe, ran, cm, grants, status, dirty, budget>>

ensureSequenceReportConfigMap ==
  /\ pass.pc = "ConfigMap"
  /\ cm' = [cm EXCEPT !.exists = TRUE]
  /\ dirty' = (dirty \/ ~cm.exists)
  /\ Goto("probes")
  /\ UNCHANGED <<world, ops, probe, ran, grants, status, budget>>

\* What sequenceProbeJobName makes of op.Name + "-seq", cut to 63 characters: a
\* name of its own, one that ends in "-", or the name of the worker's Job.
sequenceProbeJobName(o) ==
  CASE NameLen[o] = 63 -> "worker"
    [] NameLen[o] = 62 -> "invalid"
    [] OTHER           -> "probe"

NextProbe(o) == pass' = [pass EXCEPT !.todo = @ \ {o}]

\* The Operations are visited in the order of the list.
Visited(o) == pass.pc = "probes" /\ pass.todo # {} /\ o = Min(pass.todo)

\* The API server refuses a name that ends in "-": the pass ends with an error.
createSequenceProbeJob(o) ==
  /\ Visited(o) /\ sequenceProbeJobName(o) # "worker" /\ ~probe[o].exists
  /\ IF sequenceProbeJobName(o) = "invalid"
       THEN pass' = Idle /\ probe' = probe
       ELSE NextProbe(o) /\ probe' = [probe EXCEPT ![o].exists = TRUE]
  /\ dirty' = TRUE
  /\ UNCHANGED <<world, ops, ran, cm, grants, status, budget>>

\* Mutant: a probe counts as done as soon as it exists.
doneWhenCreated(o) == TRUE

\* The Job found under the probe's name has succeeded, or one of its pods has
\* failed; the worker's Job of a Succeeded Operation has succeeded.
probeDone(o) ==
  sequenceProbeJobName(o) = "worker" \/ probe[o].succeeded \/ probe[o].failed > 0

markSequenceObserved(o) ==
  /\ Visited(o) /\ (sequenceProbeJobName(o) = "worker" \/ probe[o].exists)
  /\ IF probeDone(o)
       THEN /\ ops' = [ops EXCEPT ![o].observed = TRUE]
            /\ dirty' = (dirty \/ ~ops[o].observed)
       ELSE UNCHANGED <<ops, dirty>>
  /\ NextProbe(o)
  /\ UNCHANGED <<world, probe, ran, cm, grants, status, budget>>

ProbesEnsured ==
  /\ pass.pc = "probes" /\ pass.todo = {}
  /\ Goto("apply")
  /\ UNCHANGED <<world, ops, probe, ran, cm, grants, status, dirty, budget>>

\* Mutant: only an empty sequenceState is filled.
applyOnlyNew(st, report) ==
  [st EXCEPT !.seq = [r \in RegionPaths |-> IF r \in st.regions /\ st.seq[r] = 0 THEN report[r] ELSE st.seq[r]]]

\* Mutant: a region that the report lacks is emptied.
applyWithEmpty(st, report) ==
  [st EXCEPT !.seq = [r \in RegionPaths |-> IF r \in st.regions THEN report[r] ELSE st.seq[r]]]

\* applySequenceReportMap: entries without a sequence and of unknown regions
\* are skipped.
applySequenceReportMap(st, report) ==
  [st EXCEPT !.seq = [r \in RegionPaths |-> IF r \in st.regions /\ report[r] # 0 THEN report[r] ELSE st.seq[r]]]

applyAuxDataReport(st, aux) == IF aux = "unknown" THEN st ELSE [st EXCEPT !.aux = aux]

applySequenceReportConfigMap ==
  /\ pass.pc = "apply"
  /\ pass' = [pass EXCEPT !.pc = "sync",
                !.status = applyAuxDataReport(applySequenceReportMap(@, cm.report), cm.aux)]
  /\ UNCHANGED <<world, ops, probe, ran, cm, grants, status, dirty, budget>>

\* reconcileUpdates, which Regions models, then the status is written.
syncStatus ==
  /\ pass.pc = "sync"
  /\ status' = pass.status
  /\ dirty' = (dirty \/ status # pass.status)
  /\ pass' = Idle
  /\ UNCHANGED <<world, ops, probe, ran, cm, grants, budget>>

PassStep ==
  \/ StartPass
  \/ ensureSequenceProbeRBAC("ServiceAccount", "Role")
  \/ ensureSequenceProbeRBAC("Role", "RoleBinding")
  \/ ensureSequenceProbeRBAC("RoleBinding", "ConfigMap")
  \/ ensureSequenceReportConfigMap
  \/ \E o \in Ops : createSequenceProbeJob(o) \/ markSequenceObserved(o)
  \/ ProbesEnsured \/ applySequenceReportConfigMap \/ syncStatus

\* Mutant: the error of a pass is logged and not returned.
failSwallowed ==
  /\ pass.pc # "idle" /\ budget > 0
  /\ budget' = budget - 1
  /\ pass' = Idle
  /\ UNCHANGED <<world, ops, probe, ran, cm, grants, status, dirty>>

\* A call fails or the operator restarts; the Instance is queued again.
FailPass ==
  /\ pass.pc # "idle" /\ budget > 0
  /\ budget' = budget - 1
  /\ pass' = Idle /\ dirty' = TRUE
  /\ UNCHANGED <<world, ops, probe, ran, cm, grants, status>>

-----------------------------------------------------------------------------
(* The probe: report-sequence.sh and its Job.                              *)

\* A pod needs the ServiceAccount; without an update directory it reports
\* nothing.
StartProbePod(o) ==
  /\ probe[o].exists /\ ~probe[o].succeeded /\ probe[o].failed < 2 /\ probe[o].pod = "none"
  /\ "ServiceAccount" \in grants
  /\ probe' = [probe EXCEPT ![o].pod = IF files.dir THEN "list" ELSE "exit",
                 ![o].report = NoReport, ![o].aux = "unknown"]
  /\ UNCHANGED <<world, ops, ran, cm, grants, status, pass, dirty, budget>>

\* The glob lists the state files before the first of them is read.
ListState(o) ==
  /\ probe[o].pod = "list"
  /\ probe' = [probe EXCEPT ![o].pod = "read", ![o].read = {r \in RegionPaths : files.seq[r] # 0}]
  /\ UNCHANGED <<world, ops, ran, cm, grants, status, pass, dirty, budget>>

\* The listed files are read one after the other, then the auxiliary files.
AfterRead(p) ==
  IF p.read = {} THEN [p EXCEPT !.pod = "patch", !.aux = files.aux]
  ELSE LET r == Min(p.read) IN [p EXCEPT !.read = @ \ {r}, !.report[r] = files.seq[r]]

\* The next file to read has been removed since the listing.
NextGone(p) == p.read # {} /\ files.seq[Min(p.read)] = 0

ReadState(o) ==
  /\ probe[o].pod = "read" /\ ~NextGone(probe[o])
  /\ probe' = [probe EXCEPT ![o] = AfterRead(@)]
  /\ UNCHANGED <<world, ops, ran, cm, grants, status, pass, dirty, budget>>

PodFailed(p) == [NoProbe EXCEPT !.exists = TRUE, !.failed = p.failed + 1]

\* read_text raises, and set -e ends the pod.
ReadRaises(o) ==
  /\ probe[o].pod = "read" /\ NextGone(probe[o])
  /\ probe' = [probe EXCEPT ![o] = PodFailed(@)]
  /\ ran' = ran \union {o} /\ dirty' = TRUE
  /\ UNCHANGED <<world, ops, cm, grants, status, pass, budget>>

\* The API server takes a PATCH of the ConfigMap from the probe.
Accepted == cm.exists /\ {"Role", "RoleBinding"} \subseteq grants

\* The PATCH replaces both reports; when it is refused or lost the script ends
\* as if nothing had happened.
PatchReport(o) ==
  /\ probe[o].pod = "patch"
  /\ \/ /\ Accepted
        /\ cm' = [cm EXCEPT !.report = probe[o].report, !.aux = probe[o].aux]
        /\ dirty' = TRUE
        /\ budget' = budget
     \/ /\ ~Accepted \/ budget > 0
        /\ budget' = IF Accepted THEN budget - 1 ELSE budget
        /\ UNCHANGED <<cm, dirty>>
  /\ probe' = [probe EXCEPT ![o].pod = "exit"]
  /\ UNCHANGED <<world, ops, ran, grants, status, pass>>

EndProbePod(o) ==
  /\ probe[o].pod = "exit"
  /\ probe' = [probe EXCEPT ![o] = [NoProbe EXCEPT !.exists = TRUE, !.succeeded = TRUE, !.failed = probe[o].failed]]
  /\ ran' = ran \union {o} /\ dirty' = TRUE
  /\ UNCHANGED <<world, ops, cm, grants, status, pass, budget>>

FailProbePod(o) ==
  /\ probe[o].pod # "none" /\ budget > 0
  /\ budget' = budget - 1
  /\ probe' = [probe EXCEPT ![o] = PodFailed(@)]
  /\ ran' = ran \union {o} /\ dirty' = TRUE
  /\ UNCHANGED <<world, ops, cm, grants, status, pass>>

\* ttlSecondsAfterFinished.
ExpireProbe(o) ==
  /\ probe[o].succeeded \/ probe[o].failed = 2
  /\ budget > 0
  /\ budget' = budget - 1
  /\ probe' = [probe EXCEPT ![o] = NoProbe] /\ dirty' = TRUE
  /\ UNCHANGED <<world, ops, ran, cm, grants, status, pass>>

ProbeStep(o) ==
  \/ StartProbePod(o) \/ ListState(o) \/ ReadState(o) \/ ReadRaises(o)
  \/ PatchReport(o) \/ EndProbePod(o)

-----------------------------------------------------------------------------
(* The Operations, as far as they write the files.                         *)

\* prepare_db makes the update directory and, for the import-shaped Operations,
\* prepare_import copies the auxiliary data; rebuild.sh then removes the directory.
StartOperation(o) ==
  /\ ops[o].phase = "Pending"
  /\ \A p \in Ops : WP!operationsMutexConflict(o, p) => ops[p].phase # "Running"
  /\ WP!requiresRegionGate(OpType[o]) => status.regions # {}
  /\ ops' = [ops EXCEPT ![o].phase = "Running"]
  /\ files' = [dir |-> OpType[o] # "Rebuild",
               seq |-> IF OpType[o] = "Rebuild" THEN NoReport ELSE files.seq,
               aux |-> IF OpType[o] \in {"Bootstrap", "AddRegions", "Rebuild"} THEN "present" ELSE files.aux]
  /\ dirty' = TRUE
  /\ UNCHANGED <<head, probe, ran, cm, grants, status, pass, budget>>

\* bootstrap.sh makes the directory again after rebuild.sh.
MakeDirectory(o) ==
  /\ ops[o].phase = "Running" /\ ~files.dir
  /\ files' = [files EXCEPT !.dir = TRUE]
  /\ UNCHANGED <<head, ops, probe, ran, cm, grants, status, pass, dirty, budget>>

\* A state file is seeded or moved on.
WriteState(o) ==
  /\ ops[o].phase = "Running" /\ files.dir /\ ops[o].todo # {}
  /\ LET r == Min(ops[o].todo)
     IN  /\ files' = [files EXCEPT !.seq[r] = head]
         /\ ops' = [ops EXCEPT ![o].todo = @ \ {r}]
  /\ UNCHANGED <<head, probe, ran, cm, grants, status, pass, dirty, budget>>

OperationSucceeds(o) ==
  /\ ops[o].phase = "Running" /\ files.dir /\ ops[o].todo = {}
  /\ ops' = [ops EXCEPT ![o].phase = "Succeeded"]
  /\ dirty' = TRUE
  /\ UNCHANGED <<world, probe, ran, cm, grants, status, pass, budget>>

OperationStep(o) == StartOperation(o) \/ MakeDirectory(o) \/ WriteState(o) \/ OperationSucceeds(o)

Publish ==
  /\ head < MaxSeq
  /\ head' = head + 1
  /\ UNCHANGED <<files, ops, probe, ran, cm, grants, status, pass, dirty, budget>>

-----------------------------------------------------------------------------

Next ==
  \/ PassStep \/ FailPass \/ Publish
  \/ \E o \in Ops : ProbeStep(o) \/ FailProbePod(o) \/ ExpireProbe(o) \/ OperationStep(o)

Spec == Init /\ [][Next]_vars

\* The controller works off its queue and pods run.
FairSpec ==
  /\ Spec /\ WF_vars(PassStep)
  /\ WF_vars(\E o \in Ops : ProbeStep(o)) /\ WF_vars(\E o \in Ops : OperationStep(o))

-----------------------------------------------------------------------------
(* Properties.                                                             *)

(* An Operation is marked as observed only after a pod of its own probe    *)
(* has ended: the mark is final, nothing probes the Operation again.       *)
ObservedMeansProbed == \A o \in Ops : ops[o].observed => o \in ran

(* A probe that is about to report finds its ConfigMap and the right to    *)
(* patch it; the script would hide a refusal (|| true).                    *)
ReportHasTarget ==
  \A o \in Ops : probe[o].pod = "patch" => cm.exists /\ grants = Grants

(* A known sequenceState is never lost, whatever a probe finds while an    *)
(* Operation rewrites the files: only a Succeeded Rebuild starts over.     *)
SequenceKept ==
  [][\A r \in status.regions : status.seq[r] # 0 /\ status'.seq[r] = 0 =>
       \E o \in Ops : Succeeded(o) /\ OpType[o] = "Rebuild"]_vars

(* "sequence probe Job failed; will not block reconcile"                   *)
(* (ensureSequenceProbeJob): every Succeeded write Operation is marked in  *)
(* the end, and nothing of it keeps a pass from writing the status.        *)
EveryWriteObserved ==
  <>[](\A o \in Ops : sequenceProbeOperation(o) => ops[o].observed /\ OpRegions[o] \subseteq status.regions)

(* What the last probe has reported ends up in the status                  *)
(* (applySequenceReportConfigMap).                                         *)
ReportReachesStatus ==
  <>[](/\ \A r \in status.regions : cm.report[r] # 0 => status.seq[r] = cm.report[r]
       /\ cm.aux # "unknown" => status.aux = cm.aux)

(* "a short operator-owned probe Job reads sequence files and updates      *)
(* status.regions[].sequenceState" (docs/concepts.md): once nothing        *)
(* happens any more the status shows the files.                            *)
StatusShowsFiles ==
  <>[](\A r \in status.regions : status.seq[r] = files.seq[r])

-----------------------------------------------------------------------------
(* Inductive invariants, which the proofs of ObservedMeansProbed and       *)
(* ReportHasTarget rest on.                                                *)

\* Records of which only the fields that decide on the next step are typed:
\* what a pod has read and what a status holds is left open.
IsProbe(p) ==
  p \in [exists : BOOLEAN, succeeded : BOOLEAN, failed : Nat, pod : {"none", "list", "read", "patch", "exit"},
         read : {p.read}, report : {p.report}, aux : {p.aux}]

IsConfigMap(m) == m \in [exists : BOOLEAN, report : {m.report}, aux : {m.aux}]

IsPass(q) == q \in [pc : Steps, todo : SUBSET Ops, status : {q.status}]

ControlOK ==
  /\ ops \in [Ops -> Operations]
  /\ DOMAIN probe = Ops /\ \A o \in Ops : IsProbe(probe[o])
  /\ IsConfigMap(cm) /\ IsPass(pass)
  /\ grants \subseteq Grants /\ ran \subseteq Ops

\* A Job without a pod of its own that has ended does not count as done.
EndedMeansRan ==
  \A o \in Ops : probe[o].succeeded \/ probe[o].failed > 0 => o \in ran

\* The mark is set for a probe that ran, or for a name under which the Job of
\* the worker is found.
MarkedMeansRan ==
  \A o \in Ops : ops[o].observed => o \in ran \/ sequenceProbeJobName(o) = "worker"

ProbedInv == ControlOK /\ EndedMeansRan /\ MarkedMeansRan

\* What a pass has made sure of when it reaches each of its steps.
Ensured ==
  /\ pass.pc \in {"Role", "RoleBinding", "ConfigMap", "probes"} => "ServiceAccount" \in grants
  /\ pass.pc \in {"RoleBinding", "ConfigMap", "probes"} => "Role" \in grants
  /\ pass.pc \in {"ConfigMap", "probes"} => "RoleBinding" \in grants
  /\ pass.pc = "probes" => cm.exists

\* A pod belongs to a Job, and a Job is created after its target.
TargetInv ==
  /\ ControlOK /\ Ensured
  /\ \A o \in Ops : probe[o].pod # "none" => probe[o].exists
  /\ \A o \in Ops : probe[o].exists => cm.exists /\ grants = Grants

=============================================================================
