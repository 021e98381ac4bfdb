# TLA+ verification of nominatim-operator

The operator runs two controllers in one manager.  `NominatimInstance` is the
long-lived declaration of one Nominatim service; `NominatimOperation` is a finite
piece of work on it (Bootstrap, AddRegions, Rebuild, Update, CatchUp, Refresh,
Migrate, Freeze) that runs as a Kubernetes Job.  What is hard about it is that all
state lives in API objects that two controllers, users, the Job controller, the
garbage collector and CloudNativePG (CNPG) write in turn, that a pass of a
controller is a sequence of separate API calls, and that a pass may be cut short
after any of them.  The modules here model that protocol.

## 1. Inventory

| component (source in `internal/controller/`) | state it keeps | operations | talks to | what makes it correct |
|---|---|---|---|---|
| write-plane mutex (`nominatimoperation_mutex.go`, `_resources.go`) | none of its own: `status.phase` and `status.jobRef` of the peers | `evaluateWritePlane`, `claimWritePlane` | Operation controller, update schedule | conflicting Operations never hold the write plane together; everybody gets a turn |
| Operation controller (`nominatimoperation_controller.go`, `_parent.go`) | phase, jobRef, finalizer, reset annotations; `activeOperationRefs` on the parent | Reconcile, terminal path, delete path | Jobs, Instance, CNPG | Jobs exclude each other; every Operation ends; references follow the truth |
| CNPG effects (`nominatimoperation_effects.go`, `cnpg_effects.go`) | backup-paused annotation, postgres parameters | pause, resume, import and runtime profile | CNPG Cluster | paused while somebody needs it, resumed when nobody does |
| in-place Rebuild reset (`ensureRebuildDatabaseReset`, `reconcileOwnedCNPGDatabase`) | two annotations, the Database object, the API replicas | quiesce, delete, annotate, recreate | both controllers, CNPG | a Rebuild starts on an empty database, nobody else's data is dropped, the database and the API come back |
| BlueGreen Rebuild (`rebuild_bluegreen*.go`) | `status.rebuild`, the sibling Cluster | provision, import, cut over, roll back window, garbage-collect | both controllers, CNPG | the API never loses its Cluster; a finished import is served; a failed one is cleaned up |
| Instance controller (`nominatim_controller.go`) | `status`, conditions | Reconcile: persist, list, handlers, status | everything | lost status writes are made up for |
| regions (`nominatim_region_observe.go`, `_drift.go`, `nominatim_bootstrap.go`) | `status.regions` | observe, Bootstrap, AddRegions or Rebuild | Operations | `status.regions` is what the database holds; desired regions are imported |
| update schedule (`nominatim_updates.go`) | `lastUpdateScheduleTime` | create an Update for the latest fire | Operations | no fire is lost, none is created twice |
| import settings (`nominatim_config.go`) | `status.observedNominatim`, ImportConfigDrift | seal, report | Jobs | a difference between spec and database is reported |
| database attachment (`nominatim_database.go`) | `status.database` | three modes, owned Cluster and Database | CNPG | see reset and BlueGreen |
| deletion (`nominatim_delete.go`) | Instance finalizer | drain, delete owned CNPG objects | Operations, CNPG | it ends, and in the right order |
| serving workloads (`nominatim_workloads.go`) | API and UI Deployments, Services, routes | create, suspend, retarget | regions, reset, BlueGreen | serves only imported data, is suspended and comes back |
| replication sequence (`nominatim_sequence.go`, `nominatim_aux.go`, `report-sequence.sh`) | probe Jobs, the report ConfigMap, `sequence-observed` annotations, sequences in `status.regions` | ensure RBAC, ConfigMap and probe Jobs; read, patch, copy into the status | Operations, worker files, Instance controller | each write is observed once; what is known is not lost; a probe never blocks the pass |
| worker scripts (`images/worker/scripts`) | bookmarks and cursors on the project volume, extracts on the staging volume, the database | one script per type; a killed pod is replaced by one that resumes | database, download server | a Job that succeeds has done all its work, whichever pods died; bookmarks tell the truth about the database beside them |

Hard behaviours: interleaving of the two controllers on the same objects; a crash
or refused write between two calls of a pass; Jobs that retry after the controller
has read their failure; deletion while work is in flight; copies of the parent that
are stale when they are written back; Lists in no particular order; names that can
be used only once.  `PROJECT.json` lists each of them at its line under `hazards`.

## 2. Modules

| module | models |
|---|---|
| `WritePlane` | the policy as operators: types, phases, `phaseFromJob`, conflict, holding, the decision of a claim |
| `WriteMutex` | the abstract promise of the claim: a lock shared by Operations that do not conflict |
| `Operations` | the Operation controller against one Instance, with the drain and the parts of the Instance controller that Operations depend on |
| `OperationsProofs`, `OperationsSafety`, `OperationsEffects` | TLAPS proofs about `Operations`: the mutex; phases, refinement and references; effects and pods |
| `RebuildReset` | the in-place Rebuild handshake between the two controllers |
| `BlueGreen` | the BlueGreen swap and the Instance controller's pass over the same status |
| `Regions` | the Instance controller's declarative side: regions, settings, schedule, API |
| `Worker` | the scripts of the worker image, command by command, under killed pods and retries |
| `SequenceProbe` | the probe of the sequence files and its way into `status.regions`, beside Operations that write the files |
| `RebuildResetProofs`, `BlueGreenProofs`, `RegionsProofs`, `SequenceProbeProofs`, `WorkerProofs` | TLAPS proofs about the module of that name |
| `MCOperations`, `MCRebuildReset`, `MCBlueGreen`, `MCWorker`, `MCSequenceProbe` | which Operations or Jobs exist, by type, for TLC |

**How code becomes actions.**  A controller runs one pass at a time (the code sets
no concurrency, so each controller has one worker).  `pass` holds the Operation
being reconciled, the step it has reached and the values it read earlier and still
uses; each call of the pass that others can observe is one action, named after the
function that makes it.  Calls that write the same object with optimistic locking
are refused when the object changed since it was read (`stale`); patches and
retry-on-conflict loops are not.  `FailCall`/`FailPass` ends a pass between any two
steps: a failed call, a conflict or a restart of the operator.  Definitions keep the
names of the functions; `PROJECT.json` maps each to its lines.

**Operations.**  `life`, `fin`, `phase`, `why`, `jobRef` are the Operation object,
`job` the pod counters of its Job, `refs` is `status.activeOperationRefs`, `paused`
and `profile` are the two effects on the Cluster.  A Job starts pods until one
succeeds or `BackoffLimit + 1` have failed, as Kubernetes does.  `forced` is a
history variable: Operations that `failOperation` marked Failed although a Job was
armed (see section 6).  Names are numbers; the creation race compares them with `<`.
The peer list is read from the API server: the lag of the informer cache is left out.  The
drain deletes one Operation per step, those included that are created while it waits; its
Deleting condition (`markInstanceDeleting`) is left out.

**RebuildReset.**  `prevUID` and `reset` are the two annotations, `db` the Database
object with its UID, `rows` what Postgres holds.  CNPG drops a deleted Database
when the last API connection is gone.  Statuses are reduced: a pass that ends an
Operation is one step, and an Operation is deleted between passes only, together with
its Job.  `preempted` is a history variable: a claim was granted while another Rebuild was
in the middle of its reset.

**BlueGreen.**  The pass carries its copies of `status.rebuild` and of the
attachment, and writes both back; the Instance controller does the same with the
attachment.  `drive` says how the swap is driven: `resetsPhase` is `Reconcile` as it
is.  There the handler that waits for the prerequisites writes `Importing` in every
pass, so the later phases of the machine are never reached (section 6).  To check those
phases at all, the other drive writes `Importing` only from `Provisioning`: the swap
handler as `TestReconcileBlueGreenAfterImport_CutoverAndGC` drives it.  `WindowElapses` assumes
that a rollback window (an hour) outlasts every pass in progress.  The patch of `Importing`
may fail without ending the pass, since its error is ignored (`PatchOrLose`); every other
failed call ends it.

**Regions.**  Regions are numbered in the order of `spec.regions`.  An Operation's
name is its suffix and a generation or fire number, because the properties depend
on names being taken.  `db` is what the database really holds, kept apart from
`status`.  The informer cache lists Operations in no order, so replaying Succeeded
Operations has as many outcomes as there are orders.  `spec.regions` may be empty: the API is
then created at once, and nothing is imported.  A user's Rebuild is given a
name that sorts last.  The Operation controller is reduced to "refused or started",
"succeeded or failed"; `Operations` has the protocol behind it.

**Worker.**  `pod[j].pc` is the next command of the script that Job `j` runs; each command
that leaves something behind is one action, so `Kill` can end the pod between any two of
them, and `die` starts the next one as `restartPolicy: Never` and `backoffLimit` do.
`db` keeps what `detect_continue_at` asks of the database (rows of `place`, `placex`,
`indexed_status`, `database_version`) apart from what is really there (`done`, `data`), so
that a wrong guess shows.  Every query of `detect_continue_at` and `import_schema_ready` ends in
`|| echo f`: one that fails counts as No.  `Misread` takes the answers that the script gets, and
the history variable `misread` keeps those it got wrong until a Rebuild empties the database.  The
queries of one detection are one step, and all that an outage makes fail in it cost one unit of
`MaxFailures`.  `project` holds `import-finished`, `imported-regions.txt` and the
`sequence.state` files, `staging` whole and cut-off extracts.  Diffs are numbered, and `data` is
the set of diffs a region holds.  The nominatim CLI is external: `ImportTrace` are the rows that
an import shows before a stage ends, those of one extract before the others are read included.
`Arm` relies on `Operations` (conflicting Jobs do not overlap) and `RebuildReset` (a Rebuild
starts on an empty database).  `NOMINATIM_CONTINUE_AT`, which the operator does not set, is left out.

**SequenceProbe.**  One pass of the Instance controller with a step per object it creates
or annotates, `dirty` for its queue (each write to a watched object sets it: the
controller owns Jobs and ConfigMaps and watches Operations), the pod of each probe reading
one file at a time, and the Operations that write those files.  The script lists the files
first: one that a Rebuild removes before it is read fails the pod.  `sequenceProbeJobName`
keeps the length of a name.  Left out is an Operation named `x-seq` beside one named `x`, whose
worker Job `ensureSequenceProbeJob` would take for the probe of `x`, and the return on a report
that does not parse, because the script writes valid JSON.  The Operations come in the order of
their names; orders of the list are the subject of `Regions`.

## 3. Runs

`tlc -config <run>.cfg <module>`.  Every bound is a constant of the cfg.

| run | module | what it shows |
|---|---|---|
| `ops_safety` | `MCOperations` | two write-heavy Operations, Jobs that retry once, one failed call, one deletion (Operation or Instance): `StatusMutex`, the inductive `MutexInv`, `RefsAgree`, `PausedWhileHeld`, `TerminalIsFinal`, and `ImplementsWriteMutex` (the statuses implement `WriteMutex` under `holders <- Holders`) |
| `ops_edits` | `MCOperations` | three Operations, one an Update that a region gate may refuse; the policy is edited, a Job or the Cluster deleted.  Jobs retry twice as in the code: without failed calls and deleted Operations the first pods of conflicting Jobs exclude each other (`FirstPodMutex`), and a Conflict has no Job (`ConflictHasNoJob`) |
| `ops_live` | `MCOperations` | one failed call, an Operation or the Instance deleted at any point: `OperationsEnd`, `PauseReleased`, `RefsReleased`, `DrainEnds` |
| `ops_retried_job` | `MCOperations` | violation of `JobMutex`, section 6 |
| `reset` | `MCRebuildReset` | a Rebuild that wins the creation race and a Migrate beside it, one failed call at any point of the handshake and one deletion between its passes: `ResetInv`, `OperationsEnd`, `DatabaseReturns`, `ServesAgain`; while nothing has failed, was deleted or preempted the Rebuild also `RebuildStartsEmpty`, `DropOnlyForRebuild` |
| `bg` | `MCBlueGreen` | `Reconcile` as it is with two Rebuilds and a retried Job, or the swap handler on its own, a failed call or an ignored failure: `ApiServes`, `ImportBesideLive`, `RetiredAfterWindow` |
| `bg_never_cuts_over` | `MCBlueGreen` | violation of `CutsOver`, section 6 |
| `regions_add` | `Regions` | from a new Instance with or without regions, two edits, a failed Job, a failed call and a fire: `StatusReflectsDatabase`, `ReadyMeansImported`, `ApiAfterImport`, `DriftIsSerial` |
| `regions_live` | `Regions` | edits of regions and style with a failed Job, or two fires beside a user's Rebuild, and two failed calls: `DriftReported`, `RegionsConverge`, `StatusSettles`, `FiresTakenUp` |
| `worker` | `MCWorker` | Bootstrap, AddRegions and a Rebuild of other regions, two Bootstraps of different regions, Bootstrap with Update and CatchUp, or Bootstrap, Freeze and Bootstrap again, with two pods killed and one ignored failure, of a command or of the queries of a pod, while the server publishes: `SucceededImportIsComplete`, `ReadySchemaSurvives`, `ListedIsLoaded`, `BookmarksStartFresh`, `JobsEnd`, `TypeOK` |
| `worker_masked_failure` | `MCWorker` | violation of `UpdateReportsFailure`, section 6 |
| `sequence` | `MCSequenceProbe` | a Bootstrap, then an Update, an AddRegions or a Rebuild, with one fault (failed pod or pass, lost PATCH, expired Job): `ObservedMeansProbed`, `ReportHasTarget`, `SequenceKept`, `EveryWriteObserved`, `ReportReachesStatus` |

Further configurations that pass: `regions_bootstrap` (convergence from a new Instance, with
the type invariant) and `sequence_faults` (`sequence` with two faults, and the type
invariant).  `TypeOK` is stated in every module.

**Bounds.**  Two Operations suffice for a conflict and for the creation race in
either order of arrival; a third shows that one can hold while two wait.  One
retry, one failed call and one deletion each reach every step, since TLC tries them
at all of them; `ops_safety` combines all three.  `ops_edits` has the two retries of the code,
so that a first pod can meet the last retry of another Job.  In `RebuildReset` the number of
Database objects is bounded by 4, which is never reached (5 and 6 give the same
state space).  In `Regions` three generations give a stable name, a name with a
generation and one more edit; two regions are one present and one missing.  In `Worker` one pod of a Job may fail before the Job does (two in the code) and CatchUp has
one round (twenty): enough for a retry and to reach the limit, though with two diffs CatchUp
would stop by itself, so a missing limit would not show; two kills let
the pod that resumes die as well, or end a Job as Failed; two diffs are one in the extract
and one after it.  `Plans` splits the Jobs into those that matter to each other.  In
`SequenceProbe` two regions and two sequence numbers distinguish old from new; each pair of
Operations overlaps in every order the write plane allows.  The theorems of section 5 hold
for all values.

`CHECK_DEADLOCK FALSE` is set for `Operations`: when all Operations are done and the
Instance is gone, nothing is left to do.  The same holds for `Worker` and `SequenceProbe`
when every Job has ended.

## 4. Fairness

The workqueue of controller-runtime is FIFO, and each object comes back through a
watch event, a requeue, rate-limited back-off or the periodic resync; the single
worker serves every key.  Hence strong fairness of `StartPass(o)` for each Operation
(other Operations may use the worker in between) and weak fairness of the steps of a
pass.  The Instance controller, the Job controller, the garbage collector and CNPG
are not stopped for ever: weak fairness.  CNPG's drop of a Database and the scaling
of the API pods have strong fairness, because the two controllers may undo their
preconditions for a while.  A Job ends, but may fail.  Nothing is assumed of users,
and failed calls are bounded, not fair.  In `Worker` a pod runs until it ends or is killed:
weak fairness of the steps of each Job's pod; Jobs need not be created.  In `SequenceProbe`
the controller works while it is queued (`Owns(Job)`, `Owns(ConfigMap)`, the watch on
Operations and the requeue of a failed pass keep it queued), pods of probes run, and so do
Operations that may.

## 5. Proofs

The theorems hold for every set of Operations, regions, styles or names and for every
bound, under the named assumption of each module (`OpsAssumption` and the module's own:
bounds are natural numbers, parameters have their types).  Where a theorem needs more, it
says so in an `ASSUME` of its own, and the table gives the reason.  Invariants stand at
the end of the module they are about; TLC checked each of them before it was proved.

| theorem (module) | states | hypothesis, and why it is needed |
|---|---|---|
| `TypeCorrect` (`OperationsProofs`) | `[]TypeOK` | |
| `MutexInvariant`, `StatusMutexHolds` | `[]MutexInv`, `[]StatusMutex` | |
| `TerminalPhaseIsFinal` (`OperationsSafety`) | `TerminalIsFinal` | |
| `StatusesImplementLock` | `ImplementsWriteMutex` | |
| `RefsAlwaysAgree` | `[]RefsAgree` | |
| `PausedUntilEdited` (`OperationsEffects`) | `[](edits = 0 => PausedWhileHeld)` | once the policy is edited or the Cluster deleted under a holder, nothing pauses it before the next pass |
| `PausedWithoutEdits` | `[]PausedWhileHeld` | `MaxEdits = 0` |
| `FirstPodsExclusive` | `[]FirstPodMutex` | the property itself speaks of the time before a failed call or a deletion, and of the first pods: `ops_unrecorded_job` in two forms and `ops_retried_job` show each of the three breaking `JobMutex` |
| `ConflictHasNoJobHolds` | `[]ConflictHasNoJob` | no failed calls or deletions (`ops_unrecorded_job`) |
| `ResetInvariant` (`RebuildResetProofs`) | `[]ResetInv` | |
| `RebuildStartsEmptyHolds`, `DropOnlyForRebuildHolds` | `RebuildStartsEmpty`, `DropOnlyForRebuild` | any number of Rebuilds under any names.  The properties themselves speak of the time before a failed call, a deletion or a claim granted in mid-reset; `reset_lost_annotation`, `reset_two_rebuilds` and `reset_preempted` show what follows |
| `SwapInvariant`, `ApiAlwaysServes` (`BlueGreenProofs`) | `[]SwapInv`, `[]ApiServes` | |
| `RetiredAfterWindowHolds` | `RetiredAfterWindow` | |
| `ImportBesideLiveHolds` | `[]ImportBesideLive` | `OneSwap`: `status.rebuild` is never cleared, so once a swap has been driven to its end a second Rebuild would import into the live Cluster.  `Reconcile` as it is satisfies it for any number of Rebuilds |
| `DriftIsSerialHolds` (`RegionsProofs`) | `[]DriftIsSerial` | `ManualRebuild = {}`: a user may create a Rebuild after the list was read |
| `ImportedInvariant`, `StatusReflectsDatabaseHolds`, `ReadyMeansImportedHolds`, `ApiAfterImportHolds` | `[]ImportedInv` and its parts of these names | `NoRebuilds`: a Rebuild empties the database before it imports.  `spec.regions` may be or become empty |
| `DriftReportedHolds` | `[]DriftReported` | `NoRebuilds` and an Instance whose Bootstrap was observed: the seal copies the spec (`config_edited_import`) |
| `MarksRestOnProbes`, `ObservedMeansProbedHolds` (`SequenceProbeProofs`) | `[]ProbedInv`, `[]ObservedMeansProbed` | the second: no name has 63 characters (`sequence_name_63`) |
| `ReportAlwaysHasTarget` | `[]ReportHasTarget` | |
| `WorkerTyped`, `WorkerInvariant` (`WorkerProofs`) | `[]TypeOK`, `[]WorkerInv` | |
| `ReadySurvives` | `ReadySchemaSurvives` | the property: until a failed query about the schema or `place` was taken for a No; `worker_masked_query` shows why |
| `BookmarksBelong` | `BookmarksStartFresh` | the property: likewise, and until a Rebuild gives up before it clears the bookmarks (`worker_failed_rebuild`) |
| `ListedRegionsLoaded`, `SucceededIsComplete` | `[]ListedIsLoaded`, `SucceededImportIsComplete` | the properties: besides these, where osm2pgsql was cut short (`worker_resume`), where a Bootstrap has taken up the import of another Job (`worker_other_regions`), and for the later stages where a query about `placex` was misread |

**The write plane.**  `StatusMutex` alone is not inductive: between the claim and the
status write that makes an Operation a holder lie up to six calls.  `MutexInv` adds

- `ClaimIsExclusive`: while a pass is between its claim and its status write, no
  conflicting Operation holds (the single worker is the only one that makes holders);
- `PassKnows`: what each step may rely on about its Operation (it exists, has its
  finalizer, is active before the status write, terminal with a Job on a resync);
- `LifeAgrees`: an Operation not yet created has no status, a terminating one has
  its finalizer;
- `TerminalIsSettled`: a terminal Operation with a Job owes its phase to that Job,
  so reading the Job again cannot make it a holder.  Pod counters only grow, and a
  deleted Job leaves the status as it is.

Steps that change no holder share one lemma (`QuietStep`); the claim, the status
write, `failOperation`, deletion and the start of a pass have one each.  The refinement of
`WriteMutex` follows step by step: a status write enters the lock, `ClaimIsExclusive` being
its guard, and every other step leaves it or stutters.  `StatusInv` adds that a Succeeded
phase is backed by the Job and that whoever has a status has a finalizer, so a DELETE never
makes a holder vanish.

**References, effects and pods.**  `RefsInv` adds to `MutexInv` that a claim is in the
references before the status is written, and out of them before the finalizer goes
(`PassRefs`).  `PauseInv` adds what a pass has done to the Cluster at each of its steps
(`PassPauses`): it holds the policy it read, has paused before it profiles, and restores only
when no covered holder is left.  `CalmInv` speaks of the time before the first failed call or
deletion: every Job is recorded but in the step right after its creation (`JobsRecorded`), and
the gates a pass went through stay open (`PassGates`), so nobody fails with a Job armed.

**RebuildReset.**  `ResetInv` is inductive with `PassInv`, what each step of the handshake
relies on.  For the two action properties: `GrantInv`, the mutex again for the reduced
statuses; `DatabaseInv`, UIDs only grow and rows exist only in an applied Database;
`CleanReset`, as long as nothing was disturbed, once a Rebuild has begun nobody else is granted
the plane before its Job and no other Rebuild is in mid-reset (`BegunAlone`), the only
incarnation that is ever deleted is the one it recorded (`DropHasRebuild`), and any other is
empty (`FreshFor`).  The claim is the one step that could break `BegunAlone`: it compares names
alone, and `preempted` records that it did.

**BlueGreen.**  Two controllers hold copies of the attachment, so `ApiServes` needs to know
how old each copy may be.  `CopiesAgree`: the pass holds the parent's `status.rebuild`, or is
ahead of it between the swap and its patch, or has lost the patch of `Importing`.  `BeforeCutover`: before the cutover every copy
names the first Cluster.  `BothServe`: until the window has elapsed both Clusters are ready, so
either copy is good.  `AfterWindow`: afterwards every copy is the live one.  `WindowKept` and
`NeverSwapped` tie the phases to the window and to the way the swap is driven.  `ImportInv` adds
that the Job targets the sibling and has succeeded before a cutover.

**Regions.**  `SerialInv`: the list of a pass misses no active write-heavy Operation but the
Bootstrap that the pass created (`ListIsCurrent`), and nothing else exists before a Bootstrap
has succeeded (`BootstrapFirst`); so a Bootstrap is created alone, and drift after it.
`ImportedInv`: what an Operation lists is what it imports, a Succeeded one has brought it, no
import takes a region away (`DatabaseHolds`), and a pass for the current generation has the
current spec (`GenerationsAgree`), which is why Ready can be believed; from the step that decides
about the API to the status write, an API beside desired regions has data (`ApiDecided`).  `SealedInv`: the seal
in the status, and in the pass once read, is the style of the database.

**SequenceProbe.**  `ProbedInv`: a probe counts as done after a pod of its own has ended.
`TargetInv`: a pass reaches each of its steps with everything before it created, and neither
the ConfigMap nor a grant is ever taken away, so a Job that exists has its ConfigMap and its Role.

**Worker.**  Three invariants on top of each other, without hypotheses:

- `ControlInv`: a Job has a pod exactly while it is active, the pod is at a command of the
  script of its type and inside its list of regions (`ScriptOK`), and whoever is active beside
  others is not write-heavy (`Exclusive`);
- `SchemaInv`: what a Yes about the schema has shown still holds at the next command
  (`SchemaAt`: no marker from the download to the last stage, a ready schema from `truncate`
  on, the marker after `require_bootstrap_ready`).  As long as no query about the schema or
  `place` was misread, whoever is about to start over meets no finished database
  (`StartsOver`), and a ready schema without `place` has the marker: a frozen database is
  recognised by it alone.  `ReadySurvives` is one step from there;
- `BookmarksFresh`, for the same time: marker, list and cursors stand beside a ready schema, or
  a Rebuild has not reached `clear` (`Uncleared`).  So a database that becomes ready has none
  yet: `BookmarksBelong`.

`StagesInv` says, as long as no query about `placex` was misread, which stages have really ended
behind what `detect_continue_at` looks at (`indexed_status`, pending rows, `database_version`)
and behind the stage that the pod was given.  The first stage is not among them: rows of `place`
show before osm2pgsql has ended.  `LoadedInv` follows the extracts: the regions before the
current one have a file (`FilesAt`), osm2pgsql refuses a cut-off one, so an osm2pgsql that ends
has brought every region it was given (`GivenLoaded`); the list exists once an import is complete
(`ListExists`), so no round of an Update makes one up; and `finish_bootstrap`, which looks at the
schema alone, ends an import whose regions are all listed (`ListAt`).  A region that is listed and
not there was then given to an osm2pgsql that was cut short, or wanted by a Bootstrap that took
up another import.  `WorkerAssumption` gives every Job but Refresh, Migrate and Freeze at
least one region: `add-regions.sh` and `update.sh` die without, and an import from `PBF_URL` alone is
not modelled.

No property of the diffs is among the theorems.  Whether the data reaches up to the cursor is
what `CursorIsApplied`, `DiffsInOrder` and `UpdateReportsFailure` say, and the code keeps none
of them (section 6).

Only model-checked: every liveness property (`OperationsEnd`, `PauseReleased`, `RefsReleased`,
`DrainEnds`, `DatabaseReturns`, `ServesAgain`, `RegionsConverge`, `StatusSettles`,
`FiresTakenUp`, `JobsEnd`, `EveryWriteObserved`, `ReportReachesStatus`; the prover does not
handle fairness); `SequenceKept`, which replays the Operations with a recursive function, so
that what it returns needs an induction over data.

## 6. Where the code and its documents disagree

Three disagreements are runs of the project, with the quoted lines in `PROJECT.json`:

- `ops_retried_job`: `phaseFromJob` calls an Operation Failed after its first failed
  pod although the Job retries twice; a peer claims and two Jobs write.
- `bg_never_cuts_over`: the prerequisites handler resets the swap machine in every
  pass; a BlueGreen Rebuild never cuts over.
- `worker_masked_failure`: `set +e` around the round of `update.sh` and `catch-up.sh` hides a
  failed `add-data`; the cursor has moved, the diffs are lost and the Operation succeeds.

The following configurations are kept beside them; each checks one property and ends
in a counterexample; "with" gives the change to another one of them and the property to
check instead.  The properties say what the quoted document or comment says.

| cfg (module) | property | what happens |
|---|---|---|
| `ops_unrecorded_job` (`MCOperations`) | `JobMutex` | a Job whose `jobRef` write was lost does not hold the write plane |
| `ops_unrecorded_job` with `MaxFaults = 0`, `MaxDeletes = 1` | `JobMutex` | the Operation goes before the pods of its Job |
| `ops_unrecorded_job` with another property | `ConflictHasNoJob` | after a lost status write an Operation with a Job is failed with Conflict |
| `ops_refresh_update` (`MCOperations`) | `RefreshAlone` | Refresh and Update do not conflict, against `docs/operations.md` |
| `ops_revived` (`MCOperations`) | `StatusMutexAlways` | a gate fails an armed Operation, a peer claims, the terminal path turns the first back to Running; the reason for `forced` in the properties that hold |
| `teardown_running_job` (`MCOperations`) | `TeardownAfterJobs` | the drain waits for Operations, not for their Jobs |
| `teardown_stuck` (`MCOperations`) | `TeardownEnds` | resuming backups on a Cluster that is gone is an error, and the finalizer stays |
| `pause_orphaned` (`MCOperations`) | `PauseReleased` | the policy is edited to Never while backups are paused |
| `reset_two_rebuilds` (`MCRebuildReset`) | `RebuildAlwaysStartsEmpty` | both Rebuilds recorded the same UID; the second takes the first one's Database for its own |
| `reset_preempted` (`MCRebuildReset`) | `OperationsEnd` | a competitor with a smaller name waits for the Database the Rebuild deleted, and the Rebuild waits for it |
| `reset_lost_annotation` (`MCRebuildReset`) | `RebuildAlwaysStartsEmpty` | a pass is lost between the delete of the Database and its annotation; the next one deletes the recreated Database by name and takes the UID it read for the old one |
| `bg_never_cuts_over` with another property | `RebuildCleared` | `status.rebuild` is never cleared |
| `bg_green_orphaned` (`MCBlueGreen`) | `FailedImportCollected`, or the invariant `SucceededMeansSwapped` | the Job phase is written before the swap; a pass lost in between ends it.  With `MaxFaults = 0` the first holds |
| `regions_three_missing` (`Regions`) | `RegionsConverge` | the third AddRegions of one generation has no free name |
| `regions_three_missing` with two regions and `MaxFires = 1` | `RegionsConverge` | beside a running Update both AddRegions end in Conflict |
| `regions_two_rebuilds` (`Regions`) | `StatusSettles` | old Operations are replayed over newer ones |
| `regions_two_rebuilds` with `Policy = "AddData"`, `ManualRebuild = {{}}`, one region, `MaxGen = 1` | `StatusSettles` | a Rebuild without regions of its own empties `status.regions` |
| `config_edited_import` (`Regions`), also with `Bootstrapped = TRUE`, `ManualRebuild = {{1}}` | `DriftReported` | the seal copies the spec, not what the Job imported |
| `update_beside_add` (`Regions`) | `UpdateNotBesideHeavy` | the schedule probe uses a list older than the AddRegions of the same pass |
| `worker_resume` (`MCWorker`) | `BootstrapResumes` | a pod dies after the last import stage and before the list is written: the next finds the schema ready and the list incomplete, and refuses, against the comment at `bootstrap.sh:77` |
| `worker_resume` with another property | `WholeExtractsOnly` | a cut-off extract is not empty, so it is used instead of resumed (`common.sh:397` "resume-friendly") |
| `worker_resume` with another property | `SucceededBootstrapIsLoaded` | rows of `place` are visible before every extract was read: the next pod goes on with `load-data` and the rest is missing (`nominatim_region_observe.go:37`) |
| `worker_other_regions` (`MCWorker`) | `ResumedBootstrapIsLoaded` | a Bootstrap of other regions resumes the import of a failed one and lists regions that were never read (`nominatim_region_observe.go:37`) |
| `worker_masked_query` (`MCWorker`) | `ReadySchemaAlwaysSurvives` | after a Freeze, one failed query of `import_schema_ready` makes a repeated Bootstrap remove the marker and import over a ready schema (`common.sh:236-241`, `bootstrap.sh:33-40`) |
| `worker_failed_rebuild` (`MCWorker`) | `AlwaysListedIsLoaded` | a Rebuild that fails before it clears the bookmarks leaves those of the old database |
| `worker_late_seed` (`MCWorker`) | `CursorIsApplied` | the cursor is seeded after the download, with a newer number than the extract has (`docs/CONTEXT.md:53`).  A pod that dies between `pyosmium-get-changes` and `add-data` breaks the property too, in more steps |
| `worker_resume` with `Plans = {{1, 2}}` | `SucceededIsIndexed` | a pod of AddRegions dies after its regions are listed; the next one has nothing to add and does not index |
| `worker_two_updates` (`MCWorker`) | `DiffsInOrder` | two Updates do not conflict and apply their diffs in either order (`docs/operations.md:44`) |
| `sequence_overtaken` (`MCSequenceProbe`), also with `Plans = {{1}}`, `MaxFaults = 1` | `StatusShowsFiles` | an older report is patched last, or the PATCH is lost, and nothing probes again (`docs/concepts.md:29`) |
| `sequence_name_62` (`MCSequenceProbe`) | `EveryWriteObserved` | the name of the probe ends in a dash, its creation is refused and every pass ends there, before the status is written |
| `sequence_name_63` (`MCSequenceProbe`) | `ObservedMeansProbed` | the name of the probe is that of the worker's Job, which has succeeded |

## 7. Not modelled

Object construction without decisions (pod overlay, Services, HTTPRoutes, UI,
environment variables), generated code, chart, manifests and tooling; what the nominatim
CLI does beyond success, failure and visible traces; imports from `PBF_URL` without
regions; informer-cache lag; an Operation recreated under an old name;
connectionSecretRef and clusterRef beyond what `Mode` covers; the staging PVC (its
content is in `Worker`).  What is left of the source has no state of its own.

## 8. Plan

The action properties and invariants that passing runs check are theorems, `SequenceKept` excepted;
it stays with TLC, as liveness does, for the reasons in section 5.  Several of them stop short
where a table above names a configuration.  When the code changes there, the exception should
go from the property and from its theorem: `TakenOver` once a Bootstrap compares its regions
with those of the import it resumes, `Answered` once a failed query ends the pod instead of
counting as No, `preempted` once a claim takes account of a reset under way.
