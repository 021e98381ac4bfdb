------------------------------ MODULE Regions ------------------------------
(***************************************************************************)
(* The NominatimInstance controller's declarative side: status.regions and *)
(* the sealed import style are observed from Succeeded Operations, missing *)
(* regions become Bootstrap, AddRegions or Rebuild Operations, the cron    *)
(* schedule becomes Update Operations, and the API exists once regions are *)
(* imported (nominatim_region_observe.go, nominatim_bootstrap.go,          *)
(* nominatim_region_drift.go, nominatim_updates.go, nominatim_config.go).  *)
(*                                                                         *)
(* The Operation controller is reduced to what this side sees of it: an    *)
(* Operation is refused or gets a Job, and the Job ends (see Operations    *)
(* for the protocol behind these two steps).  The database is attached     *)
(* and its connection Secret known throughout.  importStyle stands for     *)
(* both import-time settings.                                              *)
(***************************************************************************)
EXTENDS Naturals, FiniteSetsExt

CONSTANTS
  RegionPaths,   \* regions, numbered in the order in which spec.regions lists them
  Styles,        \* import styles
  Policy,        \* spec.regionChangePolicy
  Bootstrapped,  \* TRUE: start from an Instance whose Bootstrap was observed
  ManualRebuild, \* region lists of the Rebuild that a user may create
  Plans,         \* what the users and Jobs of a run do: "edits" without fires and Rebuilds of a user,
                 \* "schedule" without edits and failing Jobs, "all" with everything
  MaxGen,        \* bound: metadata.generation, so MaxGen - 1 edits of the spec
  MaxFires,      \* bound: times the update schedule fires
  MaxFailures,   \* bound: Operations whose Job fails
  MaxFaults      \* bound: failed calls and restarts of the Instance controller

ASSUME RegionsAssumption ==
  /\ RegionPaths \subseteq Nat /\ RegionPaths # {} /\ IsFiniteSet(RegionPaths)
  /\ "none" \notin Styles /\ Styles # {}
  /\ Policy \in {"AddData", "Rebuild"} /\ Bootstrapped \in BOOLEAN
  /\ ManualRebuild \subseteq SUBSET RegionPaths
  /\ Plans \subseteq {"all", "edits", "schedule"}
  /\ MaxGen \in Nat \ {0} /\ MaxFires \in Nat /\ MaxFailures \in Nat /\ MaxFaults \in Nat

VARIABLES
  spec,    \* spec.regions and spec.nominatim.importStyle
  gen,     \* metadata.generation
  status,  \* status of the Instance
  ops,     \* the Operations of the Instance
  db,      \* what the database really holds
  api,     \* the API Deployment exists
  clock,   \* number of the latest fire of the schedule
  pass,    \* the Instance controller's pass and what it has read
  budget   \* the plan of the run, failures and faults left

vars == <<spec, gen, status, ops, db, api, clock, pass, budget>>

-----------------------------------------------------------------------------
(* Objects.                                                                *)

\* metadata.name: a suffix and the generation or fire time behind it (0: none).
OpNames ==
  {<<"Bootstrap", 0>>, <<"Manual", 0>>}
    \union ({"AddRegions", "Rebuild"} \X (0..MaxGen))
    \union ({"Update"} \X (1..MaxFires))

TypeOf(n) == IF n[1] = "Manual" THEN "Rebuild" ELSE n[1]

WP == INSTANCE WritePlane WITH Ops <- OpNames, OpType <- [n \in OpNames |-> TypeOf(n)]

\* Lexicographic order of the names; a user's Rebuild sorts after the others.
Before(m, n) ==
  LET Rank(x) == CASE x[1] = "AddRegions" -> 1 [] x[1] = "Bootstrap" -> 2
                   [] x[1] = "Rebuild" -> 3 [] x[1] = "Update" -> 4 [] OTHER -> 5
  IN  Rank(m) < Rank(n) \/ (Rank(m) = Rank(n) /\ m[2] < n[2])

\* regions: spec.regions; imports, style: the environment of the Job.
OpStates ==
  [phase : WP!TerminalPhases \union {"absent", "Pending", "Running"},
   regions : SUBSET RegionPaths, imports : SUBSET RegionPaths, style : Styles \union {"none"}]

NoOperation == [phase |-> "absent", regions |-> {}, imports |-> {}, style |-> "none"]

NewOperation(regions) == [NoOperation EXCEPT !.phase = "Pending", !.regions = regions]

Specs == [regions : SUBSET RegionPaths, style : Styles]

\* cursor: lastUpdateScheduleTime; drift: the ImportConfigDrift condition.
Statuses ==
  [regions : SUBSET RegionPaths, seal : Styles \union {"none"}, cursor : 0..MaxFires,
   observed : 0..MaxGen, ready : BOOLEAN, drift : BOOLEAN]

NoStatus ==
  [regions |-> {}, seal |-> "none", cursor |-> 0, observed |-> 0,
   ready |-> FALSE, drift |-> FALSE]

Steps == {"persist", "list", "bootstrap", "workloads", "drift", "updates", "status"}

\* A pass that has read the Instance; stale: someone wrote the object since.
Passes ==
  [pc : Steps, stale : BOOLEAN, gen : 1..MaxGen, spec : Specs, status : Statuses,
   ops : [OpNames -> OpStates]]

Idle == [pc |-> "idle"]

NoOps == [n \in OpNames |-> NoOperation]

TypeOK ==
  /\ spec \in Specs /\ gen \in 1..MaxGen /\ status \in Statuses
  /\ ops \in [OpNames -> OpStates]
  /\ db \in [regions : SUBSET RegionPaths, style : Styles \union {"none"}]
  /\ api \in BOOLEAN /\ clock \in 0..MaxFires
  /\ pass \in Passes \union {Idle}
  /\ budget \in [plan : Plans, failures : 0..MaxFailures, faults : 0..MaxFaults]

\* A user has just created the Instance, with the first region or with none, or
\* its Bootstrap of the first region has been observed and everything is settled.
Init ==
  /\ \E r \in RegionPaths, s \in Styles, desired \in SUBSET {Min(RegionPaths)} :
       /\ r = Min(RegionPaths)
       /\ spec = [regions |-> desired, style |-> s]
       /\ IF Bootstrapped
            THEN /\ desired = {r}
                 /\ status = [regions |-> {r}, seal |-> s, cursor |-> 0, observed |-> 1,
                              ready |-> TRUE, drift |-> FALSE]
                 /\ ops = [NoOps EXCEPT ![<<"Bootstrap", 0>>] =
                             [phase |-> "Succeeded", regions |-> {r}, imports |-> {r}, style |-> s]]
                 /\ db = [regions |-> {r}, style |-> s]
            ELSE status = NoStatus /\ ops = NoOps /\ db = [regions |-> {}, style |-> "none"]
  /\ gen = 1 /\ api = Bootstrapped /\ clock = 0 /\ pass = Idle
  /\ \E plan \in Plans :
       budget = [plan |-> plan, faults |-> MaxFaults,
                 failures |-> IF plan = "schedule" THEN 0 ELSE MaxFailures]

-----------------------------------------------------------------------------
(* Observing Succeeded Operations.                                         *)

Succeeded(os, t) == {n \in OpNames : TypeOf(n) = t /\ os[n].phase = "Succeeded"}

sealObservedNominatimConfig(st, sp, force) ==
  IF force \/ st.seal = "none" THEN [st EXCEPT !.seal = sp.style] ELSE st

\* A Succeeded Bootstrap fills an empty status.regions and seals the settings.
syncRegionsFromBootstrap(st, sp, os) ==
  LET b == os[<<"Bootstrap", 0>>]
  IN  IF st.regions # {} \/ b.phase # "Succeeded" THEN st
      ELSE sealObservedNominatimConfig([st EXCEPT !.regions = b.regions], sp, FALSE)

\* Mutant: an AddRegions is merged as soon as it exists.
syncDriftAnyPhase(st, sp, os) ==
  LET adds == {n \in OpNames : TypeOf(n) = "AddRegions"}
  IN  {[st EXCEPT !.regions = @ \union UNION {os[a].regions : a \in adds}]}

\* Mutant: AddRegions is not observed.
syncDriftNoAdds(st, sp, os) == {st}

Merged(os, base, after) == base \union UNION {os[a].regions : a \in after}

\* Rebuild r is the last one listed, and after are the AddRegions behind it.
Replaced(st, sp, os, r, after) ==
  sealObservedNominatimConfig([st EXCEPT !.regions = Merged(os, os[r].regions, after)], sp, TRUE)

\* Every Succeeded AddRegions merges and every Succeeded Rebuild replaces, in
\* the order of a List from the informer cache, which is any order: the result
\* is decided by the last Rebuild listed and the AddRegions that come after it.
syncRegionsFromDriftOps(st, sp, os) ==
  LET adds == Succeeded(os, "AddRegions")
      rebuilds == Succeeded(os, "Rebuild")
  IN  IF rebuilds = {} THEN {[st EXCEPT !.regions = Merged(os, @, adds)]}
      ELSE {Replaced(st, sp, os, r, after) : r \in rebuilds, after \in SUBSET adds}

observeRegionsFromSucceededOps(st, sp, os) ==
  syncRegionsFromDriftOps(syncRegionsFromBootstrap(st, sp, os), sp, os)

-----------------------------------------------------------------------------
(* A pass of the Instance controller.                                      *)

\* The pass returns (an error included): what it had in memory is gone.
Return == pass' = Idle

Goto(pc) == pass' = [pass EXCEPT !.pc = pc]

\* Create fails with AlreadyExists when the name is taken.
CreateThen(n, regions, pc) ==
  IF ops[n].phase = "absent"
    THEN ops' = [ops EXCEPT ![n] = NewOperation(regions)] /\ Goto(pc)
    ELSE ops' = ops /\ Return

\* Get at the start of Reconcile.
ReadInstance ==
  /\ pass = Idle
  /\ pass' = [pc |-> "persist", stale |-> FALSE, gen |-> gen, spec |-> spec,
              status |-> NoStatus, ops |-> NoOps]
  /\ UNCHANGED <<spec, gen, status, ops, db, api, clock, budget>>

\* The database status is written and the whole status read back; the spec and
\* the generation in memory stay those of the Get.
PersistDatabaseStatus ==
  /\ pass.pc = "persist"
  /\ pass' = [pass EXCEPT !.pc = "list", !.stale = FALSE, !.status = status]
  /\ UNCHANGED <<spec, gen, status, ops, db, api, clock, budget>>

ListOperations ==
  /\ pass.pc = "list"
  /\ \E st \in observeRegionsFromSucceededOps(pass.status, pass.spec, ops) :
       pass' = [pass EXCEPT !.pc = "bootstrap", !.status = st, !.ops = ops]
  /\ UNCHANGED <<spec, gen, status, ops, db, api, clock, budget>>

ensureBootstrapOperation ==
  /\ pass.pc = "bootstrap"
  /\ LET needed == /\ pass.spec.regions # {} /\ pass.status.regions = {}
                   /\ pass.ops[<<"Bootstrap", 0>>].phase = "absent"
     IN  IF needed THEN CreateThen(<<"Bootstrap", 0>>, pass.spec.regions, "workloads")
                   ELSE ops' = ops /\ Goto("workloads")
  /\ UNCHANGED <<spec, gen, status, db, api, clock, budget>>

\* Mutant: the API is deployed before the first import.
servingAlways(st, sp) == TRUE

servingWorkloadsAllowed(st, sp) == sp.regions = {} \/ st.regions # {}

\* The API Deployment is created, or removed when it may not serve.
reconcileWorkloads ==
  /\ pass.pc = "workloads"
  /\ api' = servingWorkloadsAllowed(pass.status, pass.spec)
  /\ Goto("drift")
  /\ UNCHANGED <<spec, gen, status, ops, db, clock, budget>>

\* Mutant: the name is never suffixed.
driftNameFixed(t, os, g) == <<t, 0>>

\* A stable name first; once it is taken, the name with the generation.
driftOperationName(t, os, g) == IF os[<<t, 0>>].phase = "absent" THEN <<t, 0>> ELSE <<t, g>>

\* Mutant: drift does not look at the Operations that are still active.
driftIgnoresActive(os) == FALSE

\* A write-heavy Operation is active: nothing is created now.
writeHeavyActive(os) ==
  \E n \in OpNames : /\ WP!isWriteHeavyOperation(TypeOf(n))
                     /\ WP!isActiveOperationPhase(os[n].phase)

\* AddRegions takes one missing region, Rebuild the whole desired list.
reconcileRegionDrift ==
  /\ pass.pc = "drift"
  /\ LET missing == pass.spec.regions \ pass.status.regions
         kind == IF Policy = "Rebuild" THEN "Rebuild" ELSE "AddRegions"
         regions == IF Policy = "Rebuild" THEN pass.spec.regions ELSE {Min(missing)}
     IN  IF pass.status.regions = {} \/ missing = {} \/ writeHeavyActive(pass.ops)
           THEN ops' = ops /\ Goto("updates")
           ELSE CreateThen(driftOperationName(kind, pass.ops, pass.gen), regions, "updates")
  /\ UNCHANGED <<spec, gen, status, db, api, clock, budget>>

\* Mutant: a fire whose Operation exists already is created once more.
alreadyCreatedNever(os, n) == FALSE

alreadyCreated(os, n) == os[n].phase # "absent"

\* The most recent fire after the cursor becomes one Update, unless the schedule
\* probe finds a write-heavy Operation in the list of this pass.
reconcileUpdates ==
  /\ pass.pc = "updates"
  /\ LET due == pass.status.regions # {} /\ pass.status.cursor < clock
         name == <<"Update", clock>>
         Advance == pass' = [pass EXCEPT !.pc = "status", !.status.cursor = clock]
     IN  IF ~due \/ writeHeavyActive(pass.ops) THEN ops' = ops /\ Goto("status")
         ELSE IF alreadyCreated(pass.ops, name) THEN ops' = ops /\ Advance
         ELSE IF ops[name].phase = "absent"
           THEN ops' = [ops EXCEPT ![name] = NewOperation(pass.status.regions)] /\ Advance
           ELSE ops' = ops /\ Return
  /\ UNCHANGED <<spec, gen, status, db, api, clock, budget>>

\* Mutant: Ready looks at removed regions only.
syncedIgnoringMissing(st, sp, g) ==
  [st EXCEPT !.observed = g, !.ready = (st.regions \subseteq sp.regions),
             !.drift = st.regions # {} /\ st.seal # "none" /\ st.seal # sp.style]

\* Mutant: ImportConfigDrift is not refreshed.
syncedKeepsDrift(st, sp, g) ==
  [st EXCEPT !.observed = g, !.ready = (sp.regions = st.regions)]

\* The status as syncStatus completes it from the spec in memory.
SyncedStatus(st, sp, g) ==
  [st EXCEPT !.observed = g, !.ready = (sp.regions = st.regions),
             !.drift = st.regions # {} /\ st.seal # "none" /\ st.seal # sp.style]

\* The write is refused when someone wrote the object after the persist.
syncStatus ==
  /\ pass.pc = "status"
  /\ status' = IF pass.stale THEN status ELSE SyncedStatus(pass.status, pass.spec, pass.gen)
  /\ Return
  /\ UNCHANGED <<spec, gen, ops, db, api, clock, budget>>

\* A call of the pass fails, or the operator restarts.
FailPass ==
  /\ pass # Idle /\ budget.faults > 0
  /\ budget' = [budget EXCEPT !.faults = @ - 1]
  /\ Return
  /\ UNCHANGED <<spec, gen, status, ops, db, api, clock>>

InstancePass ==
  \/ ReadInstance \/ PersistDatabaseStatus \/ ListOperations \/ ensureBootstrapOperation
  \/ reconcileWorkloads \/ reconcileRegionDrift \/ reconcileUpdates \/ syncStatus

-----------------------------------------------------------------------------
(* The Operation controller, the Jobs, the user and the clock.             *)

\* The Instance object was written by someone else: the pass will conflict.
TouchInstance == pass' = IF pass = Idle THEN pass ELSE [pass EXCEPT !.stale = TRUE]

effectiveRegions(n) == IF ops[n].regions # {} THEN ops[n].regions ELSE spec.regions

\* The sealed style once there is one, whatever the type of the Operation.
effectiveImportTimeSettings ==
  IF status.regions # {} /\ status.seal # "none" THEN status.seal ELSE spec.style

bootstrapComplete == status.regions # {} \/ Succeeded(ops, "Bootstrap") # {}

\* Conflicting peers of n in phase ph.
Peers(n, ph) == {m \in OpNames : WP!operationsMutexConflict(n, m) /\ ops[m].phase = ph}

\* Conflict with a Running peer, RegionsRequired or BootstrapIncomplete.
Refused(n) ==
  \/ Peers(n, "Running") # {}
  \/ /\ WP!requiresRegionGate(TypeOf(n))
     /\ effectiveRegions(n) = {} \/ (spec.regions # {} /\ ~bootstrapComplete)

\* A pass of the Operation controller that decides: it waits while a Pending
\* peer with a smaller name competes and none runs.
StartOperation(n) ==
  /\ ops[n].phase = "Pending"
  /\ Peers(n, "Running") # {} \/ \A m \in Peers(n, "Pending") : ~Before(m, n)
  /\ IF Refused(n)
       THEN ops' = [ops EXCEPT ![n].phase = "Failed"] /\ db' = db
       ELSE /\ ops' = [ops EXCEPT ![n] = [phase |-> "Running", regions |-> @.regions,
                         imports |-> effectiveRegions(n), style |-> effectiveImportTimeSettings]]
            /\ db' = IF TypeOf(n) = "Rebuild" THEN [regions |-> {}, style |-> "none"] ELSE db
  /\ TouchInstance
  /\ UNCHANGED <<spec, gen, status, api, clock, budget>>

\* What the worker scripts leave in the database.
Imported(n) ==
  CASE TypeOf(n) \in {"Bootstrap", "Rebuild"} ->
         [regions |-> ops[n].imports, style |-> ops[n].style]
    [] TypeOf(n) = "AddRegions" -> [db EXCEPT !.regions = @ \union ops[n].imports]
    [] OTHER -> db

JobSucceeds(n) ==
  /\ ops[n].phase = "Running"
  /\ ops' = [ops EXCEPT ![n].phase = "Succeeded"]
  /\ db' = Imported(n)
  /\ TouchInstance
  /\ UNCHANGED <<spec, gen, status, api, clock, budget>>

JobFails(n) ==
  /\ ops[n].phase = "Running" /\ budget.failures > 0
  /\ ops' = [ops EXCEPT ![n].phase = "Failed"]
  /\ budget' = [budget EXCEPT !.failures = @ - 1]
  /\ TouchInstance
  /\ UNCHANGED <<spec, gen, status, db, api, clock>>

EditSpec ==
  /\ gen < MaxGen /\ budget.plan # "schedule"
  /\ \E new \in Specs : new # spec /\ spec' = new
  /\ gen' = gen + 1
  /\ TouchInstance
  /\ UNCHANGED <<status, ops, db, api, clock, budget>>

CreateRebuild ==
  /\ ops[<<"Manual", 0>>].phase = "absent" /\ budget.plan # "edits"
  /\ \E regions \in ManualRebuild :
       ops' = [ops EXCEPT ![<<"Manual", 0>>] = NewOperation(regions)]
  /\ UNCHANGED <<spec, gen, status, db, api, clock, pass, budget>>

ScheduleFires ==
  /\ clock < MaxFires /\ budget.plan # "edits"
  /\ clock' = clock + 1
  /\ UNCHANGED <<spec, gen, status, ops, db, api, pass, budget>>

Next ==
  \/ InstancePass \/ FailPass \/ EditSpec \/ CreateRebuild \/ ScheduleFires
  \/ \E n \in OpNames : StartOperation(n) \/ JobSucceeds(n) \/ JobFails(n)

Spec == Init /\ [][Next]_vars

\* Both controllers keep reconciling and every Job ends.
FairSpec ==
  /\ Spec /\ WF_vars(InstancePass)
  /\ \A n \in OpNames : /\ WF_vars(StartOperation(n))
                         /\ WF_vars(JobSucceeds(n) \/ JobFails(n))

-----------------------------------------------------------------------------
(* Properties.                                                             *)

(* "status.regions is the cluster source of truth for what has been        *)
(* imported" (docs/concepts.md): without a Rebuild, no region is listed    *)
(* before an Operation has brought it into the database, whatever is lost  *)
(* or retried in between.                                                  *)
StatusReflectsDatabase == status.regions \subseteq db.regions

(* Ready for the generation a client sees means that the desired regions   *)
(* are in the database (syncStatus).                                       *)
ReadyMeansImported ==
  status.ready /\ status.observed = gen => spec.regions \subseteq db.regions

(* Requests are not routed to an empty database while regions are desired: *)
(* once the controller has completed a pass for the current spec, the API  *)
(* exists only after the first import, also when it was deployed for a     *)
(* spec without regions, which is served immediately                       *)
(* (servingWorkloadsAllowed, nominatim_workloads.go:125-136).              *)
ApiAfterImport ==
  api /\ spec.regions # {} /\ status.observed = gen => db.regions # {}

(* No two write-heavy Operations that this controller creates are active   *)
(* at once ("never create a second while one is active",                   *)
(* ensureAddRegionsOperation).                                             *)
DriftIsSerial ==
  \A m, n \in {x \in OpNames : WP!isActiveOperationPhase(ops[x].phase)} :
    WP!operationsMutexConflict(m, n) => "Update" \in {TypeOf(m), TypeOf(n)}

(* A scheduled Update is created only when no write-heavy Operation is     *)
(* active: "creation-race peers must block scheduling" (reconcileUpdates). *)
UpdateNotBesideHeavy ==
  [][\A n \in OpNames :
       TypeOf(n) = "Update" /\ ops[n].phase = "absent" /\ ops'[n].phase # "absent"
         => ~writeHeavyActive(ops)]_vars

(* Import settings that differ from those of the database are surfaced as  *)
(* ImportConfigDrift once the controller has seen the spec and no          *)
(* Operation is running (NominatimConfigSpec).                             *)
DriftReported ==
  (/\ status.observed = gen /\ status.regions # {} /\ spec.style # db.style
   /\ \A n \in OpNames : ~WP!isActiveOperationPhase(ops[n].phase))
    => status.drift

(* The desired regions are imported in the end (reconcileRegionDrift).     *)
RegionsConverge == <>[](spec.regions \subseteq status.regions)

(* In the end status.regions is what the database holds.                   *)
StatusSettles == <>[](status.regions = db.regions)

(* Every fire of the schedule is taken up: the cursor reaches it, through  *)
(* busy write planes, lost status writes and restarts (reconcileUpdates).  *)
FiresTakenUp == \A f \in 1..MaxFires : (clock >= f) ~> (status.cursor >= f)

-----------------------------------------------------------------------------
(* Inductive invariants, which the proofs of the safety properties rest    *)
(* on.                                                                     *)

\* No Rebuild exists: the policy is AddData and no user creates one.
NoRebuilds == Policy = "AddData" /\ ManualRebuild = {}

Boot == <<"Bootstrap", 0>>

\* Records of which the fields that decide on the next step are typed, and the
\* contents of the others left open.
IsOperation(o) ==
  o \in [phase : WP!TerminalPhases \union {"absent", "Pending", "Running"},
         regions : {o.regions}, imports : {o.imports}, style : {o.style}]

IsStatus(st) ==
  st \in [regions : {st.regions}, seal : {st.seal}, cursor : Nat, observed : Nat,
          ready : BOOLEAN, drift : BOOLEAN]

IsPass(p) ==
  p \in [pc : Steps, stale : BOOLEAN, gen : 1..MaxGen, spec : {p.spec}, status : {p.status}, ops : {p.ops}]

ControlOK ==
  /\ gen \in 1..MaxGen /\ clock \in 0..MaxFires
  /\ DOMAIN ops = OpNames /\ \A n \in OpNames : IsOperation(ops[n])
  /\ IsStatus(status)
  /\ pass = Idle \/ (IsPass(pass) /\ IsStatus(pass.status))

\* The pass has read the status.
Read == pass # Idle /\ pass.pc # "persist"

BootDone == ops[Boot].phase = "Succeeded"

\* Nothing is known to be imported, and no other write-heavy Operation of the
\* controller exists, before the Bootstrap has succeeded.
BootstrapFirst ==
  /\ status.regions # {} => BootDone
  /\ Read /\ pass.status.regions # {} => BootDone
  /\ \A n \in OpNames : TypeOf(n) \in {"AddRegions", "Rebuild"} /\ ops[n].phase # "absent" => BootDone
  /\ ops[<<"Manual", 0>>].phase = "absent"

ActiveHeavy(os) ==
  {n \in OpNames : WP!isWriteHeavyOperation(TypeOf(n)) /\ WP!isActiveOperationPhase(os[n].phase)}

\* What was listed is all that is active, but for a Bootstrap that this pass
\* has created.
ListIsCurrent ==
  pass # Idle /\ pass.pc \in {"bootstrap", "workloads", "drift"} =>
    \A n \in ActiveHeavy(ops) : n \in ActiveHeavy(pass.ops) \/ (n = Boot /\ pass.status.regions = {})

SerialInv ==
  /\ ControlOK /\ BootstrapFirst /\ ListIsCurrent
  /\ \A m, n \in ActiveHeavy(ops) : m = n

Importing(n) == TypeOf(n) \in {"Bootstrap", "AddRegions"}

\* What Operations list is what they import, and what has been imported stays.
DatabaseHolds ==
  /\ db \in [regions : {db.regions}, style : {db.style}]
  /\ \A n \in OpNames : TypeOf(n) = "Rebuild" => ops[n].phase = "absent"
  /\ \A n \in OpNames : Importing(n) /\ ops[n].phase = "Running" => ops[n].regions \subseteq ops[n].imports
  /\ \A n \in OpNames : Importing(n) /\ ops[n].phase = "Succeeded" => ops[n].regions \subseteq db.regions
  /\ db.regions # {} => BootDone
  /\ status.regions \subseteq db.regions
  /\ Read => pass.status.regions \subseteq db.regions

\* The pass works for a generation whose spec it has, or for an earlier one, and
\* none of an earlier generation than the status.
GenerationsAgree ==
  /\ status.observed <= gen
  /\ pass # Idle => /\ status.observed <= pass.gen /\ pass.gen <= gen
                    /\ pass.gen = gen => pass.spec = spec

\* What the pass has made of the API for the spec it has read.
ApiDecided ==
  pass # Idle /\ pass.pc \in {"drift", "updates", "status"} =>
    (api /\ pass.spec.regions # {} => db.regions # {})

ImportedInv ==
  /\ SerialInv /\ DatabaseHolds /\ GenerationsAgree
  /\ ReadyMeansImported /\ ApiAfterImport /\ ApiDecided

\* The seal of an Instance that was bootstrapped before is the style of its
\* database.
SealedInv ==
  /\ ImportedInv /\ BootDone /\ db.style # "none"
  /\ status.seal = db.style /\ (Read => pass.status.seal = db.style)
  /\ status.observed = gen /\ status.regions # {} /\ spec.style # db.style => status.drift

=============================================================================
