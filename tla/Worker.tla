------------------------------- MODULE Worker -------------------------------
(***************************************************************************)
(* The worker scripts (images/worker/scripts): what the pods of an         *)
(* Operation's Job do to the database, to the bookmarks on the project     *)
(* volume and to the extracts on the staging volume.  A pod may be killed  *)
(* between any two commands; the Job then starts another one, which has    *)
(* to resume from what it finds.                                           *)
(*                                                                         *)
(* Simplifications.  Two Jobs that conflict on the write plane are never   *)
(* active together (Operations), a Rebuild finds an empty database         *)
(* (RebuildReset), and the database exists whenever a Job does.  Every     *)
(* Job lists its regions (no PBF_URL alone).  The download server numbers  *)
(* the diffs of all regions alike and an extract holds every diff          *)
(* published before it was downloaded.  The nominatim CLI, osm2pgsql and   *)
(* pyosmium-get-changes are external: a command either does its work or    *)
(* fails, and an import leaves visible traces while it runs.  Auxiliary    *)
(* downloads and the .env file repeat the same work in every pod.          *)
(***************************************************************************)
EXTENDS Naturals, Sequences, FiniteSets

CONSTANTS
  Jobs,         \* the Jobs of the Operations; their order is that of the names
  OpType,       \* OPERATION_TYPE of each of them
  OpRegions,    \* NOMINATIM_REGIONS of each of them, a sequence
  Plans,        \* sets of Jobs, one of which is created in a behaviour
  RegionPaths,  \* regions the download server offers
  BackoffLimit, \* pods of a Job that may fail before the Job does (2)
  MaxRounds,    \* NOMINATIM_CATCHUP_MAX_ROUNDS (20)
  MaxHead,      \* bound: number of the last diff that is published
  MaxKills,     \* bound: pods killed, commands of theirs that fail included
  MaxFailures   \* bound: failed commands that their script ignores, the queries
                \* of one outage together

WP == INSTANCE WritePlane WITH Ops <- Jobs

ASSUME WorkerAssumption ==
  /\ Jobs \subseteq Nat /\ OpType \in [Jobs -> WP!ImplementedTypes]
  /\ OpRegions \in [Jobs -> Seq(RegionPaths)] /\ Plans \subseteq SUBSET Jobs
  /\ \A j \in Jobs : OpType[j] \notin {"Refresh", "Migrate", "Freeze"} => OpRegions[j] # <<>>
  /\ {BackoffLimit, MaxKills, MaxFailures} \subseteq Nat
  /\ {MaxRounds, MaxHead} \subseteq Nat \ {0}

VARIABLES
  head,     \* number of the latest diff on the download server
  db,       \* the Nominatim database
  project,  \* bookmarks on the project volume
  staging,  \* extracts on the staging volume of each Job
  job,      \* the Jobs
  pod,      \* the pod of each Job
  misread,  \* history: queries since the database was last emptied whose
            \* failure was taken for a No
  budget    \* kills and ignored failures left

vars == <<head, db, project, staging, job, pod, misread, budget>>

-----------------------------------------------------------------------------
(* State.                                                                  *)

Diffs == 1..MaxHead

\* The stages of nominatim import, in order.
Stages == <<"import-from-file", "load-data", "indexing", "db-postprocess">>

\* place, rows: place and placex have rows; placex: the relation exists;
\* indexed, pending: some row of placex has indexed_status = 0, > 0; version:
\* nominatim_properties has database_version; done: stages that have run to
\* their end; given: the regions whose extracts osm2pgsql was given; data: the
\* diffs that the extract and the updates of a region hold.
Databases ==
  [place : BOOLEAN, placex : BOOLEAN, rows : BOOLEAN, indexed : BOOLEAN,
   pending : BOOLEAN, version : BOOLEAN, frozen : BOOLEAN,
   done : SUBSET {Stages[k] : k \in DOMAIN Stages}, given : SUBSET RegionPaths,
   data : [RegionPaths -> SUBSET Diffs]]

EmptyDatabase ==
  [place |-> FALSE, placex |-> FALSE, rows |-> FALSE, indexed |-> FALSE,
   pending |-> FALSE, version |-> FALSE, frozen |-> FALSE,
   done |-> {}, given |-> {}, data |-> [r \in RegionPaths |-> {}]]

\* finished: import-finished exists; listed, list: imported-regions.txt exists
\* and its lines; states, cursor: the regions with a sequence.state file and
\* the sequence number in it, 0 when the file has none.
Projects ==
  [finished : BOOLEAN, listed : BOOLEAN, list : SUBSET RegionPaths,
   states : SUBSET RegionPaths, cursor : [RegionPaths -> 0..MaxHead]]

EmptyProject ==
  [finished |-> FALSE, listed |-> FALSE, list |-> {},
   states |-> {}, cursor |-> [r \in RegionPaths |-> 0]]

\* partial: extracts whose download was cut off; whole: the others, by the
\* latest diff in them (0: no such file).
Stagings == [partial : SUBSET RegionPaths, whole : [RegionPaths -> 0..MaxHead]]

EmptyStaging == [partial |-> {}, whole |-> [r \in RegionPaths |-> 0]]

\* The next command of each script.
Commands ==
  {"prepare", "clear", "bootstrap", "download", "import", "truncate", "record", "seed",
   "check", "finish", "ready", "add", "curl", "add-data", "add-seed", "append", "index",
   "round", "update", "apply", "end-round", "command"}

\* What bootstrap.sh asks psql: whether the schema is that of a finished import
\* and, to find the stage, these in turn.
StageProbes == <<"exists", "place", "placex", "rows", "version", "indexed", "pending">>
Probes == {"schema", "exists", "place", "placex", "rows", "version", "indexed", "pending"}

\* at: index in NOMINATIM_REGIONS; stage: where nominatim import goes on;
\* round: rounds of CatchUp; changed: CHANGED; diff: changes_file of the region.
Pods ==
  [pc : Commands \union {"none"}, failed : 0..BackoffLimit, at : Nat \ {0},
   stage : 1..(Len(Stages) + 1), round : 0..MaxRounds, changed : BOOLEAN, diff : SUBSET Diffs]

NoPod ==
  [pc |-> "none", failed |-> 0, at |-> 1, stage |-> 1, round |-> 0, changed |-> FALSE, diff |-> {}]

TypeOK ==
  /\ head \in Diffs /\ db \in Databases /\ project \in Projects
  /\ staging \in [Jobs -> Stagings]
  /\ pod \in [Jobs -> Pods] /\ \A j \in Jobs : pod[j].at <= Len(OpRegions[j]) + 1
  /\ job \in [Jobs -> {"unplanned", "none", "active", "Complete", "Failed"}]
  /\ misread \in SUBSET Probes
  /\ budget \in [kills : 0..MaxKills, failures : 0..MaxFailures]

Init ==
  /\ head = 1 /\ db = EmptyDatabase /\ project = EmptyProject
  /\ staging = [j \in Jobs |-> EmptyStaging]
  /\ \E plan \in Plans : job = [j \in Jobs |-> IF j \in plan THEN "none" ELSE "unplanned"]
  /\ pod = [j \in Jobs |-> NoPod]
  /\ misread = {}
  /\ budget = [kills |-> MaxKills, failures |-> MaxFailures]

-----------------------------------------------------------------------------
(* Common parts of the scripts.                                            *)

At(j, pc) == pod[j].pc = pc

Goto(j, pc) == pod' = [pod EXCEPT ![j].pc = pc] /\ job' = job

Type(j) == OpType[j]

Regions(j) == {OpRegions[j][k] : k \in DOMAIN OpRegions[j]}

\* The loops over DESIRED_REGIONS.
Region(j) == OpRegions[j][pod[j].at]
InLoop(j) == pod[j].at <= Len(OpRegions[j])

NextRegion(j, pc) == pod' = [pod EXCEPT ![j].pc = pc, ![j].at = @ + 1, ![j].diff = {}] /\ job' = job

StartLoop(j, pc) == pod' = [pod EXCEPT ![j].pc = pc, ![j].at = 1] /\ job' = job

\* The script exits 0.
Succeed(j) ==
  /\ job' = [job EXCEPT ![j] = "Complete"]
  /\ pod' = [pod EXCEPT ![j] = NoPod]

\* Mutant: the Job has no backoffLimit.
dieUnlimited(j) ==
  /\ job' = job
  /\ pod' = [pod EXCEPT ![j] = [NoPod EXCEPT !.pc = "prepare", !.failed = pod[j].failed + 1]]

\* Mutant: pods that end by themselves do not count against backoffLimit.
dieUncounted(j) ==
  /\ job' = job
  /\ pod' = [pod EXCEPT ![j] = [NoPod EXCEPT !.pc = "prepare"]]

\* The pod ends in failure; the Job starts the next one (restartPolicy Never).
die(j) ==
  IF pod[j].failed = BackoffLimit
    THEN job' = [job EXCEPT ![j] = "Failed"] /\ pod' = [pod EXCEPT ![j] = NoPod]
    ELSE /\ job' = job
         /\ pod' = [pod EXCEPT ![j] = [NoPod EXCEPT !.pc = "prepare", !.failed = pod[j].failed + 1]]

\* The schema is that of a finished import.
import_schema_ready == db.placex /\ db.version

region_already_imported(r) == project.listed /\ r \in project.list

assert_imported_list_complete(j) == \A r \in Regions(j) : region_already_imported(r)

\* The true answer to p: the psql of a running server.
Holds(p) ==
  CASE p = "schema"  -> import_schema_ready
    [] p = "exists"  -> TRUE
    [] p = "place"   -> db.place
    [] p = "placex"  -> db.placex
    [] p = "rows"    -> db.rows
    [] p = "version" -> db.version
    [] p = "indexed" -> db.indexed
    [] p = "pending" -> db.pending

Answers == {p \in Probes : Holds(p)}

\* The queries made when those in yes are answered with Yes: each one after the
\* answers that lead to it.
Asked(yes) ==
  LET schema == project.finished /\ "schema" \in yes
      GoesOn(p) == (p \in yes) = (p # "version")
  IN  {p \in {"schema"} : project.finished} \union
      {StageProbes[k] : k \in {n \in DOMAIN StageProbes :
         ~schema /\ \A i \in 1..(n - 1) : GoesOn(StageProbes[i])}}

\* Mutant: indexed_status is not looked at before indexing goes on.
detectWithoutIndexed(yes) ==
  IF project.finished /\ "schema" \in yes THEN "done"
  ELSE IF "exists" \notin yes THEN "missing-db"
  ELSE IF "place" \notin yes THEN "import-from-file"
  ELSE IF "placex" \notin yes \/ "rows" \notin yes THEN "load-data"
  ELSE IF "version" \in yes THEN "done"
  ELSE IF "pending" \in yes THEN "indexing"
  ELSE "db-postprocess"

\* Mutant: the marker is not looked at.
detectWithoutMarker(yes) ==
  IF "exists" \notin yes THEN "missing-db"
  ELSE IF "place" \notin yes THEN "import-from-file"
  ELSE IF "placex" \notin yes \/ "rows" \notin yes THEN "load-data"
  ELSE IF "version" \in yes THEN "done"
  ELSE IF "indexed" \notin yes THEN "load-data"
  ELSE IF "pending" \in yes THEN "indexing"
  ELSE "db-postprocess"

\* Where nominatim import has to go on by the answers.
detect_continue_at(yes) ==
  IF project.finished /\ "schema" \in yes THEN "done"
  ELSE IF "exists" \notin yes THEN "missing-db"
  ELSE IF "place" \notin yes THEN "import-from-file"
  ELSE IF "placex" \notin yes \/ "rows" \notin yes THEN "load-data"
  ELSE IF "version" \in yes THEN "done"
  ELSE IF "indexed" \notin yes THEN "load-data"
  ELSE IF "pending" \in yes THEN "indexing"
  ELSE "db-postprocess"

\* A command fails and its script goes on.
Ignored ==
  /\ budget.failures > 0
  /\ budget' = [budget EXCEPT !.failures = @ - 1]

\* The cursor of r is set to s (0: the file is left empty).
SetCursor(p, r, s) == [p EXCEPT !.states = @ \union {r}, !.cursor[r] = s]

\* state.txt of the server replaces the cursor of r in p; curl may fail, which leaves an
\* empty file behind.
seed_region_state(p, r) ==
  \/ project' = SetCursor(p, r, head) /\ budget' = budget
  \/ project' = SetCursor(p, r, 0) /\ Ignored

\* add-data works on a database that was imported and keeps its update tables.
CanAddData == import_schema_ready /\ ~db.frozen

AddData(r, new) == [db EXCEPT !.data[r] = @ \union new, !.pending = TRUE]

Files(j, partial, r, s) ==
  staging' = [staging EXCEPT ![j] = [partial |-> partial, whole |-> [@.whole EXCEPT ![r] = s]]]

-----------------------------------------------------------------------------
(* Jobs and pods.                                                          *)

bootstrapComplete == \E k \in Jobs : Type(k) \in {"Bootstrap", "Rebuild"} /\ job[k] = "Complete"

\* The operator creates the Job; for a Rebuild it has emptied the database.
Arm(j) ==
  /\ job[j] = "none"
  /\ \A k \in Jobs : WP!operationsMutexConflict(j, k) => job[k] # "active"
  /\ WP!requiresRegionGate(Type(j)) => bootstrapComplete
  /\ job' = [job EXCEPT ![j] = "active"]
  /\ pod' = [pod EXCEPT ![j].pc = "prepare"]
  /\ db' = IF Type(j) = "Rebuild" THEN EmptyDatabase ELSE db
  /\ misread' = IF Type(j) = "Rebuild" THEN {} ELSE misread
  /\ UNCHANGED <<head, project, staging, budget>>

\* The pod is killed, or a command fails under set -e.
Kill(j) ==
  /\ pod[j].pc # "none" /\ budget.kills > 0
  /\ budget' = [budget EXCEPT !.kills = @ - 1]
  /\ die(j)
  /\ UNCHANGED <<head, db, project, staging, misread>>

\* entrypoint.sh, then prepare_db or prepare_import.
Prepare(j) ==
  /\ At(j, "prepare")
  /\ Goto(j, CASE Type(j) = "Bootstrap" -> "bootstrap"
                [] Type(j) = "Rebuild"   -> "clear"
                [] OTHER                 -> "ready")
  /\ UNCHANGED <<head, db, project, staging, misread, budget>>

-----------------------------------------------------------------------------
(* bootstrap.sh and rebuild.sh.                                            *)

\* Mutant: the update directory is left in place.
ClearWithoutUpdate(j) ==
  /\ At(j, "clear")
  /\ project' = [EmptyProject EXCEPT !.states = project.states, !.cursor = project.cursor]
  /\ Goto(j, "bootstrap")
  /\ UNCHANGED <<head, db, staging, misread, budget>>

\* Mutant: imported-regions.txt is left in place.
ClearWithoutList(j) ==
  /\ At(j, "clear")
  /\ project' = [EmptyProject EXCEPT !.listed = project.listed, !.list = project.list]
  /\ Goto(j, "bootstrap")
  /\ UNCHANGED <<head, db, staging, misread, budget>>

\* rebuild.sh removes the bookmarks and runs bootstrap.sh.
ClearMarkers(j) ==
  /\ At(j, "clear")
  /\ project' = EmptyProject
  /\ Goto(j, "bootstrap")
  /\ UNCHANGED <<head, db, staging, misread, budget>>

\* Queries fail, which psql_scalar's callers take for a No.
Misread(lost) ==
  /\ misread' = misread \union lost
  /\ IF lost = {} THEN budget' = budget ELSE Ignored

\* A marker without a ready schema is removed, then the stage is detected.
BootstrapStart(j) ==
  /\ At(j, "bootstrap")
  /\ \E yes \in SUBSET Answers :
       /\ Answers \ yes \subseteq Asked(yes)
       /\ Misread(Answers \ yes)
       /\ project' = [project EXCEPT !.finished = @ /\ "schema" \in yes]
       /\ LET stage == detect_continue_at(yes)
          IN  IF stage = "done"
                THEN IF assert_imported_list_complete(j) THEN Goto(j, "finish") ELSE die(j)
              ELSE IF stage = "missing-db" THEN die(j)
              ELSE IF stage = "import-from-file" THEN StartLoop(j, "download")
              ELSE /\ pod' = [pod EXCEPT ![j].pc = "import",
                               ![j].stage = CHOOSE k \in DOMAIN Stages : Stages[k] = stage]
                   /\ job' = job
  /\ UNCHANGED <<head, db, staging>>

\* ensure_import_osm_files: a file that exists and is not empty is used as it
\* is; any other is downloaded.
Download(j) ==
  /\ At(j, "download")
  /\ IF ~InLoop(j) THEN Goto(j, "import") /\ staging' = staging
     ELSE IF Region(j) \in staging[j].partial \/ staging[j].whole[Region(j)] # 0
       THEN NextRegion(j, "download") /\ staging' = staging
       ELSE /\ Files(j, staging[j].partial \union {Region(j)}, Region(j), 0)
            /\ Goto(j, "curl")
  /\ UNCHANGED <<head, db, project, misread, budget>>

\* curl has received the whole extract.
Curl(j) ==
  /\ At(j, "curl")
  /\ Files(j, staging[j].partial \ {Region(j)}, Region(j), head)
  /\ IF Type(j) = "AddRegions" THEN Goto(j, "add-data") ELSE NextRegion(j, "download")
  /\ UNCHANGED <<head, db, project, misread, budget>>

\* What is in the database after stage k; a stage starts over on what the
\* stages before it have left, and osm2pgsql drops what is there.
AfterStage(j, k) ==
  CASE k = 1 -> [EmptyDatabase EXCEPT !.place = TRUE, !.done = {Stages[1]},
                   !.given = Regions(j),
                   !.data = [r \in RegionPaths |-> IF r \in Regions(j) THEN 1..staging[j].whole[r] ELSE {}]]
    [] k = 2 -> [db EXCEPT !.placex = TRUE, !.rows = TRUE, !.indexed = FALSE, !.pending = TRUE,
                   !.done = (@ \intersect {Stages[1]}) \union {Stages[2]}]
    [] k = 3 -> [db EXCEPT !.indexed = TRUE, !.pending = FALSE, !.done = @ \union {Stages[3]}]
    [] k = 4 -> [db EXCEPT !.version = TRUE, !.done = @ \union {Stages[4]}]

\* nominatim import runs one more stage; osm2pgsql fails on a cut-off extract.
Import(j) ==
  /\ At(j, "import")
  /\ IF pod[j].stage > Len(Stages) THEN Goto(j, "truncate") /\ db' = db
     ELSE IF pod[j].stage = 1 /\ staging[j].partial \intersect Regions(j) # {} THEN die(j) /\ db' = db
     ELSE /\ db' = AfterStage(j, pod[j].stage)
          /\ pod' = [pod EXCEPT ![j].stage = @ + 1]
          /\ job' = job
  /\ UNCHANGED <<head, project, staging, misread, budget>>

\* Traces of a stage before it ends, which a killed pod leaves behind: osm2pgsql
\* may show the rows of one extract before it has read the others.
ImportTrace(j) ==
  /\ At(j, "import")
  /\ \/ /\ pod[j].stage = 1
        /\ \E r \in Regions(j) : db' = [AfterStage(j, 1) EXCEPT !.done = {}, !.data =
                                          [x \in RegionPaths |-> IF x = r THEN @[x] ELSE {}]]
     \/ /\ pod[j].stage = 2
        /\ \E rows \in BOOLEAN : db' = [AfterStage(j, 2) EXCEPT !.rows = rows, !.pending = rows,
                                           !.done = @ \ {Stages[2]}]
     \/ /\ pod[j].stage = 3
        /\ db' = [db EXCEPT !.indexed = TRUE, !.pending = TRUE]
  /\ UNCHANGED <<head, project, staging, job, pod, misread, budget>>

\* record_imported_regions_from_spec: the list is emptied, then each region is
\* appended and its cursor seeded.
TruncateList(j) ==
  /\ At(j, "truncate")
  /\ project' = [project EXCEPT !.listed = TRUE, !.list = {}]
  /\ StartLoop(j, "record")
  /\ UNCHANGED <<head, db, staging, misread, budget>>

RecordRegion(j) ==
  /\ At(j, "record")
  /\ IF InLoop(j) THEN project' = [project EXCEPT !.list = @ \union {Region(j)}] /\ Goto(j, "seed")
                  ELSE project' = project /\ Goto(j, "check")
  /\ UNCHANGED <<head, db, staging, misread, budget>>

SeedRecorded(j) ==
  /\ At(j, "seed")
  /\ seed_region_state(project, Region(j))
  /\ NextRegion(j, "record")
  /\ UNCHANGED <<head, db, staging, misread>>

\* nominatim index, whose failure is ignored, and admin --check-database.
CheckDatabase(j) ==
  /\ At(j, "check")
  /\ \/ db' = [db EXCEPT !.pending = FALSE] /\ budget' = budget
     \/ db' = db /\ Ignored
  /\ Goto(j, "finish")
  /\ UNCHANGED <<head, project, staging, misread>>

\* The marker is written once the schema is seen to be ready.
finish_bootstrap(j) ==
  /\ At(j, "finish")
  /\ \/ /\ import_schema_ready
        /\ project' = [project EXCEPT !.finished = TRUE]
        /\ Succeed(j) /\ budget' = budget
     \/ /\ IF import_schema_ready THEN Ignored ELSE budget' = budget
        /\ project' = project
        /\ die(j)
  /\ UNCHANGED <<head, db, staging, misread>>

-----------------------------------------------------------------------------
(* add-regions.sh.                                                         *)

\* require_bootstrap_ready: the marker is trusted, or put back when the schema
\* is ready.  add-regions.sh also creates the list.
RequireBootstrapReady(j) ==
  /\ At(j, "ready")
  /\ \/ /\ project.finished \/ import_schema_ready
        /\ project' = [project EXCEPT !.finished = TRUE, !.listed = @ \/ Type(j) = "AddRegions"]
        /\ Goto(j, CASE Type(j) = "AddRegions"          -> "add"
                      [] Type(j) \in {"Update", "CatchUp"} -> "round"
                      [] OTHER                           -> "command")
        /\ budget' = budget
     \/ /\ ~project.finished
        /\ IF import_schema_ready THEN Ignored ELSE budget' = budget
        /\ project' = project
        /\ die(j)
  /\ UNCHANGED <<head, db, staging, misread>>

\* A listed region is skipped; a download that was cut off is resumed.
AddRegion(j) ==
  /\ At(j, "add")
  /\ LET r == Region(j)
     IN  IF ~InLoop(j) THEN Goto(j, "index") /\ staging' = staging
         ELSE IF region_already_imported(r) THEN NextRegion(j, "add") /\ staging' = staging
         ELSE IF staging[j].whole[r] # 0 THEN Goto(j, "add-data") /\ staging' = staging
         ELSE Files(j, staging[j].partial \union {r}, r, 0) /\ Goto(j, "curl")
  /\ UNCHANGED <<head, db, project, misread, budget>>

AddExtract(j) ==
  /\ At(j, "add-data")
  /\ IF CanAddData
       THEN /\ db' = AddData(Region(j), 1..staging[j].whole[Region(j)])
            /\ pod' = [pod EXCEPT ![j].pc = "add-seed", ![j].changed = TRUE]
            /\ job' = job
       ELSE db' = db /\ die(j)
  /\ UNCHANGED <<head, project, staging, misread, budget>>

SeedAdded(j) ==
  /\ At(j, "add-seed")
  /\ seed_region_state(project, Region(j))
  /\ Goto(j, "append")
  /\ UNCHANGED <<head, db, staging, misread>>

AppendRegion(j) ==
  /\ At(j, "append")
  /\ project' = [project EXCEPT !.list = @ \union {Region(j)}]
  /\ Files(j, staging[j].partial, Region(j), 0)
  /\ NextRegion(j, "add")
  /\ UNCHANGED <<head, db, misread, budget>>

\* index_if_changed.
IndexAdded(j) ==
  /\ At(j, "index")
  /\ db' = [db EXCEPT !.pending = @ /\ ~pod[j].changed]
  /\ Succeed(j)
  /\ UNCHANGED <<head, project, staging, misread, budget>>

-----------------------------------------------------------------------------
(* update.sh and catch-up.sh: the round runs under set +e.                 *)

\* A round starts; without a list the first region becomes the list.
StartRound(j) ==
  /\ At(j, "round")
  /\ IF pod[j].round = MaxRounds THEN die(j) /\ UNCHANGED <<project, budget>>
     ELSE /\ pod' = [pod EXCEPT ![j].pc = "update", ![j].at = 1, ![j].changed = FALSE,
                       ![j].round = IF Type(j) = "CatchUp" THEN @ + 1 ELSE @]
          /\ job' = job
          /\ IF project.listed THEN UNCHANGED <<project, budget>>
             ELSE seed_region_state([project EXCEPT !.listed = TRUE, !.list = {OpRegions[j][1]}],
                                    OpRegions[j][1])
  /\ UNCHANGED <<head, db, staging, misread>>

HasCursor(r) == r \in project.states

\* The next region of the round: not listed, without a cursor, or nothing new
\* (an empty state file and a failed fetch look the same).
UpdateRegion(j) ==
  /\ At(j, "update")
  /\ LET r == Region(j)
     IN  \/ /\ ~InLoop(j)
            /\ Goto(j, "end-round")
            /\ UNCHANGED <<project, budget>>
         \/ /\ InLoop(j) /\ r \in project.list /\ ~HasCursor(r)
            /\ seed_region_state(project, r)
            /\ NextRegion(j, "update")
         \/ /\ InLoop(j) /\ (r \notin project.list \/ (HasCursor(r) /\ project.cursor[r] \in {0, head}))
            /\ NextRegion(j, "update")
            /\ UNCHANGED <<project, budget>>
  /\ UNCHANGED <<head, db, staging, misread>>

\* pyosmium-get-changes writes the diffs after the cursor and moves the cursor.
GetChanges(j) ==
  /\ At(j, "update") /\ InLoop(j)
  /\ LET r == Region(j)
     IN  /\ r \in project.list /\ HasCursor(r) /\ project.cursor[r] \notin {0, head}
         /\ \/ /\ project' = SetCursor(project, r, head)
               /\ pod' = [pod EXCEPT ![j].pc = "apply", ![j].diff = (project.cursor[r] + 1)..head]
               /\ job' = job /\ budget' = budget
            \/ /\ Ignored
               /\ project' = project
               /\ NextRegion(j, "update")
  /\ UNCHANGED <<head, db, staging, misread>>

\* add-data --diff: whether it fails or not, the round goes on and counts as
\* one that applied diffs.
ApplyChanges(j) ==
  /\ At(j, "apply")
  /\ \/ /\ CanAddData
        /\ db' = AddData(Region(j), pod[j].diff)
        /\ budget' = budget
     \/ /\ db' = db
        /\ IF CanAddData THEN Ignored ELSE budget' = budget
  /\ pod' = [pod EXCEPT ![j].pc = "update", ![j].at = @ + 1, ![j].diff = {}, ![j].changed = TRUE]
  /\ job' = job
  /\ UNCHANGED <<head, project, staging, misread>>

\* index_if_changed, whose failure is ignored, and the exit code: 0 and UPDATE_APPLIED_EXIT both let an
\* Update succeed, CatchUp goes on after the latter.
EndRound(j) ==
  /\ At(j, "end-round")
  /\ \/ db' = [db EXCEPT !.pending = @ /\ ~pod[j].changed] /\ budget' = budget
     \/ pod[j].changed /\ Ignored /\ db' = db
  /\ IF Type(j) = "CatchUp" /\ pod[j].changed THEN Goto(j, "round") ELSE Succeed(j)
  /\ UNCHANGED <<head, project, staging, misread>>

-----------------------------------------------------------------------------
(* refresh.sh, migrate.sh and freeze.sh.                                   *)

\* One command on an imported database; freeze drops place and the tables that
\* diffs need.
RunCommand(j) ==
  /\ At(j, "command")
  /\ IF import_schema_ready
       THEN /\ db' = IF Type(j) = "Freeze" THEN [db EXCEPT !.frozen = TRUE, !.place = FALSE] ELSE db
            /\ Succeed(j)
       ELSE db' = db /\ die(j)
  /\ UNCHANGED <<head, project, staging, misread, budget>>

-----------------------------------------------------------------------------

\* The download server publishes a diff and extracts that contain it.
Publish ==
  /\ head < MaxHead
  /\ head' = head + 1
  /\ UNCHANGED <<db, project, staging, job, pod, misread, budget>>

PodStep(j) ==
  \/ Prepare(j) \/ ClearMarkers(j) \/ BootstrapStart(j) \/ Download(j) \/ Curl(j) \/ Import(j)
  \/ TruncateList(j) \/ RecordRegion(j) \/ SeedRecorded(j) \/ CheckDatabase(j) \/ finish_bootstrap(j)
  \/ RequireBootstrapReady(j) \/ AddRegion(j) \/ AddExtract(j) \/ SeedAdded(j) \/ AppendRegion(j)
  \/ IndexAdded(j) \/ StartRound(j) \/ UpdateRegion(j) \/ GetChanges(j) \/ ApplyChanges(j)
  \/ EndRound(j) \/ RunCommand(j)

Next ==
  \/ Publish
  \/ \E j \in Jobs : Arm(j) \/ Kill(j) \/ ImportTrace(j) \/ PodStep(j)

Spec == Init /\ [][Next]_vars

\* Pods run until they end or are killed.
FairSpec == Spec /\ \A j \in Jobs : WF_vars(PodStep(j))

-----------------------------------------------------------------------------
(* Properties.                                                             *)

Completes(j) == job[j] = "active" /\ job'[j] = "Complete"

Importer(j) == Type(j) \in {"Bootstrap", "Rebuild"}

\* No failure of these queries was taken for a No since the database was emptied.
Answered(queries) == misread \intersect queries = {}

\* Those that keep an import from starting over, and those that place it among
\* the later stages.
SchemaProbes == {"schema", "place"}
PlacexProbes == {"placex", "rows", "indexed", "pending"}

\* The Jobs that succeed in this step have imported what they were asked to.
CompletesImport ==
  \A j \in Jobs : Completes(j) /\ Importer(j) =>
    /\ import_schema_ready' /\ project'.finished /\ Regions(j) \subseteq project'.list
    /\ Answered(PlacexProbes) => \A k \in 2..4 : Stages[k] \in db'.done
    /\ Stages[1] \in db'.done =>
         \A r \in Regions(j) : db'.data[r] # {} \/ (Type(j) = "Bootstrap" /\ r \notin db'.given)

(* "A Succeeded Bootstrap Job is required to have imported every region    *)
(* listed on the Operation" (nominatim_region_observe.go): whichever pods  *)
(* were killed before, a Bootstrap or Rebuild that succeeds leaves a ready *)
(* schema, its marker and every one of its regions in the list.  The last  *)
(* three stages of the import have run to their end unless a failed query  *)
(* about placex was taken for a No; and unless the run of osm2pgsql was    *)
(* cut short, the database holds each region, for a Bootstrap that takes   *)
(* up the import of another Job each one that the other has read.          *)
SucceededImportIsComplete == [][CompletesImport]_vars

\* The schema is lost in this step to a Rebuild that starts.
EmptiedForRebuild ==
  import_schema_ready /\ ~import_schema_ready' =>
    \E j \in Jobs : Type(j) = "Rebuild" /\ job[j] = "none" /\ job'[j] = "active"

(* Once imported, a database is emptied for a Rebuild only: as long as no  *)
(* failed query about the schema or place was taken for a No, no resumed   *)
(* or repeated Bootstrap starts nominatim import over on a schema that is  *)
(* ready, a frozen one included (detect_continue_at).                      *)
ReadySchemaSurvives == [][Answered(SchemaProbes) => EmptiedForRebuild]_vars

\* No Rebuild gave up: a Rebuild whose pods all end before rebuild.sh clears the
\* bookmarks leaves those of the old database beside an empty one.
BookmarksCleared == \A j \in Jobs : Type(j) = "Rebuild" => job[j] # "Failed"

\* A Bootstrap that wants r has taken up an import that did not read it.
TakenOver(r) ==
  /\ r \notin db.given
  /\ \E j \in Jobs : Type(j) = "Bootstrap" /\ job[j] \notin {"unplanned", "none"} /\ r \in Regions(j)

(* imported-regions.txt never names a region that an imported database     *)
(* does not hold, since AddRegions skips what is listed and Update serves  *)
(* nothing else.  Left out are the bookmarks of a Rebuild that gave up, an *)
(* import started over by a failed query, an osm2pgsql cut short, and the  *)
(* regions of a Bootstrap that took up the import of another Job.          *)
ListedIsLoaded ==
  BookmarksCleared /\ Answered(SchemaProbes) /\ import_schema_ready /\ Stages[1] \in db.done =>
    \A r \in project.list : db.data[r] # {} \/ TakenOver(r)

(* A database that becomes ready meets no bookmark of an earlier one:      *)
(* neither the marker nor the list nor a cursor, from which Update would   *)
(* fetch diffs that the new extracts hold already, or miss those between   *)
(* (rebuild.sh clears them, before or after any number of killed pods).    *)
BookmarksStartFresh ==
  [][BookmarksCleared /\ Answered(SchemaProbes) /\ ~import_schema_ready /\ import_schema_ready' =>
       ~project.finished /\ project.list = {} /\ project.states = {}]_vars

(* Every Job comes to an end whichever pods are killed: no retry and no    *)
(* round of CatchUp repeats for ever.                                      *)
JobsEnd == <>[](\A j \in Jobs : job[j] # "active")

(* "SequenceState: per-region cursor for Update progress"                  *)
(* (docs/CONTEXT.md): while no Job runs, the database holds every diff up  *)
(* to the cursor of an imported region.                                    *)
CursorIsApplied ==
  (\A j \in Jobs : job[j] # "active") =>
    \A r \in project.list : 1..project.cursor[r] \subseteq db.data[r]

(* "if resume skipped that stage after a crash mid-list write, re-record   *)
(* from NOMINATIM_REGIONS" (bootstrap.sh): no pod of a Bootstrap gives up  *)
(* on a database that holds all it was asked to import.                    *)
BootstrapResumes ==
  \A j \in Jobs : /\ At(j, "bootstrap") /\ detect_continue_at(Answers) = "done"
                   /\ \A r \in Regions(j) : db.data[r] # {}
    => assert_imported_list_complete(j)

(* "0 - idle, 10 - applied, * - failure" (update.sh): an Update or CatchUp *)
(* whose diffs could not be applied does not succeed.                      *)
UpdateReportsFailure ==
  [][\A j \in Jobs : At(j, "apply") /\ db' = db /\ pod'[j] # pod[j] /\ ~(pod[j].diff \subseteq db.data[Region(j)])
       => pod'[j].failed # pod[j].failed \/ job'[j] = "Failed"]_vars

(* "download every Geofabrik extract (resume-friendly)" (common.sh): a     *)
(* download that was cut off is resumed, never handed to nominatim import. *)
WholeExtractsOnly ==
  \A j \in Jobs : At(j, "import") /\ pod[j].stage = 1 =>
    staging[j].partial \intersect Regions(j) = {}

(* ListedIsLoaded without the exception: a Bootstrap that runs after a     *)
(* failed Rebuild does not adopt the list of the database before it.       *)
AlwaysListedIsLoaded ==
  import_schema_ready => \A r \in project.list : db.data[r] # {}

(* "rather than two Jobs writing at once" (docs/operations.md): diffs      *)
(* reach the database in the order of their numbers.                       *)
DiffsInOrder ==
  [][\A r \in RegionPaths : \A n \in db'.data[r] \ db.data[r] : \A m \in db.data[r] : m < n]_vars

(* ReadySchemaSurvives whatever psql answers: "Never trust import-finished *)
(* alone" (common.sh) guards against a marker without a schema, and        *)
(* nothing against a schema whose query failed.                            *)
ReadySchemaAlwaysSurvives == [][EmptiedForRebuild]_vars

\* The Jobs that succeed in this step leave their regions in the database.
LoadsRegions ==
  \A j \in Jobs : Completes(j) /\ Importer(j) => \A r \in Regions(j) : db'.data[r] # {}

(* The words of nominatim_region_observe.go without exception: the regions *)
(* of a Bootstrap that succeeded are in the database.                      *)
SucceededBootstrapIsLoaded == [][LoadsRegions]_vars

(* The same for imports whose osm2pgsql has run to its end, which a later  *)
(* Bootstrap of other regions may take up.                                 *)
ResumedBootstrapIsLoaded == [][Stages[1] \in db'.done => LoadsRegions]_vars

(* A Job that succeeds leaves nothing to index (index_if_changed).         *)
SucceededIsIndexed ==
  [][\A j \in Jobs : Completes(j) /\ Type(j) \in {"AddRegions", "Update", "CatchUp"} => ~db'.pending]_vars

-----------------------------------------------------------------------------
(* Inductive invariants, which the proofs of the safety properties rest    *)
(* on.                                                                     *)

\* The commands of each script, those that work on a region of the list, and
\* those after require_bootstrap_ready.
ImportCommands == {"bootstrap", "download", "import", "truncate", "record", "seed", "check", "finish"}
AddCommands == {"add", "add-data", "add-seed", "append", "index"}
RoundCommands == {"round", "update", "apply", "end-round"}
LoopCommands == {"curl", "seed", "add-data", "add-seed", "append", "apply"}
ReadyCommands == AddCommands \union RoundCommands \union {"command"}

\* A Job has a pod exactly while it is active, and the pod runs the script of
\* the Job's type.
ScriptOK(j) ==
  /\ pod[j].pc # "none" <=> job[j] = "active"
  /\ job[j] # "active" => pod[j] = NoPod
  /\ At(j, "clear") => Type(j) = "Rebuild"
  /\ pod[j].pc \in ImportCommands => Importer(j)
  /\ pod[j].pc \in AddCommands => Type(j) = "AddRegions"
  /\ pod[j].pc \in RoundCommands => Type(j) \in {"Update", "CatchUp"}
  /\ At(j, "command") => Type(j) \in {"Refresh", "Migrate", "Freeze"}
  /\ At(j, "ready") => ~Importer(j)
  /\ At(j, "curl") => Importer(j) \/ Type(j) = "AddRegions"
  /\ pod[j].pc \in LoopCommands => InLoop(j)
  /\ pod[j].pc \in {"prepare", "clear", "bootstrap", "download"} => pod[j].stage = 1
  /\ At(j, "curl") /\ Importer(j) => pod[j].stage = 1

\* Whoever is active beside others is not write-heavy.
Exclusive ==
  \A j, k \in Jobs : WP!operationsMutexConflict(j, k) => ~(job[j] = "active" /\ job[k] = "active")

ControlInv == TypeOK /\ Exclusive /\ \A j \in Jobs : ScriptOK(j)

\* What a pod knows of the schema and of the marker at its next command.
SchemaAt(j) ==
  /\ pod[j].pc \in {"download", "import"} \/ (At(j, "curl") /\ Importer(j)) => ~project.finished
  /\ At(j, "import") =>
       /\ pod[j].stage >= 2 => db.place
       /\ pod[j].stage >= 3 => db.placex /\ db.rows
       /\ pod[j].stage = 5 => db.version
  /\ pod[j].pc \in {"truncate", "record", "seed", "check", "finish"} => import_schema_ready
  /\ pod[j].pc \in ReadyCommands \/ (At(j, "curl") /\ ~Importer(j)) => project.finished
  /\ Type(j) = "Rebuild" /\ job[j] = "active" /\ db.version => db.place

\* The pod is about to drop what is in the database.
StartsOver(j) ==
  \/ At(j, "download")
  \/ At(j, "curl") /\ Importer(j)
  \/ At(j, "import") /\ pod[j].stage = 1

\* A frozen database is recognised by the marker alone.
SchemaInv ==
  /\ db.version => db.placex
  /\ \A j \in Jobs : SchemaAt(j)
  /\ Answered(SchemaProbes) =>
       /\ import_schema_ready /\ ~db.place => project.finished
       /\ \A j \in Jobs : StartsOver(j) => ~db.version

\* A Rebuild has emptied the database and has not cleared the bookmarks, or may
\* have given up before it did.
Uncleared ==
  \E j \in Jobs : Type(j) = "Rebuild" /\ (job[j] = "Failed" \/ pod[j].pc \in {"prepare", "clear"})

\* Bookmarks belong to a database that was imported.
BookmarksFresh ==
  project.finished \/ project.list # {} \/ project.states # {} => import_schema_ready \/ Uncleared

WorkerInv == ControlInv /\ SchemaInv /\ (Answered(SchemaProbes) => BookmarksFresh)

\* What detect_continue_at may conclude about the stages that are done.
DoneAt(j) ==
  At(j, "import") =>
    /\ pod[j].stage = 2 => ~db.version
    /\ pod[j].stage >= 3 => Stages[2] \in db.done
    /\ pod[j].stage >= 4 => db.indexed /\ Stages[3] \in db.done

DoneInv ==
  /\ db.indexed => Stages[2] \in db.done
  /\ db.indexed /\ ~db.pending => Stages[3] \in db.done
  /\ db.version => db.rows /\ db.indexed /\ \A k \in 2..4 : Stages[k] \in db.done
  /\ project.finished /\ ~import_schema_ready => ~db.indexed
  /\ \A j \in Jobs : DoneAt(j)

StagesInv == Answered(PlacexProbes) => DoneInv

\* There is a file, whole or cut off, for the extract of r.
HasFile(j, r) == r \in staging[j].partial \/ staging[j].whole[r] # 0

\* The extracts of the regions before the current one are there, and the one
\* that was added is in the database.
FilesAt(j) ==
  /\ Importer(j) /\ pod[j].pc \in {"download", "curl"} =>
       \A k \in DOMAIN OpRegions[j] : k < pod[j].at => HasFile(j, OpRegions[j][k])
  /\ At(j, "import") /\ pod[j].stage = 1 => \A r \in Regions(j) : HasFile(j, r)
  /\ At(j, "add-data") => staging[j].whole[Region(j)] # 0
  /\ pod[j].pc \in {"add-seed", "append"} => db.data[Region(j)] # {}

\* Once osm2pgsql is done the database holds what it was given, for a Rebuild
\* its own regions.
GivenLoaded ==
  Stages[1] \in db.done =>
    /\ \A r \in db.given : db.data[r] # {}
    /\ \A j \in Jobs : Type(j) = "Rebuild" /\ job[j] = "active" => Regions(j) \subseteq db.given

\* There is a list once a Bootstrap or Rebuild is complete, and nobody who needs
\* one runs before.
ListExists ==
  /\ bootstrapComplete =>
       project.listed \/ \E j \in Jobs : Type(j) = "Rebuild" /\ job[j] \in {"active", "Failed"}
  /\ \A j \in Jobs : pod[j].pc \in {"record", "seed", "check", "finish"} => project.listed
  /\ \A j \in Jobs : job[j] = "active" /\ WP!requiresRegionGate(Type(j)) => bootstrapComplete

\* The regions that the loop has recorded.
ListAt(j) ==
  /\ pod[j].pc \in {"record", "seed"} =>
       \A k \in DOMAIN OpRegions[j] : k < pod[j].at => OpRegions[j][k] \in project.list
  /\ At(j, "seed") => Region(j) \in project.list
  /\ pod[j].pc \in {"check", "finish"} => Regions(j) \subseteq project.list

LoadedInv ==
  ListedIsLoaded /\ ListExists /\ GivenLoaded /\ \A j \in Jobs : FilesAt(j) /\ ListAt(j)

=============================================================================
