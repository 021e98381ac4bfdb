---------------------------- MODULE WorkerProofs ----------------------------
(* Machine-checked proofs about Worker, for every set of Jobs and regions  *)
(* and every value of the bounds.                                          *)
EXTENDS Worker, TLAPS

-----------------------------------------------------------------------------
(* Regions and stages.                                                     *)

LEMMA RegionTyped ==
  ASSUME NEW j \in Jobs
  PROVE  /\ Len(OpRegions[j]) \in Nat /\ DOMAIN OpRegions[j] = 1..Len(OpRegions[j])
         /\ \A k \in 1..Len(OpRegions[j]) : OpRegions[j][k] \in RegionPaths
         /\ Regions(j) \subseteq RegionPaths
         /\ 1 <= Len(OpRegions[j]) + 1
BY WorkerAssumption DEF Regions

LEMMA BoundsTyped ==
  /\ BackoffLimit \in Nat /\ MaxKills \in Nat /\ MaxFailures \in Nat
  /\ MaxRounds \in Nat \ {0} /\ MaxHead \in Nat \ {0}
BY WorkerAssumption

LEMMA TypesImplemented ==
  ASSUME NEW j \in Jobs
  PROVE  /\ Type(j) \in {"Bootstrap", "AddRegions", "Rebuild", "Update", "CatchUp", "Refresh",
                          "Migrate", "Freeze"}
         /\ Type(j) = OpType[j]
         /\ Type(j) \notin {"Refresh", "Migrate", "Freeze"} => 1 \in DOMAIN OpRegions[j]
<1>1. OpRegions[j] # <<>> => 1 \in DOMAIN OpRegions[j]
      BY WorkerAssumption
<1> QED BY <1>1, WorkerAssumption DEF Type, WP!ImplementedTypes

LEMMA RegionInLoop ==
  ASSUME TypeOK, NEW j \in Jobs, InLoop(j)
  PROVE  Region(j) \in RegionPaths /\ Region(j) \in Regions(j) /\ pod[j].at \in DOMAIN OpRegions[j]
BY RegionTyped DEF TypeOK, Pods, InLoop, Region, Regions

LEMMA StagesAre ==
  /\ Len(Stages) = 4 /\ DOMAIN Stages = 1..4
  /\ Stages[1] = "import-from-file" /\ Stages[2] = "load-data"
  /\ Stages[3] = "indexing" /\ Stages[4] = "db-postprocess"
  /\ {Stages[k] : k \in DOMAIN Stages} = {"import-from-file", "load-data", "indexing", "db-postprocess"}
BY DEF Stages

\* detect_continue_at names the stage that nominatim import is given.
LEMMA StageIndex ==
  ASSUME NEW s \in {"load-data", "indexing", "db-postprocess"}
  PROVE  (CHOOSE k \in DOMAIN Stages : Stages[k] = s)
           = IF s = "load-data" THEN 2 ELSE IF s = "indexing" THEN 3 ELSE 4
BY StagesAre

-----------------------------------------------------------------------------
(* What a step does to Jobs and pods.                                      *)

PodsTyped ==
  /\ pod \in [Jobs -> Pods] /\ \A j \in Jobs : pod[j].at <= Len(OpRegions[j]) + 1
  /\ job \in [Jobs -> {"unplanned", "none", "active", "Complete", "Failed"}]

\* Other Jobs are left alone.
Others(j) == \A k \in Jobs : k # j => pod'[k] = pod[k] /\ job'[k] = job[k]

\* What the pod of j remembers.
Kept(j) ==
  /\ job'[j] = job[j] /\ pod'[j].at = pod[j].at /\ pod'[j].stage = pod[j].stage
  /\ pod'[j].diff = pod[j].diff

\* The pod of j is replaced by a fresh one, or is the last.
Died(j) ==
  \/ job'[j] = "Failed" /\ pod'[j] = NoPod
  \/ job'[j] = job[j] /\ pod'[j].pc = "prepare" /\ pod'[j].at = 1 /\ pod'[j].stage = 1

LEMMA NoPodTyped ==
  /\ NoPod \in Pods /\ NoPod.pc = "none" /\ NoPod.at = 1 /\ NoPod.stage = 1 /\ NoPod.failed = 0
  /\ NoPod.diff = {}
BY StagesAre, BoundsTyped DEF NoPod, Pods, Commands, Diffs

LEMMA Replaced ==
  ASSUME PodsTyped, NEW j \in Jobs, NEW p \in Pods, p.at <= Len(OpRegions[j]) + 1,
         pod' = [pod EXCEPT ![j] = p],
         NEW s \in {"unplanned", "none", "active", "Complete", "Failed"},
         job' = [job EXCEPT ![j] = s]
  PROVE  PodsTyped' /\ Others(j) /\ pod'[j] = p /\ job'[j] = s
BY DEF PodsTyped, Others

LEMMA Advanced ==
  ASSUME PodsTyped, NEW j \in Jobs, NEW p \in Pods, p.at <= Len(OpRegions[j]) + 1,
         pod' = [pod EXCEPT ![j] = p], job' = job
  PROVE  PodsTyped' /\ Others(j) /\ pod'[j] = p /\ job'[j] = job[j]
BY DEF PodsTyped, Others

LEMMA GotoEffect ==
  ASSUME PodsTyped, NEW j \in Jobs, NEW c \in Commands, Goto(j, c)
  PROVE  PodsTyped' /\ Others(j) /\ pod'[j].pc = c /\ Kept(j)
<1>1. PICK p : p = [pod[j] EXCEPT !.pc = c]
      OBVIOUS
<1>2. pod[j] \in Pods /\ pod[j].at <= Len(OpRegions[j]) + 1
      BY DEF PodsTyped
<1>3. /\ p \in Pods /\ p.pc = c /\ p.at = pod[j].at /\ p.stage = pod[j].stage /\ p.diff = pod[j].diff
      BY <1>1, <1>2 DEF Pods
<1>4. pod' = [pod EXCEPT ![j] = p] /\ job' = job
      BY <1>1 DEF Goto
<1> QED BY <1>2, <1>3, <1>4, Advanced DEF Kept

LEMMA NextRegionEffect ==
  ASSUME PodsTyped, NEW j \in Jobs, NEW c \in Commands, NextRegion(j, c), InLoop(j)
  PROVE  /\ PodsTyped' /\ Others(j) /\ job'[j] = job[j]
         /\ pod'[j].pc = c /\ pod'[j].at = pod[j].at + 1 /\ pod'[j].stage = pod[j].stage
<1>2. pod[j] \in Pods /\ Len(OpRegions[j]) \in Nat /\ pod[j].at <= Len(OpRegions[j])
      BY RegionTyped DEF PodsTyped, InLoop
<1>a. pod[j].at \in Nat \ {0}
      BY <1>2 DEF Pods
<1>b. PICK a \in Nat \ {0} : a = pod[j].at + 1 /\ a <= Len(OpRegions[j]) + 1
      BY <1>a, <1>2
<1>1. PICK p : p = [pod[j] EXCEPT !.pc = c, !.at = a, !.diff = {}]
      OBVIOUS
<1>3. p \in Pods /\ p.pc = c /\ p.at = a /\ p.stage = pod[j].stage
      BY <1>1, <1>2 DEF Pods
<1>4. pod' = [pod EXCEPT ![j] = p] /\ job' = job
      BY <1>1, <1>b DEF NextRegion
<1>5. p.at <= Len(OpRegions[j]) + 1
      BY <1>b, <1>3
<1> QED BY <1>3, <1>4, <1>5, <1>b, Advanced

LEMMA StartLoopEffect ==
  ASSUME PodsTyped, NEW j \in Jobs, NEW c \in Commands, StartLoop(j, c)
  PROVE  /\ PodsTyped' /\ Others(j) /\ job'[j] = job[j]
         /\ pod'[j].pc = c /\ pod'[j].at = 1 /\ pod'[j].stage = pod[j].stage
<1>a. PICK a \in Nat \ {0} : a = 1
      OBVIOUS
<1>1. PICK p : p = [pod[j] EXCEPT !.pc = c, !.at = a]
      OBVIOUS
<1>2. pod[j] \in Pods /\ 1 <= Len(OpRegions[j]) + 1
      BY RegionTyped DEF PodsTyped
<1>3. p \in Pods /\ p.pc = c /\ p.at = a /\ p.stage = pod[j].stage
      BY <1>1, <1>2 DEF Pods
<1>4. pod' = [pod EXCEPT ![j] = p] /\ job' = job
      BY <1>1, <1>a DEF StartLoop
<1>5. p.at <= Len(OpRegions[j]) + 1
      BY <1>2, <1>3, <1>a
<1> QED BY <1>3, <1>4, <1>5, <1>a, Advanced

LEMMA SucceedEffect ==
  ASSUME PodsTyped, NEW j \in Jobs, Succeed(j)
  PROVE  PodsTyped' /\ Others(j) /\ job'[j] = "Complete" /\ pod'[j] = NoPod
<1>1. NoPod.at <= Len(OpRegions[j]) + 1
      BY RegionTyped, NoPodTyped
<1> QED BY <1>1, NoPodTyped, Replaced DEF Succeed

LEMMA dieEffect ==
  ASSUME PodsTyped, NEW j \in Jobs, die(j)
  PROVE  PodsTyped' /\ Others(j) /\ Died(j)
<1>1. NoPod.at <= Len(OpRegions[j]) + 1 /\ pod[j] \in Pods
      BY RegionTyped, NoPodTyped DEF PodsTyped
<1>2. CASE pod[j].failed = BackoffLimit
      BY <1>1, <1>2, NoPodTyped, Replaced DEF die, Died
<1>3. CASE pod[j].failed # BackoffLimit
  <2>2. PICK n \in 0..BackoffLimit : n = pod[j].failed + 1
        BY <1>1, <1>3, BoundsTyped DEF Pods
  <2>1. PICK p : p = [NoPod EXCEPT !.pc = "prepare", !.failed = n]
        OBVIOUS
  <2>3. p \in Pods /\ p.pc = "prepare" /\ p.at = 1 /\ p.stage = 1
        BY <2>1, NoPodTyped DEF Pods, Commands
  <2>4. pod' = [pod EXCEPT ![j] = p] /\ job' = job
        BY <1>3, <2>1, <2>2 DEF die
  <2>5. p.at <= Len(OpRegions[j]) + 1
        BY <2>3, RegionTyped
  <2> QED BY <2>3, <2>4, <2>5, Advanced DEF Died
<1> QED BY <1>2, <1>3

-----------------------------------------------------------------------------
(* The same for each action.                                               *)

LEMMA ControlFacts ==
  ASSUME ControlInv, NEW j \in Jobs
  PROVE  /\ TypeOK /\ PodsTyped /\ ScriptOK(j)
         /\ pod[j].pc \in LoopCommands => InLoop(j)
         /\ pod[j].pc # "none" => job[j] = "active"
         /\ job[j] # "active" => pod[j] = NoPod
BY DEF ControlInv, ScriptOK, TypeOK, PodsTyped

LEMMA CommandSets ==
  /\ ImportCommands \subseteq Commands /\ AddCommands \subseteq Commands
  /\ RoundCommands \subseteq Commands /\ {"prepare", "clear", "curl", "ready", "command"} \subseteq Commands
  /\ \A c \in Commands : c # "none"
BY DEF Commands, ImportCommands, AddCommands, RoundCommands

LEMMA ArmMoves ==
  ASSUME ControlInv, NEW j \in Jobs, Arm(j)
  PROVE  /\ PodsTyped' /\ Others(j) /\ job[j] = "none" /\ job'[j] = "active"
         /\ pod[j] = NoPod /\ pod'[j].pc = "prepare" /\ pod'[j].at = 1 /\ pod'[j].stage = 1
<1>1. PodsTyped /\ pod[j] = NoPod /\ job[j] = "none"
      BY ControlFacts DEF Arm
<1>2. PICK p : p = [pod[j] EXCEPT !.pc = "prepare"]
      OBVIOUS
<1>3. p \in Pods /\ p.pc = "prepare" /\ p.at = 1 /\ p.stage = 1
      BY <1>1, <1>2, NoPodTyped DEF Pods, Commands
<1>4. pod' = [pod EXCEPT ![j] = p] /\ job' = [job EXCEPT ![j] = "active"]
      BY <1>2 DEF Arm
<1>5. p.at <= Len(OpRegions[j]) + 1
      BY <1>3, RegionTyped
<1> QED BY <1>1, <1>3, <1>4, <1>5, Replaced

LEMMA PrepareMoves ==
  ASSUME ControlInv, NEW j \in Jobs, Prepare(j)
  PROVE  /\ PodsTyped' /\ Others(j) /\ Kept(j)
         /\ \/ Type(j) = "Bootstrap" /\ pod'[j].pc = "bootstrap"
            \/ Type(j) = "Rebuild" /\ pod'[j].pc = "clear"
            \/ ~Importer(j) /\ pod'[j].pc = "ready"
<1>1. PICK c : c = CASE Type(j) = "Bootstrap" -> "bootstrap"
                     [] Type(j) = "Rebuild"   -> "clear"
                     [] OTHER                 -> "ready"
      OBVIOUS
<1>2. /\ c \in Commands
      /\ \/ Type(j) = "Bootstrap" /\ c = "bootstrap"
         \/ Type(j) = "Rebuild" /\ c = "clear"
         \/ ~Importer(j) /\ c = "ready"
      BY <1>1 DEF Commands, Importer
<1>3. Goto(j, c)
      BY <1>1 DEF Prepare
<1> QED BY <1>2, <1>3, ControlFacts, GotoEffect

LEMMA ClearMoves ==
  ASSUME ControlInv, NEW j \in Jobs, ClearMarkers(j)
  PROVE  PodsTyped' /\ Others(j) /\ Kept(j) /\ pod'[j].pc = "bootstrap"
BY ControlFacts, GotoEffect DEF ClearMarkers, Commands

\* A Yes is always true.
LEMMA YesHolds ==
  ASSUME NEW yes \in SUBSET Answers
  PROVE  /\ "schema" \in yes => import_schema_ready
         /\ "place" \in yes => db.place
         /\ "placex" \in yes => db.placex
         /\ "rows" \in yes => db.rows
         /\ "version" \in yes => db.version
         /\ "indexed" \in yes => db.indexed
         /\ "pending" \in yes => db.pending
BY DEF Answers, Holds

\* A No is true of the probes whose answers were not lost.
LEMMA NoHolds ==
  ASSUME NEW yes \in SUBSET Answers, Misread(Answers \ yes)
  PROVE  /\ misread \subseteq misread'
         /\ Answered(SchemaProbes)' =>
              ("schema" \in yes <=> import_schema_ready) /\ ("place" \in yes <=> db.place)
         /\ Answered(PlacexProbes)' =>
              /\ ("placex" \in yes <=> db.placex) /\ ("rows" \in yes <=> db.rows)
              /\ ("indexed" \in yes <=> db.indexed) /\ ("pending" \in yes <=> db.pending)
<1>1. misread' = misread \union (Answers \ yes)
      BY DEF Misread
<1>2. ASSUME Answered(SchemaProbes)'
      PROVE  ("schema" \in yes <=> import_schema_ready) /\ ("place" \in yes <=> db.place)
  <2>1. "schema" \in Answers => "schema" \in yes
        BY <1>1, <1>2 DEF Answered, SchemaProbes
  <2>2. "place" \in Answers => "place" \in yes
        BY <1>1, <1>2 DEF Answered, SchemaProbes
  <2> QED BY <2>1, <2>2, YesHolds DEF Answers, Probes, Holds
<1>3. ASSUME Answered(PlacexProbes)'
      PROVE  /\ ("placex" \in yes <=> db.placex) /\ ("rows" \in yes <=> db.rows)
             /\ ("indexed" \in yes <=> db.indexed) /\ ("pending" \in yes <=> db.pending)
  <2>1. \A q \in PlacexProbes : q \in Answers => q \in yes
        BY <1>1, <1>3 DEF Answered
  <2> QED BY <2>1, YesHolds DEF Answers, Probes, Holds, PlacexProbes
<1> QED BY <1>1, <1>2, <1>3

\* What the answers lead to.
StartedBy(j, yes) ==
  \/ Died(j) /\ detect_continue_at(yes) \in {"done", "missing-db"}
  \/ /\ Kept(j) /\ pod'[j].pc = "finish"
     /\ detect_continue_at(yes) = "done" /\ assert_imported_list_complete(j)
  \/ /\ job'[j] = job[j] /\ pod'[j].pc = "download" /\ pod'[j].at = 1 /\ pod'[j].stage = 1
     /\ detect_continue_at(yes) = "import-from-file"
  \/ /\ job'[j] = job[j] /\ pod'[j].pc = "import" /\ pod'[j].at = pod[j].at
     /\ \/ pod'[j].stage = 2 /\ detect_continue_at(yes) = "load-data"
        \/ pod'[j].stage = 3 /\ detect_continue_at(yes) = "indexing"
        \/ pod'[j].stage = 4 /\ detect_continue_at(yes) = "db-postprocess"

LEMMA StartMoves ==
  ASSUME ControlInv, NEW j \in Jobs, BootstrapStart(j)
  PROVE  /\ PodsTyped' /\ Others(j) /\ UNCHANGED <<head, db, staging>>
         /\ \E yes \in SUBSET Answers :
              /\ Misread(Answers \ yes)
              /\ project' = [project EXCEPT !.finished = @ /\ "schema" \in yes]
              /\ StartedBy(j, yes)
<1>1. PodsTyped /\ pod[j].stage = 1 /\ UNCHANGED <<head, db, staging>>
      BY ControlFacts DEF BootstrapStart, At, ScriptOK
<1>2. PICK yes \in SUBSET Answers :
        /\ Misread(Answers \ yes)
        /\ project' = [project EXCEPT !.finished = @ /\ "schema" \in yes]
        /\ LET stage == detect_continue_at(yes)
           IN  IF stage = "done"
                 THEN IF assert_imported_list_complete(j) THEN Goto(j, "finish") ELSE die(j)
               ELSE IF stage = "missing-db" THEN die(j)
               ELSE IF stage = "import-from-file" THEN StartLoop(j, "download")
               ELSE /\ pod' = [pod EXCEPT ![j].pc = "import",
                                ![j].stage = CHOOSE k \in DOMAIN Stages : Stages[k] = stage]
                    /\ job' = job
      BY DEF BootstrapStart
<1>3. PICK s : s = detect_continue_at(yes)
      OBVIOUS
<1>4. s \in {"done", "missing-db", "import-from-file", "load-data", "indexing", "db-postprocess"}
      BY <1>3 DEF detect_continue_at
<1>5. CASE s \in {"done", "missing-db"}
  <2>1. (s = "done" /\ assert_imported_list_complete(j) /\ Goto(j, "finish")) \/ die(j)
        BY <1>2, <1>3, <1>5
  <2>2. PodsTyped' /\ Others(j) /\ StartedBy(j, yes)
        BY <1>1, <1>3, <1>5, <2>1, dieEffect, GotoEffect DEF Commands, StartedBy
  <2> QED BY <1>1, <1>2, <2>2
<1>6. CASE s = "import-from-file"
  <2>1. StartLoop(j, "download")
        BY <1>2, <1>3, <1>6
  <2>2. PodsTyped' /\ Others(j) /\ StartedBy(j, yes)
        BY <1>1, <1>3, <1>6, <2>1, StartLoopEffect DEF Commands, StartedBy
  <2> QED BY <1>1, <1>2, <2>2
<1>7. CASE s \in {"load-data", "indexing", "db-postprocess"}
  <2>1. PICK n : n = (CHOOSE k \in DOMAIN Stages : Stages[k] = s)
        OBVIOUS
  <2>2. n = IF s = "load-data" THEN 2 ELSE IF s = "indexing" THEN 3 ELSE 4
        BY <1>7, <2>1, StageIndex
  <2>3. PICK p : p = [pod[j] EXCEPT !.pc = "import", !.stage = n]
        OBVIOUS
  <2>4. pod[j] \in Pods /\ pod[j].at <= Len(OpRegions[j]) + 1
        BY <1>1 DEF PodsTyped
  <2>5. n \in 1..(Len(Stages) + 1)
        BY <2>2, StagesAre
  <2>6. p \in Pods /\ p.pc = "import" /\ p.at = pod[j].at /\ p.stage = n
        BY <2>3, <2>4, <2>5 DEF Pods, Commands
  <2>7. pod' = [pod EXCEPT ![j] = p] /\ job' = job
        BY <1>2, <1>3, <1>7, <2>1, <2>3
  <2>8. PodsTyped' /\ Others(j) /\ pod'[j] = p /\ job'[j] = job[j]
        BY <1>1, <2>4, <2>6, <2>7, Advanced
  <2>9. StartedBy(j, yes)
        BY <1>3, <1>7, <2>2, <2>6, <2>8 DEF StartedBy
  <2> QED BY <1>1, <1>2, <2>8, <2>9
<1> QED BY <1>4, <1>5, <1>6, <1>7

LEMMA DownloadMoves ==
  ASSUME ControlInv, NEW j \in Jobs, Download(j)
  PROVE  /\ PodsTyped' /\ Others(j) /\ job'[j] = job[j] /\ pod'[j].stage = pod[j].stage
         /\ \/ ~InLoop(j) /\ pod'[j].pc = "import" /\ staging' = staging
            \/ /\ InLoop(j) /\ pod'[j].pc = "download" /\ pod'[j].at = pod[j].at + 1
               /\ staging' = staging /\ HasFile(j, Region(j))
            \/ /\ InLoop(j) /\ pod'[j].pc = "curl" /\ pod'[j].at = pod[j].at
               /\ Files(j, staging[j].partial \union {Region(j)}, Region(j), 0)
<1>1. CASE ~InLoop(j)
      BY <1>1, ControlFacts, GotoEffect DEF Download, Commands, Kept
<1>2. CASE InLoop(j) /\ HasFile(j, Region(j))
      BY <1>2, ControlFacts, NextRegionEffect DEF Download, Commands, HasFile
<1>3. CASE InLoop(j) /\ ~HasFile(j, Region(j))
      BY <1>3, ControlFacts, GotoEffect DEF Download, Commands, HasFile, Kept
<1> QED BY <1>1, <1>2, <1>3

LEMMA CurlMoves ==
  ASSUME ControlInv, NEW j \in Jobs, Curl(j)
  PROVE  /\ PodsTyped' /\ Others(j) /\ InLoop(j)
         /\ job'[j] = job[j] /\ pod'[j].stage = pod[j].stage
         /\ \/ Type(j) = "AddRegions" /\ pod'[j].pc = "add-data" /\ pod'[j].at = pod[j].at
            \/ Importer(j) /\ pod'[j].pc = "download" /\ pod'[j].at = pod[j].at + 1
<1>1. InLoop(j) /\ (Type(j) = "AddRegions" \/ (Type(j) # "AddRegions" /\ Importer(j)))
      BY ControlFacts DEF Curl, At, ScriptOK, LoopCommands
<1>2. CASE Type(j) = "AddRegions"
      BY <1>1, <1>2, ControlFacts, GotoEffect DEF Curl, Commands, Kept
<1>3. CASE Type(j) # "AddRegions"
      BY <1>1, <1>3, ControlFacts, NextRegionEffect DEF Curl, Commands
<1> QED BY <1>2, <1>3

LEMMA ImportMoves ==
  ASSUME ControlInv, NEW j \in Jobs, Import(j)
  PROVE  /\ PodsTyped' /\ Others(j)
         /\ \/ pod[j].stage = 5 /\ Kept(j) /\ pod'[j].pc = "truncate" /\ db' = db
            \/ Died(j) /\ pod[j].stage = 1 /\ db' = db
            \/ /\ pod[j].stage \in 1..4 /\ pod'[j].pc = "import" /\ db' = AfterStage(j, pod[j].stage)
               /\ job'[j] = job[j] /\ pod'[j].stage = pod[j].stage + 1
               /\ pod[j].stage = 1 => staging[j].partial \intersect Regions(j) = {}
<1>1. /\ PodsTyped /\ pod[j] \in Pods /\ pod[j].at <= Len(OpRegions[j]) + 1
      /\ pod[j].stage \in 1..5 /\ At(j, "import")
      BY ControlFacts, StagesAre DEF PodsTyped, Pods, Import
<1>2. CASE pod[j].stage = 5
      BY <1>1, <1>2, GotoEffect, StagesAre DEF Import, Commands
<1>3. CASE pod[j].stage = 1 /\ staging[j].partial \intersect Regions(j) # {}
      BY <1>1, <1>3, dieEffect, StagesAre DEF Import
<1>4. CASE pod[j].stage # 5 /\ ~(pod[j].stage = 1 /\ staging[j].partial \intersect Regions(j) # {})
  <2>1. PICK n \in 1..(Len(Stages) + 1) : n = pod[j].stage + 1
        BY <1>1, <1>4, StagesAre
  <2>2. PICK p : p = [pod[j] EXCEPT !.stage = n]
        OBVIOUS
  <2>3. p \in Pods /\ p.pc = "import" /\ p.at = pod[j].at /\ p.stage = n
        BY <1>1, <2>2 DEF Pods, At
  <2>4. pod' = [pod EXCEPT ![j] = p] /\ job' = job /\ db' = AfterStage(j, pod[j].stage)
        BY <1>1, <1>4, <2>1, <2>2, StagesAre DEF Import
  <2>5. PodsTyped' /\ Others(j) /\ pod'[j] = p /\ job'[j] = job[j]
        BY <1>1, <2>3, <2>4, Advanced
  <2> QED BY <1>1, <1>4, <2>1, <2>3, <2>4, <2>5
<1> QED BY <1>2, <1>3, <1>4

LEMMA RecordMoves ==
  ASSUME ControlInv, NEW j \in Jobs
  PROVE  /\ TruncateList(j) =>
              /\ PodsTyped' /\ Others(j) /\ job'[j] = job[j] /\ pod'[j].pc = "record"
              /\ pod'[j].stage = pod[j].stage
         /\ RecordRegion(j) =>
              /\ PodsTyped' /\ Others(j) /\ Kept(j)
              /\ \/ /\ InLoop(j) /\ pod'[j].pc = "seed"
                    /\ project' = [project EXCEPT !.list = @ \union {Region(j)}]
                 \/ ~InLoop(j) /\ pod'[j].pc = "check" /\ project' = project
         /\ SeedRecorded(j) =>
              /\ PodsTyped' /\ Others(j) /\ job'[j] = job[j] /\ pod'[j].pc = "record" /\ InLoop(j)
         /\ CheckDatabase(j) =>
              /\ PodsTyped' /\ Others(j) /\ Kept(j) /\ pod'[j].pc = "finish"
<1>1. PodsTyped /\ (pod[j].pc \in LoopCommands => InLoop(j))
      BY ControlFacts
<1>2. ASSUME TruncateList(j)
      PROVE  /\ PodsTyped' /\ Others(j) /\ job'[j] = job[j] /\ pod'[j].pc = "record"
             /\ pod'[j].stage = pod[j].stage
      BY <1>1, <1>2, StartLoopEffect DEF TruncateList, Commands
<1>3. ASSUME RecordRegion(j)
      PROVE  /\ PodsTyped' /\ Others(j) /\ Kept(j)
             /\ \/ /\ InLoop(j) /\ pod'[j].pc = "seed"
                   /\ project' = [project EXCEPT !.list = @ \union {Region(j)}]
                \/ ~InLoop(j) /\ pod'[j].pc = "check" /\ project' = project
      BY <1>1, <1>3, GotoEffect DEF RecordRegion, Commands
<1>4. ASSUME SeedRecorded(j)
      PROVE  PodsTyped' /\ Others(j) /\ job'[j] = job[j] /\ pod'[j].pc = "record" /\ InLoop(j)
      BY <1>1, <1>4, NextRegionEffect DEF SeedRecorded, Commands, At, LoopCommands
<1>5. ASSUME CheckDatabase(j)
      PROVE  PodsTyped' /\ Others(j) /\ Kept(j) /\ pod'[j].pc = "finish"
      BY <1>1, <1>5, GotoEffect DEF CheckDatabase, Commands
<1> QED BY <1>2, <1>3, <1>4, <1>5

LEMMA FinishMoves ==
  ASSUME ControlInv, NEW j \in Jobs, finish_bootstrap(j)
  PROVE  /\ PodsTyped' /\ Others(j)
         /\ \/ /\ import_schema_ready /\ job'[j] = "Complete" /\ pod'[j] = NoPod
               /\ project' = [project EXCEPT !.finished = TRUE]
            \/ Died(j) /\ project' = project
BY ControlFacts, SucceedEffect, dieEffect DEF finish_bootstrap

LEMMA ReadyMoves ==
  ASSUME ControlInv, NEW j \in Jobs, RequireBootstrapReady(j)
  PROVE  /\ PodsTyped' /\ Others(j)
         /\ \/ /\ Kept(j) /\ (project.finished \/ import_schema_ready)
               /\ project' = [project EXCEPT !.finished = TRUE, !.listed = @ \/ Type(j) = "AddRegions"]
               /\ \/ Type(j) = "AddRegions" /\ pod'[j].pc = "add"
                  \/ Type(j) \in {"Update", "CatchUp"} /\ pod'[j].pc = "round"
                  \/ Type(j) \in {"Refresh", "Migrate", "Freeze"} /\ pod'[j].pc = "command"
            \/ Died(j) /\ project' = project
<1>1. PodsTyped /\ ~Importer(j)
      BY ControlFacts DEF RequireBootstrapReady, ScriptOK
<1>2. ASSUME ~die(j) \/ project' # project
      PROVE  /\ PodsTyped' /\ Others(j) /\ Kept(j) /\ (project.finished \/ import_schema_ready)
             /\ project' = [project EXCEPT !.finished = TRUE, !.listed = @ \/ Type(j) = "AddRegions"]
             /\ \/ Type(j) = "AddRegions" /\ pod'[j].pc = "add"
                \/ Type(j) \in {"Update", "CatchUp"} /\ pod'[j].pc = "round"
                \/ Type(j) \in {"Refresh", "Migrate", "Freeze"} /\ pod'[j].pc = "command"
  <2>1. PICK c : c = CASE Type(j) = "AddRegions"          -> "add"
                     [] Type(j) \in {"Update", "CatchUp"} -> "round"
                     [] OTHER                           -> "command"
        OBVIOUS
  <2>2. /\ c \in Commands
        /\ \/ Type(j) = "AddRegions" /\ c = "add"
           \/ Type(j) \in {"Update", "CatchUp"} /\ c = "round"
           \/ Type(j) \in {"Refresh", "Migrate", "Freeze"} /\ c = "command"
        BY <1>1, <2>1, TypesImplemented DEF Commands, Importer
  <2>3. /\ Goto(j, c) /\ (project.finished \/ import_schema_ready)
        /\ project' = [project EXCEPT !.finished = TRUE, !.listed = @ \/ Type(j) = "AddRegions"]
        BY <1>2, <2>1 DEF RequireBootstrapReady
  <2> QED BY <1>1, <2>2, <2>3, GotoEffect
<1>3. CASE die(j) /\ project' = project
      BY <1>1, <1>3, dieEffect
<1> QED BY <1>2, <1>3

LEMMA AddMoves ==
  ASSUME ControlInv, NEW j \in Jobs, AddRegion(j)
  PROVE  /\ PodsTyped' /\ Others(j) /\ job'[j] = job[j] /\ pod'[j].stage = pod[j].stage
         /\ \/ ~InLoop(j) /\ pod'[j].pc = "index" /\ staging' = staging
            \/ InLoop(j) /\ pod'[j].pc = "add" /\ staging' = staging
            \/ /\ InLoop(j) /\ pod'[j].pc = "add-data" /\ pod'[j].at = pod[j].at
               /\ staging' = staging /\ staging[j].whole[Region(j)] # 0
            \/ /\ InLoop(j) /\ pod'[j].pc = "curl" /\ pod'[j].at = pod[j].at
               /\ Files(j, staging[j].partial \union {Region(j)}, Region(j), 0)
<1>1. PodsTyped
      BY ControlFacts
<1>2. CASE ~InLoop(j)
      BY <1>1, <1>2, GotoEffect DEF AddRegion, Commands, Kept
<1>3. CASE InLoop(j) /\ region_already_imported(Region(j))
      BY <1>1, <1>3, NextRegionEffect DEF AddRegion, Commands
<1>4. CASE InLoop(j) /\ ~region_already_imported(Region(j)) /\ staging[j].whole[Region(j)] # 0
      BY <1>1, <1>4, GotoEffect DEF AddRegion, Commands, Kept
<1>5. CASE InLoop(j) /\ ~region_already_imported(Region(j)) /\ ~(staging[j].whole[Region(j)] # 0)
      BY <1>1, <1>5, GotoEffect DEF AddRegion, Commands, Kept
<1> QED BY <1>2, <1>3, <1>4, <1>5

LEMMA ExtractMoves ==
  ASSUME ControlInv, NEW j \in Jobs, AddExtract(j)
  PROVE  /\ PodsTyped' /\ Others(j) /\ InLoop(j)
         /\ \/ /\ CanAddData /\ db' = AddData(Region(j), 1..staging[j].whole[Region(j)])
               /\ job'[j] = job[j] /\ pod'[j].pc = "add-seed" /\ pod'[j].at = pod[j].at
               /\ pod'[j].stage = pod[j].stage
            \/ Died(j) /\ db' = db
<1>1. PodsTyped /\ InLoop(j) /\ pod[j] \in Pods /\ pod[j].at <= Len(OpRegions[j]) + 1
      BY ControlFacts DEF AddExtract, At, LoopCommands, PodsTyped
<1>2. CASE CanAddData
  <2>1. PICK p : p = [pod[j] EXCEPT !.pc = "add-seed", !.changed = TRUE]
        OBVIOUS
  <2>2. p \in Pods /\ p.pc = "add-seed" /\ p.at = pod[j].at /\ p.stage = pod[j].stage
        BY <1>1, <2>1 DEF Pods, Commands
  <2>3. /\ pod' = [pod EXCEPT ![j] = p] /\ job' = job
        /\ db' = AddData(Region(j), 1..staging[j].whole[Region(j)])
        BY <1>2, <2>1 DEF AddExtract
  <2> QED BY <1>1, <1>2, <2>2, <2>3, Advanced
<1>3. CASE ~CanAddData
      BY <1>1, <1>3, dieEffect DEF AddExtract
<1> QED BY <1>2, <1>3

LEMMA AddedMoves ==
  ASSUME ControlInv, NEW j \in Jobs
  PROVE  /\ SeedAdded(j) => PodsTyped' /\ Others(j) /\ Kept(j) /\ pod'[j].pc = "append" /\ InLoop(j)
         /\ AppendRegion(j) => /\ PodsTyped' /\ Others(j) /\ job'[j] = job[j] /\ pod'[j].pc = "add"
                               /\ InLoop(j)
         /\ IndexAdded(j) => PodsTyped' /\ Others(j) /\ job'[j] = "Complete" /\ pod'[j] = NoPod
<1>1. PodsTyped /\ (pod[j].pc \in LoopCommands => InLoop(j))
      BY ControlFacts
<1>2. ASSUME SeedAdded(j)
      PROVE  PodsTyped' /\ Others(j) /\ Kept(j) /\ pod'[j].pc = "append" /\ InLoop(j)
      BY <1>1, <1>2, GotoEffect DEF SeedAdded, Commands, At, LoopCommands
<1>3. ASSUME AppendRegion(j)
      PROVE  PodsTyped' /\ Others(j) /\ job'[j] = job[j] /\ pod'[j].pc = "add" /\ InLoop(j)
      BY <1>1, <1>3, NextRegionEffect DEF AppendRegion, Commands, At, LoopCommands
<1>4. ASSUME IndexAdded(j)
      PROVE  PodsTyped' /\ Others(j) /\ job'[j] = "Complete" /\ pod'[j] = NoPod
      BY <1>1, <1>4, SucceedEffect DEF IndexAdded
<1> QED BY <1>2, <1>3, <1>4

LEMMA RoundMoves ==
  ASSUME ControlInv, NEW j \in Jobs, StartRound(j)
  PROVE  /\ PodsTyped' /\ Others(j)
         /\ \/ Died(j) /\ UNCHANGED <<project, budget>>
            \/ /\ job'[j] = job[j] /\ pod'[j].pc = "update"
               /\ \/ project.listed /\ UNCHANGED <<project, budget>>
                  \/ /\ ~project.listed
                     /\ seed_region_state([project EXCEPT !.listed = TRUE, !.list = {OpRegions[j][1]}],
                                          OpRegions[j][1])
<1>1. PodsTyped /\ pod[j] \in Pods
      BY ControlFacts DEF PodsTyped
<1>2. CASE pod[j].round = MaxRounds
      BY <1>1, <1>2, dieEffect DEF StartRound
<1>3. CASE pod[j].round # MaxRounds
  <2>1. PICK n \in 0..MaxRounds : n = IF Type(j) = "CatchUp" THEN pod[j].round + 1 ELSE pod[j].round
        BY <1>1, <1>3, BoundsTyped DEF Pods
  <2>2. PICK a \in Nat \ {0} : a = 1
        OBVIOUS
  <2>3. PICK p : p = [pod[j] EXCEPT !.pc = "update", !.at = a, !.changed = FALSE, !.round = n]
        OBVIOUS
  <2>4. p \in Pods /\ p.pc = "update" /\ p.at = a
        BY <1>1, <2>3 DEF Pods, Commands
  <2>5. pod' = [pod EXCEPT ![j] = p] /\ job' = job
        BY <1>3, <2>1, <2>2, <2>3 DEF StartRound
  <2>6. p.at <= Len(OpRegions[j]) + 1
        BY <2>2, <2>4, RegionTyped
  <2>7. PodsTyped' /\ Others(j) /\ pod'[j] = p /\ job'[j] = job[j]
        BY <1>1, <2>4, <2>5, <2>6, Advanced
  <2> QED BY <1>3, <2>4, <2>7 DEF StartRound
<1> QED BY <1>2, <1>3

LEMMA UpdateMoves ==
  ASSUME ControlInv, NEW j \in Jobs, UpdateRegion(j)
  PROVE  /\ PodsTyped' /\ Others(j) /\ job'[j] = job[j] /\ pod'[j].pc \in {"update", "end-round"}
         /\ \/ UNCHANGED <<project, budget>>
            \/ InLoop(j) /\ Region(j) \in project.list /\ seed_region_state(project, Region(j))
<1>1. PodsTyped
      BY ControlFacts
<1>2. ASSUME ~InLoop(j), Goto(j, "end-round"), UNCHANGED <<project, budget>>
      PROVE  /\ PodsTyped' /\ Others(j) /\ job'[j] = job[j] /\ pod'[j].pc \in {"update", "end-round"}
             /\ UNCHANGED <<project, budget>>
      BY <1>1, <1>2, GotoEffect DEF Commands, Kept
<1>3. ASSUME InLoop(j), NextRegion(j, "update")
      PROVE  PodsTyped' /\ Others(j) /\ job'[j] = job[j] /\ pod'[j].pc \in {"update", "end-round"}
      BY <1>1, <1>3, NextRegionEffect DEF Commands
<1> QED BY <1>2, <1>3 DEF UpdateRegion

LEMMA ChangesMoves ==
  ASSUME ControlInv, NEW j \in Jobs, GetChanges(j)
  PROVE  /\ PodsTyped' /\ Others(j) /\ job'[j] = job[j] /\ InLoop(j)
         /\ Region(j) \in project.states /\ head' = head
         /\ \/ /\ pod'[j].pc = "apply" /\ pod'[j].at = pod[j].at
               /\ pod'[j].diff = (project.cursor[Region(j)] + 1)..head
               /\ project' = SetCursor(project, Region(j), head) /\ budget' = budget
            \/ pod'[j].pc = "update" /\ project' = project /\ Ignored
<1>1. /\ PodsTyped /\ pod[j] \in Pods /\ InLoop(j) /\ pod[j].at <= Len(OpRegions[j]) + 1
      /\ Region(j) \in project.states /\ head' = head
      BY ControlFacts DEF GetChanges, PodsTyped, HasCursor
<1>2. ASSUME /\ project' = SetCursor(project, Region(j), head) /\ budget' = budget
             /\ pod' = [pod EXCEPT ![j].pc = "apply", ![j].diff = (project.cursor[Region(j)] + 1)..head]
             /\ job' = job
      PROVE  /\ PodsTyped' /\ Others(j) /\ job'[j] = job[j]
             /\ pod'[j].pc = "apply" /\ pod'[j].at = pod[j].at
             /\ pod'[j].diff = (project.cursor[Region(j)] + 1)..head
  <2>1. PICK d : d = (project.cursor[Region(j)] + 1)..head
        OBVIOUS
  <2>2. Region(j) \in RegionPaths
        BY <1>1, ControlFacts, RegionInLoop
  <2>3. project.cursor[Region(j)] \in 0..MaxHead /\ head \in 1..MaxHead
        BY <2>2, ControlFacts DEF TypeOK, Projects, Diffs
  <2>4. d \in SUBSET Diffs
        BY <2>1, <2>3, BoundsTyped DEF Diffs
  <2>5. PICK p : p = [pod[j] EXCEPT !.pc = "apply", !.diff = d]
        OBVIOUS
  <2>6. p \in Pods /\ p.pc = "apply" /\ p.at = pod[j].at /\ p.diff = d
        BY <1>1, <2>4, <2>5 DEF Pods, Commands
  <2>7. pod' = [pod EXCEPT ![j] = p] /\ job' = job
        BY <1>2, <2>1, <2>5
  <2> QED BY <1>1, <2>1, <2>6, <2>7, Advanced
<1>3. ASSUME NextRegion(j, "update")
      PROVE  PodsTyped' /\ Others(j) /\ job'[j] = job[j] /\ pod'[j].pc = "update"
      BY <1>1, <1>3, NextRegionEffect DEF Commands
<1>4. \/ /\ project' = SetCursor(project, Region(j), head) /\ budget' = budget
         /\ pod' = [pod EXCEPT ![j].pc = "apply", ![j].diff = (project.cursor[Region(j)] + 1)..head]
         /\ job' = job
      \/ NextRegion(j, "update") /\ project' = project /\ Ignored
      BY DEF GetChanges
<1> QED BY <1>1, <1>2, <1>3, <1>4

LEMMA ApplyMoves ==
  ASSUME ControlInv, NEW j \in Jobs, ApplyChanges(j)
  PROVE  /\ PodsTyped' /\ Others(j) /\ job'[j] = job[j] /\ pod'[j].pc = "update" /\ InLoop(j)
         /\ pod[j].diff \subseteq Diffs
<1>1. PodsTyped /\ pod[j] \in Pods /\ InLoop(j) /\ pod[j].at <= Len(OpRegions[j])
      BY ControlFacts DEF ApplyChanges, At, LoopCommands, PodsTyped, InLoop
<1>2. pod[j].at \in Nat \ {0} /\ pod[j].diff \subseteq Diffs
      BY <1>1 DEF Pods
<1>3. PICK a \in Nat \ {0} : a = pod[j].at + 1 /\ a <= Len(OpRegions[j]) + 1
      BY <1>1, <1>2, RegionTyped
<1>4. PICK p : p = [pod[j] EXCEPT !.pc = "update", !.at = a, !.diff = {}, !.changed = TRUE]
      OBVIOUS
<1>5. p \in Pods /\ p.pc = "update" /\ p.at = a
      BY <1>1, <1>4 DEF Pods, Commands
<1>6. pod' = [pod EXCEPT ![j] = p] /\ job' = job
      BY <1>3, <1>4 DEF ApplyChanges
<1>7. p.at <= Len(OpRegions[j]) + 1
      BY <1>3, <1>5
<1> QED BY <1>1, <1>2, <1>5, <1>6, <1>7, Advanced

LEMMA EndMoves ==
  ASSUME ControlInv, NEW j \in Jobs
  PROVE  /\ EndRound(j) =>
              /\ PodsTyped' /\ Others(j)
              /\ \/ job'[j] = job[j] /\ pod'[j].pc = "round" /\ Type(j) = "CatchUp"
                 \/ job'[j] = "Complete" /\ pod'[j] = NoPod
         /\ RunCommand(j) =>
              /\ PodsTyped' /\ Others(j)
              /\ \/ import_schema_ready /\ job'[j] = "Complete" /\ pod'[j] = NoPod
                 \/ Died(j) /\ db' = db
         /\ Kill(j) => PodsTyped' /\ Others(j) /\ Died(j)
<1>1. PodsTyped
      BY ControlFacts
<1>2. ASSUME EndRound(j)
      PROVE  /\ PodsTyped' /\ Others(j)
             /\ \/ job'[j] = job[j] /\ pod'[j].pc = "round" /\ Type(j) = "CatchUp"
                \/ job'[j] = "Complete" /\ pod'[j] = NoPod
  <2>1. (Type(j) = "CatchUp" /\ Goto(j, "round")) \/ Succeed(j)
        BY <1>2 DEF EndRound
  <2> QED BY <1>1, <2>1, GotoEffect, SucceedEffect DEF Commands, Kept
<1>3. ASSUME RunCommand(j)
      PROVE  /\ PodsTyped' /\ Others(j)
             /\ \/ import_schema_ready /\ job'[j] = "Complete" /\ pod'[j] = NoPod
                \/ Died(j) /\ db' = db
      BY <1>1, <1>3, dieEffect, SucceedEffect DEF RunCommand
<1>4. ASSUME Kill(j) PROVE PodsTyped' /\ Others(j) /\ Died(j)
      BY <1>1, <1>4, dieEffect DEF Kill
<1> QED BY <1>2, <1>3, <1>4

-----------------------------------------------------------------------------
(* What a step does to the database.                                       *)

LEMMA EmptyTyped ==
  /\ EmptyDatabase \in Databases /\ EmptyProject \in Projects /\ EmptyStaging \in Stagings
BY BoundsTyped DEF EmptyDatabase, Databases, EmptyProject, Projects, EmptyStaging, Stagings

\* The stages of an import.
LEMMA LoadedStage ==
  ASSUME TypeOK, NEW j \in Jobs, NEW new, new = AfterStage(j, 1)
  PROVE  /\ new \in Databases /\ new.place /\ ~new.placex /\ ~new.rows /\ ~new.version
         /\ ~new.indexed /\ ~new.pending /\ new.done = {Stages[1]} /\ ~new.frozen /\ new.given = Regions(j)
         /\ \A r \in RegionPaths : new.data[r] = IF r \in Regions(j) THEN 1..staging[j].whole[r] ELSE {}
<1>1. PICK d : d = [r \in RegionPaths |-> IF r \in Regions(j) THEN 1..staging[j].whole[r] ELSE {}]
      OBVIOUS
<1>2. staging[j] \in Stagings
      BY DEF TypeOK
<1>3. \A r \in RegionPaths : 1..staging[j].whole[r] \subseteq Diffs
      BY <1>2, BoundsTyped DEF Stagings, Diffs
<1>4. d \in [RegionPaths -> SUBSET Diffs]
      BY <1>1, <1>3
<1>5. new = [EmptyDatabase EXCEPT !.place = TRUE, !.done = {Stages[1]}, !.given = Regions(j), !.data = d]
      BY <1>1 DEF AfterStage
<1>6. {Stages[1]} \in SUBSET {Stages[k] : k \in DOMAIN Stages} /\ Regions(j) \in SUBSET RegionPaths
      BY StagesAre, RegionTyped
<1> QED BY <1>1, <1>4, <1>5, <1>6 DEF EmptyDatabase, Databases

LEMMA TokenizedStage ==
  ASSUME TypeOK, NEW j \in Jobs, NEW new, new = AfterStage(j, 2)
  PROVE  /\ new \in Databases /\ new.place = db.place /\ new.placex /\ new.rows
         /\ new.version = db.version /\ ~new.indexed /\ new.pending /\ new.data = db.data
         /\ new.done = (db.done \intersect {Stages[1]}) \union {Stages[2]} /\ new.frozen = db.frozen
         /\ new.given = db.given
<1>1. PICK d : d = (db.done \intersect {Stages[1]}) \union {Stages[2]}
      OBVIOUS
<1>2. d \in SUBSET {Stages[k] : k \in DOMAIN Stages}
      BY <1>1, StagesAre
<1>3. new = [db EXCEPT !.placex = TRUE, !.rows = TRUE, !.indexed = FALSE, !.pending = TRUE, !.done = d]
      BY <1>1 DEF AfterStage
<1>4. db \in Databases
      BY DEF TypeOK
<1> QED BY <1>1, <1>2, <1>3, <1>4 DEF Databases

LEMMA IndexedStage ==
  ASSUME TypeOK, NEW j \in Jobs, NEW new, new = AfterStage(j, 3)
  PROVE  /\ new \in Databases /\ new.place = db.place /\ new.placex = db.placex /\ new.rows = db.rows
         /\ new.version = db.version /\ new.indexed /\ ~new.pending /\ new.data = db.data
         /\ new.done = db.done \union {Stages[3]} /\ new.frozen = db.frozen /\ new.given = db.given
<1>1. PICK d : d = db.done \union {Stages[3]}
      OBVIOUS
<1>4. db \in Databases
      BY DEF TypeOK
<1>2. d \in SUBSET {Stages[k] : k \in DOMAIN Stages}
      BY <1>1, <1>4, StagesAre DEF Databases
<1>3. new = [db EXCEPT !.indexed = TRUE, !.pending = FALSE, !.done = d]
      BY <1>1 DEF AfterStage
<1> QED BY <1>1, <1>2, <1>3, <1>4 DEF Databases

LEMMA FinalStage ==
  ASSUME TypeOK, NEW j \in Jobs, NEW new, new = AfterStage(j, 4)
  PROVE  /\ new \in Databases /\ new.place = db.place /\ new.placex = db.placex /\ new.rows = db.rows
         /\ new.version /\ new.indexed = db.indexed /\ new.pending = db.pending /\ new.data = db.data
         /\ new.done = db.done \union {Stages[4]} /\ new.frozen = db.frozen /\ new.given = db.given
<1>1. PICK d : d = db.done \union {Stages[4]}
      OBVIOUS
<1>4. db \in Databases
      BY DEF TypeOK
<1>2. d \in SUBSET {Stages[k] : k \in DOMAIN Stages}
      BY <1>1, <1>4, StagesAre DEF Databases
<1>3. new = [db EXCEPT !.version = TRUE, !.done = d]
      BY <1>1 DEF AfterStage
<1> QED BY <1>1, <1>2, <1>3, <1>4 DEF Databases

LEMMA AfterStageTyped ==
  ASSUME TypeOK, NEW j \in Jobs, NEW k \in 1..4
  PROVE  AfterStage(j, k) \in Databases
<1>1. k = 1 \/ k = 2 \/ k = 3 \/ k = 4
      OBVIOUS
<1> QED BY <1>1, LoadedStage, TokenizedStage, IndexedStage, FinalStage

\* The traces of an import.
LEMMA TraceEffect ==
  ASSUME TypeOK, NEW j \in Jobs, ImportTrace(j)
  PROVE  /\ db' \in Databases /\ At(j, "import")
         /\ \/ /\ pod[j].stage = 1 /\ db'.place /\ ~db'.placex /\ ~db'.version /\ ~db'.indexed
               /\ db'.done = {}
            \/ /\ pod[j].stage = 2 /\ db'.place = db.place /\ db'.placex /\ db'.version = db.version
               /\ ~db'.indexed /\ db'.data = db.data /\ db'.given = db.given
               /\ db'.done = db.done \intersect {Stages[1]}
            \/ /\ pod[j].stage = 3 /\ db'.place = db.place /\ db'.placex = db.placex
               /\ db'.rows = db.rows /\ db'.version = db.version /\ db'.given = db.given
               /\ db'.indexed /\ db'.pending /\ db'.data = db.data /\ db'.done = db.done
<1> DEFINE First ==
             /\ pod[j].stage = 1
             /\ \E r \in Regions(j) : db' = [AfterStage(j, 1) EXCEPT !.done = {}, !.data =
                                          [x \in RegionPaths |-> IF x = r THEN @[x] ELSE {}]]
           Second ==
             /\ pod[j].stage = 2
             /\ \E rows \in BOOLEAN : db' = [AfterStage(j, 2) EXCEPT !.rows = rows, !.pending = rows,
                                           !.done = @ \ {Stages[2]}]
           Third ==
             /\ pod[j].stage = 3
             /\ db' = [db EXCEPT !.indexed = TRUE, !.pending = TRUE]
<1>0. At(j, "import") /\ (First \/ Second \/ Third)
      BY Zenon DEF ImportTrace
<1>1. CASE First
  <2>1. PICK r \in Regions(j) : db' = [AfterStage(j, 1) EXCEPT !.done = {}, !.data =
                                          [x \in RegionPaths |-> IF x = r THEN @[x] ELSE {}]]
        BY <1>1
  <2>2. PICK a : a = AfterStage(j, 1)
        OBVIOUS
  <2>3. a \in Databases /\ a.place /\ ~a.placex /\ ~a.version /\ ~a.indexed
        BY <2>2, LoadedStage
  <2>4. PICK d : d = [x \in RegionPaths |-> IF x = r THEN a.data[x] ELSE {}]
        OBVIOUS
  <2>5. d \in [RegionPaths -> SUBSET Diffs]
        BY <2>3, <2>4 DEF Databases
  <2>6. db' = [a EXCEPT !.done = {}, !.data = d]
        BY <2>1, <2>2, <2>4
  <2>7. db' \in Databases /\ db'.place /\ ~db'.placex /\ ~db'.version /\ ~db'.indexed /\ db'.done = {}
        BY <2>3, <2>5, <2>6 DEF Databases
  <2> QED BY <1>0, <1>1, <2>7
<1>2. CASE Second
  <2>1. PICK rows \in BOOLEAN : db' = [AfterStage(j, 2) EXCEPT !.rows = rows, !.pending = rows,
                                           !.done = @ \ {Stages[2]}]
        BY <1>2
  <2>2. PICK a : a = AfterStage(j, 2)
        OBVIOUS
  <2>3. /\ a \in Databases /\ a.place = db.place /\ a.placex /\ a.version = db.version /\ ~a.indexed
        /\ a.data = db.data /\ a.given = db.given /\ a.done = (db.done \intersect {Stages[1]}) \union {Stages[2]}
        BY <2>2, TokenizedStage
  <2>4. PICK d : d = a.done \ {Stages[2]}
        OBVIOUS
  <2>5. d \in SUBSET {Stages[k] : k \in DOMAIN Stages} /\ d = db.done \intersect {Stages[1]}
        BY <2>3, <2>4, StagesAre
  <2>6. db' = [a EXCEPT !.rows = rows, !.pending = rows, !.done = d]
        BY <2>1, <2>2, <2>4
  <2>7. /\ db' \in Databases /\ db'.place = a.place /\ db'.placex = a.placex /\ db'.version = a.version
        /\ db'.indexed = a.indexed /\ db'.data = a.data /\ db'.done = d /\ db'.given = a.given
        BY <2>3, <2>5, <2>6 DEF Databases
  <2> QED BY <1>0, <1>2, <2>3, <2>5, <2>7
<1>3. CASE Third
  <2>1. db' = [db EXCEPT !.indexed = TRUE, !.pending = TRUE] /\ At(j, "import") /\ db \in Databases
        BY <1>0, <1>3 DEF TypeOK
  <2> QED BY <1>3, <2>1 DEF Databases
<1> QED BY <1>0, <1>1, <1>2, <1>3

LEMMA AddDataEffect ==
  ASSUME TypeOK, NEW r \in RegionPaths, NEW d \in SUBSET Diffs, NEW new, new = AddData(r, d)
  PROVE  /\ new \in Databases /\ new.place = db.place /\ new.placex = db.placex /\ new.rows = db.rows
         /\ new.version = db.version /\ new.indexed = db.indexed /\ new.pending
         /\ new.done = db.done /\ new.frozen = db.frozen /\ new.given = db.given
         /\ \A x \in RegionPaths : new.data[x] = IF x = r THEN db.data[x] \union d ELSE db.data[x]
<1>1. db \in Databases
      BY DEF TypeOK
<1>2. PICK f : f = [db.data EXCEPT ![r] = db.data[r] \union d]
      OBVIOUS
<1>3. /\ f \in [RegionPaths -> SUBSET Diffs]
      /\ \A x \in RegionPaths : f[x] = IF x = r THEN db.data[x] \union d ELSE db.data[x]
      BY <1>1, <1>2 DEF Databases
<1>4. new = [db EXCEPT !.data = f, !.pending = TRUE]
      BY <1>1, <1>2 DEF AddData, Databases
<1> QED BY <1>1, <1>3, <1>4 DEF Databases

\* Indexing.
LEMMA PendingEffect ==
  ASSUME TypeOK, NEW b \in BOOLEAN, NEW new, new = [db EXCEPT !.pending = b]
  PROVE  /\ new \in Databases /\ new.place = db.place /\ new.placex = db.placex /\ new.rows = db.rows
         /\ new.version = db.version /\ new.indexed = db.indexed /\ new.pending = b
         /\ new.done = db.done /\ new.frozen = db.frozen /\ new.data = db.data /\ new.given = db.given
BY DEF TypeOK, Databases

LEMMA FrozenEffect ==
  ASSUME TypeOK, NEW new, new = [db EXCEPT !.frozen = TRUE, !.place = FALSE]
  PROVE  /\ new \in Databases /\ ~new.place /\ new.placex = db.placex /\ new.rows = db.rows
         /\ new.version = db.version /\ new.indexed = db.indexed /\ new.pending = db.pending
         /\ new.done = db.done /\ new.frozen /\ new.data = db.data /\ new.given = db.given
BY DEF TypeOK, Databases

-----------------------------------------------------------------------------
(* What a step does to the bookmarks, the extracts and the budget.         *)

\* One failure or kill less.
LEMMA BudgetEffect ==
  ASSUME TypeOK
  PROVE  /\ Ignored => budget' \in [kills : 0..MaxKills, failures : 0..MaxFailures]
         /\ budget.kills > 0 => [budget EXCEPT !.kills = @ - 1] \in [kills : 0..MaxKills, failures : 0..MaxFailures]
<1>1. budget \in [kills : 0..MaxKills, failures : 0..MaxFailures]
      BY DEF TypeOK
<1>2. /\ budget.failures > 0 => budget.failures - 1 \in 0..MaxFailures
      /\ budget.kills > 0 => budget.kills - 1 \in 0..MaxKills
      BY <1>1, BoundsTyped
<1> QED BY <1>1, <1>2 DEF Ignored

LEMMA SetCursorEffect ==
  ASSUME NEW p \in Projects, NEW r \in RegionPaths, NEW s \in 0..MaxHead, NEW new, new = SetCursor(p, r, s)
  PROVE  /\ new \in Projects /\ new.finished = p.finished /\ new.listed = p.listed /\ new.list = p.list
         /\ new.states = p.states \union {r}
         /\ \A x \in RegionPaths : new.cursor[x] = IF x = r THEN s ELSE p.cursor[x]
<1>1. PICK f : f = [p.cursor EXCEPT ![r] = s]
      OBVIOUS
<1>2. /\ f \in [RegionPaths -> 0..MaxHead]
      /\ \A x \in RegionPaths : f[x] = IF x = r THEN s ELSE p.cursor[x]
      BY <1>1 DEF Projects
<1>3. PICK q : q = p.states \union {r}
      OBVIOUS
<1>4. q \in SUBSET RegionPaths
      BY <1>3 DEF Projects
<1>5. new = [p EXCEPT !.states = q, !.cursor = f]
      BY <1>1, <1>3 DEF SetCursor, Projects
<1> QED BY <1>2, <1>3, <1>4, <1>5 DEF Projects

LEMMA SeedEffect ==
  ASSUME TypeOK, NEW p \in Projects, NEW r \in RegionPaths, seed_region_state(p, r)
  PROVE  /\ project' \in Projects
         /\ budget' \in [kills : 0..MaxKills, failures : 0..MaxFailures]
         /\ project'.finished = p.finished /\ project'.listed = p.listed /\ project'.list = p.list
         /\ project'.states = p.states \union {r}
<1>1. PICK s \in 0..MaxHead : project' = SetCursor(p, r, s)
  <2>1. head \in 0..MaxHead /\ 0 \in 0..MaxHead
        BY BoundsTyped DEF TypeOK, Diffs
  <2> QED BY <2>1 DEF seed_region_state
<1>2. budget' \in [kills : 0..MaxKills, failures : 0..MaxFailures]
      BY BudgetEffect DEF seed_region_state, TypeOK
<1> QED BY <1>1, <1>2, SetCursorEffect

LEMMA FilesEffect ==
  ASSUME TypeOK, NEW j \in Jobs, NEW part \in SUBSET RegionPaths, NEW r \in RegionPaths, NEW s \in 0..MaxHead,
         Files(j, part, r, s)
  PROVE  /\ staging' \in [Jobs -> Stagings]
         /\ \A k \in Jobs : k # j => staging'[k] = staging[k]
         /\ staging'[j].partial = part
         /\ \A x \in RegionPaths : staging'[j].whole[x] = IF x = r THEN s ELSE staging[j].whole[x]
<1>1. staging \in [Jobs -> Stagings] /\ staging[j] \in Stagings
      BY DEF TypeOK
<1>2. PICK f : f = [staging[j].whole EXCEPT ![r] = s]
      OBVIOUS
<1>3. /\ f \in [RegionPaths -> 0..MaxHead]
      /\ \A x \in RegionPaths : f[x] = IF x = r THEN s ELSE staging[j].whole[x]
      BY <1>1, <1>2 DEF Stagings
<1>4. PICK new : new = [partial |-> part, whole |-> f]
      OBVIOUS
<1>5. staging' = [staging EXCEPT ![j] = new]
      BY <1>2, <1>4 DEF Files
<1>6. new \in Stagings /\ new.partial = part /\ new.whole = f
      BY <1>3, <1>4 DEF Stagings
<1> QED BY <1>1, <1>3, <1>5, <1>6

-----------------------------------------------------------------------------
(* Types are kept.                                                         *)

DataTyped ==
  /\ head \in Diffs /\ db \in Databases /\ project \in Projects
  /\ staging \in [Jobs -> Stagings]
  /\ misread \in SUBSET Probes
  /\ budget \in [kills : 0..MaxKills, failures : 0..MaxFailures]

LEMMA TypedParts == TypeOK <=> DataTyped /\ PodsTyped
BY DEF TypeOK, DataTyped, PodsTyped

\* Steps of the importer's script.
LEMMA ImportDataTyped ==
  ASSUME ControlInv, NEW j \in Jobs,
         \/ ClearMarkers(j) \/ BootstrapStart(j) \/ Download(j) \/ Curl(j) \/ Import(j) \/ ImportTrace(j)
         \/ TruncateList(j) \/ RecordRegion(j) \/ SeedRecorded(j) \/ CheckDatabase(j) \/ finish_bootstrap(j)
  PROVE  DataTyped'
<1>0. /\ TypeOK /\ DataTyped /\ (pod[j].pc \in LoopCommands => InLoop(j))
      /\ (InLoop(j) => Region(j) \in RegionPaths)
      BY ControlFacts, TypedParts, RegionInLoop
<1>a. head \in 0..MaxHead /\ 0 \in 0..MaxHead /\ staging[j] \in Stagings
      BY <1>0, BoundsTyped DEF DataTyped, Diffs
<1>1. CASE ClearMarkers(j)
      BY <1>0, <1>1, EmptyTyped DEF ClearMarkers, DataTyped
<1>2. CASE BootstrapStart(j)
  <2>1. PICK yes \in SUBSET Answers :
          Misread(Answers \ yes) /\ project' = [project EXCEPT !.finished = @ /\ "schema" \in yes]
        BY <1>2, StartMoves
  <2>2. PICK b \in BOOLEAN : b = (project.finished /\ "schema" \in yes)
        OBVIOUS
  <2>3. project' = [project EXCEPT !.finished = b] /\ project \in Projects
        BY <1>0, <2>1, <2>2 DEF DataTyped
  <2>4. project' \in Projects
        BY <2>3 DEF Projects
  <2>5. misread' \in SUBSET Probes
        BY <1>0, <2>1 DEF Misread, Answers, DataTyped
  <2>6. budget' \in [kills : 0..MaxKills, failures : 0..MaxFailures]
        BY <1>0, <2>1, BudgetEffect DEF Misread, DataTyped
  <2> QED BY <1>0, <1>2, <2>4, <2>5, <2>6, StartMoves DEF DataTyped
<1>3. CASE Download(j)
  <2>1. CASE staging' = staging
        BY <1>0, <1>3, <2>1 DEF Download, DataTyped
  <2>2. CASE InLoop(j) /\ Files(j, staging[j].partial \union {Region(j)}, Region(j), 0)
    <3>1. staging[j].partial \union {Region(j)} \in SUBSET RegionPaths
          BY <1>0, <1>a, <2>2 DEF Stagings
    <3>2. staging' \in [Jobs -> Stagings]
          BY <1>0, <1>a, <2>2, <3>1, FilesEffect
    <3> QED BY <1>0, <1>3, <3>2 DEF Download, DataTyped
  <2> QED BY <1>3, <2>1, <2>2, DownloadMoves
<1>4. CASE Curl(j)
  <2>1. InLoop(j) /\ Files(j, staging[j].partial \ {Region(j)}, Region(j), head)
        BY <1>4, CurlMoves DEF Curl
  <2>2. staging[j].partial \ {Region(j)} \in SUBSET RegionPaths
        BY <1>a DEF Stagings
  <2>3. staging' \in [Jobs -> Stagings]
        BY <1>0, <1>a, <2>1, <2>2, FilesEffect
  <2> QED BY <1>0, <1>4, <2>3 DEF Curl, DataTyped
<1>5. CASE Import(j)
  <2>1. db' \in Databases
        BY <1>0, <1>5, ImportMoves, AfterStageTyped DEF DataTyped
  <2> QED BY <1>0, <1>5, <2>1 DEF Import, DataTyped
<1>6. CASE ImportTrace(j)
  <2>1. db' \in Databases
        BY <1>0, <1>6, TraceEffect
  <2>2. UNCHANGED <<head, project, staging, job, pod, misread, budget>>
        BY <1>6, Zenon DEF ImportTrace
  <2> QED BY <1>0, <2>1, <2>2 DEF DataTyped
<1>7. CASE TruncateList(j)
  <2>1. project' \in Projects
        BY <1>0, <1>7 DEF TruncateList, DataTyped, Projects
  <2> QED BY <1>0, <1>7, <2>1 DEF TruncateList, DataTyped
<1>8. CASE RecordRegion(j)
  <2>1. CASE project' = project
        BY <1>0, <1>8, <2>1 DEF RecordRegion, DataTyped
  <2>2. CASE InLoop(j) /\ project' = [project EXCEPT !.list = @ \union {Region(j)}]
    <3>1. project' \in Projects
          BY <1>0, <2>2 DEF DataTyped, Projects
    <3> QED BY <1>0, <1>8, <3>1 DEF RecordRegion, DataTyped
  <2> QED BY <1>8, <2>1, <2>2, RecordMoves
<1>9. CASE SeedRecorded(j)
  <2>1. InLoop(j) /\ seed_region_state(project, Region(j)) /\ project \in Projects
        BY <1>0, <1>9, RecordMoves DEF SeedRecorded, DataTyped
  <2> QED BY <1>0, <1>9, <2>1, SeedEffect DEF SeedRecorded, DataTyped
<1>10. CASE CheckDatabase(j)
      BY <1>0, <1>10, PendingEffect, BudgetEffect DEF CheckDatabase, DataTyped
<1>11. CASE finish_bootstrap(j)
  <2>1. project' \in Projects
        BY <1>0, <1>11, FinishMoves DEF DataTyped, Projects
  <2>2. budget' \in [kills : 0..MaxKills, failures : 0..MaxFailures]
        BY <1>0, <1>11, BudgetEffect DEF finish_bootstrap, DataTyped
  <2> QED BY <1>0, <1>11, <2>1, <2>2 DEF finish_bootstrap, DataTyped
<1> QED BY <1>1, <1>2, <1>3, <1>4, <1>5, <1>6, <1>7, <1>8, <1>9, <1>10, <1>11

\* Steps of the other scripts.
LEMMA OtherDataTyped ==
  ASSUME ControlInv, NEW j \in Jobs,
         \/ RequireBootstrapReady(j) \/ AddRegion(j) \/ AddExtract(j) \/ SeedAdded(j) \/ AppendRegion(j)
         \/ IndexAdded(j) \/ StartRound(j) \/ UpdateRegion(j) \/ GetChanges(j) \/ ApplyChanges(j)
         \/ EndRound(j) \/ RunCommand(j)
  PROVE  DataTyped'
<1>0. /\ TypeOK /\ DataTyped /\ (pod[j].pc \in LoopCommands => InLoop(j))
      /\ (InLoop(j) => Region(j) \in RegionPaths)
      BY ControlFacts, TypedParts, RegionInLoop
<1>a. head \in 0..MaxHead /\ 0 \in 0..MaxHead /\ staging[j] \in Stagings /\ pod[j].changed \in BOOLEAN
      BY <1>0, BoundsTyped DEF DataTyped, Diffs, TypeOK, Pods
<1>1. CASE RequireBootstrapReady(j)
  <2>0. budget' \in [kills : 0..MaxKills, failures : 0..MaxFailures]
        BY <1>0, <1>1, BudgetEffect DEF RequireBootstrapReady, DataTyped
  <2>1. CASE project' = project
        BY <1>0, <1>1, <2>0, <2>1 DEF RequireBootstrapReady, DataTyped
  <2>2. CASE project' = [project EXCEPT !.finished = TRUE, !.listed = @ \/ Type(j) = "AddRegions"]
    <3>1. PICK b \in BOOLEAN : b = (project.listed \/ Type(j) = "AddRegions")
          OBVIOUS
    <3>2. project' = [project EXCEPT !.finished = TRUE, !.listed = b]
          BY <2>2, <3>1
    <3>3. project' \in Projects
          BY <1>0, <3>2 DEF DataTyped, Projects
    <3> QED BY <1>0, <1>1, <2>0, <3>3 DEF RequireBootstrapReady, DataTyped
  <2> QED BY <1>1, <2>1, <2>2, ReadyMoves
<1>2. CASE AddRegion(j)
  <2>1. CASE staging' = staging
        BY <1>0, <1>2, <2>1 DEF AddRegion, DataTyped
  <2>2. CASE InLoop(j) /\ Files(j, staging[j].partial \union {Region(j)}, Region(j), 0)
    <3>1. staging[j].partial \union {Region(j)} \in SUBSET RegionPaths
          BY <1>0, <1>a, <2>2 DEF Stagings
    <3>2. staging' \in [Jobs -> Stagings]
          BY <1>0, <1>a, <2>2, <3>1, FilesEffect
    <3> QED BY <1>0, <1>2, <3>2 DEF AddRegion, DataTyped
  <2> QED BY <1>2, <2>1, <2>2, AddMoves
<1>3. CASE AddExtract(j)
  <2>1. Region(j) \in RegionPaths
        BY <1>0, <1>3, ExtractMoves
  <2>2. 1..staging[j].whole[Region(j)] \in SUBSET Diffs
        BY <1>a, <2>1, BoundsTyped DEF Stagings, Diffs
  <2>a. PICK d \in SUBSET Diffs : d = 1..staging[j].whole[Region(j)]
        BY <2>2
  <2>b. db' = db \/ db' = AddData(Region(j), d)
        BY <1>3, <2>a, ExtractMoves
  <2>3. db' \in Databases
        BY <1>0, <2>1, <2>b, AddDataEffect DEF DataTyped
  <2> QED BY <1>0, <1>3, <2>3 DEF AddExtract, DataTyped
<1>4. CASE SeedAdded(j)
  <2>1. InLoop(j) /\ seed_region_state(project, Region(j)) /\ project \in Projects
        BY <1>0, <1>4, AddedMoves DEF SeedAdded, DataTyped
  <2> QED BY <1>0, <1>4, <2>1, SeedEffect DEF SeedAdded, DataTyped
<1>5. CASE AppendRegion(j)
  <2>1. InLoop(j) /\ Files(j, staging[j].partial, Region(j), 0)
        BY <1>5, AddedMoves DEF AppendRegion
  <2>2. staging[j].partial \in SUBSET RegionPaths
        BY <1>a DEF Stagings
  <2>3. staging' \in [Jobs -> Stagings]
        BY <1>0, <1>a, <2>1, <2>2, FilesEffect
  <2>4. project' \in Projects
        BY <1>0, <1>5, <2>1 DEF AppendRegion, DataTyped, Projects
  <2> QED BY <1>0, <1>5, <2>3, <2>4 DEF AppendRegion, DataTyped
<1>6. CASE IndexAdded(j)
  <2>1. PICK b \in BOOLEAN : b = (db.pending /\ ~pod[j].changed)
        OBVIOUS
  <2>2. db' = [db EXCEPT !.pending = b]
        BY <1>6, <2>1 DEF IndexAdded
  <2> QED BY <1>0, <1>6, <2>2, PendingEffect DEF IndexAdded, DataTyped
<1>7. CASE StartRound(j)
  <2>1. CASE UNCHANGED <<project, budget>>
        BY <1>0, <1>7, <2>1 DEF StartRound, DataTyped
  <2>2. ASSUME seed_region_state([project EXCEPT !.listed = TRUE, !.list = {OpRegions[j][1]}], OpRegions[j][1])
        PROVE  DataTyped'
    <3>1. Type(j) \in {"Update", "CatchUp"}
          BY <1>7, ControlFacts DEF StartRound, At, ScriptOK, RoundCommands
    <3>2. OpRegions[j][1] \in RegionPaths
          BY <3>1, TypesImplemented, RegionTyped
    <3>3. PICK p : p = [project EXCEPT !.listed = TRUE, !.list = {OpRegions[j][1]}]
          OBVIOUS
    <3>4. p \in Projects
          BY <1>0, <3>2, <3>3 DEF DataTyped, Projects
    <3>5. seed_region_state(p, OpRegions[j][1])
          BY <2>2, <3>3
    <3> QED BY <1>0, <1>7, <3>2, <3>4, <3>5, SeedEffect DEF StartRound, DataTyped
  <2> QED BY <1>7, <2>1, <2>2, RoundMoves
<1>8. CASE UpdateRegion(j)
  <2>1. CASE UNCHANGED <<project, budget>>
        BY <1>0, <1>8, <2>1 DEF UpdateRegion, DataTyped
  <2>2. CASE InLoop(j) /\ seed_region_state(project, Region(j))
        BY <1>0, <1>8, <2>2, SeedEffect DEF UpdateRegion, DataTyped
  <2> QED BY <1>8, <2>1, <2>2, UpdateMoves
<1>9. CASE GetChanges(j)
  <2>1. InLoop(j) /\ project \in Projects
        BY <1>0, <1>9, ChangesMoves DEF DataTyped
  <2>2. project' \in Projects
        BY <1>0, <1>a, <1>9, <2>1, ChangesMoves, SetCursorEffect
  <2>3. budget' \in [kills : 0..MaxKills, failures : 0..MaxFailures]
        BY <1>0, <1>9, ChangesMoves, BudgetEffect DEF DataTyped
  <2> QED BY <1>0, <1>9, <2>2, <2>3 DEF GetChanges, DataTyped
<1>10. CASE ApplyChanges(j)
  <2>1. Region(j) \in RegionPaths /\ pod[j].diff \in SUBSET Diffs
        BY <1>0, <1>10, ApplyMoves
  <2>2. ASSUME db' = AddData(Region(j), pod[j].diff), budget' = budget PROVE DataTyped'
        BY <1>0, <1>10, <2>1, <2>2, AddDataEffect DEF ApplyChanges, DataTyped
  <2>3. ASSUME db' = db, budget' = budget \/ Ignored PROVE DataTyped'
        BY <1>0, <1>10, <2>3, BudgetEffect DEF ApplyChanges, DataTyped
  <2> QED BY <1>10, <2>2, <2>3 DEF ApplyChanges
<1>11. CASE EndRound(j)
  <2>1. PICK b \in BOOLEAN : b = (db.pending /\ ~pod[j].changed)
        OBVIOUS
  <2>2. ASSUME db' = [db EXCEPT !.pending = b], budget' = budget PROVE DataTyped'
        BY <1>0, <1>11, <2>2, PendingEffect DEF EndRound, DataTyped
  <2>3. ASSUME Ignored, db' = db PROVE DataTyped'
        BY <1>0, <1>11, <2>3, BudgetEffect DEF EndRound, DataTyped
  <2> QED BY <1>11, <2>1, <2>2, <2>3 DEF EndRound
<1>12. CASE RunCommand(j)
  <2>1. db' = db \/ db' = [db EXCEPT !.frozen = TRUE, !.place = FALSE]
        BY <1>12 DEF RunCommand
  <2>2. db' \in Databases
        BY <1>0, <2>1, FrozenEffect DEF DataTyped
  <2> QED BY <1>0, <1>12, <2>2 DEF RunCommand, DataTyped
<1> QED BY <1>1, <1>2, <1>3, <1>4, <1>5, <1>6, <1>7, <1>8, <1>9, <1>10, <1>11, <1>12

LEMMA DataStep ==
  ASSUME ControlInv, [Next]_vars
  PROVE  DataTyped'
<1>0. TypeOK /\ DataTyped
      BY TypedParts DEF ControlInv
<1>1. CASE UNCHANGED vars
      BY <1>0, <1>1 DEF vars, DataTyped
<1>2. CASE Publish
      BY <1>0, <1>2, BoundsTyped DEF Publish, DataTyped, Diffs
<1>3. ASSUME NEW j \in Jobs, Arm(j) PROVE DataTyped'
      BY <1>0, <1>3, EmptyTyped DEF Arm, DataTyped
<1>4. ASSUME NEW j \in Jobs, Kill(j) PROVE DataTyped'
  <2>1. budget' \in [kills : 0..MaxKills, failures : 0..MaxFailures]
        BY <1>0, <1>4, BudgetEffect DEF Kill
  <2> QED BY <1>0, <1>4, <2>1 DEF Kill, DataTyped
<1>5. ASSUME NEW j \in Jobs, Prepare(j) PROVE DataTyped'
      BY <1>0, <1>5 DEF Prepare, DataTyped
<1>6. ASSUME NEW j \in Jobs, ImportTrace(j) \/ PodStep(j) PROVE DataTyped'
      BY <1>5, <1>6, ImportDataTyped, OtherDataTyped DEF PodStep
<1> QED BY <1>1, <1>2, <1>3, <1>4, <1>6 DEF Next

-----------------------------------------------------------------------------
(* Pods run the scripts of their Jobs, and write-heavy Jobs run alone.     *)

\* Nobody else is active beside an active write-heavy Job.
LEMMA HeavyAlone ==
  ASSUME ControlInv, NEW j \in Jobs, NEW k \in Jobs, j # k, job[j] = "active",
         Type(j) \in {"Bootstrap", "AddRegions", "Rebuild", "Migrate", "Freeze"}
  PROVE  job[k] # "active" /\ pod[k] = NoPod
<1>1. WP!operationsMutexConflict(j, k)
      BY DEF WP!operationsMutexConflict, WP!isWriteHeavyOperation, Type
<1>2. job[k] # "active"
      BY <1>1 DEF ControlInv, Exclusive
<1> QED BY <1>2, ControlFacts

\* Nor does a write-heavy one beside another.
LEMMA OthersLight ==
  ASSUME ControlInv, NEW j \in Jobs, NEW k \in Jobs, j # k, job[j] = "active", job[k] = "active"
  PROVE  Type(k) \in {"Update", "CatchUp", "Refresh"} /\ Type(j) \in {"Update", "CatchUp", "Refresh"}
BY HeavyAlone, TypesImplemented

LEMMA ScriptKept ==
  ASSUME ControlInv, NEW j \in Jobs, PodsTyped', Others(j), ScriptOK(j)', job[j] = "active"
  PROVE  Exclusive' /\ \A k \in Jobs : ScriptOK(k)'
<1>1. ASSUME NEW k \in Jobs PROVE ScriptOK(k)'
  <2>1. CASE k = j
        BY <2>1
  <2>2. CASE k # j
    <3>1. pod'[k] = pod[k] /\ job'[k] = job[k] /\ ScriptOK(k)
          BY <2>2, ControlFacts DEF Others
    <3> QED BY <3>1 DEF ScriptOK, At, Type, Importer, InLoop
  <2> QED BY <2>1, <2>2
<1>2. \A k \in Jobs : job'[k] = "active" => job[k] = "active"
      BY DEF Others
<1>3. Exclusive'
      BY <1>2 DEF ControlInv, Exclusive, WP!operationsMutexConflict
<1> QED BY <1>1, <1>3

LEMMA DiedScript ==
  ASSUME NEW j \in Jobs, Died(j), job[j] = "active"
  PROVE  ScriptOK(j)'
<1>1. CASE job'[j] = "Failed" /\ pod'[j] = NoPod
      BY <1>1, NoPodTyped DEF ScriptOK, At, ImportCommands, AddCommands, RoundCommands, LoopCommands
<1>2. CASE job'[j] = job[j] /\ pod'[j].pc = "prepare" /\ pod'[j].at = 1 /\ pod'[j].stage = 1
      BY <1>2 DEF ScriptOK, At, ImportCommands, AddCommands, RoundCommands, LoopCommands
<1> QED BY <1>1, <1>2 DEF Died

LEMMA EndedScript ==
  ASSUME NEW j \in Jobs, job'[j] = "Complete", pod'[j] = NoPod
  PROVE  ScriptOK(j)'
BY NoPodTyped DEF ScriptOK, At, ImportCommands, AddCommands, RoundCommands, LoopCommands

\* Where a live pod is next.
LEMMA MovedScript ==
  ASSUME NEW j \in Jobs, job'[j] = "active", pod'[j].pc # "none",
         \/ pod'[j].pc = "prepare" /\ pod'[j].stage = 1
         \/ pod'[j].pc = "clear" /\ Type(j) = "Rebuild" /\ pod'[j].stage = 1
         \/ pod'[j].pc \in {"bootstrap", "download"} /\ Importer(j) /\ pod'[j].stage = 1
         \/ pod'[j].pc \in {"import", "truncate", "record", "check", "finish"} /\ Importer(j)
         \/ pod'[j].pc = "seed" /\ Importer(j) /\ InLoop(j)'
         \/ pod'[j].pc = "curl" /\ Importer(j) /\ InLoop(j)' /\ pod'[j].stage = 1
         \/ pod'[j].pc = "curl" /\ Type(j) = "AddRegions" /\ InLoop(j)'
         \/ pod'[j].pc = "ready" /\ ~Importer(j)
         \/ pod'[j].pc \in {"add", "index"} /\ Type(j) = "AddRegions"
         \/ pod'[j].pc \in {"add-data", "add-seed", "append"} /\ Type(j) = "AddRegions" /\ InLoop(j)'
         \/ pod'[j].pc \in {"round", "update", "end-round"} /\ Type(j) \in {"Update", "CatchUp"}
         \/ pod'[j].pc = "apply" /\ Type(j) \in {"Update", "CatchUp"} /\ InLoop(j)'
         \/ pod'[j].pc = "command" /\ Type(j) \in {"Refresh", "Migrate", "Freeze"}
  PROVE  ScriptOK(j)'
BY DEF ScriptOK, At, Type, Importer, ImportCommands, AddCommands, RoundCommands, LoopCommands

LEMMA ControlKept ==
  ASSUME ControlInv, NEW j \in Jobs, Kill(j) \/ PodStep(j)
  PROVE  PodsTyped' /\ Others(j) /\ ScriptOK(j)' /\ job[j] = "active"
<1> DEFINE Goal == PodsTyped' /\ Others(j) /\ ScriptOK(j)' /\ job[j] = "active"
<1>0. ScriptOK(j) /\ (pod[j].pc # "none" => job[j] = "active")
      BY ControlFacts
<1>1. CASE Kill(j)
      BY <1>0, <1>1, EndMoves, DiedScript DEF Kill
<1>2. CASE Prepare(j)
  <2>1. job[j] = "active" /\ pod[j].stage = 1
        BY <1>0, <1>2 DEF Prepare, At, ScriptOK
  <2> QED BY <1>2, <2>1, PrepareMoves, MovedScript DEF Kept, Importer
<1>3. CASE ClearMarkers(j)
  <2>1. job[j] = "active" /\ pod[j].stage = 1 /\ Importer(j)
        BY <1>0, <1>3 DEF ClearMarkers, At, ScriptOK, Importer
  <2> QED BY <1>3, <2>1, ClearMoves, MovedScript DEF Kept
<1>4. CASE BootstrapStart(j)
  <2>1. job[j] = "active" /\ pod[j].stage = 1 /\ Importer(j)
        BY <1>0, <1>4 DEF BootstrapStart, At, ScriptOK, ImportCommands
  <2>2. PICK yes \in SUBSET Answers : StartedBy(j, yes)
        BY <1>4, StartMoves
  <2>3. ScriptOK(j)'
        BY <2>1, <2>2, MovedScript, DiedScript DEF StartedBy, Kept
  <2> QED BY <1>4, <2>1, <2>3, StartMoves
<1>5. CASE Download(j)
  <2>1. job[j] = "active" /\ pod[j].stage = 1 /\ Importer(j)
        BY <1>0, <1>5 DEF Download, At, ScriptOK, ImportCommands
  <2>2. PodsTyped' /\ Others(j) /\ job'[j] = "active"
        BY <1>5, <2>1, DownloadMoves
  <2>3. pod'[j].pc = "curl" => InLoop(j)'
        BY <1>5, DownloadMoves DEF InLoop
  <2> QED BY <1>5, <2>1, <2>2, <2>3, DownloadMoves, MovedScript
<1>6. CASE Curl(j)
  <2>1. job[j] = "active" /\ (Importer(j) => pod[j].stage = 1)
        BY <1>0, <1>6 DEF Curl, At, ScriptOK
  <2>2. PodsTyped' /\ Others(j) /\ job'[j] = "active"
        BY <1>6, <2>1, CurlMoves
  <2>3. pod'[j].pc = "add-data" => InLoop(j)'
        BY <1>6, CurlMoves DEF InLoop
  <2> QED BY <1>6, <2>1, <2>2, <2>3, CurlMoves, MovedScript
<1>7. CASE Import(j)
  <2>1. job[j] = "active" /\ Importer(j)
        BY <1>0, <1>7 DEF Import, At, ScriptOK, ImportCommands
  <2> QED BY <1>7, <2>1, ImportMoves, MovedScript, DiedScript DEF Kept
<1>8. CASE TruncateList(j)
  <2>1. job[j] = "active" /\ Importer(j)
        BY <1>0, <1>8 DEF TruncateList, At, ScriptOK, ImportCommands
  <2> QED BY <1>8, <2>1, RecordMoves, MovedScript
<1>9. CASE RecordRegion(j)
  <2>1. job[j] = "active" /\ Importer(j)
        BY <1>0, <1>9 DEF RecordRegion, At, ScriptOK, ImportCommands
  <2>2. PodsTyped' /\ Others(j) /\ job'[j] = "active"
        BY <1>9, <2>1, RecordMoves DEF Kept
  <2>3. pod'[j].pc = "seed" => InLoop(j)'
        BY <1>9, RecordMoves DEF InLoop, Kept
  <2> QED BY <1>9, <2>1, <2>2, <2>3, RecordMoves, MovedScript
<1>10. CASE SeedRecorded(j)
  <2>1. job[j] = "active" /\ Importer(j)
        BY <1>0, <1>10 DEF SeedRecorded, At, ScriptOK, ImportCommands
  <2> QED BY <1>10, <2>1, RecordMoves, MovedScript
<1>11. CASE CheckDatabase(j)
  <2>1. job[j] = "active" /\ Importer(j)
        BY <1>0, <1>11 DEF CheckDatabase, At, ScriptOK, ImportCommands
  <2> QED BY <1>11, <2>1, RecordMoves, MovedScript DEF Kept
<1>12. CASE finish_bootstrap(j)
  <2>1. job[j] = "active"
        BY <1>0, <1>12 DEF finish_bootstrap, At, ScriptOK
  <2> QED BY <1>12, <2>1, FinishMoves, EndedScript, DiedScript
<1>13. CASE RequireBootstrapReady(j)
  <2>1. job[j] = "active"
        BY <1>0, <1>13 DEF RequireBootstrapReady, At, ScriptOK
  <2> QED BY <1>13, <2>1, ReadyMoves, MovedScript, DiedScript DEF Kept
<1>14. CASE AddRegion(j)
  <2>1. job[j] = "active" /\ Type(j) = "AddRegions"
        BY <1>0, <1>14 DEF AddRegion, At, ScriptOK, AddCommands
  <2>2. PodsTyped' /\ Others(j) /\ job'[j] = "active"
        BY <1>14, <2>1, AddMoves
  <2>3. pod'[j].pc \in {"add-data", "curl"} => InLoop(j)'
        BY <1>14, AddMoves DEF InLoop
  <2> QED BY <1>14, <2>1, <2>2, <2>3, AddMoves, MovedScript
<1>15. CASE AddExtract(j)
  <2>1. job[j] = "active" /\ Type(j) = "AddRegions"
        BY <1>0, <1>15 DEF AddExtract, At, ScriptOK, AddCommands
  <2>2. pod'[j].pc = "add-seed" => InLoop(j)'
        BY <1>15, ExtractMoves, NoPodTyped DEF InLoop, Died
  <2> QED BY <1>15, <2>1, <2>2, ExtractMoves, MovedScript, DiedScript
<1>16. CASE SeedAdded(j)
  <2>1. job[j] = "active" /\ Type(j) = "AddRegions"
        BY <1>0, <1>16 DEF SeedAdded, At, ScriptOK, AddCommands
  <2>2. InLoop(j)'
        BY <1>16, AddedMoves DEF InLoop, Kept
  <2> QED BY <1>16, <2>1, <2>2, AddedMoves, MovedScript DEF Kept
<1>17. CASE AppendRegion(j)
  <2>1. job[j] = "active" /\ Type(j) = "AddRegions"
        BY <1>0, <1>17 DEF AppendRegion, At, ScriptOK, AddCommands
  <2> QED BY <1>17, <2>1, AddedMoves, MovedScript
<1>18. CASE IndexAdded(j)
  <2>1. job[j] = "active"
        BY <1>0, <1>18 DEF IndexAdded, At, ScriptOK
  <2> QED BY <1>18, <2>1, AddedMoves, EndedScript
<1>19. CASE StartRound(j)
  <2>1. job[j] = "active" /\ Type(j) \in {"Update", "CatchUp"}
        BY <1>0, <1>19 DEF StartRound, At, ScriptOK, RoundCommands
  <2> QED BY <1>19, <2>1, RoundMoves, MovedScript, DiedScript
<1>20. CASE UpdateRegion(j)
  <2>1. job[j] = "active" /\ Type(j) \in {"Update", "CatchUp"}
        BY <1>0, <1>20 DEF UpdateRegion, At, ScriptOK, RoundCommands
  <2> QED BY <1>20, <2>1, UpdateMoves, MovedScript
<1>21. CASE GetChanges(j)
  <2>1. job[j] = "active" /\ Type(j) \in {"Update", "CatchUp"}
        BY <1>0, <1>21 DEF GetChanges, At, ScriptOK, RoundCommands
  <2>2. pod'[j].pc = "apply" => InLoop(j)'
        BY <1>21, ChangesMoves DEF InLoop
  <2> QED BY <1>21, <2>1, <2>2, ChangesMoves, MovedScript
<1>22. CASE ApplyChanges(j)
  <2>1. job[j] = "active" /\ Type(j) \in {"Update", "CatchUp"}
        BY <1>0, <1>22 DEF ApplyChanges, At, ScriptOK, RoundCommands
  <2> QED BY <1>22, <2>1, ApplyMoves, MovedScript
<1>23. CASE EndRound(j)
  <2>1. job[j] = "active"
        BY <1>0, <1>23 DEF EndRound, At, ScriptOK
  <2> QED BY <1>23, <2>1, EndMoves, MovedScript, EndedScript
<1>24. CASE RunCommand(j)
  <2>1. job[j] = "active"
        BY <1>0, <1>24 DEF RunCommand, At, ScriptOK
  <2> QED BY <1>24, <2>1, EndMoves, EndedScript, DiedScript
<1> QED
  BY <1>1, <1>2, <1>3, <1>4, <1>5, <1>6, <1>7, <1>8, <1>9, <1>10, <1>11, <1>12, <1>13, <1>14, <1>15,
     <1>16, <1>17, <1>18, <1>19, <1>20, <1>21, <1>22, <1>23, <1>24 DEF PodStep

LEMMA ControlStep == ControlInv /\ [Next]_vars => ControlInv'
<1> SUFFICES ASSUME ControlInv, [Next]_vars PROVE ControlInv'
    OBVIOUS
<1>0. DataTyped'
      BY DataStep
<1>s. ASSUME pod' = pod, job' = job PROVE ControlInv'
  <2>1. PodsTyped'
        BY <1>s, TypedParts DEF ControlInv, PodsTyped
  <2>2. Exclusive' /\ \A k \in Jobs : ScriptOK(k)'
        BY <1>s DEF ControlInv, Exclusive, WP!operationsMutexConflict, ScriptOK, At, Type, Importer, InLoop
  <2>3. TypeOK'
        BY <1>0, <2>1 DEF TypeOK, DataTyped, PodsTyped
  <2> QED BY <2>2, <2>3 DEF ControlInv
<1>1. CASE UNCHANGED vars
      BY <1>1, <1>s DEF vars
<1>2. CASE Publish
      BY <1>2, <1>s DEF Publish
<1>3. ASSUME NEW j \in Jobs, ImportTrace(j) PROVE ControlInv'
  <2>1. UNCHANGED <<head, project, staging, job, pod, misread, budget>>
        BY <1>3, Zenon DEF ImportTrace
  <2> QED BY <1>s, <2>1
<1>4. ASSUME NEW j \in Jobs, Arm(j) PROVE ControlInv'
  <2>1. /\ PodsTyped' /\ Others(j) /\ job'[j] = "active"
        /\ pod'[j].pc = "prepare" /\ pod'[j].at = 1 /\ pod'[j].stage = 1
        BY <1>4, ArmMoves
  <2>2. ScriptOK(j)'
        BY <2>1, MovedScript
  <2>3. ASSUME NEW k \in Jobs PROVE ScriptOK(k)'
    <3>1. CASE k # j
      <4>1. pod'[k] = pod[k] /\ job'[k] = job[k] /\ ScriptOK(k)
            BY <2>1, <3>1, ControlFacts DEF Others
      <4> QED BY <4>1 DEF ScriptOK, At, Type, Importer, InLoop
    <3> QED BY <2>2, <3>1
  <2>4. Exclusive'
    <3>1. \A k \in Jobs : WP!operationsMutexConflict(j, k) => job[k] # "active"
          BY <1>4 DEF Arm
    <3>2. \A k \in Jobs : k # j => job'[k] = job[k]
          BY <2>1 DEF Others
    <3>3. ASSUME NEW k \in Jobs, NEW l \in Jobs, WP!operationsMutexConflict(k, l)
          PROVE  ~(job'[k] = "active" /\ job'[l] = "active")
      <4>1. k # l
            BY <3>3 DEF WP!operationsMutexConflict
      <4>2. WP!operationsMutexConflict(l, k)
            BY <3>3 DEF WP!operationsMutexConflict
      <4>3. CASE k # j /\ l # j
            BY <3>2, <3>3, <4>3 DEF ControlInv, Exclusive
      <4> QED BY <3>1, <3>2, <3>3, <4>1, <4>2, <4>3
    <3> QED BY <3>3 DEF Exclusive, WP!operationsMutexConflict
  <2>5. TypeOK'
        BY <1>0, <2>1 DEF TypeOK, DataTyped, PodsTyped
  <2> QED BY <2>3, <2>4, <2>5 DEF ControlInv
<1>5. ASSUME NEW j \in Jobs, Kill(j) \/ PodStep(j) PROVE ControlInv'
  <2>1. PodsTyped' /\ Exclusive' /\ \A k \in Jobs : ScriptOK(k)'
        BY <1>5, ControlKept, ScriptKept
  <2>2. TypeOK'
        BY <1>0, <2>1 DEF TypeOK, DataTyped, PodsTyped
  <2> QED BY <2>1, <2>2 DEF ControlInv
<1> QED BY <1>1, <1>2, <1>3, <1>4, <1>5 DEF Next

LEMMA ControlInit == Init => ControlInv
<1> SUFFICES ASSUME Init PROVE ControlInv
    OBVIOUS
<1>1. PICK plan \in Plans : job = [j \in Jobs |-> IF j \in plan THEN "none" ELSE "unplanned"]
      BY DEF Init
<1>2. DataTyped
      BY EmptyTyped, BoundsTyped DEF Init, DataTyped, Diffs
<1>3. PodsTyped
      BY <1>1, NoPodTyped, RegionTyped DEF Init, PodsTyped
<1>4. \A j \in Jobs : job[j] # "active" /\ pod[j] = NoPod
      BY <1>1 DEF Init
<1>5. Exclusive
      BY <1>4 DEF Exclusive
<1>6. \A j \in Jobs : ScriptOK(j)
      BY <1>4, NoPodTyped DEF ScriptOK, At, ImportCommands, AddCommands, RoundCommands, LoopCommands
<1> QED BY <1>2, <1>3, <1>5, <1>6, TypedParts DEF ControlInv

(* Every variable keeps its type, whichever pods are killed and restarted: *)
(* the scripts never leave the list of regions, no Job starts more pods    *)
(* than its backoffLimit allows and CatchUp runs at most its rounds.       *)
THEOREM WorkerTyped == Spec => []TypeOK
<1>1. ControlInv => TypeOK
      BY DEF ControlInv
<1> QED BY <1>1, ControlInit, ControlStep, PTL DEF Spec

-----------------------------------------------------------------------------
(* The schema and the bookmarks.                                           *)

\* Scripts other than bootstrap.sh and rebuild.sh.
OtherStep(j) ==
  \/ RequireBootstrapReady(j) \/ AddRegion(j) \/ AddExtract(j) \/ SeedAdded(j) \/ AppendRegion(j)
  \/ IndexAdded(j) \/ StartRound(j) \/ UpdateRegion(j) \/ GetChanges(j) \/ ApplyChanges(j)
  \/ EndRound(j) \/ RunCommand(j)

\* What they never do: the schema, the stages that are done and the marker stay.
Quiet ==
  /\ db'.placex = db.placex /\ db'.version = db.version /\ db'.rows = db.rows
  /\ db'.indexed = db.indexed /\ db'.done = db.done /\ db'.given = db.given
  /\ db'.place = db.place \/ (~db'.place /\ project.finished)
  /\ db'.pending = db.pending \/ project.finished
  /\ \A r \in RegionPaths : db.data[r] \subseteq db'.data[r]
  /\ project.finished => project'.finished
  /\ project'.finished => project.finished \/ import_schema_ready
  /\ project.listed => project'.listed

LEMMA AddDataQuiet ==
  ASSUME TypeOK, NEW r \in RegionPaths, NEW d \in SUBSET Diffs, db' = AddData(r, d) \/ db' = db,
         project' = project, project.finished
  PROVE  Quiet
<1>1. CASE db' = db
      BY <1>1 DEF Quiet
<1>2. CASE db' = AddData(r, d)
  <2>1. /\ db'.place = db.place /\ db'.placex = db.placex /\ db'.rows = db.rows
        /\ db'.version = db.version /\ db'.indexed = db.indexed /\ db'.done = db.done
        /\ db'.given = db.given
        BY <1>2, AddDataEffect
  <2>2. \A x \in RegionPaths : db'.data[x] = IF x = r THEN db.data[x] \union d ELSE db.data[x]
        BY <1>2, AddDataEffect
  <2>3. \A x \in RegionPaths : db.data[x] \subseteq db'.data[x]
        BY <2>2
  <2> QED BY <2>1, <2>3 DEF Quiet
<1> QED BY <1>1, <1>2

LEMMA OtherQuiet ==
  ASSUME ControlInv, NEW j \in Jobs, SchemaAt(j), OtherStep(j)
  PROVE  Quiet
<1>0. TypeOK /\ (pod[j].pc \in LoopCommands => InLoop(j)) /\ (InLoop(j) => Region(j) \in RegionPaths)
      BY ControlFacts, RegionInLoop
<1>1. db \in Databases /\ project \in Projects /\ staging[j] \in Stagings
      BY <1>0 DEF TypeOK
<1>f. pod[j].pc \in ReadyCommands => project.finished
      BY DEF SchemaAt
<1>2. CASE RequireBootstrapReady(j)
  <2>1. db' = db
        BY <1>2 DEF RequireBootstrapReady
  <2>2. project' = project \/ ((project.finished \/ import_schema_ready) /\
           project' = [project EXCEPT !.finished = TRUE, !.listed = @ \/ Type(j) = "AddRegions"])
        BY <1>2, ReadyMoves
  <2>3. /\ project.finished => project'.finished
        /\ project'.finished => project.finished \/ import_schema_ready
        /\ project.listed => project'.listed
        BY <1>1, <2>2 DEF Projects
  <2> QED BY <2>1, <2>3 DEF Quiet
<1>3. CASE AddRegion(j)
      BY <1>3 DEF AddRegion, Quiet
<1>4. CASE AddExtract(j)
  <2>1. project' = project /\ project.finished
        BY <1>4, <1>f DEF AddExtract, At, ReadyCommands, AddCommands
  <2>2. Region(j) \in RegionPaths
        BY <1>0, <1>4, ExtractMoves
  <2>3. PICK d \in SUBSET Diffs : d = 1..staging[j].whole[Region(j)]
        BY <1>1, <2>2, BoundsTyped DEF Stagings, Diffs
  <2>4. db' = db \/ db' = AddData(Region(j), d)
        BY <1>4, <2>3, ExtractMoves
  <2> QED BY <1>0, <2>1, <2>2, <2>4, AddDataQuiet
<1>5. CASE SeedAdded(j)
  <2>1. InLoop(j) /\ seed_region_state(project, Region(j)) /\ db' = db
        BY <1>5, AddedMoves DEF SeedAdded
  <2> QED BY <1>0, <1>1, <2>1, SeedEffect DEF Quiet
<1>6. CASE AppendRegion(j)
  <2>1. project' = [project EXCEPT !.list = @ \union {Region(j)}] /\ db' = db
        BY <1>6 DEF AppendRegion
  <2>2. project'.finished = project.finished /\ project'.listed = project.listed
        BY <1>1, <2>1 DEF Projects
  <2> QED BY <2>1, <2>2 DEF Quiet
<1>7. CASE IndexAdded(j)
  <2>1. PICK b \in BOOLEAN : b = (db.pending /\ ~pod[j].changed)
        OBVIOUS
  <2>2. db' = [db EXCEPT !.pending = b] /\ project' = project /\ project.finished
        BY <1>7, <1>f, <2>1 DEF IndexAdded, At, ReadyCommands, AddCommands
  <2> QED BY <1>0, <2>2, PendingEffect DEF Quiet
<1>8. CASE StartRound(j)
  <2>1. db' = db
        BY <1>8 DEF StartRound
  <2>2. CASE project' = project
        BY <2>1, <2>2 DEF Quiet
  <2>3. ASSUME seed_region_state([project EXCEPT !.listed = TRUE, !.list = {OpRegions[j][1]}], OpRegions[j][1])
        PROVE  Quiet
    <3>1. Type(j) \in {"Update", "CatchUp"}
          BY <1>8, ControlFacts DEF StartRound, At, ScriptOK, RoundCommands
    <3>2. OpRegions[j][1] \in RegionPaths
          BY <3>1, TypesImplemented, RegionTyped
    <3>3. PICK p : p = [project EXCEPT !.listed = TRUE, !.list = {OpRegions[j][1]}]
          OBVIOUS
    <3>4. p \in Projects /\ p.finished = project.finished /\ p.listed
          BY <1>1, <3>2, <3>3 DEF Projects
    <3>5. seed_region_state(p, OpRegions[j][1])
          BY <2>3, <3>3
    <3> QED BY <1>0, <2>1, <3>2, <3>4, <3>5, SeedEffect DEF Quiet
  <2> QED BY <1>8, <2>2, <2>3, RoundMoves
<1>9. CASE UpdateRegion(j)
  <2>1. db' = db
        BY <1>9 DEF UpdateRegion
  <2>2. CASE project' = project
        BY <2>1, <2>2 DEF Quiet
  <2>3. CASE InLoop(j) /\ seed_region_state(project, Region(j))
        BY <1>0, <1>1, <2>1, <2>3, SeedEffect DEF Quiet
  <2> QED BY <1>9, <2>2, <2>3, UpdateMoves
<1>10. CASE GetChanges(j)
  <2>1. db' = db
        BY <1>10 DEF GetChanges
  <2>2. head \in 0..MaxHead
        BY <1>0 DEF TypeOK, Diffs
  <2> QED BY <1>0, <1>1, <1>10, <2>1, <2>2, ChangesMoves, SetCursorEffect DEF Quiet
<1>11. CASE ApplyChanges(j)
  <2>1. project' = project /\ project.finished
        BY <1>11, <1>f DEF ApplyChanges, At, ReadyCommands, RoundCommands
  <2>2. Region(j) \in RegionPaths /\ pod[j].diff \in SUBSET Diffs
        BY <1>0, <1>11, ApplyMoves
  <2>3. db' = db \/ db' = AddData(Region(j), pod[j].diff)
        BY <1>11 DEF ApplyChanges
  <2> QED BY <1>0, <2>1, <2>2, <2>3, AddDataQuiet
<1>12. CASE EndRound(j)
  <2>1. PICK b \in BOOLEAN : b = (db.pending /\ ~pod[j].changed)
        OBVIOUS
  <2>2. (db' = db \/ db' = [db EXCEPT !.pending = b]) /\ project' = project /\ project.finished
        BY <1>12, <1>f, <2>1 DEF EndRound, At, ReadyCommands, RoundCommands
  <2> QED BY <1>0, <2>2, PendingEffect DEF Quiet
<1>13. CASE RunCommand(j)
  <2>1. (db' = db \/ db' = [db EXCEPT !.frozen = TRUE, !.place = FALSE]) /\ project' = project /\ project.finished
        BY <1>13, <1>f DEF RunCommand, At, ReadyCommands
  <2> QED BY <1>0, <2>1, FrozenEffect DEF Quiet
<1> QED BY <1>2, <1>3, <1>4, <1>5, <1>6, <1>7, <1>8, <1>9, <1>10, <1>11, <1>12, <1>13 DEF OtherStep

LEMMA SchemaOthers ==
  ASSUME ControlInv, NEW j \in Jobs, NEW k \in Jobs, k # j, job[j] = "active", Others(j), SchemaAt(k),
         Importer(j) \/ (project.finished => project'.finished)
  PROVE  SchemaAt(k)'
<1>1. pod'[k] = pod[k] /\ job'[k] = job[k]
      BY DEF Others
<1>2. CASE job[k] # "active"
  <2>1. pod'[k].pc = "none" /\ job'[k] # "active"
        BY <1>1, <1>2, ControlFacts, NoPodTyped
  <2> QED BY <2>1 DEF SchemaAt, At, ReadyCommands, AddCommands, RoundCommands
<1>3. CASE job[k] = "active"
  <2>1. ~Importer(j) /\ ~Importer(k) /\ Type(k) # "Rebuild"
        BY <1>3, OthersLight DEF Importer
  <2>2. pod[k].pc \notin ImportCommands /\ ScriptOK(k)
        BY <2>1, ControlFacts DEF ScriptOK
  <2>3. pod[k].pc \in ReadyCommands \/ (At(k, "curl") /\ ~Importer(k)) => project'.finished
        BY <2>1 DEF SchemaAt
  <2> QED BY <1>1, <2>1, <2>2, <2>3 DEF SchemaAt, At, ImportCommands, Importer, Type
<1> QED BY <1>2, <1>3

\* A pod that is replaced knows nothing.
LEMMA DiedSchema ==
  ASSUME NEW j \in Jobs, Died(j), db' = db, SchemaAt(j)
  PROVE  SchemaAt(j)'
<1>1. /\ pod'[j].pc \in {"none", "prepare"} /\ (job'[j] = "active" => job[j] = "active")
      BY NoPodTyped DEF Died
<1> QED BY <1>1 DEF SchemaAt, At, ReadyCommands, AddCommands, RoundCommands, Type

\* Nor does a pod before its script looks.
LEMMA FreshSchema ==
  ASSUME NEW j \in Jobs, pod'[j].pc \in {"none", "prepare", "clear", "bootstrap", "ready"},
         Type(j) = "Rebuild" /\ job'[j] = "active" => (db'.version => db'.place)
  PROVE  SchemaAt(j)'
BY DEF SchemaAt, At, ReadyCommands, AddCommands, RoundCommands, Type

\* Beside a step of an active Job nobody else is about to drop the database.
LEMMA OthersStay ==
  ASSUME ControlInv, NEW j \in Jobs, NEW k \in Jobs, k # j, job[j] = "active", Others(j)
  PROVE  ~StartsOver(k)'
<1>1. pod'[k] = pod[k]
      BY DEF Others
<1>2. ~Importer(k) \/ pod[k].pc = "none"
      BY HeavyAlone, ControlFacts, NoPodTyped DEF Importer
<1>3. pod[k].pc \notin {"download", "import"} /\ ~(At(k, "curl") /\ Importer(k))
      BY <1>2, ControlFacts DEF ScriptOK, ImportCommands, At
<1> QED BY <1>1, <1>3 DEF StartsOver, At, Importer, Type

\* What a step of one pod has to respect.
LEMMA SchemaKept ==
  ASSUME ControlInv, SchemaInv, NEW j \in Jobs, job[j] = "active", Others(j),
         Importer(j) \/ (project.finished => project'.finished),
         SchemaAt(j)', db'.version => db'.placex,
         Answered(SchemaProbes)' =>
           /\ (import_schema_ready /\ ~db.place => project.finished)'
           /\ StartsOver(j)' => ~db'.version
  PROVE  SchemaInv'
<1>1. \A k \in Jobs : SchemaAt(k)'
      BY SchemaOthers DEF SchemaInv
<1>2. Answered(SchemaProbes)' => \A k \in Jobs : StartsOver(k)' => ~db'.version
      BY OthersStay
<1> QED BY <1>1, <1>2 DEF SchemaInv

\* Queries are made when bootstrap.sh starts.
LEMMA MisreadKept ==
  ASSUME NEW j \in Jobs, Kill(j) \/ ImportTrace(j) \/ PodStep(j), ~BootstrapStart(j)
  PROVE  misread' = misread
<1>1. CASE ImportTrace(j)
      BY <1>1, Zenon DEF ImportTrace
<1>2. CASE \/ Kill(j) \/ Prepare(j) \/ ClearMarkers(j) \/ Download(j) \/ Curl(j) \/ Import(j) \/ TruncateList(j)
           \/ RecordRegion(j) \/ SeedRecorded(j) \/ CheckDatabase(j) \/ finish_bootstrap(j)
      BY <1>2 DEF Kill, Prepare, ClearMarkers, Download, Curl, Import, TruncateList, RecordRegion, SeedRecorded,
         CheckDatabase, finish_bootstrap
<1>3. CASE OtherStep(j)
      BY <1>3 DEF OtherStep, RequireBootstrapReady, AddRegion, AddExtract, SeedAdded, AppendRegion, IndexAdded,
         StartRound, UpdateRegion, GetChanges, ApplyChanges, EndRound, RunCommand
<1> QED BY <1>1, <1>2, <1>3 DEF PodStep, OtherStep

\* A failed query is forgotten when the database is emptied.
LEMMA AnsweredBefore ==
  ASSUME ControlInv, [Next]_vars, NEW queries, Answered(queries)'
  PROVE  Answered(queries) \/ \E j \in Jobs : Arm(j) /\ Type(j) = "Rebuild"
<1>1. ASSUME misread \subseteq misread' PROVE Answered(queries)
      BY <1>1 DEF Answered
<1>2. CASE UNCHANGED vars \/ Publish
      BY <1>1, <1>2 DEF vars, Publish
<1>3. ASSUME NEW j \in Jobs, Arm(j), Type(j) # "Rebuild" PROVE Answered(queries)
      BY <1>1, <1>3 DEF Arm
<1>4. ASSUME NEW j \in Jobs, BootstrapStart(j) PROVE Answered(queries)
  <2>1. PICK yes \in SUBSET Answers : Misread(Answers \ yes)
        BY <1>4, StartMoves
  <2> QED BY <1>1, <2>1, NoHolds
<1>5. ASSUME NEW j \in Jobs, Kill(j) \/ ImportTrace(j) \/ PodStep(j), ~BootstrapStart(j) PROVE Answered(queries)
      BY <1>1, <1>5, MisreadKept
<1> QED BY <1>2, <1>3, <1>4, <1>5 DEF Next

LEMMA OtherSchema ==
  ASSUME ControlInv, SchemaInv, NEW j \in Jobs, OtherStep(j)
  PROVE  SchemaInv'
<1>0. Quiet
      BY OtherQuiet DEF SchemaInv
<1>1. Others(j) /\ job[j] = "active" /\ ScriptOK(j)'
      BY ControlKept DEF OtherStep, PodStep
<1>2. /\ ~Importer(j) /\ pod[j].pc \in ReadyCommands \union {"ready"}
      BY ControlFacts DEF OtherStep, ScriptOK, At, Importer, ReadyCommands, AddCommands, RoundCommands,
         RequireBootstrapReady, AddRegion, AddExtract, SeedAdded, AppendRegion, IndexAdded, StartRound,
         UpdateRegion, GetChanges, ApplyChanges, EndRound, RunCommand
<1>3. pod'[j].pc \in ReadyCommands \union {"curl"} => project'.finished
  <2>1. CASE pod[j].pc \in ReadyCommands
        BY <1>0, <2>1 DEF Quiet, SchemaInv, SchemaAt
  <2>2. CASE pod[j].pc = "ready"
    <3>1. RequireBootstrapReady(j)
          BY <2>2 DEF OtherStep, At, AddRegion, AddExtract, SeedAdded, AppendRegion, IndexAdded, StartRound,
             UpdateRegion, GetChanges, ApplyChanges, EndRound, RunCommand
    <3>2. \/ project' = [project EXCEPT !.finished = TRUE, !.listed = @ \/ Type(j) = "AddRegions"]
          \/ Died(j)
          BY <3>1, ReadyMoves
    <3>3. CASE project' = [project EXCEPT !.finished = TRUE, !.listed = @ \/ Type(j) = "AddRegions"]
          BY <3>3, ControlFacts DEF TypeOK, Projects
    <3>4. CASE Died(j)
          BY <3>4, NoPodTyped DEF Died, ReadyCommands, AddCommands, RoundCommands
    <3> QED BY <3>2, <3>3, <3>4
  <2> QED BY <1>2, <2>1, <2>2
<1>4. SchemaAt(j)'
  <2>1. Type(j) # "Rebuild"
        BY <1>2 DEF Importer
  <2>2. ~(pod'[j].pc \in ImportCommands) /\ ~(At(j, "curl") /\ Importer(j))'
        BY <1>1, <1>2 DEF ScriptOK, Importer, Type
  <2> QED BY <1>3, <2>1, <2>2 DEF SchemaAt, At, ImportCommands, Type, Importer
<1>5. ~StartsOver(j)'
      BY <1>1, <1>2 DEF ScriptOK, StartsOver, ImportCommands, At, Importer, Type
<1>6. /\ db.version => db.placex
      /\ Answered(SchemaProbes) => (import_schema_ready /\ ~db.place => project.finished)
      BY DEF SchemaInv
<1>7. misread' = misread
      BY MisreadKept DEF OtherStep, PodStep, BootstrapStart, At, ReadyCommands, AddCommands, RoundCommands,
         RequireBootstrapReady, AddRegion, AddExtract, SeedAdded, AppendRegion, IndexAdded, StartRound,
         UpdateRegion, GetChanges, ApplyChanges, EndRound, RunCommand
<1>8. Answered(SchemaProbes)' => (import_schema_ready /\ ~db.place => project.finished)'
      BY <1>0, <1>6, <1>7 DEF Quiet, import_schema_ready, Answered
<1>9. (db'.version => db'.placex) /\ (project.finished => project'.finished)
      BY <1>0, <1>6 DEF Quiet
<1> QED BY <1>1, <1>4, <1>5, <1>8, <1>9, SchemaKept

\* The stage that is detected, and what the marker is then.
LEMMA StartSchema ==
  ASSUME ControlInv, SchemaInv, NEW j \in Jobs, BootstrapStart(j)
  PROVE  SchemaInv'
<1>0. /\ db' = db /\ Others(j) /\ job[j] = "active" /\ Importer(j) /\ SchemaAt(j) /\ db \in Databases
      BY ControlKept, ControlFacts DEF BootstrapStart, PodStep, ScriptOK, At, ImportCommands, SchemaInv, TypeOK
<1>1. PICK yes \in SUBSET Answers :
        /\ Misread(Answers \ yes)
        /\ project' = [project EXCEPT !.finished = @ /\ "schema" \in yes]
        /\ StartedBy(j, yes)
      BY StartMoves
<1>2. project'.finished = (project.finished /\ "schema" \in yes)
      BY <1>1, ControlFacts DEF TypeOK, Projects
<1>3. /\ "schema" \in yes => import_schema_ready
      /\ ("place" \in yes => db.place) /\ ("placex" \in yes => db.placex) /\ ("rows" \in yes => db.rows)
      /\ "version" \in yes => db.version
      BY YesHolds
<1>4. Answered(SchemaProbes)' =>
        /\ ("schema" \in yes <=> import_schema_ready) /\ ("place" \in yes <=> db.place)
        /\ import_schema_ready /\ ~db.place => project.finished
  <2>1. Answered(SchemaProbes)' => Answered(SchemaProbes)
        BY <1>1, NoHolds DEF Answered
  <2> QED BY <1>1, <2>1, NoHolds DEF SchemaInv
<1>5. db.version => db.placex
      BY DEF SchemaInv
<1> DEFINE Goal == SchemaAt(j)' /\ (Answered(SchemaProbes)' /\ StartsOver(j)' => ~db'.version)
<1>6. Goal
  <2>1. CASE Died(j)
    <3>1. ~StartsOver(j)'
          BY <2>1, NoPodTyped DEF Died, StartsOver, At
    <3> QED BY <1>0, <2>1, <3>1, DiedSchema
  <2>2. CASE pod'[j].pc = "finish" /\ detect_continue_at(yes) = "done" /\ Kept(j)
    <3>1. import_schema_ready
          BY <1>3, <2>2 DEF detect_continue_at, import_schema_ready
    <3> QED BY <1>0, <2>2, <3>1
            DEF SchemaAt, StartsOver, At, import_schema_ready, ReadyCommands, AddCommands, RoundCommands, Type, Kept
  <2>3. CASE pod'[j].pc = "download" /\ job'[j] = job[j] /\ detect_continue_at(yes) = "import-from-file"
    <3>1. "place" \notin yes /\ ~(project.finished /\ "schema" \in yes)
          BY <2>3 DEF detect_continue_at
    <3>2. Answered(SchemaProbes)' => ~db.version
          BY <1>4, <1>5, <3>1 DEF import_schema_ready
    <3> QED BY <1>0, <1>2, <2>3, <3>1, <3>2
            DEF SchemaAt, StartsOver, At, ReadyCommands, AddCommands, RoundCommands, Type
  <2>4. CASE /\ pod'[j].pc = "import" /\ job'[j] = job[j]
             /\ \/ pod'[j].stage = 2 /\ detect_continue_at(yes) = "load-data"
                \/ pod'[j].stage = 3 /\ detect_continue_at(yes) = "indexing"
                \/ pod'[j].stage = 4 /\ detect_continue_at(yes) = "db-postprocess"
    <3>1. ~project'.finished /\ db.place
          BY <1>2, <1>3, <2>4 DEF detect_continue_at
    <3>2. pod'[j].stage >= 3 => db.placex /\ db.rows
          BY <1>3, <2>4 DEF detect_continue_at
    <3>3. pod'[j].stage # 1 /\ pod'[j].stage # 5
          BY <2>4
    <3> QED BY <1>0, <2>4, <3>1, <3>2, <3>3
            DEF SchemaAt, StartsOver, At, ReadyCommands, AddCommands, RoundCommands, Type
  <2> QED BY <1>1, <2>1, <2>2, <2>3, <2>4 DEF StartedBy
<1>7. Answered(SchemaProbes)' => (import_schema_ready /\ ~db.place => project.finished)'
      BY <1>0, <1>2, <1>4 DEF import_schema_ready
<1> QED BY <1>0, <1>5, <1>6, <1>7, SchemaKept

LEMMA ImportSchema ==
  ASSUME ControlInv, SchemaInv, NEW j \in Jobs, Import(j)
  PROVE  SchemaInv' /\ (Answered(SchemaProbes) /\ import_schema_ready => import_schema_ready')
<1>0. /\ project' = project /\ misread' = misread /\ Others(j) /\ job[j] = "active" /\ Importer(j)
      /\ SchemaAt(j) /\ TypeOK /\ At(j, "import") /\ db \in Databases
      BY ControlKept, ControlFacts DEF Import, PodStep, ScriptOK, At, ImportCommands, SchemaInv, TypeOK
<1>2. /\ db.version => db.placex
      /\ Answered(SchemaProbes) =>
           /\ import_schema_ready /\ ~db.place => project.finished
           /\ pod[j].stage = 1 => ~db.version
      BY <1>0 DEF SchemaInv, StartsOver
<1>a. Answered(SchemaProbes)' <=> Answered(SchemaProbes)
      BY <1>0 DEF Answered
<1> DEFINE Goal == /\ SchemaAt(j)' /\ (db'.version => db'.placex) /\ ~StartsOver(j)'
                   /\ Answered(SchemaProbes) =>
                        /\ import_schema_ready' /\ ~db'.place => project'.finished
                        /\ import_schema_ready => import_schema_ready'
<1>3. ASSUME Died(j), db' = db PROVE Goal
  <2>1. ~StartsOver(j)'
        BY <1>3, NoPodTyped DEF Died, StartsOver, At
  <2> QED BY <1>0, <1>2, <1>3, <2>1, DiedSchema DEF import_schema_ready
<1>4. ASSUME pod[j].stage = 5, Kept(j), pod'[j].pc = "truncate", db' = db PROVE Goal
  <2>1. import_schema_ready
        BY <1>0, <1>2, <1>4 DEF SchemaAt, import_schema_ready
  <2>2. SchemaAt(j)' /\ ~StartsOver(j)'
        BY <1>0, <1>4, <2>1
           DEF SchemaAt, StartsOver, At, import_schema_ready, ReadyCommands, AddCommands, RoundCommands, Type, Kept
  <2> QED BY <1>0, <1>2, <1>4, <2>2 DEF import_schema_ready
<1>5. ASSUME pod[j].stage \in 1..4, pod'[j].pc = "import", db' = AfterStage(j, pod[j].stage),
             pod'[j].stage = pod[j].stage + 1
      PROVE  Goal
  <2>0. ~project.finished /\ (pod[j].stage >= 2 => db.place) /\ (pod[j].stage >= 3 => db.placex /\ db.rows)
        BY <1>0, <1>5 DEF SchemaAt, At
  <2>1. CASE pod[j].stage = 1
    <3>1. db'.place /\ ~db'.version
          BY <1>0, <1>5, <2>1, LoadedStage
    <3>2. pod'[j].stage = 2
          BY <1>5, <2>1
    <3> QED BY <1>0, <1>2, <1>5, <2>0, <2>1, <3>1, <3>2
            DEF SchemaAt, StartsOver, At, import_schema_ready, ReadyCommands, AddCommands, RoundCommands
  <2>2. CASE pod[j].stage = 2
    <3>1. db'.place /\ db'.version = db.version /\ db'.placex /\ db'.rows
          BY <1>0, <1>5, <2>0, <2>2, TokenizedStage
    <3>2. pod'[j].stage = 3
          BY <1>5, <2>2
    <3> QED BY <1>0, <1>5, <2>0, <3>1, <3>2
            DEF SchemaAt, StartsOver, At, import_schema_ready, ReadyCommands, AddCommands, RoundCommands
  <2>3. CASE pod[j].stage = 3
    <3>1. db'.place /\ db'.version = db.version /\ db'.placex /\ db'.rows
          BY <1>0, <1>5, <2>0, <2>3, IndexedStage
    <3>2. pod'[j].stage = 4
          BY <1>5, <2>3
    <3> QED BY <1>0, <1>5, <2>0, <3>1, <3>2
            DEF SchemaAt, StartsOver, At, import_schema_ready, ReadyCommands, AddCommands, RoundCommands
  <2>4. CASE pod[j].stage = 4
    <3>1. db'.place /\ db'.version /\ db'.placex /\ db'.rows
          BY <1>0, <1>5, <2>0, <2>4, FinalStage
    <3>2. pod'[j].stage = 5
          BY <1>5, <2>4
    <3> QED BY <1>0, <1>5, <2>0, <3>1, <3>2
            DEF SchemaAt, StartsOver, At, import_schema_ready, ReadyCommands, AddCommands, RoundCommands
  <2> QED BY <1>5, <2>1, <2>2, <2>3, <2>4
<1>6. Goal
      BY <1>3, <1>4, <1>5, ImportMoves
<1>7. SchemaInv'
  <2>1. Answered(SchemaProbes)' =>
          /\ (import_schema_ready /\ ~db.place => project.finished)'
          /\ StartsOver(j)' => ~db'.version
        BY <1>6, <1>a
  <2> QED BY <1>0, <1>6, <2>1, SchemaKept
<1> QED BY <1>6, <1>7

LEMMA TraceSchema ==
  ASSUME ControlInv, SchemaInv, NEW j \in Jobs, ImportTrace(j)
  PROVE  SchemaInv' /\ (Answered(SchemaProbes) /\ import_schema_ready => import_schema_ready')
<1>1. UNCHANGED <<head, project, staging, job, pod, misread, budget>>
      BY Zenon DEF ImportTrace
<1>0. /\ job[j] = "active" /\ Importer(j) /\ SchemaAt(j) /\ TypeOK /\ At(j, "import") /\ db \in Databases
      BY ControlFacts, TraceEffect DEF ScriptOK, At, ImportCommands, SchemaInv, TypeOK
<1>2. Others(j)
      BY <1>1 DEF Others
<1>3. pod[j].stage \in 1..3
      BY <1>0, TraceEffect
<1>4. /\ ~project.finished /\ (pod[j].stage >= 2 => db.place) /\ (pod[j].stage >= 3 => db.placex /\ db.rows)
      /\ db.version => db.placex
      /\ Answered(SchemaProbes) /\ pod[j].stage = 1 => ~db.version
      BY <1>0, <1>3 DEF SchemaAt, SchemaInv, StartsOver, At
<1>5. /\ db'.place /\ (pod[j].stage = 1 => ~db'.version)
      /\ pod[j].stage >= 2 => db'.placex /\ db'.version = db.version
      /\ pod[j].stage >= 3 => db'.rows
      BY <1>0, <1>3, <1>4, TraceEffect
<1>6. SchemaAt(j)'
      BY <1>0, <1>1, <1>3, <1>4, <1>5 DEF SchemaAt, At, ReadyCommands, AddCommands, RoundCommands
<1>7. StartsOver(j)' => ~db'.version
      BY <1>0, <1>1, <1>5 DEF StartsOver, At
<1>8. SchemaInv'
      BY <1>0, <1>1, <1>2, <1>3, <1>4, <1>5, <1>6, <1>7, SchemaKept
<1> QED BY <1>3, <1>4, <1>5, <1>8 DEF import_schema_ready

\* The other commands of bootstrap.sh and rebuild.sh.
LEMMA FilesSchema ==
  ASSUME ControlInv, SchemaInv, NEW j \in Jobs, Download(j) \/ Curl(j)
  PROVE  SchemaInv'
<1>0. /\ project' = project /\ db' = db /\ misread' = misread /\ Others(j) /\ job[j] = "active" /\ SchemaAt(j)
      BY ControlKept DEF Download, Curl, PodStep, SchemaInv
<1>a. /\ db.version => db.placex
      /\ Answered(SchemaProbes) => (import_schema_ready /\ ~db.place => project.finished)
      /\ Answered(SchemaProbes) /\ StartsOver(j) => ~db.version
      BY DEF SchemaInv
<1>b. StartsOver(j) \/ ~StartsOver(j)'
  <2>1. CASE Download(j)
        BY <2>1 DEF Download, StartsOver
  <2>2. CASE Curl(j) /\ Importer(j)
        BY <2>2 DEF Curl, StartsOver
  <2>3. CASE Curl(j) /\ ~Importer(j)
        BY <2>3, CurlMoves DEF StartsOver, At, Importer, Type
  <2> QED BY <2>1, <2>2, <2>3
<1>1. SchemaAt(j)'
  <2>1. CASE Download(j)
    <3>1. Importer(j) /\ pod[j].stage = 1 /\ ~project.finished
          BY <1>0, <2>1, ControlFacts DEF Download, At, ScriptOK, ImportCommands, SchemaAt
    <3>2. pod'[j].pc \in {"import", "download", "curl"} /\ pod'[j].stage = 1
          BY <2>1, <3>1, DownloadMoves
    <3> QED BY <1>0, <3>1, <3>2 DEF SchemaAt, At, ReadyCommands, AddCommands, RoundCommands
  <2>2. CASE Curl(j)
    <3>1. CASE Type(j) = "AddRegions" /\ pod'[j].pc = "add-data"
      <4>1. project.finished
            BY <1>0, <2>2, <3>1 DEF SchemaAt, Curl, At, Importer
      <4> QED BY <1>0, <3>1, <4>1 DEF SchemaAt, At, Type
    <3>2. CASE Importer(j) /\ pod'[j].pc = "download"
      <4>1. ~project.finished
            BY <1>0, <2>2, <3>2 DEF SchemaAt, Curl, At
      <4> QED BY <1>0, <3>2, <4>1 DEF SchemaAt, At, ReadyCommands, AddCommands, RoundCommands
    <3> QED BY <2>2, <3>1, <3>2, CurlMoves
  <2> QED BY <2>1, <2>2
<1>2. Answered(SchemaProbes)' =>
        /\ (import_schema_ready /\ ~db.place => project.finished)'
        /\ StartsOver(j)' => ~db'.version
      BY <1>0, <1>a, <1>b DEF import_schema_ready, Answered
<1> QED BY <1>0, <1>1, <1>2, <1>a, SchemaKept

LEMMA RecordSchema ==
  ASSUME ControlInv, SchemaInv, NEW j \in Jobs,
         TruncateList(j) \/ RecordRegion(j) \/ SeedRecorded(j) \/ CheckDatabase(j)
  PROVE  /\ SchemaInv' /\ import_schema_ready /\ import_schema_ready'
         /\ project'.finished = project.finished
<1>0. /\ Others(j) /\ job[j] = "active" /\ SchemaAt(j) /\ Importer(j) /\ TypeOK
      BY ControlKept, ControlFacts DEF TruncateList, RecordRegion, SeedRecorded, CheckDatabase, PodStep, SchemaInv,
         ScriptOK, At, ImportCommands
<1>1. import_schema_ready
      BY <1>0 DEF TruncateList, RecordRegion, SeedRecorded, CheckDatabase, SchemaAt, At
<1>2. /\ db'.version = db.version /\ db'.placex = db.placex /\ db'.place = db.place
  <2>1. CASE db' = db
        BY <2>1
  <2>2. CASE db' = [db EXCEPT !.pending = FALSE]
        BY <1>0, <2>2, PendingEffect
  <2> QED BY <2>1, <2>2 DEF TruncateList, RecordRegion, SeedRecorded, CheckDatabase
<1>3. project'.finished = project.finished
  <2>0. project \in Projects
        BY <1>0 DEF TypeOK
  <2>1. CASE TruncateList(j)
        BY <2>0, <2>1 DEF TruncateList, Projects
  <2>2. CASE RecordRegion(j)
        BY <2>0, <2>2, RecordMoves DEF Projects
  <2>3. CASE SeedRecorded(j)
    <3>1. InLoop(j) /\ seed_region_state(project, Region(j)) /\ Region(j) \in RegionPaths
          BY <1>0, <2>3, RecordMoves, RegionInLoop DEF SeedRecorded
    <3> QED BY <1>0, <2>0, <3>1, SeedEffect
  <2>4. CASE CheckDatabase(j)
        BY <2>4 DEF CheckDatabase
  <2> QED BY <2>1, <2>2, <2>3, <2>4
<1>4. pod'[j].pc \in {"record", "seed", "check", "finish"} /\ job'[j] = job[j]
      BY RecordMoves DEF Kept
<1>5. SchemaAt(j)' /\ ~StartsOver(j)'
      BY <1>0, <1>1, <1>2, <1>4
         DEF SchemaAt, StartsOver, At, import_schema_ready, ReadyCommands, AddCommands, RoundCommands, Type
<1>6. misread' = misread
      BY DEF TruncateList, RecordRegion, SeedRecorded, CheckDatabase
<1>7. Answered(SchemaProbes)' => (import_schema_ready /\ ~db.place => project.finished)'
      BY <1>2, <1>3, <1>6 DEF SchemaInv, import_schema_ready, Answered
<1>8. db'.version => db'.placex
      BY <1>2 DEF SchemaInv
<1>9. SchemaInv'
      BY <1>0, <1>5, <1>7, <1>8, SchemaKept
<1> QED BY <1>1, <1>2, <1>3, <1>9 DEF import_schema_ready

LEMMA EdgeSchema ==
  ASSUME ControlInv, SchemaInv, NEW j \in Jobs,
         Kill(j) \/ Prepare(j) \/ ClearMarkers(j) \/ finish_bootstrap(j)
  PROVE  SchemaInv'
<1>0. /\ db' = db /\ misread' = misread /\ Others(j) /\ job[j] = "active" /\ SchemaAt(j)
      BY ControlKept DEF Kill, Prepare, ClearMarkers, finish_bootstrap, PodStep, SchemaInv
<1>a. /\ db.version => db.placex
      /\ Answered(SchemaProbes) => (import_schema_ready /\ ~db.place => project.finished)
      BY DEF SchemaInv
<1> DEFINE Goal == Answered(SchemaProbes)' => (import_schema_ready /\ ~db.place => project.finished)'
<1>1. CASE Kill(j) \/ Prepare(j)
  <2>1. project' = project /\ Goal
        BY <1>0, <1>a, <1>1 DEF Kill, Prepare, import_schema_ready, Answered
  <2>2. SchemaAt(j)' /\ ~StartsOver(j)'
    <3>1. CASE Kill(j)
          BY <1>0, <3>1, EndMoves, DiedSchema, NoPodTyped DEF Died, StartsOver, At
    <3>2. CASE Prepare(j)
      <4>1. pod'[j].pc \in {"bootstrap", "clear", "ready"}
            BY <3>2, PrepareMoves
      <4>2. job'[j] = job[j]
            BY <3>2, PrepareMoves DEF Kept
      <4> QED BY <1>0, <4>1, <4>2, FreshSchema DEF SchemaAt, StartsOver, At
    <3> QED BY <1>1, <3>1, <3>2
  <2> QED BY <1>0, <1>a, <2>1, <2>2, SchemaKept
<1>2. CASE ClearMarkers(j)
  <2>1. Type(j) = "Rebuild" /\ Importer(j) /\ pod'[j].pc = "bootstrap"
        BY <1>2, ControlFacts, ClearMoves DEF ClearMarkers, ScriptOK, Importer
  <2>2. db.version => db.place
        BY <1>0, <2>1 DEF SchemaAt
  <2>3. SchemaAt(j)' /\ ~StartsOver(j)'
        BY <1>0, <2>1, <2>2, FreshSchema DEF StartsOver, At
  <2>4. Goal
        BY <1>0, <2>2 DEF import_schema_ready
  <2> QED BY <1>0, <1>a, <2>1, <2>3, <2>4, SchemaKept
<1>3. CASE finish_bootstrap(j)
  <2>1. Importer(j)
        BY <1>3, ControlFacts DEF finish_bootstrap, At, ScriptOK, ImportCommands
  <2>2. project'.finished \/ project' = project
        BY <1>3, FinishMoves, ControlFacts DEF TypeOK, Projects
  <2>3. pod'[j].pc \in {"none", "prepare"} /\ (job'[j] = "active" => job[j] = "active")
        BY <1>0, <1>3, FinishMoves, NoPodTyped DEF Died
  <2>4. SchemaAt(j)' /\ ~StartsOver(j)'
        BY <1>0, <2>3, FreshSchema DEF SchemaAt, StartsOver, At
  <2>5. Goal
        BY <1>0, <1>a, <2>2 DEF import_schema_ready, Answered
  <2> QED BY <1>0, <1>a, <2>1, <2>4, <2>5, SchemaKept
<1> QED BY <1>1, <1>2, <1>3

LEMMA ArmSchema ==
  ASSUME ControlInv, SchemaInv, NEW j \in Jobs, Arm(j)
  PROVE  /\ SchemaInv' /\ project' = project
         /\ (db' = db /\ Type(j) # "Rebuild") \/ (db' = EmptyDatabase /\ Type(j) = "Rebuild")
<1>0. /\ project' = project /\ Others(j) /\ pod'[j].pc = "prepare" /\ SchemaAt(j)
      BY ArmMoves DEF Arm, SchemaInv
<1>1. CASE Type(j) = "Rebuild"
  <2>1. db' = EmptyDatabase /\ ~db'.version
        BY <1>1 DEF Arm, EmptyDatabase
  <2>2. ASSUME NEW k \in Jobs PROVE SchemaAt(k)'
    <3>1. CASE k = j
          BY <1>0, <2>1, <3>1, FreshSchema
    <3>2. CASE k # j
      <4>1. WP!operationsMutexConflict(j, k)
            BY <1>1, <3>2 DEF WP!operationsMutexConflict, WP!isWriteHeavyOperation, Type
      <4>2. job[k] # "active" /\ pod'[k] = NoPod
            BY <1>0, <3>2, <4>1, ControlFacts DEF Arm, Others
      <4> QED BY <2>1, <4>2, FreshSchema, NoPodTyped
    <3> QED BY <3>1, <3>2
  <2> QED BY <1>0, <1>1, <2>1, <2>2 DEF SchemaInv, import_schema_ready
<1>2. CASE Type(j) # "Rebuild"
  <2>1. db' = db /\ misread' = misread
        BY <1>2 DEF Arm
  <2>2. ASSUME NEW k \in Jobs PROVE SchemaAt(k)' /\ (StartsOver(k)' => StartsOver(k))
    <3>1. CASE k = j
      <4>1. SchemaAt(j)'
            BY <1>0, <1>2, FreshSchema
      <4>2. ~StartsOver(j)'
            BY <1>0 DEF StartsOver, At
      <4> QED BY <3>1, <4>1, <4>2
    <3>2. CASE k # j
      <4>1. pod'[k] = pod[k] /\ job'[k] = job[k] /\ SchemaAt(k)
            BY <1>0, <3>2 DEF Others, SchemaInv
      <4>2. SchemaAt(k)'
            BY <1>0, <2>1, <4>1 DEF SchemaAt, At, import_schema_ready, Type, Importer
      <4>3. StartsOver(k)' => StartsOver(k)
            BY <4>1 DEF StartsOver, At, Importer, Type
      <4> QED BY <4>2, <4>3
    <3> QED BY <3>1, <3>2
  <2>3. (db.version => db.placex)' /\ \A k \in Jobs : SchemaAt(k)'
        BY <2>1, <2>2 DEF SchemaInv
  <2>4. Answered(SchemaProbes)' =>
          /\ (import_schema_ready /\ ~db.place => project.finished)'
          /\ \A k \in Jobs : StartsOver(k)' => ~db'.version
        BY <1>0, <2>1, <2>2 DEF SchemaInv, import_schema_ready, Answered
  <2>5. SchemaInv'
        BY <2>3, <2>4 DEF SchemaInv
  <2> QED BY <1>0, <1>2, <2>1, <2>5
<1> QED BY <1>1, <1>2

LEMMA SchemaStep == ControlInv /\ SchemaInv /\ [Next]_vars => SchemaInv'
<1> SUFFICES ASSUME ControlInv, SchemaInv, [Next]_vars PROVE SchemaInv'
    OBVIOUS
<1>1. ASSUME UNCHANGED <<db, project, job, pod, misread>> PROVE SchemaInv'
      BY <1>1 DEF SchemaInv, SchemaAt, StartsOver, Answered, At, import_schema_ready, Type, Importer
<1>2. CASE UNCHANGED vars \/ Publish
      BY <1>1, <1>2 DEF vars, Publish
<1>3. ASSUME NEW j \in Jobs, Arm(j) \/ Kill(j) \/ ImportTrace(j) \/ PodStep(j) PROVE SchemaInv'
      BY <1>3, ArmSchema, EdgeSchema, TraceSchema, StartSchema, FilesSchema, ImportSchema, RecordSchema, OtherSchema
         DEF PodStep, OtherStep
<1> QED BY <1>2, <1>3 DEF Next

\* Who empties a ready database.
LEMMA ReadyStep == ControlInv /\ SchemaInv /\ [Next]_vars /\ Answered(SchemaProbes) => EmptiedForRebuild
<1> SUFFICES ASSUME ControlInv, SchemaInv, [Next]_vars, Answered(SchemaProbes) PROVE EmptiedForRebuild
    OBVIOUS
<1>1. ASSUME import_schema_ready => import_schema_ready' PROVE EmptiedForRebuild
      BY <1>1 DEF EmptiedForRebuild
<1>2. ASSUME db' = db PROVE EmptiedForRebuild
      BY <1>1, <1>2 DEF import_schema_ready
<1>3. CASE UNCHANGED vars \/ Publish
      BY <1>2, <1>3 DEF vars, Publish
<1>4. ASSUME NEW j \in Jobs, Arm(j) PROVE EmptiedForRebuild
  <2>1. job[j] = "none" /\ job'[j] = "active"
        BY <1>4, ArmMoves
  <2>2. db' = db \/ Type(j) = "Rebuild"
        BY <1>4, ArmSchema
  <2> QED BY <1>2, <2>1, <2>2 DEF EmptiedForRebuild
<1>5. ASSUME NEW j \in Jobs, OtherStep(j) PROVE EmptiedForRebuild
  <2>1. db'.placex = db.placex /\ db'.version = db.version
        BY <1>5, OtherQuiet DEF Quiet, SchemaInv
  <2> QED BY <1>1, <2>1 DEF import_schema_ready
<1>6. ASSUME NEW j \in Jobs,
             \/ Kill(j) \/ Prepare(j) \/ ClearMarkers(j) \/ BootstrapStart(j) \/ Download(j) \/ Curl(j)
             \/ finish_bootstrap(j)
      PROVE  EmptiedForRebuild
      BY <1>2, <1>6 DEF Kill, Prepare, ClearMarkers, BootstrapStart, Download, Curl, finish_bootstrap
<1>7. ASSUME NEW j \in Jobs, ImportTrace(j) \/ Import(j) PROVE EmptiedForRebuild
      BY <1>1, <1>7, TraceSchema, ImportSchema
<1>8. ASSUME NEW j \in Jobs, TruncateList(j) \/ RecordRegion(j) \/ SeedRecorded(j) \/ CheckDatabase(j)
      PROVE  EmptiedForRebuild
      BY <1>1, <1>8, RecordSchema
<1> QED BY <1>3, <1>4, <1>5, <1>6, <1>7, <1>8 DEF Next, PodStep, OtherStep

\* A Job that ended stays as it is, and an unplanned one too.
LEMMA EndedStays ==
  ASSUME ControlInv, [Next]_vars, NEW k \in Jobs, job[k] \in {"unplanned", "Complete", "Failed"}
  PROVE  job'[k] = job[k]
<1>1. CASE UNCHANGED vars \/ Publish
      BY <1>1 DEF vars, Publish
<1>2. ASSUME NEW j \in Jobs, ImportTrace(j) PROVE job'[k] = job[k]
  <2>1. UNCHANGED <<head, project, staging, job, pod, misread, budget>>
        BY <1>2, Zenon DEF ImportTrace
  <2> QED BY <2>1
<1>3. ASSUME NEW j \in Jobs, Arm(j) PROVE job'[k] = job[k]
      BY <1>3, ArmMoves DEF Others
<1>4. ASSUME NEW j \in Jobs, Kill(j) \/ PodStep(j) PROVE job'[k] = job[k]
      BY <1>4, ControlKept DEF Others
<1> QED BY <1>1, <1>2, <1>3, <1>4 DEF Next

\* rebuild.sh alone ends the time of bookmarks without a database.
LEMMA UnclearedKept ==
  ASSUME ControlInv, [Next]_vars, Uncleared, \A j \in Jobs : ~ClearMarkers(j)
  PROVE  Uncleared'
<1>1. PICK k \in Jobs : Type(k) = "Rebuild" /\ (job[k] = "Failed" \/ pod[k].pc \in {"prepare", "clear"})
      BY DEF Uncleared
<1>2. CASE job[k] = "Failed"
  <2>1. job'[k] = "Failed"
        BY <1>2, EndedStays
  <2> QED BY <1>1, <2>1 DEF Uncleared, Type
<1>3. CASE pod[k].pc \in {"prepare", "clear"}
  <2>1. ASSUME pod'[k] = pod[k] PROVE Uncleared'
        BY <1>1, <1>3, <2>1 DEF Uncleared, Type
  <2>2. CASE UNCHANGED vars \/ Publish
        BY <2>1, <2>2 DEF vars, Publish
  <2>3. ASSUME NEW j \in Jobs, ImportTrace(j) PROVE Uncleared'
    <3>1. UNCHANGED <<head, project, staging, job, pod, misread, budget>>
          BY <2>3, Zenon DEF ImportTrace
    <3> QED BY <2>1, <3>1
  <2>4. ASSUME NEW j \in Jobs, Arm(j) PROVE Uncleared'
        BY <1>3, <2>1, <2>4, ArmMoves, NoPodTyped DEF Others
  <2>5. ASSUME NEW j \in Jobs, Kill(j) \/ PodStep(j) PROVE Uncleared'
    <3>1. CASE j # k
          BY <2>1, <2>5, <3>1, ControlKept DEF Others
    <3>2. CASE j = k
      <4>1. CASE Kill(k)
            BY <1>1, <4>1, EndMoves DEF Died, Uncleared, Type
      <4>2. CASE Prepare(k)
            BY <1>1, <4>2, PrepareMoves DEF Uncleared, Type, Importer
      <4>3. Kill(k) \/ Prepare(k)
            BY <1>3, <2>5, <3>2 DEF PodStep, At, BootstrapStart, Download, Curl, Import,
               TruncateList, RecordRegion, SeedRecorded, CheckDatabase, finish_bootstrap,
               RequireBootstrapReady, AddRegion, AddExtract, SeedAdded, AppendRegion, IndexAdded, StartRound,
               UpdateRegion, GetChanges, ApplyChanges, EndRound, RunCommand
      <4> QED BY <4>1, <4>2, <4>3
    <3> QED BY <3>1, <3>2
  <2> QED BY <2>2, <2>3, <2>4, <2>5 DEF Next
<1> QED BY <1>1, <1>2, <1>3

Marked == project.finished \/ project.list # {} \/ project.states # {}

\* Bookmarks are written for a ready schema, or beside others.
LEMMA MarkedStep ==
  ASSUME ControlInv, SchemaInv, [Next]_vars, Marked'
  PROVE  Marked \/ import_schema_ready
<1>0. project \in Projects
      BY DEF ControlInv, TypeOK
<1>1. ASSUME project' = project PROVE Marked
      BY <1>1 DEF Marked
<1>2. CASE UNCHANGED vars \/ Publish
      BY <1>1, <1>2 DEF vars, Publish
<1>3. ASSUME NEW j \in Jobs, ImportTrace(j) PROVE Marked
  <2>1. UNCHANGED <<head, project, staging, job, pod, misread, budget>>
        BY <1>3, Zenon DEF ImportTrace
  <2> QED BY <1>1, <2>1
<1>4. ASSUME NEW j \in Jobs,
             Arm(j) \/ Kill(j) \/ Prepare(j) \/ Download(j) \/ Curl(j) \/ Import(j)
      PROVE  Marked
      BY <1>1, <1>4 DEF Arm, Kill, Prepare, Download, Curl, Import
<1>5. ASSUME NEW j \in Jobs, ClearMarkers(j) PROVE FALSE
      BY <1>5 DEF ClearMarkers, EmptyProject, Marked
<1>6. ASSUME NEW j \in Jobs, BootstrapStart(j) PROVE Marked
  <2>a. PICK yes : project' = [project EXCEPT !.finished = @ /\ "schema" \in yes]
        BY <1>6, StartMoves
  <2>1. PICK b \in BOOLEAN : b = (project.finished /\ "schema" \in yes)
        OBVIOUS
  <2>2. project' = [project EXCEPT !.finished = b]
        BY <2>a, <2>1
  <2>3. project'.finished = b /\ project'.list = project.list /\ project'.states = project.states
        BY <1>0, <2>2 DEF Projects
  <2> QED BY <2>1, <2>3 DEF Marked
<1>7. ASSUME NEW j \in Jobs, TruncateList(j) \/ RecordRegion(j) \/ SeedRecorded(j) \/ CheckDatabase(j)
      PROVE  import_schema_ready
      BY <1>7, RecordSchema
<1>8. ASSUME NEW j \in Jobs, finish_bootstrap(j) PROVE Marked \/ import_schema_ready
      BY <1>1, <1>8, FinishMoves
<1>9. ASSUME NEW j \in Jobs, OtherStep(j) PROVE Marked \/ import_schema_ready
  <2>1. CASE RequireBootstrapReady(j)
        BY <1>1, <2>1, ReadyMoves DEF Marked
  <2>2. CASE ~RequireBootstrapReady(j)
    <3>1. pod[j].pc \in ReadyCommands
          BY <1>9, <2>2 DEF OtherStep, At, ReadyCommands, AddCommands, RoundCommands,
             AddRegion, AddExtract, SeedAdded, AppendRegion, IndexAdded, StartRound,
             UpdateRegion, GetChanges, ApplyChanges, EndRound, RunCommand
    <3> QED BY <3>1 DEF SchemaInv, SchemaAt, Marked
  <2> QED BY <2>1, <2>2
<1> QED BY <1>2, <1>3, <1>4, <1>5, <1>6, <1>7, <1>8, <1>9 DEF Next, PodStep, OtherStep

LEMMA BookmarksStep == WorkerInv /\ [Next]_vars => (Answered(SchemaProbes)' => BookmarksFresh')
<1> SUFFICES ASSUME WorkerInv, [Next]_vars, Answered(SchemaProbes)', Marked'
             PROVE  (import_schema_ready \/ Uncleared)'
    BY DEF BookmarksFresh, Marked
<1>0. ControlInv /\ SchemaInv
      BY DEF WorkerInv
<1>a. ASSUME NEW j \in Jobs, Arm(j), Type(j) = "Rebuild" PROVE Uncleared'
      BY <1>0, <1>a, ArmMoves DEF Uncleared, Type
<1>b. CASE Answered(SchemaProbes)
  <2>1. import_schema_ready \/ Uncleared
        BY <1>0, <1>b, MarkedStep DEF WorkerInv, Marked, BookmarksFresh
  <2>2. \A j \in Jobs : ~ClearMarkers(j)
        BY DEF ClearMarkers, EmptyProject, Marked
  <2>3. CASE Uncleared
        BY <1>0, <2>2, <2>3, UnclearedKept
  <2>4. CASE import_schema_ready /\ ~import_schema_ready'
    <3>1. PICK j \in Jobs : Type(j) = "Rebuild" /\ job[j] = "none" /\ job'[j] = "active"
          BY <1>0, <1>b, <2>4, ReadyStep DEF EmptiedForRebuild
    <3>2. Arm(j)
      <4>1. ~(UNCHANGED vars) /\ ~Publish
            BY <3>1 DEF vars, Publish
      <4>2. ASSUME NEW k \in Jobs, ImportTrace(k) PROVE FALSE
        <5>1. UNCHANGED <<head, project, staging, job, pod, misread, budget>>
              BY <4>2, Zenon DEF ImportTrace
        <5> QED BY <3>1, <5>1
      <4>3. ASSUME NEW k \in Jobs, Kill(k) \/ PodStep(k) PROVE FALSE
            BY <1>0, <3>1, <4>3, ControlKept DEF Others
      <4>4. ASSUME NEW k \in Jobs, Arm(k) PROVE k = j
            BY <1>0, <3>1, <4>4, ArmMoves DEF Others
      <4> QED BY <4>1, <4>2, <4>3, <4>4 DEF Next
    <3> QED BY <1>a, <3>1, <3>2
  <2> QED BY <2>1, <2>3, <2>4
<1> QED BY <1>0, <1>a, <1>b, AnsweredBefore

LEMMA WorkerInit == Init => WorkerInv
<1> SUFFICES ASSUME Init PROVE WorkerInv
    OBVIOUS
<1>1. ControlInv
      BY ControlInit
<1>2. \A j \in Jobs : pod[j].pc = "none" /\ job[j] # "active"
      BY NoPodTyped DEF Init
<1>3. /\ ~db.version /\ ~project.finished /\ project.list = {} /\ project.states = {}
      BY DEF Init, EmptyDatabase, EmptyProject
<1>4. SchemaInv
      BY <1>2, <1>3
         DEF SchemaInv, SchemaAt, StartsOver, At, import_schema_ready, ReadyCommands, AddCommands, RoundCommands
<1> QED BY <1>1, <1>3, <1>4 DEF WorkerInv, BookmarksFresh

LEMMA WorkerStep == WorkerInv /\ [Next]_vars => WorkerInv'
BY ControlStep, SchemaStep, BookmarksStep DEF WorkerInv

(* The inductive invariant: each pod runs its Job's script, write-heavy    *)
(* Jobs run alone, what a script has seen of the schema and of the marker  *)
(* still holds at its next command whatever a failed query hid from it,    *)
(* and while none of those about the schema or place failed nobody starts  *)
(* over on a ready schema and bookmarks belong to a database that was      *)
(* imported or that a Rebuild has emptied.                                 *)
THEOREM WorkerInvariant == Spec => []WorkerInv
BY WorkerInit, WorkerStep, PTL DEF Spec

(* Only a Rebuild that starts takes a ready schema away: whichever pods    *)
(* are killed, and whichever queries fail other than those about the       *)
(* schema and place, detect_continue_at never makes a Bootstrap import     *)
(* over an imported database, a frozen one included.                       *)
THEOREM ReadySurvives == Spec => ReadySchemaSurvives
<1>1. WorkerInv /\ [Next]_vars => [Answered(SchemaProbes) => EmptiedForRebuild]_vars
      BY ReadyStep DEF WorkerInv
<1> QED BY <1>1, WorkerInit, WorkerStep, PTL DEF Spec, ReadySchemaSurvives

-----------------------------------------------------------------------------
(* Bookmarks and the database they belong to.                              *)

\* An import makes the schema ready.
LEMMA BecomesReady ==
  ASSUME ControlInv, SchemaInv, [Next]_vars, ~import_schema_ready, import_schema_ready'
  PROVE  \E j \in Jobs : Import(j)
<1>1. ASSUME db' = db PROVE FALSE
      BY <1>1 DEF import_schema_ready
<1>2. ~(UNCHANGED vars \/ Publish)
      BY <1>1 DEF vars, Publish
<1>3. ASSUME NEW j \in Jobs, Arm(j) PROVE FALSE
      BY <1>1, <1>3, ArmSchema DEF EmptyDatabase, import_schema_ready
<1>4. ASSUME NEW j \in Jobs,
             \/ Kill(j) \/ Prepare(j) \/ ClearMarkers(j) \/ BootstrapStart(j) \/ Download(j) \/ Curl(j)
             \/ finish_bootstrap(j)
      PROVE  FALSE
      BY <1>1, <1>4 DEF Kill, Prepare, ClearMarkers, BootstrapStart, Download, Curl, finish_bootstrap
<1>5. ASSUME NEW j \in Jobs, TruncateList(j) \/ RecordRegion(j) \/ SeedRecorded(j) \/ CheckDatabase(j) PROVE FALSE
      BY <1>5, RecordSchema
<1>6. ASSUME NEW j \in Jobs, OtherStep(j) PROVE FALSE
  <2>1. db'.placex = db.placex /\ db'.version = db.version
        BY <1>6, OtherQuiet DEF Quiet, SchemaInv
  <2> QED BY <2>1 DEF import_schema_ready
<1>7. ASSUME NEW j \in Jobs, ImportTrace(j) PROVE FALSE
  <2>1. At(j, "import") /\ TypeOK
        BY <1>7, TraceEffect DEF ControlInv
  <2>2. pod[j].stage \in 1..3
        BY <1>7, <2>1, TraceEffect
  <2>3. ~db.version
        BY DEF SchemaInv, import_schema_ready
  <2>4. ~db'.version
        BY <1>7, <2>1, <2>3, TraceEffect
  <2> QED BY <2>4 DEF import_schema_ready
<1> QED BY <1>2, <1>3, <1>4, <1>5, <1>6, <1>7 DEF Next, PodStep, OtherStep

\* A database that becomes ready has no bookmarks yet.
LEMMA ReadyUnmarked ==
  ASSUME WorkerInv, [Next]_vars, BookmarksCleared, Answered(SchemaProbes),
         ~import_schema_ready, import_schema_ready'
  PROVE  ~Marked /\ project' = project
<1>0. ControlInv /\ SchemaInv /\ BookmarksFresh
      BY DEF WorkerInv
<1>1. PICK j \in Jobs : Import(j)
      BY <1>0, BecomesReady
<1>2. job[j] = "active" /\ Importer(j) /\ pod[j].pc = "import"
      BY <1>0, <1>1, ControlFacts DEF Import, At, ScriptOK, ImportCommands
<1>3. ~Uncleared
  <2>1. SUFFICES ASSUME NEW k \in Jobs, Type(k) = "Rebuild", job[k] = "Failed" \/ pod[k].pc \in {"prepare", "clear"}
                 PROVE  FALSE
        BY DEF Uncleared
  <2>2. job[k] # "Failed"
        BY <2>1 DEF BookmarksCleared
  <2>3. k # j
        BY <1>2, <2>1, <2>2
  <2>4. pod[k] = NoPod
        BY <1>0, <1>2, <2>3, HeavyAlone DEF Importer
  <2> QED BY <2>1, <2>2, <2>4, NoPodTyped
<1>4. ~Marked
      BY <1>0, <1>3 DEF BookmarksFresh, Marked
<1> QED BY <1>1, <1>4 DEF Import

(* A database that becomes ready meets neither the marker nor the list nor *)
(* a cursor of an earlier one: a Rebuild has cleared them however often    *)
(* its pods were killed before or after it did, unless a Rebuild gave up   *)
(* or a failed query made an import start over.                            *)
THEOREM BookmarksBelong == Spec => BookmarksStartFresh
<1>1. WorkerInv /\ [Next]_vars =>
        [BookmarksCleared /\ Answered(SchemaProbes) /\ ~import_schema_ready /\ import_schema_ready' =>
           ~project.finished /\ project.list = {} /\ project.states = {}]_vars
      BY ReadyUnmarked DEF Marked
<1> QED BY <1>1, WorkerInit, WorkerStep, PTL DEF Spec, BookmarksStartFresh

LEMMA ClearedBefore == ControlInv /\ [Next]_vars /\ BookmarksCleared' => BookmarksCleared
BY EndedStays DEF BookmarksCleared, Type

\* A database that stays ready loses nothing.
LEMMA DataGrows ==
  ASSUME ControlInv, SchemaInv, [Next]_vars, import_schema_ready, import_schema_ready'
  PROVE  /\ \A r \in RegionPaths : db.data[r] \subseteq db'.data[r]
         /\ Stages[1] \in db'.done <=> Stages[1] \in db.done
         /\ db'.given = db.given
<1> DEFINE Goal == /\ \A r \in RegionPaths : db.data[r] \subseteq db'.data[r]
                   /\ Stages[1] \in db'.done <=> Stages[1] \in db.done
                   /\ db'.given = db.given
<1>0. TypeOK
      BY DEF ControlInv
<1>1. ASSUME db' = db PROVE Goal
      BY <1>1
<1>2. CASE UNCHANGED vars \/ Publish
      BY <1>1, <1>2 DEF vars, Publish
<1>3. ASSUME NEW j \in Jobs, Arm(j) PROVE Goal
      BY <1>1, <1>3, ArmSchema DEF EmptyDatabase, import_schema_ready
<1>4. ASSUME NEW j \in Jobs,
             \/ Kill(j) \/ Prepare(j) \/ ClearMarkers(j) \/ BootstrapStart(j) \/ Download(j) \/ Curl(j)
             \/ finish_bootstrap(j) \/ TruncateList(j) \/ RecordRegion(j) \/ SeedRecorded(j)
      PROVE  Goal
      BY <1>1, <1>4 DEF Kill, Prepare, ClearMarkers, BootstrapStart, Download, Curl, finish_bootstrap,
         TruncateList, RecordRegion, SeedRecorded
<1>5. ASSUME NEW j \in Jobs, CheckDatabase(j) PROVE Goal
      BY <1>0, <1>1, <1>5, PendingEffect DEF CheckDatabase
<1>6. ASSUME NEW j \in Jobs, OtherStep(j) PROVE Goal
      BY <1>6, OtherQuiet DEF Quiet, SchemaInv
<1>7. ASSUME NEW j \in Jobs, ImportTrace(j) PROVE Goal
      BY <1>0, <1>7, TraceEffect DEF import_schema_ready
<1>8. ASSUME NEW j \in Jobs, Import(j) PROVE Goal
  <2>1. db' = db \/ (pod[j].stage \in 1..4 /\ db' = AfterStage(j, pod[j].stage))
        BY <1>8, ImportMoves
  <2>2. ASSUME pod[j].stage = 1, db' = AfterStage(j, 1) PROVE FALSE
        BY <1>0, <2>2, LoadedStage DEF import_schema_ready
  <2>3. ASSUME pod[j].stage = 2, db' = AfterStage(j, 2) PROVE Goal
        BY <1>0, <2>3, TokenizedStage, StagesAre
  <2>4. ASSUME pod[j].stage = 3, db' = AfterStage(j, 3) PROVE Goal
        BY <1>0, <2>4, IndexedStage, StagesAre
  <2>5. ASSUME pod[j].stage = 4, db' = AfterStage(j, 4) PROVE Goal
        BY <1>0, <2>5, FinalStage, StagesAre
  <2> QED BY <1>1, <2>1, <2>2, <2>3, <2>4, <2>5
<1> QED BY <1>2, <1>3, <1>4, <1>5, <1>6, <1>7, <1>8 DEF Next, PodStep, OtherStep

-----------------------------------------------------------------------------
(* The stages of an import after the first that have run to their end,     *)
(* as long as no failed query about placex was taken for a No.             *)

LEMMA DoneOthers ==
  ASSUME ControlInv, NEW j \in Jobs, NEW k \in Jobs, k # j, job[j] = "active", Others(j)
  PROVE  DoneAt(k)'
<1>1. pod'[k] = pod[k]
      BY DEF Others
<1>2. ~Importer(k) \/ pod[k].pc = "none"
      BY HeavyAlone, ControlFacts, NoPodTyped DEF Importer
<1>3. pod[k].pc # "import"
      BY <1>2, ControlFacts DEF ScriptOK, ImportCommands
<1> QED BY <1>1, <1>3 DEF DoneAt, At

\* The database stays and the pod of j does not get further in an import.
LEMMA DoneSame ==
  ASSUME ControlInv, DoneInv, NEW j \in Jobs, job[j] = "active", Others(j), db' = db,
         project'.finished => project.finished \/ import_schema_ready,
         pod'[j].pc = "import" => pod'[j].stage = 1
  PROVE  DoneInv'
<1>1. DoneAt(j)'
      BY DEF DoneAt, At
<1>2. \A k \in Jobs : DoneAt(k)'
      BY <1>1, DoneOthers
<1> QED BY <1>2 DEF DoneInv, import_schema_ready

LEMMA OtherDone ==
  ASSUME WorkerInv, DoneInv, NEW j \in Jobs, OtherStep(j)
  PROVE  DoneInv'
<1>0. ControlInv /\ SchemaInv
      BY DEF WorkerInv
<1>1. Quiet
      BY <1>0, OtherQuiet DEF SchemaInv
<1>2. Others(j) /\ job[j] = "active" /\ ScriptOK(j)' /\ ~Importer(j)
  <2>1. Others(j) /\ job[j] = "active" /\ ScriptOK(j)'
        BY <1>0, ControlKept DEF OtherStep, PodStep
  <2>2. ~Importer(j)
        BY <1>0, ControlFacts DEF OtherStep, ScriptOK, At, Importer, AddCommands, RoundCommands,
           RequireBootstrapReady, AddRegion, AddExtract, SeedAdded, AppendRegion, IndexAdded, StartRound,
           UpdateRegion, GetChanges, ApplyChanges, EndRound, RunCommand
  <2> QED BY <2>1, <2>2
<1>3. DoneAt(j)'
      BY <1>2 DEF DoneAt, At, ScriptOK, ImportCommands, Importer, Type
<1>4. \A k \in Jobs : DoneAt(k)'
      BY <1>0, <1>2, <1>3, DoneOthers
<1>5. db'.indexed /\ ~db'.pending => Stages[3] \in db'.done
  <2>1. CASE db'.pending = db.pending
        BY <1>1, <2>1 DEF Quiet, DoneInv
  <2>2. CASE project.finished
        BY <1>1, <2>2 DEF Quiet, DoneInv, import_schema_ready
  <2> QED BY <1>1, <2>1, <2>2 DEF Quiet
<1>6. /\ db'.indexed => Stages[2] \in db'.done
      /\ db'.version => db'.rows /\ db'.indexed /\ \A i \in 2..4 : Stages[i] \in db'.done
      /\ project'.finished /\ ~import_schema_ready' => ~db'.indexed
      BY <1>1 DEF Quiet, DoneInv, import_schema_ready
<1> QED BY <1>4, <1>5, <1>6 DEF DoneInv

\* detect_continue_at resumes after stages that are done.
LEMMA StartDone ==
  ASSUME WorkerInv, DoneInv, NEW j \in Jobs, BootstrapStart(j), Answered(PlacexProbes)'
  PROVE  DoneInv'
<1>0. ControlInv /\ SchemaInv
      BY DEF WorkerInv
<1>1. db' = db /\ Others(j) /\ job[j] = "active" /\ Importer(j)
      BY <1>0, ControlKept, ControlFacts DEF BootstrapStart, PodStep, ScriptOK, At, ImportCommands
<1>a. PICK yes \in SUBSET Answers :
        /\ Misread(Answers \ yes)
        /\ project' = [project EXCEPT !.finished = @ /\ "schema" \in yes]
        /\ StartedBy(j, yes)
      BY <1>0, StartMoves
<1>2. project'.finished => project.finished
      BY <1>0, <1>a, ControlFacts DEF TypeOK, Projects
<1>b. /\ ("placex" \in yes <=> db.placex) /\ ("rows" \in yes <=> db.rows)
      /\ ("indexed" \in yes <=> db.indexed) /\ ("pending" \in yes <=> db.pending)
      BY <1>a, NoHolds
<1>c. db.version => db.placex /\ db.rows /\ db.indexed
      BY <1>0 DEF SchemaInv, DoneInv
<1>3. DoneAt(j)'
  <2>1. CASE pod'[j].pc # "import"
        BY <2>1 DEF DoneAt, At
  <2>2. CASE pod'[j].stage = 2 /\ detect_continue_at(yes) = "load-data"
    <3>1. ~db.version
          BY <1>b, <1>c, <2>2 DEF detect_continue_at
    <3> QED BY <1>1, <2>2, <3>1 DEF DoneAt
  <2>3. CASE pod'[j].stage = 3 /\ detect_continue_at(yes) = "indexing"
    <3>1. db.indexed
          BY <1>b, <2>3 DEF detect_continue_at
    <3> QED BY <1>1, <2>3, <3>1 DEF DoneAt, DoneInv
  <2>4. CASE pod'[j].stage = 4 /\ detect_continue_at(yes) = "db-postprocess"
    <3>1. db.indexed /\ ~db.pending
          BY <1>b, <2>4 DEF detect_continue_at
    <3> QED BY <1>1, <2>4, <3>1 DEF DoneAt, DoneInv
  <2>5. \/ pod'[j].pc # "import"
        \/ pod'[j].stage = 2 /\ detect_continue_at(yes) = "load-data"
        \/ pod'[j].stage = 3 /\ detect_continue_at(yes) = "indexing"
        \/ pod'[j].stage = 4 /\ detect_continue_at(yes) = "db-postprocess"
        BY <1>a, NoPodTyped DEF StartedBy, Died
  <2> QED BY <2>1, <2>2, <2>3, <2>4, <2>5
<1>4. \A k \in Jobs : DoneAt(k)'
      BY <1>0, <1>1, <1>3, DoneOthers
<1> QED BY <1>1, <1>2, <1>4 DEF DoneInv, import_schema_ready

LEMMA ImportDone ==
  ASSUME WorkerInv, DoneInv, NEW j \in Jobs, Import(j)
  PROVE  DoneInv'
<1>0. ControlInv /\ SchemaInv /\ TypeOK
      BY DEF WorkerInv, ControlInv
<1>1. project' = project /\ Others(j) /\ job[j] = "active" /\ Importer(j) /\ At(j, "import")
      BY <1>0, ControlKept, ControlFacts DEF Import, PodStep, ScriptOK, At, ImportCommands
<1>2. CASE db' = db /\ pod'[j].pc # "import"
      BY <1>0, <1>1, <1>2, DoneSame
<1>3. ASSUME pod[j].stage \in 1..4, pod'[j].pc = "import", db' = AfterStage(j, pod[j].stage),
             pod'[j].stage = pod[j].stage + 1
      PROVE  DoneInv'
  <2>0. ~project.finished /\ (pod[j].stage >= 3 => db.rows)
        BY <1>0, <1>1, <1>3 DEF SchemaInv, SchemaAt, At
  <2>a. /\ pod[j].stage = 2 => ~db.version
        /\ pod[j].stage >= 3 => Stages[2] \in db.done
        /\ pod[j].stage >= 4 => db.indexed /\ Stages[3] \in db.done
        BY <1>1 DEF DoneInv, DoneAt
  <2>b. /\ db.indexed => Stages[2] \in db.done
        /\ db.indexed /\ ~db.pending => Stages[3] \in db.done
        /\ db.version => db.rows /\ db.indexed /\ Stages[2] \in db.done /\ Stages[3] \in db.done /\ Stages[4] \in db.done
        BY DEF DoneInv
  <2>1. ASSUME DoneAt(j)', db'.indexed => Stages[2] \in db'.done,
               db'.indexed /\ ~db'.pending => Stages[3] \in db'.done,
               db'.version => /\ db'.rows /\ db'.indexed
                              /\ Stages[2] \in db'.done /\ Stages[3] \in db'.done /\ Stages[4] \in db'.done
        PROVE  DoneInv'
    <3>1. \A k \in Jobs : DoneAt(k)'
          BY <1>0, <1>1, <2>1, DoneOthers
    <3>2. db'.version => \A i \in 2..4 : Stages[i] \in db'.done
          BY <2>1
    <3> QED BY <1>1, <2>0, <2>1, <3>1, <3>2 DEF DoneInv
  <2>2. CASE pod[j].stage = 1
    <3>1. ~db'.indexed /\ ~db'.version /\ pod'[j].stage = 2
          BY <1>0, <1>3, <2>2, LoadedStage
    <3>2. DoneAt(j)'
          BY <3>1 DEF DoneAt
    <3> QED BY <2>1, <3>1, <3>2
  <2>3. CASE pod[j].stage = 2
    <3>1. Stages[2] \in db'.done /\ ~db'.indexed /\ ~db'.version /\ pod'[j].stage = 3
          BY <1>0, <1>3, <2>a, <2>3, TokenizedStage
    <3>2. DoneAt(j)'
          BY <3>1 DEF DoneAt
    <3> QED BY <2>1, <3>1, <3>2
  <2>4. CASE pod[j].stage = 3
    <3>1. /\ db'.done = db.done \union {Stages[3]} /\ db'.version = db.version /\ db'.rows = db.rows /\ db'.indexed
          /\ pod'[j].stage = 4 /\ Stages[2] \in db.done
          BY <1>0, <1>3, <2>a, <2>4, IndexedStage
    <3>2. DoneAt(j)'
          BY <3>1 DEF DoneAt
    <3> QED BY <2>1, <2>b, <3>1, <3>2
  <2>5. CASE pod[j].stage = 4
    <3>1. /\ db'.done = db.done \union {Stages[4]} /\ db'.rows /\ db'.indexed
          /\ pod'[j].stage = 5 /\ Stages[2] \in db.done /\ Stages[3] \in db.done
          BY <1>0, <1>3, <2>0, <2>a, <2>5, FinalStage
    <3>2. DoneAt(j)'
          BY <3>1 DEF DoneAt
    <3> QED BY <2>1, <3>1, <3>2
  <2> QED BY <1>3, <2>2, <2>3, <2>4, <2>5
<1> QED BY <1>0, <1>2, <1>3, ImportMoves, NoPodTyped DEF Died

LEMMA TraceDone ==
  ASSUME WorkerInv, DoneInv, NEW j \in Jobs, ImportTrace(j)
  PROVE  DoneInv'
<1>0. ControlInv /\ SchemaInv /\ TypeOK
      BY DEF WorkerInv, ControlInv
<1>1. UNCHANGED <<head, project, staging, job, pod, misread, budget>>
      BY Zenon DEF ImportTrace
<1>2. At(j, "import") /\ pod[j].stage \in 1..3 /\ job[j] = "active" /\ Importer(j)
      BY <1>0, TraceEffect, ControlFacts DEF ScriptOK, At, ImportCommands
<1>3. /\ ~project.finished
      /\ pod[j].stage = 2 => ~db.version
      /\ pod[j].stage = 3 => Stages[2] \in db.done
      /\ db.version => db.rows /\ db.indexed /\ \A i \in 2..4 : Stages[i] \in db.done
      BY <1>0, <1>2 DEF SchemaInv, SchemaAt, DoneInv, DoneAt, At
<1>4. /\ db'.indexed => Stages[2] \in db'.done /\ db'.pending
      /\ pod[j].stage \in {1, 2} => ~db'.version
      /\ pod[j].stage = 3 => /\ db'.version = db.version /\ db'.rows = db.rows /\ db'.indexed
                             /\ db'.done = db.done
      BY <1>0, <1>2, <1>3, TraceEffect
<1>5. DoneAt(j)'
      BY <1>1, <1>2, <1>3, <1>4 DEF DoneAt
<1>6. Others(j)
      BY <1>1 DEF Others
<1>7. \A k \in Jobs : DoneAt(k)'
      BY <1>0, <1>2, <1>5, <1>6, DoneOthers
<1>8. db'.version => db'.rows /\ db'.indexed /\ \A i \in 2..4 : Stages[i] \in db'.done
  <2>1. CASE pod[j].stage \in {1, 2}
        BY <1>4, <2>1
  <2>2. CASE pod[j].stage = 3
        BY <1>3, <1>4, <2>2
  <2> QED BY <1>2, <2>1, <2>2
<1> QED BY <1>1, <1>3, <1>4, <1>7, <1>8 DEF DoneInv

LEMMA ArmDone ==
  ASSUME ControlInv, NEW j \in Jobs, Arm(j), Type(j) = "Rebuild"
  PROVE  DoneInv'
<1>1. db' = EmptyDatabase /\ Others(j) /\ pod'[j].pc = "prepare"
      BY ArmMoves DEF Arm
<1>2. ~db'.indexed /\ ~db'.version
      BY <1>1 DEF EmptyDatabase
<1>3. ASSUME NEW k \in Jobs PROVE DoneAt(k)'
  <2>1. CASE k = j
        BY <1>1, <2>1 DEF DoneAt, At
  <2>2. CASE k # j
    <3>1. WP!operationsMutexConflict(j, k)
          BY <2>2 DEF WP!operationsMutexConflict, WP!isWriteHeavyOperation, Type
    <3>2. pod'[k] = NoPod
          BY <1>1, <2>2, <3>1, ControlFacts DEF Arm, Others
    <3> QED BY <3>2, NoPodTyped DEF DoneAt, At
  <2> QED BY <2>1, <2>2
<1> QED BY <1>2, <1>3 DEF DoneInv

LEMMA DoneStep ==
  ASSUME WorkerInv, DoneInv, [Next]_vars, Answered(PlacexProbes)'
  PROVE  DoneInv'
<1>0. ControlInv /\ SchemaInv /\ TypeOK /\ project \in Projects
      BY DEF WorkerInv, ControlInv, TypeOK
<1>1. CASE UNCHANGED vars \/ Publish
      BY <1>1 DEF vars, Publish, DoneInv, DoneAt, At, import_schema_ready
<1>2. ASSUME NEW j \in Jobs, Arm(j) PROVE DoneInv'
  <2>1. project' = project /\ Others(j) /\ pod'[j].pc = "prepare"
        BY <1>0, <1>2, ArmMoves DEF Arm
  <2>2. CASE db' = db
    <3>1. ASSUME NEW k \in Jobs PROVE DoneAt(k)'
          BY <2>1, <2>2 DEF Others, DoneInv, DoneAt, At
    <3> QED BY <2>1, <2>2, <3>1 DEF DoneInv, import_schema_ready
  <2> QED BY <1>0, <1>2, <2>2, ArmSchema, ArmDone
<1>3. ASSUME NEW j \in Jobs,
             \/ Kill(j) \/ Prepare(j) \/ ClearMarkers(j) \/ Download(j) \/ Curl(j) \/ TruncateList(j)
             \/ RecordRegion(j) \/ SeedRecorded(j) \/ finish_bootstrap(j)
      PROVE  DoneInv'
  <2>1. Others(j) /\ job[j] = "active" /\ db' = db
        BY <1>0, <1>3, ControlKept DEF PodStep, Kill, Prepare, ClearMarkers, Download, Curl, TruncateList,
           RecordRegion, SeedRecorded, finish_bootstrap
  <2>2. project'.finished => project.finished \/ import_schema_ready
    <3>1. CASE ClearMarkers(j)
          BY <3>1 DEF ClearMarkers, EmptyProject
    <3>2. CASE finish_bootstrap(j)
          BY <1>0, <3>2, FinishMoves
    <3>3. CASE TruncateList(j) \/ RecordRegion(j) \/ SeedRecorded(j)
          BY <1>0, <3>3, RecordSchema
    <3>4. CASE Kill(j) \/ Prepare(j) \/ Download(j) \/ Curl(j)
          BY <3>4 DEF Kill, Prepare, Download, Curl
    <3> QED BY <1>3, <3>1, <3>2, <3>3, <3>4
  <2>3. pod'[j].pc = "import" => pod'[j].stage = 1
    <3>1. CASE Download(j)
          BY <1>0, <3>1, DownloadMoves, ControlFacts DEF Download, At, ScriptOK
    <3>2. CASE Kill(j)
          BY <1>0, <3>2, EndMoves, NoPodTyped DEF Died
    <3>3. CASE finish_bootstrap(j)
          BY <1>0, <3>3, FinishMoves, NoPodTyped DEF Died
    <3>4. CASE Prepare(j) \/ ClearMarkers(j) \/ Curl(j) \/ TruncateList(j) \/ RecordRegion(j) \/ SeedRecorded(j)
          BY <1>0, <3>4, PrepareMoves, ClearMoves, CurlMoves, RecordMoves
    <3> QED BY <1>3, <3>1, <3>2, <3>3, <3>4
  <2> QED BY <1>0, <2>1, <2>2, <2>3, DoneSame
<1>4. ASSUME NEW j \in Jobs, CheckDatabase(j) PROVE DoneInv'
  <2>1. Others(j) /\ job[j] = "active" /\ project' = project /\ pod'[j].pc = "finish"
        BY <1>0, <1>4, ControlKept, RecordMoves DEF PodStep, CheckDatabase
  <2>2. import_schema_ready /\ import_schema_ready'
        BY <1>0, <1>4, RecordSchema
  <2>3. db'.done = db.done /\ db'.rows = db.rows /\ db'.indexed = db.indexed
    <3>1. CASE db' = db
          BY <3>1
    <3>2. CASE db' = [db EXCEPT !.pending = FALSE]
          BY <1>0, <3>2, PendingEffect
    <3> QED BY <1>4, <3>1, <3>2 DEF CheckDatabase
  <2>4. db'.rows /\ db'.indexed /\ \A i \in 2..4 : Stages[i] \in db'.done
        BY <2>2, <2>3 DEF DoneInv, import_schema_ready
  <2>5. DoneAt(j)'
        BY <2>1 DEF DoneAt, At
  <2>6. \A k \in Jobs : DoneAt(k)'
        BY <1>0, <2>1, <2>5, DoneOthers
  <2> QED BY <2>2, <2>4, <2>6 DEF DoneInv
<1>5. ASSUME NEW j \in Jobs, ImportTrace(j) \/ Import(j) \/ BootstrapStart(j) \/ OtherStep(j) PROVE DoneInv'
      BY <1>5, TraceDone, ImportDone, StartDone, OtherDone
<1> QED BY <1>1, <1>2, <1>3, <1>4, <1>5 DEF Next, PodStep, OtherStep

LEMMA StagesStep == WorkerInv /\ StagesInv /\ [Next]_vars => StagesInv'
<1> SUFFICES ASSUME WorkerInv, StagesInv, [Next]_vars, Answered(PlacexProbes)' PROVE DoneInv'
    BY DEF StagesInv
<1>0. ControlInv
      BY DEF WorkerInv
<1>1. CASE Answered(PlacexProbes)
      BY <1>1, DoneStep DEF StagesInv
<1>2. ASSUME NEW j \in Jobs, Arm(j), Type(j) = "Rebuild" PROVE DoneInv'
      BY <1>0, <1>2, ArmDone
<1> QED BY <1>0, <1>1, <1>2, AnsweredBefore

-----------------------------------------------------------------------------
(* The list of regions.                                                    *)

\* What the detection of the stage leaves alone.
LEMMA StartKeeps ==
  ASSUME ControlInv, NEW j \in Jobs, BootstrapStart(j)
  PROVE  /\ job'[j] \in {job[j], "Failed"}
         /\ project'.list = project.list /\ project'.listed = project.listed /\ project'.states = project.states
         /\ pod'[j].pc \in {"none", "prepare", "download", "import", "finish"}
         /\ pod'[j].pc = "finish" => assert_imported_list_complete(j)
<1>1. PICK yes \in SUBSET Answers :
        project' = [project EXCEPT !.finished = @ /\ "schema" \in yes] /\ StartedBy(j, yes)
      BY StartMoves
<1>2. PICK b \in BOOLEAN : b = (project.finished /\ "schema" \in yes)
      OBVIOUS
<1>3. project' = [project EXCEPT !.finished = b] /\ project \in Projects
      BY <1>1, <1>2, ControlFacts DEF TypeOK
<1>4. project'.list = project.list /\ project'.listed = project.listed /\ project'.states = project.states
      BY <1>3 DEF Projects
<1>5. /\ job'[j] \in {job[j], "Failed"}
      /\ pod'[j].pc \in {"none", "prepare", "download", "import", "finish"}
      /\ pod'[j].pc = "finish" => assert_imported_list_complete(j)
      BY <1>1, NoPodTyped DEF StartedBy, Died, Kept
<1> QED BY <1>4, <1>5

LEMMA OtherNotImporter ==
  ASSUME ControlInv, NEW j \in Jobs, OtherStep(j)
  PROVE  ~Importer(j) /\ Others(j) /\ job[j] = "active" /\ ScriptOK(j)'
<1>1. Others(j) /\ job[j] = "active" /\ ScriptOK(j)'
      BY ControlKept DEF OtherStep, PodStep
<1>2. ~Importer(j)
      BY ControlFacts DEF OtherStep, ScriptOK, At, Importer, AddCommands, RoundCommands,
         RequireBootstrapReady, AddRegion, AddExtract, SeedAdded, AppendRegion, IndexAdded, StartRound,
         UpdateRegion, GetChanges, ApplyChanges, EndRound, RunCommand
<1> QED BY <1>1, <1>2

\* Who makes a Job active, or complete.
LEMMA ActivatedBy ==
  ASSUME ControlInv, [Next]_vars, NEW k \in Jobs, job[k] # "active", job'[k] = "active"
  PROVE  Arm(k)
<1>1. ~(UNCHANGED vars) /\ ~Publish
      BY DEF vars, Publish
<1>2. ASSUME NEW j \in Jobs, ImportTrace(j) PROVE FALSE
  <2>1. UNCHANGED <<head, project, staging, job, pod, misread, budget>>
        BY <1>2, Zenon DEF ImportTrace
  <2> QED BY <2>1
<1>3. ASSUME NEW j \in Jobs, Kill(j) \/ PodStep(j) PROVE FALSE
      BY <1>3, ControlKept DEF Others
<1>4. ASSUME NEW j \in Jobs, Arm(j) PROVE k = j
      BY <1>4, ArmMoves DEF Others
<1> QED BY <1>1, <1>2, <1>3, <1>4 DEF Next

LEMMA CompletedBy ==
  ASSUME ControlInv, [Next]_vars, NEW k \in Jobs, Importer(k), job[k] # "Complete", job'[k] = "Complete"
  PROVE  finish_bootstrap(k) /\ import_schema_ready
<1>1. ~(UNCHANGED vars) /\ ~Publish
      BY DEF vars, Publish
<1>2. ASSUME NEW j \in Jobs, ImportTrace(j) PROVE FALSE
  <2>1. UNCHANGED <<head, project, staging, job, pod, misread, budget>>
        BY <1>2, Zenon DEF ImportTrace
  <2> QED BY <2>1
<1>3. ASSUME NEW j \in Jobs, Arm(j) PROVE FALSE
      BY <1>3, ArmMoves DEF Others
<1>4. ASSUME NEW j \in Jobs, Kill(j) \/ PodStep(j) PROVE j = k /\ job[k] = "active"
      BY <1>4, ControlKept DEF Others
<1>5. ~OtherStep(k)
      BY OtherNotImporter
<1>6. CASE Kill(k)
      BY <1>4, <1>6, EndMoves DEF Died
<1>7. CASE Prepare(k) \/ ClearMarkers(k) \/ Download(k) \/ Curl(k)
      BY <1>4, <1>7, PrepareMoves, ClearMoves, DownloadMoves, CurlMoves DEF Kept
<1>8. CASE BootstrapStart(k) \/ Import(k)
      BY <1>4, <1>8, StartKeeps, ImportMoves DEF Kept, Died
<1>9. CASE TruncateList(k) \/ RecordRegion(k) \/ SeedRecorded(k) \/ CheckDatabase(k)
      BY <1>4, <1>9, RecordMoves DEF Kept
<1>10. CASE finish_bootstrap(k)
      BY <1>4, <1>10, FinishMoves DEF Died, PodStep
<1> QED BY <1>1, <1>2, <1>3, <1>4, <1>5, <1>6, <1>7, <1>8, <1>9, <1>10 DEF Next, PodStep, OtherStep

\* Only rebuild.sh removes the list.
LEMMA ListedStep ==
  ASSUME ControlInv, SchemaInv, [Next]_vars, project.listed, \A j \in Jobs : ~ClearMarkers(j)
  PROVE  project'.listed
<1>0. project \in Projects /\ TypeOK
      BY DEF ControlInv, TypeOK
<1>1. CASE project' = project
      BY <1>1
<1>2. ASSUME NEW j \in Jobs, OtherStep(j) PROVE project'.listed
      BY <1>2, OtherQuiet DEF Quiet, SchemaInv
<1>3. ASSUME NEW j \in Jobs, BootstrapStart(j) PROVE project'.listed
      BY <1>3, StartKeeps
<1>4. ASSUME NEW j \in Jobs, TruncateList(j) PROVE project'.listed
      BY <1>0, <1>4 DEF TruncateList, Projects
<1>5. ASSUME NEW j \in Jobs, RecordRegion(j) PROVE project'.listed
      BY <1>0, <1>5, RecordMoves DEF Projects
<1>6. ASSUME NEW j \in Jobs, SeedRecorded(j) PROVE project'.listed
  <2>1. InLoop(j) /\ seed_region_state(project, Region(j)) /\ Region(j) \in RegionPaths
        BY <1>0, <1>6, RecordMoves, RegionInLoop DEF SeedRecorded
  <2> QED BY <1>0, <2>1, SeedEffect
<1>7. ASSUME NEW j \in Jobs, finish_bootstrap(j) PROVE project'.listed
      BY <1>0, <1>7, FinishMoves DEF Projects
<1>8. ASSUME NEW j \in Jobs, ImportTrace(j) PROVE project' = project
  <2>1. UNCHANGED <<head, project, staging, job, pod, misread, budget>>
        BY <1>8, Zenon DEF ImportTrace
  <2> QED BY <2>1
<1>9. ASSUME NEW j \in Jobs,
             Arm(j) \/ Kill(j) \/ Prepare(j) \/ Download(j) \/ Curl(j) \/ Import(j) \/ CheckDatabase(j)
      PROVE  project' = project
      BY <1>9 DEF Arm, Kill, Prepare, Download, Curl, Import, CheckDatabase
<1>10. UNCHANGED vars \/ Publish => project' = project
      BY DEF vars, Publish
<1> QED BY <1>1, <1>2, <1>3, <1>4, <1>5, <1>6, <1>7, <1>8, <1>9, <1>10 DEF Next, PodStep, OtherStep

\* The pod of an import runs on, or its Job ends.
LEMMA ImporterGoesOn ==
  ASSUME ControlInv, [Next]_vars, NEW k \in Jobs, Importer(k), job[k] = "active"
  PROVE  job'[k] \in {"active", "Complete", "Failed"}
<1>1. CASE job'[k] = job[k]
      BY <1>1
<1>2. UNCHANGED vars \/ Publish => job'[k] = job[k]
      BY DEF vars, Publish
<1>3. ASSUME NEW j \in Jobs, ImportTrace(j) PROVE job'[k] = job[k]
  <2>1. UNCHANGED <<head, project, staging, job, pod, misread, budget>>
        BY <1>3, Zenon DEF ImportTrace
  <2> QED BY <2>1
<1>4. ASSUME NEW j \in Jobs, Arm(j) PROVE job'[k] = job[k]
      BY <1>4, ArmMoves DEF Others
<1>5. ASSUME NEW j \in Jobs, j # k, Kill(j) \/ PodStep(j) PROVE job'[k] = job[k]
      BY <1>5, ControlKept DEF Others
<1>6. ~OtherStep(k)
      BY OtherNotImporter
<1>7. CASE Kill(k)
      BY <1>7, EndMoves DEF Died
<1>8. CASE Prepare(k) \/ ClearMarkers(k) \/ Download(k) \/ Curl(k)
      BY <1>8, PrepareMoves, ClearMoves, DownloadMoves, CurlMoves DEF Kept
<1>9. CASE BootstrapStart(k) \/ Import(k)
      BY <1>9, StartKeeps, ImportMoves DEF Kept, Died
<1>10. CASE TruncateList(k) \/ RecordRegion(k) \/ SeedRecorded(k) \/ CheckDatabase(k)
      BY <1>10, RecordMoves DEF Kept
<1>11. CASE finish_bootstrap(k)
      BY <1>11, FinishMoves DEF Died
<1> QED BY <1>1, <1>2, <1>3, <1>4, <1>5, <1>6, <1>7, <1>8, <1>9, <1>10, <1>11 DEF Next, PodStep, OtherStep

\* Nobody passes the region gate before an import is complete.
LEMMA GatedStep ==
  ASSUME ControlInv, ListExists, [Next]_vars
  PROVE  /\ bootstrapComplete => bootstrapComplete'
         /\ \A j \in Jobs : job'[j] = "active" /\ WP!requiresRegionGate(Type(j)) => bootstrapComplete'
<1>1. bootstrapComplete => bootstrapComplete'
      BY EndedStays DEF bootstrapComplete, Type
<1>2. ASSUME NEW j \in Jobs, job'[j] = "active", WP!requiresRegionGate(Type(j)) PROVE bootstrapComplete
  <2>1. CASE job[j] = "active"
        BY <1>2, <2>1 DEF ListExists
  <2>2. CASE job[j] # "active"
        BY <1>2, <2>2, ActivatedBy DEF Arm
  <2> QED BY <2>1, <2>2
<1> QED BY <1>1, <1>2

\* The list exists from truncate on.
LEMMA ListNeeded ==
  ASSUME WorkerInv, ListExists, [Next]_vars, NEW k \in Jobs,
         pod'[k].pc \in {"record", "seed", "check", "finish"}
  PROVE  project'.listed
<1>0. ControlInv /\ SchemaInv /\ TypeOK /\ project \in Projects
      BY DEF WorkerInv, ControlInv, TypeOK
<1>1. CASE pod'[k] = pod[k]
  <2>1. project.listed /\ job[k] = "active" /\ Importer(k)
        BY <1>0, <1>1, ControlFacts DEF ListExists, ScriptOK, ImportCommands
  <2>2. ASSUME NEW j \in Jobs, ClearMarkers(j) PROVE FALSE
    <3>1. j # k
          BY <1>0, <1>1, <2>2, ClearMoves DEF ClearMarkers, At
    <3> QED BY <1>0, <2>1, <2>2, <3>1, HeavyAlone, NoPodTyped DEF Importer, ClearMarkers, At
  <2> QED BY <1>0, <2>1, <2>2, ListedStep
<1>2. UNCHANGED vars \/ Publish => pod'[k] = pod[k]
      BY DEF vars, Publish
<1>3. ASSUME NEW j \in Jobs, ImportTrace(j) PROVE pod'[k] = pod[k]
  <2>1. UNCHANGED <<head, project, staging, job, pod, misread, budget>>
        BY <1>3, Zenon DEF ImportTrace
  <2> QED BY <2>1
<1>4. ASSUME NEW j \in Jobs, j # k, Arm(j) \/ Kill(j) \/ PodStep(j) PROVE pod'[k] = pod[k]
      BY <1>0, <1>4, ArmMoves, ControlKept DEF Others
<1>5. ASSUME Arm(k) \/ Kill(k) \/ finish_bootstrap(k) PROVE FALSE
      BY <1>0, <1>5, ArmMoves, EndMoves, FinishMoves, NoPodTyped DEF Died
<1>6. ASSUME Prepare(k) \/ ClearMarkers(k) \/ Download(k) \/ Curl(k) \/ Import(k) PROVE FALSE
      BY <1>0, <1>6, PrepareMoves, ClearMoves, DownloadMoves, CurlMoves, ImportMoves, NoPodTyped DEF Died
<1>7. ASSUME OtherStep(k) PROVE FALSE
      BY <1>0, <1>7, OtherNotImporter DEF ScriptOK, ImportCommands, Importer, Type
<1>8. CASE BootstrapStart(k)
  <2>1. assert_imported_list_complete(k) /\ Importer(k)
        BY <1>0, <1>8, StartKeeps, ControlFacts DEF BootstrapStart, At, ScriptOK, ImportCommands
  <2>2. 1 \in DOMAIN OpRegions[k]
        BY <2>1, TypesImplemented DEF Importer
  <2>3. OpRegions[k][1] \in Regions(k)
        BY <2>2 DEF Regions
  <2>4. project.listed
        BY <2>1, <2>3 DEF assert_imported_list_complete, region_already_imported
  <2> QED BY <1>0, <1>8, <2>4, StartKeeps
<1>9. CASE TruncateList(k)
      BY <1>0, <1>9 DEF TruncateList, Projects
<1>10. CASE RecordRegion(k) \/ CheckDatabase(k)
  <2>1. project.listed
        BY <1>10 DEF RecordRegion, CheckDatabase, At, ListExists
  <2>2. project' = project \/ project' = [project EXCEPT !.list = @ \union {Region(k)}]
        BY <1>10 DEF RecordRegion, CheckDatabase
  <2> QED BY <1>0, <2>1, <2>2 DEF Projects
<1>11. CASE SeedRecorded(k)
  <2>1. project.listed /\ InLoop(k) /\ seed_region_state(project, Region(k))
        BY <1>0, <1>11, RecordMoves DEF SeedRecorded, At, ListExists
  <2> QED BY <1>0, <2>1, RegionInLoop, SeedEffect
<1> QED BY <1>1, <1>2, <1>3, <1>4, <1>5, <1>6, <1>7, <1>8, <1>9, <1>10, <1>11 DEF Next, PodStep, OtherStep

LEMMA ListExistsStep ==
  ASSUME WorkerInv, ListExists, [Next]_vars
  PROVE  ListExists'
<1>0. ControlInv /\ SchemaInv /\ TypeOK /\ project \in Projects
      BY DEF WorkerInv, ControlInv, TypeOK
<1>1. ASSUME NEW k \in Jobs, Importer(k), job[k] # "Complete", job'[k] = "Complete" PROVE project'.listed
  <2>1. finish_bootstrap(k) /\ import_schema_ready
        BY <1>0, <1>1, CompletedBy
  <2>2. project.listed /\ (project' = project \/ project' = [project EXCEPT !.finished = TRUE])
        BY <2>1 DEF finish_bootstrap, At, ListExists
  <2> QED BY <1>0, <2>2 DEF Projects
<1>2. ASSUME bootstrapComplete'
      PROVE  project'.listed \/ \E j \in Jobs : Type(j) = "Rebuild" /\ job'[j] \in {"active", "Failed"}
  <2>1. PICK k \in Jobs : Importer(k) /\ job'[k] = "Complete"
        BY <1>2 DEF bootstrapComplete, Importer, Type
  <2>2. CASE job[k] # "Complete"
        BY <1>1, <2>1, <2>2
  <2>3. CASE job[k] = "Complete"
    <3>1. project.listed \/ \E j \in Jobs : Type(j) = "Rebuild" /\ job[j] \in {"active", "Failed"}
          BY <2>1, <2>3 DEF bootstrapComplete, Importer, ListExists
    <3>2. ASSUME NEW j \in Jobs, ClearMarkers(j) PROVE Type(j) = "Rebuild" /\ job'[j] = "active"
          BY <1>0, <3>2, ClearMoves, ControlFacts DEF ClearMarkers, At, ScriptOK, Kept
    <3>3. CASE project.listed /\ \A j \in Jobs : ~ClearMarkers(j)
          BY <1>0, <3>3, ListedStep
    <3>4. ASSUME NEW j \in Jobs, Type(j) = "Rebuild", job[j] = "Failed" PROVE job'[j] = "Failed"
          BY <1>0, <3>4, EndedStays
    <3>5. ASSUME NEW j \in Jobs, Type(j) = "Rebuild", job[j] = "active"
          PROVE  project'.listed \/ job'[j] \in {"active", "Failed"}
          BY <1>0, <1>1, <3>5, ImporterGoesOn DEF Importer
    <3> QED BY <3>1, <3>2, <3>3, <3>4, <3>5
  <2> QED BY <2>2, <2>3
<1>3. \A j \in Jobs : pod'[j].pc \in {"record", "seed", "check", "finish"} => project'.listed
      BY ListNeeded
<1>4. \A j \in Jobs : job'[j] = "active" /\ WP!requiresRegionGate(Type(j)) => bootstrapComplete'
      BY <1>0, GatedStep
<1> QED BY <1>2, <1>3, <1>4 DEF ListExists, Type

-----------------------------------------------------------------------------
(* Extracts on the staging volume.                                         *)

\* The commands at which FilesAt says something.
FileCommands == {"download", "curl", "import", "add-data", "add-seed", "append"}

LEMMA FilesVacuous ==
  ASSUME NEW j \in Jobs, pod'[j].pc \in FileCommands => pod'[j].pc = "import" /\ pod'[j].stage # 1
  PROVE  FilesAt(j)'
BY DEF FilesAt, At, FileCommands

LEMMA FilesOthers ==
  ASSUME ControlInv, NEW j \in Jobs, NEW k \in Jobs, k # j, job[j] = "active", Others(j)
  PROVE  FilesAt(k)'
<1>1. pod'[k] = pod[k]
      BY DEF Others
<1>2. CASE job[k] # "active"
  <2>1. pod'[k].pc = "none"
        BY <1>1, <1>2, ControlFacts, NoPodTyped
  <2> QED BY <2>1, FilesVacuous DEF FileCommands
<1>3. CASE job[k] = "active"
  <2>1. Type(k) \in {"Update", "CatchUp", "Refresh"}
        BY <1>3, OthersLight
  <2>2. pod[k].pc \notin FileCommands
        BY <2>1, ControlFacts DEF ScriptOK, At, Importer, FileCommands, ImportCommands, AddCommands
  <2> QED BY <1>1, <2>2, FilesVacuous
<1> QED BY <1>2, <1>3

\* A new file takes the place of the one that was there.
LEMMA FilesStay ==
  ASSUME TypeOK, NEW j \in Jobs, NEW part \in SUBSET RegionPaths, NEW x \in RegionPaths, NEW s \in 0..MaxHead,
         Files(j, part, x, s), staging[j].partial \subseteq part \union {x}, x \in part \/ s # 0,
         NEW r \in RegionPaths, r = x \/ HasFile(j, r)
  PROVE  HasFile(j, r)'
<1>1. staging'[j].partial = part
      BY FilesEffect
<1>2. \A y \in RegionPaths : staging'[j].whole[y] = IF y = x THEN s ELSE staging[j].whole[y]
      BY FilesEffect
<1>3. CASE r = x
      BY <1>1, <1>2, <1>3 DEF HasFile
<1>4. CASE r # x /\ HasFile(j, r)
      BY <1>1, <1>2, <1>4 DEF HasFile
<1> QED BY <1>3, <1>4

LEMMA DownloadFiles ==
  ASSUME ControlInv, NEW j \in Jobs, FilesAt(j), Download(j)
  PROVE  FilesAt(j)'
<1>0. TypeOK /\ Importer(j) /\ pod[j].stage = 1
      BY ControlFacts DEF Download, At, ScriptOK, ImportCommands
<1>1. \A i \in DOMAIN OpRegions[j] : i < pod[j].at => HasFile(j, OpRegions[j][i])
      BY <1>0 DEF Download, At, FilesAt
<1>2. pod[j].at \in Nat \ {0} /\ Len(OpRegions[j]) \in Nat /\ DOMAIN OpRegions[j] = 1..Len(OpRegions[j])
      BY <1>0, RegionTyped DEF TypeOK, Pods
<1>3. ASSUME ~InLoop(j), pod'[j].pc = "import", staging' = staging PROVE FilesAt(j)'
  <2>1. \A i \in DOMAIN OpRegions[j] : i < pod[j].at
        BY <1>2, <1>3 DEF InLoop
  <2>2. \A r \in Regions(j) : HasFile(j, r)'
        BY <1>1, <1>3, <2>1 DEF Regions, HasFile
  <2> QED BY <1>3, <2>2 DEF FilesAt, At, Regions
<1>4. ASSUME InLoop(j), pod'[j].pc = "download", pod'[j].at = pod[j].at + 1, staging' = staging,
             HasFile(j, Region(j))
      PROVE  FilesAt(j)'
  <2>1. ASSUME NEW i \in DOMAIN OpRegions[j], i < pod'[j].at PROVE HasFile(j, OpRegions[j][i])
    <3>1. i < pod[j].at \/ i = pod[j].at
          BY <1>2, <1>4, <2>1
    <3> QED BY <1>1, <1>4, <3>1 DEF Region
  <2>2. \A i \in DOMAIN OpRegions[j] : i < pod'[j].at => HasFile(j, OpRegions[j][i])'
        BY <1>4, <2>1 DEF HasFile
  <2> QED BY <1>4, <2>2 DEF FilesAt, At
<1>5. ASSUME InLoop(j), pod'[j].pc = "curl", pod'[j].at = pod[j].at,
             Files(j, staging[j].partial \union {Region(j)}, Region(j), 0)
      PROVE  FilesAt(j)'
  <2>1. Region(j) \in RegionPaths /\ staging[j].partial \subseteq RegionPaths
        BY <1>0, <1>5, RegionInLoop DEF TypeOK, Stagings
  <2>2. PICK part \in SUBSET RegionPaths : part = staging[j].partial \union {Region(j)}
        BY <2>1
  <2>3. PICK s \in 0..MaxHead : s = 0
        BY BoundsTyped
  <2>4. Files(j, part, Region(j), s)
        BY <1>5, <2>2, <2>3
  <2>5. ASSUME NEW i \in DOMAIN OpRegions[j], i < pod'[j].at PROVE HasFile(j, OpRegions[j][i])'
    <3>1. HasFile(j, OpRegions[j][i]) /\ OpRegions[j][i] \in RegionPaths
          BY <1>1, <1>2, <1>5, <2>5, RegionTyped
    <3> QED BY <1>0, <2>1, <2>2, <2>4, <3>1, FilesStay
  <2>6. \A i \in DOMAIN OpRegions[j] : i < pod'[j].at => HasFile(j, OpRegions[j][i])'
        BY <2>5
  <2> QED BY <1>5, <2>6 DEF FilesAt, At
<1> QED BY <1>0, <1>3, <1>4, <1>5, DownloadMoves

LEMMA CurlFiles ==
  ASSUME ControlInv, NEW j \in Jobs, FilesAt(j), Curl(j)
  PROVE  FilesAt(j)'
<1>0. TypeOK /\ InLoop(j) /\ At(j, "curl")
      BY ControlFacts, CurlMoves DEF Curl
<1>1. /\ Region(j) \in RegionPaths /\ staging[j].partial \subseteq RegionPaths
      /\ head \in 0..MaxHead /\ head # 0
      BY <1>0, RegionInLoop, BoundsTyped DEF TypeOK, Stagings, Diffs
<1>2. PICK part \in SUBSET RegionPaths : part = staging[j].partial \ {Region(j)}
      BY <1>1
<1>3. Files(j, part, Region(j), head)
      BY <1>2 DEF Curl
<1>4. pod[j].at \in Nat \ {0} /\ Len(OpRegions[j]) \in Nat /\ DOMAIN OpRegions[j] = 1..Len(OpRegions[j])
      BY <1>0, RegionTyped DEF TypeOK, Pods
<1>5. ASSUME pod'[j].pc = "add-data", pod'[j].at = pod[j].at PROVE FilesAt(j)'
  <2>1. PICK x \in RegionPaths : x = Region(j)
        BY <1>1
  <2>2. Files(j, part, x, head)
        BY <1>3, <2>1
  <2>3. \A y \in RegionPaths : staging'[j].whole[y] = IF y = x THEN head ELSE staging[j].whole[y]
        BY <1>0, <1>1, <2>2, FilesEffect
  <2>4. Region(j)' = x
        BY <1>5, <2>1 DEF Region
  <2> QED BY <1>1, <1>5, <2>3, <2>4 DEF FilesAt, At
<1>6. ASSUME Importer(j), pod'[j].pc = "download", pod'[j].at = pod[j].at + 1 PROVE FilesAt(j)'
  <2>1. \A i \in DOMAIN OpRegions[j] : i < pod[j].at => HasFile(j, OpRegions[j][i])
        BY <1>0, <1>6 DEF At, FilesAt
  <2>2. ASSUME NEW i \in DOMAIN OpRegions[j], i < pod'[j].at PROVE HasFile(j, OpRegions[j][i])'
    <3>1. i < pod[j].at \/ i = pod[j].at
          BY <1>4, <1>6, <2>2
    <3>2. OpRegions[j][i] \in RegionPaths /\ (OpRegions[j][i] = Region(j) \/ HasFile(j, OpRegions[j][i]))
          BY <1>4, <2>1, <3>1, RegionTyped DEF Region
    <3> QED BY <1>0, <1>1, <1>2, <1>3, <3>2, FilesStay
  <2>3. \A i \in DOMAIN OpRegions[j] : i < pod'[j].at => HasFile(j, OpRegions[j][i])'
        BY <2>2
  <2> QED BY <1>6, <2>3 DEF FilesAt, At
<1> QED BY <1>5, <1>6, CurlMoves

\* add-regions.sh.
LEMMA AddFiles ==
  ASSUME ControlInv, NEW j \in Jobs, FilesAt(j), AddRegion(j) \/ AddExtract(j) \/ SeedAdded(j)
  PROVE  FilesAt(j)'
<1>0. TypeOK /\ ~Importer(j)
      BY ControlFacts DEF AddRegion, AddExtract, SeedAdded, At, ScriptOK, AddCommands, Importer
<1>1. ASSUME pod'[j].pc = "add-data", pod'[j].at = pod[j].at, staging' = staging,
             staging[j].whole[Region(j)] # 0
      PROVE  FilesAt(j)'
      BY <1>1 DEF FilesAt, At, Region
<1>2. ASSUME pod'[j].pc = "curl" PROVE FilesAt(j)'
      BY <1>0, <1>2 DEF FilesAt, At, Importer, Type
<1>3. CASE AddRegion(j)
      BY <1>1, <1>2, <1>3, AddMoves, FilesVacuous DEF FileCommands
<1>4. CASE AddExtract(j)
  <2>1. CASE Died(j)
        BY <2>1, FilesVacuous, NoPodTyped DEF Died, FileCommands
  <2>2. ASSUME db' = AddData(Region(j), 1..staging[j].whole[Region(j)]),
               pod'[j].pc = "add-seed", pod'[j].at = pod[j].at
        PROVE  FilesAt(j)'
    <3>1. staging[j].whole[Region(j)] # 0 /\ Region(j) \in RegionPaths
          BY <1>0, <1>4, ExtractMoves, RegionInLoop DEF AddExtract, FilesAt
    <3>2. staging[j].whole[Region(j)] \in 0..MaxHead
          BY <1>0, <3>1 DEF TypeOK, Stagings
    <3>3. PICK d \in SUBSET Diffs : d = 1..staging[j].whole[Region(j)]
          BY <3>2, BoundsTyped DEF Diffs
    <3>4. 1 \in d
          BY <3>1, <3>2, <3>3, BoundsTyped
    <3>5. PICK x \in RegionPaths : x = Region(j)
          BY <3>1
    <3>6. db' = AddData(x, d)
          BY <2>2, <3>3, <3>5
    <3>7. \A y \in RegionPaths : db'.data[y] = IF y = x THEN db.data[y] \union d ELSE db.data[y]
          BY <1>0, <3>6, AddDataEffect
    <3>8. Region(j)' = x
          BY <2>2, <3>5 DEF Region
    <3> QED BY <2>2, <3>4, <3>7, <3>8 DEF FilesAt, At
  <2> QED BY <1>4, <2>1, <2>2, ExtractMoves
<1>5. CASE SeedAdded(j)
  <2>1. pod'[j].pc = "append" /\ pod'[j].at = pod[j].at /\ db' = db
        BY <1>5, AddedMoves DEF SeedAdded, Kept
  <2>2. db'.data[Region(j)] # {} /\ Region(j)' = Region(j)
        BY <1>5, <2>1 DEF SeedAdded, At, FilesAt, Region
  <2> QED BY <2>1, <2>2 DEF FilesAt, At
<1> QED BY <1>3, <1>4, <1>5

LEMMA FilesStep ==
  ASSUME WorkerInv, \A k \in Jobs : FilesAt(k), [Next]_vars
  PROVE  \A k \in Jobs : FilesAt(k)'
<1> DEFINE Goal == \A k \in Jobs : FilesAt(k)'
<1>0. ControlInv /\ SchemaInv /\ TypeOK
      BY DEF WorkerInv, ControlInv
<1>1. CASE UNCHANGED vars \/ Publish
      BY <1>1 DEF vars, Publish, FilesAt, At, HasFile, Region, Regions
<1>2. ASSUME NEW j \in Jobs, ImportTrace(j) PROVE Goal
  <2>1. UNCHANGED <<head, project, staging, job, pod, misread, budget>>
        BY <1>2, Zenon DEF ImportTrace
  <2>2. Others(j) /\ At(j, "import") /\ job[j] = "active"
        BY <1>0, <1>2, <2>1, TraceEffect, ControlFacts DEF Others, At
  <2>3. FilesAt(j)'
        BY <2>1, <2>2 DEF FilesAt, At, HasFile, Regions
  <2> QED BY <1>0, <2>2, <2>3, FilesOthers
<1>3. ASSUME NEW j \in Jobs, Arm(j) PROVE Goal
  <2>1. staging' = staging /\ Others(j) /\ pod'[j].pc = "prepare"
        BY <1>0, <1>3, ArmMoves DEF Arm
  <2>2. ASSUME NEW k \in Jobs PROVE FilesAt(k)'
    <3>1. CASE k = j
          BY <2>1, <3>1, FilesVacuous DEF FileCommands
    <3>2. CASE k # j /\ db' = db
      <4>1. pod'[k] = pod[k] /\ FilesAt(k)
            BY <2>1, <3>2 DEF Others
      <4> QED BY <2>1, <3>2, <4>1 DEF FilesAt, At, HasFile, Region, Regions
    <3>3. CASE k # j /\ Type(j) = "Rebuild"
      <4>1. WP!operationsMutexConflict(j, k)
            BY <3>3 DEF WP!operationsMutexConflict, WP!isWriteHeavyOperation, Type
      <4>2. pod'[k] = NoPod
            BY <1>0, <1>3, <2>1, <3>3, <4>1, ControlFacts DEF Arm, Others
      <4> QED BY <4>2, NoPodTyped, FilesVacuous DEF FileCommands
    <3> QED BY <1>0, <1>3, <3>1, <3>2, <3>3, ArmSchema
  <2> QED BY <2>2
<1>4. ASSUME NEW j \in Jobs, Kill(j) \/ PodStep(j) PROVE Goal
  <2>1. Others(j) /\ job[j] = "active" /\ FilesAt(j)
        BY <1>0, <1>4, ControlKept
  <2>2. ASSUME FilesAt(j)' PROVE Goal
        BY <1>0, <2>1, <2>2, FilesOthers
  <2>3. CASE Kill(j) \/ finish_bootstrap(j) \/ Import(j)
        BY <1>0, <2>2, <2>3, EndMoves, FinishMoves, ImportMoves, FilesVacuous, NoPodTyped DEF Died, FileCommands
  <2>4. CASE Prepare(j) \/ ClearMarkers(j) \/ TruncateList(j) \/ RecordRegion(j) \/ SeedRecorded(j) \/ CheckDatabase(j)
        BY <1>0, <2>2, <2>4, PrepareMoves, ClearMoves, RecordMoves, FilesVacuous DEF FileCommands
  <2>5. CASE BootstrapStart(j)
    <3>1. ASSUME pod'[j].pc = "download", pod'[j].at = 1 PROVE FilesAt(j)'
      <4>1. \A i \in DOMAIN OpRegions[j] : ~(i < 1)
            BY RegionTyped
      <4> QED BY <3>1, <4>1 DEF FilesAt, At
    <3>2. PICK yes \in SUBSET Answers : StartedBy(j, yes)
          BY <1>0, <2>5, StartMoves
    <3>3. \/ pod'[j].pc \in {"none", "prepare", "finish"}
          \/ pod'[j].pc = "download" /\ pod'[j].at = 1
          \/ pod'[j].pc = "import" /\ pod'[j].stage # 1
          BY <3>2, NoPodTyped DEF StartedBy, Died
    <3> QED BY <2>2, <3>1, <3>3, FilesVacuous DEF FileCommands
  <2>6. CASE Download(j) \/ Curl(j) \/ AddRegion(j) \/ AddExtract(j) \/ SeedAdded(j)
        BY <1>0, <2>1, <2>2, <2>6, DownloadFiles, CurlFiles, AddFiles
  <2>7. CASE RequireBootstrapReady(j) \/ AppendRegion(j) \/ IndexAdded(j) \/ EndRound(j) \/ RunCommand(j)
        BY <1>0, <2>2, <2>7, ReadyMoves, AddedMoves, EndMoves, FilesVacuous, NoPodTyped DEF Died, FileCommands
  <2>8. CASE StartRound(j) \/ UpdateRegion(j) \/ GetChanges(j) \/ ApplyChanges(j)
        BY <1>0, <2>2, <2>8, RoundMoves, UpdateMoves, ChangesMoves, ApplyMoves, FilesVacuous, NoPodTyped
           DEF Died, FileCommands
  <2> QED BY <1>4, <2>3, <2>4, <2>5, <2>6, <2>7, <2>8 DEF PodStep
<1> QED BY <1>1, <1>2, <1>3, <1>4 DEF Next

-----------------------------------------------------------------------------
(* The regions that the importer has recorded.                             *)

ListCommands == {"record", "seed", "check", "finish"}

LEMMA ListVacuous ==
  ASSUME NEW j \in Jobs, pod'[j].pc \notin ListCommands
  PROVE  ListAt(j)'
BY DEF ListAt, At, ListCommands

LEMMA ListSame ==
  ASSUME NEW j \in Jobs, ListAt(j), pod'[j] = pod[j], project' = project
  PROVE  ListAt(j)'
BY DEF ListAt, At, Region, Regions

LEMMA ListOthers ==
  ASSUME ControlInv, NEW j \in Jobs, NEW k \in Jobs, k # j, job[j] = "active", Others(j)
  PROVE  ListAt(k)'
<1>1. pod'[k] = pod[k]
      BY DEF Others
<1>2. ASSUME pod[k].pc \in ListCommands PROVE FALSE
  <2>1. job[k] = "active" /\ Importer(k)
        BY <1>2, ControlFacts DEF ScriptOK, ImportCommands, ListCommands
  <2> QED BY <2>1, HeavyAlone DEF Importer
<1> QED BY <1>1, <1>2, ListVacuous

\* record_imported_regions_from_spec.
LEMMA RecordList ==
  ASSUME ControlInv, NEW j \in Jobs, ListAt(j),
         TruncateList(j) \/ RecordRegion(j) \/ SeedRecorded(j) \/ CheckDatabase(j)
  PROVE  ListAt(j)'
<1>0. TypeOK /\ PodsTyped /\ project \in Projects
      BY ControlFacts DEF TypeOK
<1>1. pod[j].at \in Nat \ {0} /\ Len(OpRegions[j]) \in Nat /\ DOMAIN OpRegions[j] = 1..Len(OpRegions[j])
      BY <1>0, RegionTyped DEF TypeOK, Pods
<1>2. CASE TruncateList(j)
  <2>1. pod'[j].pc = "record" /\ pod'[j].at = 1
        BY <1>0, <1>2, StartLoopEffect DEF TruncateList, Commands
  <2>2. \A i \in DOMAIN OpRegions[j] : ~(i < pod'[j].at)
        BY <1>1, <2>1
  <2> QED BY <2>1, <2>2 DEF ListAt, At
<1>3. CASE RecordRegion(j)
  <2>0. At(j, "record") /\ \A i \in DOMAIN OpRegions[j] : i < pod[j].at => OpRegions[j][i] \in project.list
        BY <1>3 DEF RecordRegion, ListAt, At
  <2>1. ASSUME InLoop(j), pod'[j].pc = "seed", project' = [project EXCEPT !.list = @ \union {Region(j)}], Kept(j)
        PROVE  ListAt(j)'
    <3>1. project'.list = project.list \union {Region(j)}
          BY <1>0, <2>1 DEF Projects
    <3>2. Region(j)' = Region(j) /\ pod'[j].at = pod[j].at
          BY <2>1 DEF Kept, Region
    <3> QED BY <2>0, <2>1, <3>1, <3>2 DEF ListAt, At
  <2>2. ASSUME ~InLoop(j), pod'[j].pc = "check", project' = project PROVE ListAt(j)'
    <3>1. \A i \in DOMAIN OpRegions[j] : i < pod[j].at
          BY <1>1, <2>2 DEF InLoop
    <3>2. Regions(j) \subseteq project.list
          BY <2>0, <3>1 DEF Regions
    <3> QED BY <2>2, <3>2 DEF ListAt, At, Regions
  <2> QED BY <1>3, <2>1, <2>2, RecordMoves
<1>4. CASE SeedRecorded(j)
  <2>1. InLoop(j) /\ Region(j) \in RegionPaths /\ pod'[j].pc = "record" /\ pod'[j].at = pod[j].at + 1
        BY <1>0, <1>4, RecordMoves, RegionInLoop, NextRegionEffect DEF SeedRecorded, Commands
  <2>2. project'.list = project.list
        BY <1>0, <1>4, <2>1, SeedEffect DEF SeedRecorded
  <2>3. /\ \A i \in DOMAIN OpRegions[j] : i < pod[j].at => OpRegions[j][i] \in project.list
        /\ Region(j) \in project.list
        BY <1>4 DEF SeedRecorded, At, ListAt
  <2>4. ASSUME NEW i \in DOMAIN OpRegions[j], i < pod'[j].at PROVE OpRegions[j][i] \in project.list
    <3>1. i < pod[j].at \/ i = pod[j].at
          BY <1>1, <2>1, <2>4
    <3> QED BY <2>3, <3>1 DEF Region
  <2> QED BY <2>1, <2>2, <2>4 DEF ListAt, At
<1>5. CASE CheckDatabase(j)
  <2>1. pod'[j].pc = "finish" /\ project' = project /\ Regions(j) \subseteq project.list
        BY <1>5, RecordMoves DEF CheckDatabase, At, ListAt
  <2> QED BY <2>1 DEF ListAt, At, Regions
<1> QED BY <1>2, <1>3, <1>4, <1>5

LEMMA ListAtStep ==
  ASSUME ControlInv, \A k \in Jobs : ListAt(k), [Next]_vars
  PROVE  \A k \in Jobs : ListAt(k)'
<1> DEFINE Goal == \A k \in Jobs : ListAt(k)'
<1>1. CASE UNCHANGED vars \/ Publish
      BY <1>1, ListSame DEF vars, Publish
<1>2. ASSUME NEW j \in Jobs, ImportTrace(j) PROVE Goal
  <2>1. UNCHANGED <<head, project, staging, job, pod, misread, budget>>
        BY <1>2, Zenon DEF ImportTrace
  <2> QED BY <2>1, ListSame
<1>3. ASSUME NEW j \in Jobs, Arm(j) PROVE Goal
  <2>1. project' = project /\ Others(j) /\ pod'[j].pc = "prepare"
        BY <1>3, ArmMoves DEF Arm
  <2> QED BY <2>1, ListSame, ListVacuous DEF Others, ListCommands
<1>4. ASSUME NEW j \in Jobs, Kill(j) \/ PodStep(j) PROVE Goal
  <2>1. Others(j) /\ job[j] = "active" /\ ListAt(j)
        BY <1>4, ControlKept
  <2>2. ASSUME ListAt(j)' PROVE Goal
        BY <2>1, <2>2, ListOthers
  <2>3. CASE Kill(j) \/ finish_bootstrap(j) \/ Import(j)
        BY <2>2, <2>3, EndMoves, FinishMoves, ImportMoves, ListVacuous, NoPodTyped DEF Died, ListCommands
  <2>4. CASE Prepare(j) \/ ClearMarkers(j) \/ Download(j) \/ Curl(j)
        BY <2>2, <2>4, PrepareMoves, ClearMoves, DownloadMoves, CurlMoves, ListVacuous DEF ListCommands
  <2>5. CASE BootstrapStart(j)
    <3>1. ASSUME pod'[j].pc = "finish" PROVE ListAt(j)'
      <4>1. Regions(j) \subseteq project.list /\ project'.list = project.list
            BY <2>5, <3>1, StartKeeps DEF assert_imported_list_complete, region_already_imported
      <4> QED BY <3>1, <4>1 DEF ListAt, At, Regions
    <3>2. ASSUME pod'[j].pc # "finish" PROVE ListAt(j)'
          BY <2>5, <3>2, StartKeeps, ListVacuous DEF ListCommands
    <3> QED BY <2>2, <3>1, <3>2
  <2>6. CASE TruncateList(j) \/ RecordRegion(j) \/ SeedRecorded(j) \/ CheckDatabase(j)
        BY <2>1, <2>2, <2>6, RecordList
  <2>7. CASE OtherStep(j)
    <3>1. pod'[j].pc \notin ListCommands
          BY <2>7, OtherNotImporter DEF ScriptOK, ImportCommands, Importer, Type, ListCommands
    <3> QED BY <2>2, <3>1, ListVacuous
  <2> QED BY <1>4, <2>3, <2>4, <2>5, <2>6, <2>7 DEF PodStep, OtherStep
<1> QED BY <1>1, <1>2, <1>3, <1>4 DEF Next

-----------------------------------------------------------------------------
(* What was imported is in the database.                                   *)

\* The data of the first stage, once it is done, only grow until the stage runs
\* again.
LEMMA LoadedFrame ==
  ASSUME WorkerInv, [Next]_vars, Stages[1] \in db'.done
  PROVE  \/ \E j \in Jobs : /\ Import(j) /\ pod[j].stage = 1 /\ db' = AfterStage(j, 1)
                           /\ staging[j].partial \intersect Regions(j) = {}
         \/ /\ Stages[1] \in db.done /\ \A r \in RegionPaths : db.data[r] \subseteq db'.data[r]
            /\ db'.given = db.given
<1> DEFINE Frame == /\ Stages[1] \in db.done /\ \A r \in RegionPaths : db.data[r] \subseteq db'.data[r]
                    /\ db'.given = db.given
<1>0. ControlInv /\ SchemaInv /\ TypeOK
      BY DEF WorkerInv, ControlInv
<1>1. ASSUME Stages[1] \in db.done, db'.data = db.data, db'.given = db.given PROVE Frame
      BY <1>1
<1>a. ASSUME db' = db PROVE Frame
      BY <1>1, <1>a
<1>2. CASE UNCHANGED vars \/ Publish
      BY <1>a, <1>2 DEF vars, Publish
<1>3. ASSUME NEW j \in Jobs, Arm(j) PROVE Frame
      BY <1>0, <1>a, <1>3, ArmSchema DEF EmptyDatabase
<1>4. ASSUME NEW j \in Jobs,
             \/ Kill(j) \/ Prepare(j) \/ ClearMarkers(j) \/ BootstrapStart(j) \/ Download(j) \/ Curl(j)
             \/ finish_bootstrap(j) \/ TruncateList(j) \/ RecordRegion(j) \/ SeedRecorded(j)
      PROVE  Frame
      BY <1>a, <1>4 DEF Kill, Prepare, ClearMarkers, BootstrapStart, Download, Curl, finish_bootstrap,
         TruncateList, RecordRegion, SeedRecorded
<1>5. ASSUME NEW j \in Jobs, CheckDatabase(j) PROVE Frame
      BY <1>0, <1>1, <1>5, PendingEffect DEF CheckDatabase
<1>6. ASSUME NEW j \in Jobs, OtherStep(j) PROVE Frame
      BY <1>0, <1>6, OtherQuiet DEF Quiet, SchemaInv
<1>7. ASSUME NEW j \in Jobs, ImportTrace(j) PROVE Frame
  <2>1. Stages[1] \in db.done /\ db'.data = db.data /\ db'.given = db.given
        BY <1>0, <1>7, TraceEffect
  <2> QED BY <1>1, <2>1
<1>8. ASSUME NEW j \in Jobs, Import(j),
             ~(/\ pod[j].stage = 1 /\ db' = AfterStage(j, 1)
               /\ staging[j].partial \intersect Regions(j) = {})
      PROVE  Frame
  <2>1. CASE db' = db
        BY <1>a, <2>1
  <2>2. CASE pod[j].stage = 2 /\ db' = AfterStage(j, 2)
    <3>1. /\ db'.done = (db.done \intersect {Stages[1]}) \union {Stages[2]}
          /\ db'.data = db.data /\ db'.given = db.given
          BY <1>0, <2>2, TokenizedStage
    <3> QED BY <1>1, <3>1, StagesAre
  <2>3. CASE pod[j].stage = 3 /\ db' = AfterStage(j, 3)
    <3>1. db'.done = db.done \union {Stages[3]} /\ db'.data = db.data /\ db'.given = db.given
          BY <1>0, <2>3, IndexedStage
    <3> QED BY <1>1, <3>1, StagesAre
  <2>4. CASE pod[j].stage = 4 /\ db' = AfterStage(j, 4)
    <3>1. db'.done = db.done \union {Stages[4]} /\ db'.data = db.data /\ db'.given = db.given
          BY <1>0, <2>4, FinalStage
    <3> QED BY <1>1, <3>1, StagesAre
  <2> QED BY <1>0, <1>8, <2>1, <2>2, <2>3, <2>4, ImportMoves
<1> QED BY <1>2, <1>3, <1>4, <1>5, <1>6, <1>7, <1>8 DEF Next, PodStep, OtherStep

\* osm2pgsql has read an extract of every region.
LEMMA LoadedAll ==
  ASSUME ControlInv, NEW j \in Jobs, FilesAt(j), Import(j), pod[j].stage = 1, db' = AfterStage(j, 1),
         staging[j].partial \intersect Regions(j) = {}
  PROVE  db'.given = Regions(j) /\ \A r \in Regions(j) : db'.data[r] # {}
<1>1. TypeOK /\ At(j, "import") /\ db'.given = Regions(j)
      BY LoadedStage DEF ControlInv, Import
<1> SUFFICES ASSUME NEW r \in Regions(j) PROVE db'.data[r] # {}
    BY <1>1
<1>2. r \in RegionPaths
      BY RegionTyped
<1>3. HasFile(j, r) /\ r \notin staging[j].partial
      BY <1>1 DEF FilesAt
<1>4. staging[j].whole[r] \in 0..MaxHead /\ staging[j].whole[r] # 0
      BY <1>1, <1>2, <1>3 DEF HasFile, TypeOK, Stagings
<1>5. 1 \in 1..staging[j].whole[r]
      BY <1>4, BoundsTyped
<1>6. \A x \in RegionPaths : db'.data[x] = IF x \in Regions(j) THEN 1..staging[j].whole[x] ELSE {}
      BY <1>1, LoadedStage
<1> QED BY <1>2, <1>5, <1>6

LEMMA GivenStep ==
  ASSUME WorkerInv, LoadedInv, [Next]_vars
  PROVE  GivenLoaded'
<1>0. ControlInv /\ SchemaInv /\ TypeOK /\ db.given \subseteq RegionPaths
      BY DEF WorkerInv, ControlInv, TypeOK, Databases
<1> SUFFICES ASSUME Stages[1] \in db'.done
             PROVE  /\ \A r \in db'.given : db'.data[r] # {}
                    /\ \A k \in Jobs : Type(k) = "Rebuild" /\ job'[k] = "active" => Regions(k) \subseteq db'.given
    BY DEF GivenLoaded, Type, Regions
<1>1. CASE /\ Stages[1] \in db.done /\ \A r \in RegionPaths : db.data[r] \subseteq db'.data[r]
           /\ db'.given = db.given
  <2>1. \A r \in db'.given : db'.data[r] # {}
        BY <1>0, <1>1 DEF LoadedInv, GivenLoaded
  <2>2. ASSUME NEW k \in Jobs, Type(k) = "Rebuild", job'[k] = "active" PROVE Regions(k) \subseteq db'.given
    <3>1. ASSUME job[k] # "active" PROVE FALSE
      <4>1. Arm(k)
            BY <1>0, <2>2, <3>1, ActivatedBy
      <4> QED BY <2>2, <4>1 DEF Arm, EmptyDatabase
    <3> QED BY <1>1, <2>2, <3>1 DEF LoadedInv, GivenLoaded
  <2> QED BY <2>1, <2>2
<1>2. ASSUME NEW j \in Jobs, Import(j), pod[j].stage = 1, db' = AfterStage(j, 1),
             staging[j].partial \intersect Regions(j) = {}
      PROVE  /\ \A r \in db'.given : db'.data[r] # {}
             /\ \A k \in Jobs : Type(k) = "Rebuild" /\ job'[k] = "active" => Regions(k) \subseteq db'.given
  <2>1. Others(j) /\ job[j] = "active" /\ Importer(j)
        BY <1>0, <1>2, ControlKept, ControlFacts DEF Import, PodStep, ScriptOK, At, ImportCommands
  <2>2. db'.given = Regions(j) /\ \A r \in Regions(j) : db'.data[r] # {}
        BY <1>0, <1>2, LoadedAll DEF LoadedInv
  <2>3. \A k \in Jobs : job'[k] = "active" => k = j
        BY <1>0, <2>1, HeavyAlone DEF Others, Importer
  <2> QED BY <2>2, <2>3
<1> QED BY <1>1, <1>2, LoadedFrame

\* A Bootstrap that has taken up the import of another Job stays one.
LEMMA TakenOverStays ==
  ASSUME ControlInv, [Next]_vars, NEW r \in RegionPaths, TakenOver(r), db'.given = db.given
  PROVE  TakenOver(r)'
<1>1. PICK k \in Jobs : Type(k) = "Bootstrap" /\ job[k] \notin {"unplanned", "none"} /\ r \in Regions(k)
      BY DEF TakenOver
<1>2. job[k] \in {"active", "Complete", "Failed"}
      BY <1>1 DEF ControlInv, TypeOK
<1>3. job'[k] \notin {"unplanned", "none"}
      BY <1>1, <1>2, EndedStays, ImporterGoesOn DEF Importer
<1> QED BY <1>1, <1>3 DEF TakenOver, Type, Regions

\* The list grows by regions that are in the database or were taken over.
LEMMA ListGrows ==
  ASSUME WorkerInv, LoadedInv, [Next]_vars, BookmarksCleared, Stages[1] \in db.done,
         NEW r \in project'.list
  PROVE  r \in project.list \/ db.data[r] # {} \/ TakenOver(r)
<1>0. ControlInv /\ SchemaInv /\ TypeOK /\ project \in Projects
      BY DEF WorkerInv, ControlInv, TypeOK
<1>1. CASE project'.list = project.list
      BY <1>1
<1>2. UNCHANGED vars \/ Publish => project' = project
      BY DEF vars, Publish
<1>3. ASSUME NEW j \in Jobs, ImportTrace(j) PROVE project' = project
  <2>1. UNCHANGED <<head, project, staging, job, pod, misread, budget>>
        BY <1>3, Zenon DEF ImportTrace
  <2> QED BY <2>1
<1>4. ASSUME NEW j \in Jobs,
             \/ Arm(j) \/ Kill(j) \/ Prepare(j) \/ Download(j) \/ Curl(j) \/ Import(j) \/ CheckDatabase(j)
             \/ AddRegion(j) \/ AddExtract(j) \/ IndexAdded(j) \/ ApplyChanges(j) \/ EndRound(j) \/ RunCommand(j)
      PROVE  project' = project
      BY <1>4 DEF Arm, Kill, Prepare, Download, Curl, Import, CheckDatabase, AddRegion, AddExtract, IndexAdded,
         ApplyChanges, EndRound, RunCommand
<1>5. ASSUME NEW j \in Jobs, ClearMarkers(j) \/ TruncateList(j) PROVE project'.list = {}
  <2>1. CASE ClearMarkers(j)
        BY <2>1 DEF ClearMarkers, EmptyProject
  <2>2. CASE TruncateList(j)
        BY <1>0, <2>2 DEF TruncateList, Projects
  <2> QED BY <1>5, <2>1, <2>2
<1>6. ASSUME NEW j \in Jobs, BootstrapStart(j) PROVE project'.list = project.list
      BY <1>0, <1>6, StartKeeps
<1>7. ASSUME NEW j \in Jobs, finish_bootstrap(j) PROVE project'.list = project.list
      BY <1>0, <1>7, FinishMoves DEF Projects
<1>8. ASSUME NEW j \in Jobs, RequireBootstrapReady(j) PROVE project'.list = project.list
      BY <1>0, <1>8, ReadyMoves DEF Projects
<1>9. ASSUME NEW j \in Jobs, SeedRecorded(j) \/ SeedAdded(j) PROVE project'.list = project.list
  <2>1. InLoop(j) /\ seed_region_state(project, Region(j)) /\ Region(j) \in RegionPaths
        BY <1>0, <1>9, RecordMoves, AddedMoves, RegionInLoop DEF SeedRecorded, SeedAdded
  <2> QED BY <1>0, <2>1, SeedEffect
<1>10. ASSUME NEW j \in Jobs, UpdateRegion(j) PROVE project'.list = project.list
  <2>1. CASE project' = project
        BY <2>1
  <2>2. CASE InLoop(j) /\ seed_region_state(project, Region(j))
        BY <1>0, <2>2, RegionInLoop, SeedEffect
  <2> QED BY <1>0, <1>10, <2>1, <2>2, UpdateMoves
<1>11. ASSUME NEW j \in Jobs, GetChanges(j) PROVE project'.list = project.list
  <2>1. Region(j) \in RegionPaths /\ head \in 0..MaxHead
        BY <1>0, <1>11, ChangesMoves, RegionInLoop, BoundsTyped DEF TypeOK, Diffs
  <2> QED BY <1>0, <1>11, <2>1, ChangesMoves, SetCursorEffect
<1>12. ASSUME NEW j \in Jobs, RecordRegion(j) PROVE r \in project.list \/ db.data[r] # {} \/ TakenOver(r)
  <2>1. CASE project' = project
        BY <2>1
  <2>2. ASSUME InLoop(j), project' = [project EXCEPT !.list = @ \union {Region(j)}]
        PROVE  r \in project.list \/ db.data[r] # {} \/ TakenOver(r)
    <3>1. r \in project.list \/ r = Region(j)
          BY <1>0, <2>2 DEF Projects
    <3>2. job[j] = "active" /\ Importer(j) /\ Region(j) \in Regions(j)
          BY <1>0, <1>12, <2>2, ControlFacts, RegionInLoop DEF RecordRegion, At, ScriptOK, ImportCommands
    <3>3. CASE Region(j) \in db.given
          BY <3>1, <3>3 DEF LoadedInv, GivenLoaded
    <3>4. CASE Region(j) \notin db.given
      <4>1. Type(j) = "Bootstrap"
            BY <3>2, <3>4 DEF LoadedInv, GivenLoaded, Importer
      <4> QED BY <3>1, <3>2, <3>4, <4>1 DEF TakenOver
    <3> QED BY <3>3, <3>4
  <2> QED BY <1>0, <1>12, <2>1, <2>2, RecordMoves
<1>13. ASSUME NEW j \in Jobs, AppendRegion(j) PROVE r \in project.list \/ db.data[r] # {}
  <2>1. r \in project.list \/ r = Region(j)
        BY <1>0, <1>13 DEF AppendRegion, Projects
  <2>2. db.data[Region(j)] # {}
        BY <1>13 DEF AppendRegion, At, LoadedInv, FilesAt
  <2> QED BY <2>1, <2>2
<1>14. ASSUME NEW j \in Jobs, StartRound(j) PROVE project' = project
  <2>1. job[j] = "active" /\ Type(j) \in {"Update", "CatchUp"}
        BY <1>0, <1>14, ControlFacts DEF StartRound, At, ScriptOK, RoundCommands
  <2>2. bootstrapComplete
        BY <2>1 DEF LoadedInv, ListExists, WP!requiresRegionGate
  <2>3. ASSUME NEW k \in Jobs, Type(k) = "Rebuild", job[k] \in {"active", "Failed"} PROVE FALSE
    <3>1. job[k] = "active" /\ k # j
          BY <2>1, <2>3 DEF BookmarksCleared
    <3> QED BY <1>0, <2>1, <2>3, <3>1, OthersLight
  <2>4. project.listed
        BY <2>2, <2>3 DEF LoadedInv, ListExists
  <2> QED BY <1>0, <1>14, <2>4, RoundMoves
<1> QED BY <1>1, <1>2, <1>3, <1>4, <1>5, <1>6, <1>7, <1>8, <1>9, <1>10, <1>11, <1>12, <1>13, <1>14
        DEF Next, PodStep

LEMMA ListedLoadedStep ==
  ASSUME WorkerInv, LoadedInv, [Next]_vars
  PROVE  ListedIsLoaded'
<1>0. ControlInv /\ SchemaInv
      BY DEF WorkerInv
<1> SUFFICES ASSUME BookmarksCleared', Answered(SchemaProbes)', import_schema_ready', Stages[1] \in db'.done,
                    NEW r \in project'.list
             PROVE  db'.data[r] # {} \/ TakenOver(r)'
    BY DEF ListedIsLoaded
<1>1. BookmarksCleared
      BY <1>0, ClearedBefore
<1>2. Answered(SchemaProbes)
  <2>1. ASSUME NEW j \in Jobs, Arm(j), Type(j) = "Rebuild" PROVE FALSE
        BY <2>1 DEF Arm, EmptyDatabase
  <2> QED BY <1>0, <2>1, AnsweredBefore
<1>3. import_schema_ready
      BY <1>1, <1>2, ReadyUnmarked DEF Marked
<1>4. /\ \A x \in RegionPaths : db.data[x] \subseteq db'.data[x]
      /\ Stages[1] \in db.done /\ db'.given = db.given
      BY <1>0, <1>3, DataGrows
<1>5. db.data[r] # {} \/ TakenOver(r)
      BY <1>1, <1>2, <1>3, <1>4, ListGrows DEF LoadedInv, ListedIsLoaded
<1>6. r \in RegionPaths
      BY <1>0, ControlStep DEF ControlInv, TypeOK, Projects
<1> QED BY <1>0, <1>4, <1>5, <1>6, TakenOverStays

LEMMA LoadedInit == Init => StagesInv /\ LoadedInv
<1> SUFFICES ASSUME Init PROVE StagesInv /\ LoadedInv
    OBVIOUS
<1>1. /\ ~db.place /\ ~db.indexed /\ ~db.version /\ db.done = {} /\ ~project.finished /\ project.list = {}
      BY DEF Init, EmptyDatabase, EmptyProject
<1>2. \A j \in Jobs : pod[j].pc = "none" /\ job[j] \in {"none", "unplanned"}
      BY NoPodTyped DEF Init
<1>3. StagesInv
      BY <1>1, <1>2 DEF StagesInv, DoneInv, DoneAt, At
<1>4. ListedIsLoaded /\ ListExists /\ GivenLoaded
      BY <1>1, <1>2 DEF ListedIsLoaded, ListExists, bootstrapComplete, GivenLoaded
<1>5. \A j \in Jobs : FilesAt(j) /\ ListAt(j)
      BY <1>1, <1>2 DEF FilesAt, ListAt, At
<1> QED BY <1>3, <1>4, <1>5 DEF LoadedInv

LEMMA LoadedStep == WorkerInv /\ StagesInv /\ LoadedInv /\ [Next]_vars => StagesInv' /\ LoadedInv'
<1> SUFFICES ASSUME WorkerInv, StagesInv, LoadedInv, [Next]_vars PROVE StagesInv' /\ LoadedInv'
    OBVIOUS
<1>1. StagesInv'
      BY StagesStep
<1>2. ListExists' /\ GivenLoaded' /\ ListedIsLoaded'
      BY ListExistsStep, GivenStep, ListedLoadedStep DEF LoadedInv
<1>3. \A k \in Jobs : FilesAt(k)'
      BY FilesStep DEF LoadedInv
<1>4. \A k \in Jobs : ListAt(k)'
      BY ListAtStep DEF LoadedInv, WorkerInv
<1> QED BY <1>1, <1>2, <1>3, <1>4 DEF LoadedInv

(* imported-regions.txt tells the truth: an imported database holds each   *)
(* region on the list, whichever pods of Bootstrap, Rebuild, AddRegions,   *)
(* Update and CatchUp were killed between the import and the line that     *)
(* records it.  What bootstrap.sh does not look at is in the premises of   *)
(* ListedIsLoaded: a Rebuild that gave up, an import that a failed query   *)
(* started over, an osm2pgsql cut short and the regions of a Bootstrap     *)
(* that took up the import of another Job.                                 *)
THEOREM ListedRegionsLoaded == Spec => []ListedIsLoaded
<1>1. WorkerInv /\ StagesInv /\ LoadedInv /\ [Next]_vars => StagesInv' /\ LoadedInv'
      BY LoadedStep
<1>2. LoadedInv => ListedIsLoaded
      BY DEF LoadedInv
<1> QED BY <1>1, <1>2, WorkerInit, WorkerStep, LoadedInit, PTL DEF Spec

(* A Bootstrap or Rebuild that succeeds, after however many killed pods    *)
(* and failed queries, leaves a ready schema, its marker and each of its   *)
(* regions in the list.  finish_bootstrap looks only at the schema: that   *)
(* the later stages of nominatim import have run to their end, as long as  *)
(* no failed query about placex was taken for a No, and that osm2pgsql,    *)
(* once done, has read each region that it was given, is in the invariant. *)
THEOREM SucceededIsComplete == Spec => SucceededImportIsComplete
<1>1. WorkerInv /\ StagesInv /\ LoadedInv /\ [Next]_vars => StagesInv' /\ LoadedInv'
      BY LoadedStep
<1>2. WorkerInv /\ StagesInv /\ LoadedInv /\ [Next]_vars => CompletesImport
  <2> SUFFICES ASSUME WorkerInv, StagesInv, LoadedInv, [Next]_vars,
                      NEW j \in Jobs, Completes(j), Importer(j)
               PROVE  /\ import_schema_ready' /\ project'.finished /\ Regions(j) \subseteq project'.list
                      /\ Answered(PlacexProbes) => \A k \in 2..4 : Stages[k] \in db'.done
                      /\ Stages[1] \in db'.done =>
                           \A r \in Regions(j) : db'.data[r] # {} \/ (Type(j) = "Bootstrap" /\ r \notin db'.given)
      BY DEF CompletesImport
  <2>0. ControlInv /\ project \in Projects
        BY DEF WorkerInv, ControlInv, TypeOK
  <2>1. finish_bootstrap(j) /\ import_schema_ready /\ job[j] = "active" /\ job'[j] = "Complete"
        BY <2>0, CompletedBy DEF Completes
  <2>2. db' = db /\ Regions(j) \subseteq project.list
        BY <2>1 DEF finish_bootstrap, At, LoadedInv, ListAt
  <2>3. project' = [project EXCEPT !.finished = TRUE]
        BY <2>0, <2>1, FinishMoves DEF Died
  <2>4. project'.finished /\ Regions(j) \subseteq project'.list
        BY <2>0, <2>2, <2>3 DEF Projects
  <2>5. Answered(PlacexProbes) => \A k \in 2..4 : Stages[k] \in db.done
        BY <2>1 DEF StagesInv, DoneInv, import_schema_ready
  <2>6. ASSUME Stages[1] \in db.done, NEW r \in Regions(j)
        PROVE  db.data[r] # {} \/ (Type(j) = "Bootstrap" /\ r \notin db.given)
        BY <2>1, <2>6 DEF LoadedInv, GivenLoaded, Importer
  <2> QED BY <2>1, <2>2, <2>4, <2>5, <2>6 DEF import_schema_ready
<1>3. WorkerInv /\ StagesInv /\ LoadedInv /\ [Next]_vars => [CompletesImport]_vars
      BY <1>2
<1> QED BY <1>1, <1>3, WorkerInit, WorkerStep, LoadedInit, PTL DEF Spec, SucceededImportIsComplete

=============================================================================
