--------------------------- MODULE BlueGreenProofs --------------------------
(* Machine-checked proofs about BlueGreen, for every way to drive the swap *)
(* and every value of the bounds.                                          *)
EXTENDS BlueGreen, TLAPS

USE BlueGreenAssumption

-----------------------------------------------------------------------------
(* The records.                                                            *)

LEMMA RecordsTyped ==
  /\ NoRebuild \in Rebuilds /\ NoRebuild.phase = "none" /\ NoRebuild.pending = "bg" /\ ~NoRebuild.until
  /\ IdlePass \in Passes /\ IdlePass.pc = "idle" /\ IdlePass.rebuild = NoRebuild /\ IdlePass.live = "def"
  /\ IdleInst \in InstPasses /\ IdleInst.pc = "idle" /\ IdleInst.live = "def"
BY DEF NoRebuild, Rebuilds, RebuildPhases, Names, IdlePass, Passes, Steps, IdleInst, InstPasses

LEMMA PassFields ==
  ASSUME NEW p \in Passes
  PROVE  /\ p.pc \in Steps /\ p.rebuild \in Rebuilds /\ p.live \in Names
         /\ p.rebuild.phase \in RebuildPhases /\ p.rebuild.pending \in Names /\ p.rebuild.until \in BOOLEAN
BY DEF Passes, Rebuilds

LEMMA PassMade ==
  ASSUME NEW s \in Steps, NEW rb \in Rebuilds, NEW c \in Names,
         NEW p, p = [pc |-> s, rebuild |-> rb, live |-> c]
  PROVE  p \in Passes /\ p.pc = s /\ p.rebuild = rb /\ p.live = c
BY DEF Passes

LEMMA RebuildMade ==
  ASSUME NEW ph \in RebuildPhases, NEW c \in Names, NEW u \in BOOLEAN,
         NEW rb, rb = [phase |-> ph, pending |-> c, until |-> u]
  PROVE  rb \in Rebuilds /\ rb.phase = ph /\ rb.pending = c /\ rb.until = u
BY DEF Rebuilds

\* The steps of the two passes.
LEMMA PassSteps ==
  ASSUME ControlOK
  PROVE  /\ \A s \in Steps : Goto(s) => /\ pass' \in Passes /\ pass'.pc = s
                                        /\ pass'.rebuild = pass.rebuild /\ pass'.live = pass.live
         /\ Return => /\ pass' \in Passes /\ pass'.pc = "idle"
                      /\ pass'.rebuild = NoRebuild /\ pass'.live = "def"
<1>1. pass \in Passes
      BY DEF ControlOK
<1>2. ASSUME NEW s \in Steps, Goto(s)
      PROVE  pass' \in Passes /\ pass'.pc = s /\ pass'.rebuild = pass.rebuild /\ pass'.live = pass.live
      BY <1>1, <1>2 DEF Goto, Passes
<1>3. ASSUME Return
      PROVE  pass' \in Passes /\ pass'.pc = "idle" /\ pass'.rebuild = NoRebuild /\ pass'.live = "def"
      BY <1>3, RecordsTyped DEF Return
<1> QED BY <1>2, <1>3

LEMMA InstSteps ==
  ASSUME ControlOK
  PROVE  \A s \in {"persist", "api"} :
           inst' = [inst EXCEPT !.pc = s] => inst' \in InstPasses /\ inst'.pc = s /\ inst'.live = inst.live
BY DEF ControlOK, InstPasses

-----------------------------------------------------------------------------
(* Steps of which only one part counts.                                    *)

\* What SwapInv speaks of, but for the pass.
Parent == <<rebuild, live, clusters, api, elapsed, inst, drive>>

LEMMA QuietStep ==
  ASSUME SwapInv, UNCHANGED Parent, pass' = pass
  PROVE  SwapInv'
BY DEF SwapInv, Parent, ControlOK, CopiesAgree, ImportingLost, NeverSwapped, BeforeCutover, BothServe, GreenReady,
   WindowKept, AfterWindow, Swapped, Late

LEMMA ReturnStep ==
  ASSUME SwapInv, UNCHANGED Parent, Return
  PROVE  SwapInv'
<1>1. pass' \in Passes /\ pass'.pc = "idle" /\ pass'.rebuild = NoRebuild /\ pass'.live = "def"
      BY PassSteps DEF SwapInv
<1> QED BY <1>1, RecordsTyped
        DEF SwapInv, Parent, ControlOK, CopiesAgree, ImportingLost, NeverSwapped, BeforeCutover, BothServe, GreenReady,
            WindowKept, AfterWindow, Swapped, Late

\* From a step to a later one of the same pass.
LEMMA GotoStep ==
  ASSUME SwapInv, UNCHANGED Parent, NEW s \in {"provision", "sync", "swap", "job"}, Goto(s),
         \/ pass.pc = "pending" /\ s = "provision"
         \/ pass.pc = "job" /\ s = "sync"
         \/ pass.pc = "sync" /\ s = "swap"
         \/ pass.pc = "importing" /\ s = "job" /\ ~drive.resetsPhase
  PROVE  SwapInv'
<1>1. s \in Steps
      BY DEF Steps
<1>2. pass' \in Passes /\ pass'.pc = s /\ pass'.rebuild = pass.rebuild /\ pass'.live = pass.live
      BY <1>1, PassSteps DEF SwapInv
<1> QED BY <1>2
        DEF SwapInv, Parent, ControlOK, CopiesAgree, ImportingLost, NeverSwapped, BeforeCutover, BothServe, GreenReady,
            WindowKept, AfterWindow, Swapped, Late

-----------------------------------------------------------------------------
(* The actions that do more.                                               *)

LEMMA StartPassStep ==
  ASSUME SwapInv, StartPass
  PROVE  SwapInv'
<1>1. PICK s \in {"resync", "pending"} : pass' = [pc |-> s, rebuild |-> rebuild, live |-> live]
      BY DEF StartPass
<1>2. s \in Steps /\ rebuild \in Rebuilds /\ live \in Names
      BY DEF Steps, SwapInv, ControlOK
<1>3. pass' \in Passes /\ pass'.pc = s /\ pass'.rebuild = rebuild /\ pass'.live = live
      BY <1>1, <1>2, PassMade
<1>4. UNCHANGED Parent
      BY DEF StartPass, Parent, nomVars, bounds
<1> QED BY <1>3, <1>4
        DEF SwapInv, Parent, ControlOK, CopiesAgree, ImportingLost, NeverSwapped, BeforeCutover, BothServe, GreenReady,
            WindowKept, AfterWindow, Swapped, Late

LEMMA PendingStep ==
  ASSUME SwapInv, ensureBlueGreenPending
  PROVE  SwapInv'
<1>1. CASE pass.rebuild.phase # "none"
  <2>1. UNCHANGED Parent /\ Goto("provision") /\ pass.pc = "pending"
        BY <1>1 DEF ensureBlueGreenPending, Parent, nomVars, bounds
  <2> QED BY <2>1, GotoStep
<1>2. CASE pass.rebuild.phase = "none"
  <2>1. pass.live = "def" /\ pass.rebuild = rebuild /\ live = "def" /\ pass \in Passes /\ ~elapsed
        BY <1>2 DEF ensureBlueGreenPending, SwapInv, ControlOK, CopiesAgree, ImportingLost, BeforeCutover, Swapped,
           AfterWindow, Late
  <2>2. PICK rb : rb = [phase |-> "Provisioning", pending |-> "bg", until |-> FALSE]
        OBVIOUS
  <2>3. rb \in Rebuilds /\ rb.phase = "Provisioning" /\ rb.pending = "bg" /\ rb.until = FALSE
        BY <2>2 DEF Rebuilds, RebuildPhases, Names
  <2>4. seedBlueGreenRebuildStatus = rb
        BY <2>1, <2>2 DEF seedBlueGreenRebuildStatus, Sibling
  <2>5. /\ pass' = [pass EXCEPT !.pc = "provision", !.rebuild = rb]
        /\ rebuild' = rb /\ live' = "def"
        /\ UNCHANGED <<clusters, api, elapsed, inst, drive>>
        BY <1>2, <2>1, <2>4 DEF ensureBlueGreenPending, Patch, bounds
  <2>6. pass' \in Passes /\ pass'.pc = "provision" /\ pass'.rebuild = rb /\ pass'.live = "def"
        BY <2>1, <2>3, <2>5 DEF Passes, Steps
  <2> QED BY <1>2, <2>1, <2>3, <2>5, <2>6
          DEF SwapInv, ControlOK, CopiesAgree, ImportingLost, NeverSwapped, BeforeCutover, BothServe, GreenReady,
              WindowKept, AfterWindow, Swapped, Late, Names
<1> QED BY <1>1, <1>2

LEMMA ProvisionStep ==
  ASSUME SwapInv, blueGreenPendingReady
  PROVE  SwapInv'
<1>1. /\ pass.pc = "provision" /\ pass.rebuild.pending = "bg" /\ pass.rebuild = rebuild
      /\ clusters \in [Names -> ClusterStates] /\ "bg" \in Names /\ pass \in Passes
      BY DEF blueGreenPendingReady, SwapInv, ControlOK, CopiesAgree, ImportingLost, Names
<1>2. /\ clusters' = IF clusters["bg"] = "absent" THEN [clusters EXCEPT !["bg"] = "starting"] ELSE clusters
      /\ IF clusters["bg"] = "ready" THEN Goto("importing") ELSE Return
      /\ UNCHANGED <<rebuild, live, api, elapsed, inst, drive>>
      BY <1>1 DEF blueGreenPendingReady, nomVars, bounds
<1>3. /\ clusters' \in [Names -> ClusterStates]
      /\ \A c \in Names : clusters[c] = "ready" => clusters'[c] = "ready"
      BY <1>1, <1>2 DEF ClusterStates
<1>4. CASE clusters["bg"] = "ready"
  <2>1. /\ pass' \in Passes /\ pass'.pc = "importing"
        /\ pass'.rebuild = pass.rebuild /\ pass'.live = pass.live
        BY <1>2, <1>4, PassSteps DEF SwapInv, Steps
  <2> QED BY <1>1, <1>2, <1>3, <1>4, <2>1
          DEF SwapInv, ControlOK, CopiesAgree, ImportingLost, NeverSwapped, BeforeCutover, BothServe, GreenReady,
              WindowKept, AfterWindow, Swapped, Late, Names
<1>5. CASE clusters["bg"] # "ready"
  <2>1. pass' \in Passes /\ pass'.pc = "idle" /\ pass'.rebuild = NoRebuild /\ pass'.live = "def"
        BY <1>2, <1>5, PassSteps DEF SwapInv
  <2> QED BY <1>1, <1>2, <1>3, <1>5, <2>1, RecordsTyped
          DEF SwapInv, ControlOK, CopiesAgree, ImportingLost, NeverSwapped, BeforeCutover, BothServe, GreenReady,
              WindowKept, AfterWindow, Swapped, Late, Names
<1> QED BY <1>4, <1>5

LEMMA ImportingStep ==
  ASSUME SwapInv, waitForJobPrerequisites
  PROVE  SwapInv'
<1>1. pass.pc = "importing" /\ pass.rebuild = rebuild /\ pass \in Passes /\ pass.rebuild.pending = "bg"
      BY DEF waitForJobPrerequisites, SwapInv, ControlOK, CopiesAgree
<1>2. CASE ~(drive.resetsPhase \/ pass.rebuild.phase = "Provisioning")
  <2>1. UNCHANGED Parent /\ Goto("job")
        BY <1>2 DEF waitForJobPrerequisites, Parent, nomVars
  <2> QED BY <1>1, <1>2, <2>1, GotoStep
<1>3. CASE drive.resetsPhase \/ pass.rebuild.phase = "Provisioning"
  <2>1. ~Swapped(rebuild) /\ live = "def" /\ pass.live = "def" /\ ~elapsed
        BY <1>1, <1>3 DEF SwapInv, NeverSwapped, BeforeCutover, AfterWindow, Swapped, Late
  <2>2. PICK rb : rb = [pass.rebuild EXCEPT !.phase = "Importing"]
        OBVIOUS
  <2>3. rb \in Rebuilds /\ rb.phase = "Importing" /\ rb.pending = "bg" /\ rb.until = rebuild.until
        BY <1>1, <2>2, PassFields DEF Rebuilds, RebuildPhases
  <2>4. /\ pass' = [pass EXCEPT !.pc = "job", !.rebuild = rb]
        /\ (rebuild' = rb /\ live' = pass.live) \/ UNCHANGED <<rebuild, live>>
        /\ UNCHANGED <<clusters, api, elapsed, inst, drive>>
        BY <1>3, <2>2 DEF waitForJobPrerequisites, PatchOrLose, Patch, nomVars
  <2>5. pass' \in Passes /\ pass'.pc = "job" /\ pass'.rebuild = rb /\ pass'.live = "def"
        BY <1>1, <2>1, <2>3, <2>4 DEF Passes, Steps
  <2>6. ~rebuild.until
        BY <2>1, PassFields, <1>1 DEF SwapInv, WindowKept, Late, Swapped
  <2> QED BY <1>1, <2>1, <2>3, <2>4, <2>5, <2>6
          DEF SwapInv, ControlOK, CopiesAgree, ImportingLost, NeverSwapped, BeforeCutover, BothServe, GreenReady,
              WindowKept, AfterWindow, Swapped, Late, Names
<1> QED BY <1>2, <1>3

LEMMA PatchStep ==
  ASSUME SwapInv, patchParentRebuildStatus
  PROVE  SwapInv'
<1>1. /\ pass.pc = "patch" /\ pass \in Passes
      /\ rebuild' = pass.rebuild /\ live' = pass.live
      /\ UNCHANGED <<clusters, api, elapsed, inst, drive>>
      BY DEF patchParentRebuildStatus, Patch, SwapInv, ControlOK, bounds
<1>2. pass' \in Passes /\ pass'.pc = "status" /\ pass'.rebuild = pass.rebuild /\ pass'.live = pass.live
      BY PassSteps DEF patchParentRebuildStatus, SwapInv, Steps
<1>3. pass.rebuild \in Rebuilds /\ pass.live \in Names
      BY <1>1, PassFields
<1> QED BY <1>1, <1>2, <1>3
        DEF SwapInv, ControlOK, CopiesAgree, ImportingLost, NeverSwapped, BeforeCutover, BothServe, GreenReady,
            WindowKept, AfterWindow, Swapped, Late, Names

-----------------------------------------------------------------------------
(* The swap.                                                               *)

\* The outcomes of the machine, one disjunct for each side effect.
Outcome(out, ph, failed, until, over) ==
  \/ /\ out.act = "gcGreen" /\ out.phase = "Failed" /\ out.until = until
     /\ failed /\ ph \notin {"Cutover", "RollbackWindow", "GarbageCollect", "Succeeded"}
  \/ /\ out.act = "cutover" /\ out.phase = "Cutover" /\ out.until = until
     /\ ph \in {"ReadyToCutover", "Cutover"} /\ (failed => ph = "Cutover")
  \/ /\ out.act = "gcBlue" /\ out.phase = "GarbageCollect" /\ out.until = until
     /\ (ph = "RollbackWindow" /\ over) \/ ph = "GarbageCollect"
  \/ /\ out.act = "none" /\ out.until = until
     /\ \/ out.phase = ph
        \/ ph = "Importing" /\ out.phase = "ReadyToCutover"
        \/ ph = "GarbageCollect" /\ out.phase = "Succeeded"
  \/ /\ out.act = "none" /\ out.until = TRUE
     /\ ph = "Cutover" /\ out.phase = "RollbackWindow"

LEMMA Advanced ==
  ASSUME NEW ph \in RebuildPhases, NEW failed \in BOOLEAN, NEW imported \in BOOLEAN,
         NEW cutoverReady \in BOOLEAN, NEW blueGone \in BOOLEAN, NEW until \in BOOLEAN,
         NEW over \in BOOLEAN,
         NEW out, out = advanceBlueGreen(ph, failed, imported, cutoverReady, blueGone, until, over)
  PROVE  Outcome(out, ph, failed, until, over)
<1>1. CASE failed /\ ph \notin {"Cutover", "RollbackWindow", "GarbageCollect", "Succeeded"}
      BY <1>1 DEF advanceBlueGreen, Result, Outcome
<1>2. CASE ~(failed /\ ph \notin {"Cutover", "RollbackWindow", "GarbageCollect", "Succeeded"})
  <2>1. CASE ph = "Importing"
        BY <1>2, <2>1 DEF advanceBlueGreen, Result, Outcome
  <2>2. CASE ph = "ReadyToCutover"
        BY <1>2, <2>2 DEF advanceBlueGreen, Result, Outcome
  <2>3. CASE ph = "Cutover"
        BY <1>2, <2>3 DEF advanceBlueGreen, Result, Outcome
  <2>4. CASE ph = "RollbackWindow"
        BY <1>2, <2>4 DEF advanceBlueGreen, Result, Outcome
  <2>5. CASE ph = "GarbageCollect"
        BY <1>2, <2>5 DEF advanceBlueGreen, Result, Outcome
  <2>6. CASE ph \notin {"Importing", "ReadyToCutover", "Cutover", "RollbackWindow", "GarbageCollect"}
        BY <1>2, <2>6 DEF advanceBlueGreen, Result, Outcome
  <2> QED BY <2>1, <2>2, <2>3, <2>4, <2>5, <2>6
<1> QED BY <1>1, <1>2

\* What the swap leaves behind.
SwapResult(out, ph, failed) ==
  /\ Outcome(out, ph, failed, pass.rebuild.until, elapsed)
  /\ pass' \in Passes /\ pass'.pc = "patch" /\ pass'.rebuild.phase = out.phase
  /\ pass'.rebuild.pending = "bg" /\ pass'.rebuild.until = out.until
  /\ pass'.live = IF out.act = "cutover" THEN "bg" ELSE pass.live
  /\ clusters' = CASE out.act = "gcBlue"  -> [clusters EXCEPT ![Sibling(pass.live)] = "absent"]
                   [] out.act = "gcGreen" -> [clusters EXCEPT !["bg"] = "absent"]
                   [] OTHER               -> clusters
  /\ UNCHANGED <<rebuild, live, api, elapsed, inst, drive>>

LEMMA SwapMade ==
  ASSUME SwapInv, reconcileBlueGreenAfterImport
  PROVE  \E out, ph, failed :
           /\ ph = IF pass.rebuild.phase \in {"none", "Provisioning", "Importing"} THEN "Importing" ELSE pass.rebuild.phase
           /\ failed = (phase = "Failed" /\ pass.rebuild.phase \in {"none", "Provisioning", "Importing", "ReadyToCutover"})
           /\ SwapResult(out, ph, failed)
<1>1. /\ pass.pc = "swap" /\ pass \in Passes /\ pass.rebuild.pending = "bg" /\ elapsed \in BOOLEAN
      BY DEF reconcileBlueGreenAfterImport, SwapInv, ControlOK, CopiesAgree
<1>2. pass.rebuild.phase \in RebuildPhases /\ pass.rebuild.until \in BOOLEAN /\ pass.live \in Names
      BY <1>1, PassFields
<1>3. PICK ph \in RebuildPhases :
        ph = IF pass.rebuild.phase \in {"none", "Provisioning", "Importing"} THEN "Importing" ELSE pass.rebuild.phase
      BY <1>2 DEF RebuildPhases
<1>4. PICK failed \in BOOLEAN :
        failed = (phase = "Failed" /\ (pass.rebuild.phase \in {"none", "Provisioning", "Importing"} \/ pass.rebuild.phase = "ReadyToCutover"))
      OBVIOUS
<1>5. PICK imported \in BOOLEAN : imported = (phase # "Failed")
      OBVIOUS
<1>6. PICK ready \in BOOLEAN : ready = (pass.live = pass.rebuild.pending)
      OBVIOUS
<1>7. PICK gone \in BOOLEAN : gone = (clusters[Sibling(pass.live)] = "absent")
      OBVIOUS
<1>8. PICK out : out = advanceBlueGreen(ph, failed, imported, ready, gone, pass.rebuild.until, elapsed)
      OBVIOUS
<1>9. Outcome(out, ph, failed, pass.rebuild.until, elapsed)
      BY <1>1, <1>2, <1>8, Advanced
<1>10. /\ pass' = [pc |-> "patch",
                   rebuild |-> [phase |-> out.phase, pending |-> pass.rebuild.pending, until |-> out.until],
                   live |-> IF out.act = "cutover" THEN pass.rebuild.pending ELSE pass.live]
       /\ clusters' = CASE out.act = "gcBlue"  -> [clusters EXCEPT ![Sibling(pass.live)] = "absent"]
                        [] out.act = "gcGreen" -> [clusters EXCEPT ![pass.rebuild.pending] = "absent"]
                        [] OTHER               -> clusters
       BY <1>1, <1>3, <1>4, <1>5, <1>6, <1>7, <1>8
          DEF reconcileBlueGreenAfterImport, blueGreenRetiredClusterName
<1>11. UNCHANGED <<rebuild, live, api, elapsed, inst, drive>>
       BY DEF reconcileBlueGreenAfterImport, nomVars, bounds
<1>12. out.phase \in RebuildPhases /\ out.until \in BOOLEAN
       BY <1>2, <1>9 DEF Outcome, RebuildPhases
<1>13. PICK c \in Names : c = IF out.act = "cutover" THEN "bg" ELSE pass.live
       BY <1>2 DEF Names
<1>14. PICK rb : rb = [phase |-> out.phase, pending |-> "bg", until |-> out.until]
       OBVIOUS
<1>15. rb \in Rebuilds /\ rb.phase = out.phase /\ rb.pending = "bg" /\ rb.until = out.until
       BY <1>12, <1>14 DEF Rebuilds, Names
<1>16. pass' = [pc |-> "patch", rebuild |-> rb, live |-> c]
       BY <1>1, <1>10, <1>13, <1>14
<1>17. pass' \in Passes /\ pass'.pc = "patch" /\ pass'.rebuild = rb /\ pass'.live = c
       BY <1>15, <1>16, PassMade DEF Steps
<1>18. SwapResult(out, ph, failed)
       BY <1>1, <1>9, <1>10, <1>11, <1>13, <1>15, <1>17 DEF SwapResult
<1>19. failed = (phase = "Failed" /\ pass.rebuild.phase \in {"none", "Provisioning", "Importing", "ReadyToCutover"})
       BY <1>4
<1> QED BY <1>3, <1>18, <1>19

LEMMA SwapStep ==
  ASSUME SwapInv, reconcileBlueGreenAfterImport
  PROVE  SwapInv'
<1>1. PICK out, ph, failed :
        /\ ph = IF pass.rebuild.phase \in {"none", "Provisioning", "Importing"} THEN "Importing" ELSE pass.rebuild.phase
        /\ failed = (phase = "Failed" /\ pass.rebuild.phase \in {"none", "Provisioning", "Importing", "ReadyToCutover"})
        /\ SwapResult(out, ph, failed)
      BY SwapMade
<1>2. /\ pass.pc = "swap" /\ (pass.rebuild = rebuild \/ ImportingLost) /\ clusters \in [Names -> ClusterStates]
      /\ live \in Names /\ pass.live \in Names /\ clusters["bg"] = "ready"
      BY PassFields DEF reconcileBlueGreenAfterImport, SwapInv, ControlOK, CopiesAgree, ImportingLost, GreenReady
<1>3. /\ pass' \in Passes /\ pass'.pc = "patch" /\ pass'.rebuild.pending = "bg"
      /\ pass'.rebuild.phase = out.phase /\ pass'.rebuild.until = out.until
      /\ UNCHANGED <<rebuild, live, api, elapsed, inst, drive>>
      BY <1>1 DEF SwapResult
<1>4. CASE out.act = "gcGreen"
  <2>1. /\ clusters' = [clusters EXCEPT !["bg"] = "absent"] /\ pass'.live = pass.live
        /\ out.phase = "Failed" /\ out.until = pass.rebuild.until
        /\ pass.rebuild.phase \in {"none", "Provisioning", "Importing", "ReadyToCutover"}
        BY <1>1, <1>4 DEF SwapResult, Outcome
  <2>2. clusters' \in [Names -> ClusterStates] /\ clusters'["def"] = clusters["def"]
        BY <1>2, <2>1 DEF Names, ClusterStates
  <2> QED BY <1>2, <1>3, <2>1, <2>2
          DEF SwapInv, ControlOK, CopiesAgree, ImportingLost, NeverSwapped, BeforeCutover, BothServe, GreenReady,
              WindowKept, AfterWindow, Swapped, Late
<1>5. CASE out.act = "cutover"
  <2>1. /\ clusters' = clusters /\ pass'.live = "bg"
        /\ out.phase = "Cutover" /\ out.until = pass.rebuild.until
        /\ pass.rebuild.phase \in {"ReadyToCutover", "Cutover"}
        BY <1>1, <1>5 DEF SwapResult, Outcome
  <2> QED BY <1>2, <1>3, <2>1
          DEF SwapInv, ControlOK, CopiesAgree, ImportingLost, NeverSwapped, BeforeCutover, BothServe, GreenReady,
              WindowKept, AfterWindow, Swapped, Late
<1>6. CASE out.act = "gcBlue"
  <2>1. /\ clusters' = [clusters EXCEPT ![Sibling(pass.live)] = "absent"] /\ pass'.live = pass.live
        /\ out.phase = "GarbageCollect" /\ out.until = pass.rebuild.until
        /\ pass.rebuild.phase \in {"RollbackWindow", "GarbageCollect"} /\ elapsed
        BY <1>1, <1>6 DEF SwapResult, Outcome, SwapInv, WindowKept
  <2>2. pass.live = live
        BY <1>2, <2>1 DEF SwapInv, AfterWindow
  <2>3. clusters' \in [Names -> ClusterStates] /\ clusters'[live] = clusters[live]
        BY <1>2, <2>1, <2>2 DEF Names, ClusterStates, Sibling
  <2> QED BY <1>2, <1>3, <2>1, <2>2, <2>3
          DEF SwapInv, ControlOK, CopiesAgree, ImportingLost, NeverSwapped, BeforeCutover, BothServe, GreenReady,
              WindowKept, AfterWindow, Swapped, Late
<1>7. CASE out.act = "none"
  <2>1. /\ clusters' = clusters /\ pass'.live = pass.live
        /\ \/ out.until = pass.rebuild.until
           \/ out.until = TRUE /\ out.phase = "RollbackWindow"
        /\ \/ out.phase = pass.rebuild.phase
           \/ /\ pass.rebuild.phase \in {"none", "Provisioning", "Importing"}
              /\ out.phase \in {"Importing", "ReadyToCutover"}
           \/ pass.rebuild.phase = "GarbageCollect" /\ out.phase = "Succeeded"
           \/ pass.rebuild.phase = "Cutover" /\ out.phase = "RollbackWindow"
        BY <1>1, <1>7 DEF SwapResult, Outcome
  <2> QED BY <1>2, <1>3, <2>1
          DEF SwapInv, ControlOK, CopiesAgree, ImportingLost, NeverSwapped, BeforeCutover, BothServe, GreenReady,
              WindowKept, AfterWindow, Swapped, Late
<1>8. out.act \in {"gcGreen", "cutover", "gcBlue", "none"}
      BY <1>1 DEF SwapResult, Outcome
<1> QED BY <1>4, <1>5, <1>6, <1>7, <1>8

-----------------------------------------------------------------------------
(* The Instance controller, time and CloudNativePG.                        *)

\* The Instance controller never finds its Cluster gone.
LEMMA InstServed ==
  ASSUME SwapInv, inst.pc # "idle"
  PROVE  clusters[inst.live] = "ready" /\ inst.live \in Names
<1>1. inst.live \in Names
      BY DEF SwapInv, ControlOK, InstPasses
<1> QED BY <1>1 DEF SwapInv, BeforeCutover, BothServe, AfterWindow, Names

LEMMA InstanceSteps ==
  ASSUME SwapInv, InstanceStep
  PROVE  SwapInv'
<1>1. CASE instStart
  <2>1. inst' = [pc |-> "cluster", live |-> live] /\ live \in Names
        BY <1>1 DEF instStart, SwapInv, ControlOK
  <2>2. inst' \in InstPasses /\ inst'.pc = "cluster" /\ inst'.live = live
        BY <2>1 DEF InstPasses
  <2>3. UNCHANGED <<rebuild, live, clusters, api, elapsed, pass, drive>>
        BY <1>1 DEF instStart, nomVars, bounds
  <2> QED BY <2>2, <2>3
          DEF SwapInv, ControlOK, CopiesAgree, ImportingLost, NeverSwapped, BeforeCutover, BothServe, GreenReady,
              WindowKept, AfterWindow, Swapped, Late
<1>2. CASE reconcileDatabaseClusterCreate
  <2>1. clusters' = clusters
        BY <1>2, InstServed DEF reconcileDatabaseClusterCreate
  <2>2. inst' \in InstPasses /\ inst'.pc = "persist" /\ inst'.live = inst.live
        BY <1>2, InstSteps DEF reconcileDatabaseClusterCreate, SwapInv
  <2>3. UNCHANGED <<rebuild, live, api, elapsed, pass, drive>> /\ inst.pc = "cluster"
        BY <1>2 DEF reconcileDatabaseClusterCreate, nomVars, bounds
  <2> QED BY <2>1, <2>2, <2>3
          DEF SwapInv, ControlOK, CopiesAgree, ImportingLost, NeverSwapped, BeforeCutover, BothServe, GreenReady,
              WindowKept, AfterWindow, Swapped, Late
<1>3. CASE persistDatabaseStatus
  <2>1. inst' \in InstPasses /\ inst'.pc = "api" /\ inst'.live = inst.live
        BY <1>3, InstSteps DEF persistDatabaseStatus, SwapInv
  <2>2. /\ UNCHANGED <<rebuild, clusters, api, elapsed, pass, drive>>
        /\ inst.pc = "persist" /\ live' = inst.live /\ inst.live \in Names
        BY <1>3, InstServed DEF persistDatabaseStatus, bounds
  <2> QED BY <2>1, <2>2
          DEF SwapInv, ControlOK, CopiesAgree, ImportingLost, NeverSwapped, BeforeCutover, BothServe, GreenReady,
              WindowKept, AfterWindow, Swapped, Late
<1>4. CASE reconcileAPI
  <2>1. inst' \in InstPasses /\ inst'.pc = "idle" /\ inst'.live = "def"
        BY <1>4, RecordsTyped DEF reconcileAPI
  <2>2. /\ UNCHANGED <<rebuild, live, clusters, elapsed, pass, drive>>
        /\ inst.pc = "api" /\ api' = inst.live /\ inst.live \in Names
        BY <1>4, InstServed DEF reconcileAPI, nomVars, bounds
  <2> QED BY <2>1, <2>2
          DEF SwapInv, ControlOK, CopiesAgree, ImportingLost, NeverSwapped, BeforeCutover, BothServe, GreenReady,
              WindowKept, AfterWindow, Swapped, Late
<1> QED BY <1>1, <1>2, <1>3, <1>4 DEF InstanceStep

LEMMA WindowStep ==
  ASSUME SwapInv, WindowElapses
  PROVE  SwapInv'
<1>1. /\ rebuild.until /\ ~elapsed /\ pass.pc = "idle" /\ inst.pc = "idle" /\ api = live /\ elapsed' = TRUE
      /\ UNCHANGED <<rebuild, live, clusters, api, pass, inst, drive>>
      BY DEF WindowElapses, nomVars, bounds
<1>2. Late(rebuild) /\ clusters["def"] = "ready" /\ clusters["bg"] = "ready" /\ live \in {"def", "bg"}
      BY <1>1 DEF SwapInv, ControlOK, WindowKept, BothServe, Swapped, Late, Names
<1> QED BY <1>1, <1>2
        DEF SwapInv, ControlOK, CopiesAgree, ImportingLost, NeverSwapped, BeforeCutover, BothServe, GreenReady,
            WindowKept, AfterWindow, Swapped, Late

LEMMA ReadyStep ==
  ASSUME SwapInv, ClusterBecomesReady
  PROVE  SwapInv'
<1>1. PICK c \in Names : clusters' = [clusters EXCEPT ![c] = "ready"]
      BY DEF ClusterBecomesReady
<1>2. UNCHANGED <<rebuild, live, api, elapsed, pass, inst, drive>>
      BY DEF ClusterBecomesReady, nomVars, bounds
<1>3. /\ clusters' \in [Names -> ClusterStates]
      /\ \A x \in Names : clusters[x] = "ready" => clusters'[x] = "ready"
      BY <1>1 DEF SwapInv, ControlOK, ClusterStates
<1> QED BY <1>2, <1>3
        DEF SwapInv, ControlOK, CopiesAgree, ImportingLost, NeverSwapped, BeforeCutover, BothServe, GreenReady,
            WindowKept, AfterWindow, Swapped, Late, Names

-----------------------------------------------------------------------------
(* SwapInv.                                                                *)

LEMMA SwapInit == Init => SwapInv
<1> SUFFICES ASSUME Init PROVE SwapInv
    OBVIOUS
<1>1. ControlOK
      BY RecordsTyped DEF Init, ControlOK, Names, ClusterStates
<1>2. /\ rebuild.phase = "none" /\ rebuild.pending = "bg" /\ ~rebuild.until
      /\ pass.rebuild = rebuild /\ pass.pc = "idle" /\ pass.live = "def" /\ rebuild = NoRebuild
      /\ inst.live = "def" /\ inst.pc = "idle" /\ live = "def" /\ api = "def" /\ ~elapsed
      BY RecordsTyped DEF Init
<1>3. clusters["def"] = "ready"
      BY DEF Init, Names
<1> QED BY <1>1, <1>2, <1>3
        DEF SwapInv, CopiesAgree, ImportingLost, NeverSwapped, BeforeCutover, BothServe, GreenReady, WindowKept,
            AfterWindow, Swapped, Late

LEMMA SwapKept ==
  ASSUME SwapInv, [Next]_vars
  PROVE  SwapInv'
<1>1. CASE vars' = vars \/ CreateRebuild \/ StartPod \/ EndPod
  <2>1. UNCHANGED Parent /\ pass' = pass
        BY <1>1 DEF vars, CreateRebuild, StartPod, EndPod, Parent, nomVars, bounds
  <2> QED BY <2>1, QuietStep
<1>2. CASE reconcileTerminalOperation \/ syncBlueGreenOperationStatus \/ FailCall
  <2>1. UNCHANGED Parent /\ Return
        BY <1>2 DEF reconcileTerminalOperation, syncBlueGreenOperationStatus, FailCall, Parent, nomVars,
           bounds
  <2> QED BY <2>1, ReturnStep
<1>3. CASE ensureJob \/ syncStatusFromJob
  <2>1. /\ UNCHANGED Parent
        /\ \/ pass.pc = "job" /\ Goto("sync")
           \/ pass.pc = "sync" /\ (Goto("swap") \/ Return)
        BY <1>3 DEF ensureJob, syncStatusFromJob, Parent, nomVars, bounds
  <2> QED BY <2>1, ReturnStep, GotoStep
<1> QED BY <1>1, <1>2, <1>3, StartPassStep, PendingStep, ProvisionStep, ImportingStep, PatchStep,
           SwapStep, InstanceSteps, WindowStep, ReadyStep
        DEF Next, PassStep

(* At every point of the swap, of a failed import and of a crash between   *)
(* two calls of either controller, the passes, the parent and the Clusters *)
(* are in one of the combinations that SwapInv allows.                     *)
THEOREM SwapInvariant == Spec => []SwapInv
<1>1. SwapInv /\ [Next]_vars => SwapInv'
      BY SwapKept
<1> QED BY <1>1, SwapInit, PTL DEF Spec

(* The API always points at a Cluster that is there and ready: both        *)
(* Clusters serve until the rollback window is over, and by then nobody    *)
(* holds an older idea of the live one (reconcileBlueGreenAfterImport,     *)
(* reconcileAPI).                                                          *)
THEOREM ApiAlwaysServes == Spec => []ApiServes
<1>1. SwapInv => ApiServes
      BY DEF SwapInv, ControlOK, BeforeCutover, BothServe, AfterWindow, ApiServes, Names
<1> QED BY <1>1, SwapInvariant, PTL

-----------------------------------------------------------------------------
(* The Job.                                                                *)

LEMMA JobsTyped ==
  /\ NoJob \in JobRecords /\ ~NoJob.exists /\ NoJob.active = 0 /\ NoJob.succeeded = 0 /\ NoJob.failed = 0
  /\ \A j \in JobRecords : /\ j.exists \in BOOLEAN /\ j.active \in Nat
                           /\ j.succeeded \in Nat /\ j.failed \in Nat
BY DEF NoJob, JobRecords

\* What a step may do to the Job.
JobChange ==
  \/ job' = job
  \/ /\ ensureJob /\ ~job.exists /\ job'.exists /\ job'.active = 0 /\ target' = "bg"
     /\ job'.succeeded = 0 /\ job'.failed = 0
  \/ CreateRebuild /\ job' = NoJob
  \/ /\ StartPod \/ EndPod
     /\ job'.exists = job.exists
     /\ job.failed > 0 => job'.failed > 0
     /\ job.succeeded > 0 => job'.succeeded > 0
     /\ job'.active = 1 => job.exists /\ job.succeeded = 0 /\ job'.succeeded = 0

LEMMA JobFrame ==
  ASSUME SwapInv, job \in JobRecords, [Next]_vars
  PROVE  job' \in JobRecords /\ JobChange
<1>f. job.exists \in BOOLEAN /\ job.active \in Nat /\ job.succeeded \in Nat /\ job.failed \in Nat
      BY JobsTyped
<1>1. CASE ensureJob
  <2>1. CASE job.exists
        BY <1>1, <2>1 DEF ensureJob, JobChange
  <2>2. CASE ~job.exists
    <3>1. job' = [NoJob EXCEPT !.exists = TRUE] /\ target' = "bg"
          BY <1>1, <2>2 DEF ensureJob, SwapInv, CopiesAgree
    <3>2. job' \in JobRecords /\ job'.exists /\ job'.active = 0 /\ job'.succeeded = 0 /\ job'.failed = 0
          BY <3>1 DEF NoJob, JobRecords
    <3> QED BY <1>1, <2>2, <3>1, <3>2 DEF JobChange
  <2> QED BY <2>1, <2>2
<1>2. CASE CreateRebuild
      BY <1>2, JobsTyped DEF CreateRebuild, JobChange
<1>3. CASE StartPod
  <2>1. job' = [job EXCEPT !.active = 1] /\ job.exists /\ job.succeeded = 0
        BY <1>3, <1>f DEF StartPod, JobOver
  <2>2. /\ job' \in JobRecords /\ job'.exists = job.exists /\ job'.failed = job.failed
        /\ job'.succeeded = job.succeeded
        BY <2>1 DEF JobRecords
  <2> QED BY <1>3, <1>f, <2>1, <2>2 DEF JobChange
<1>4. CASE EndPod
  <2>1. CASE job' = [job EXCEPT !.active = 0, !.succeeded = 1]
    <3>1. /\ job' \in JobRecords /\ job'.exists = job.exists /\ job'.failed = job.failed
          /\ job'.succeeded = 1 /\ job'.active = 0
          BY <2>1 DEF JobRecords
    <3> QED BY <1>4, <1>f, <3>1 DEF JobChange
  <2>2. CASE job' = [job EXCEPT !.active = 0, !.failed = job.failed + 1]
    <3>1. PICK n \in Nat : n = job.failed + 1
          BY <1>f
    <3>2. /\ job' \in JobRecords /\ job'.exists = job.exists /\ job'.failed = n
          /\ job'.succeeded = job.succeeded /\ job'.active = 0
          BY <2>2, <3>1 DEF JobRecords
    <3> QED BY <1>4, <1>f, <3>1, <3>2 DEF JobChange
  <2> QED BY <1>4, <2>1, <2>2 DEF EndPod
<1>5. job' = job \/ ensureJob \/ CreateRebuild \/ StartPod \/ EndPod
      BY DEF Next, vars, opVars, PassStep, InstanceStep, StartPass, reconcileTerminalOperation,
         ensureBlueGreenPending, blueGreenPendingReady, waitForJobPrerequisites, syncStatusFromJob,
         reconcileBlueGreenAfterImport, patchParentRebuildStatus, syncBlueGreenOperationStatus, FailCall,
         instStart, reconcileDatabaseClusterCreate, persistDatabaseStatus, reconcileAPI, WindowElapses,
         ClusterBecomesReady
<1> QED BY <1>1, <1>2, <1>3, <1>4, <1>5 DEF JobChange

\* The pass reaches the swap only through syncStatusFromJob.
LEMMA SwapReached ==
  ASSUME SwapInv, [Next]_vars, pass'.pc = "swap"
  PROVE  syncStatusFromJob \/ (pass.pc = "swap" /\ phase' = phase /\ ~CreateRebuild /\ ~ensureJob)
<1>1. ControlOK /\ pass \in Passes
      BY DEF SwapInv, ControlOK
<1>2. ~Return /\ \A s \in Steps : Goto(s) => s = "swap"
      BY <1>1, PassSteps
<1>3. \A s \in {"provision", "job"} : \A rb : pass' # [pass EXCEPT !.pc = s, !.rebuild = rb]
      BY <1>1 DEF Passes
<1>4. ~StartPass /\ ~reconcileBlueGreenAfterImport
      BY DEF StartPass, reconcileBlueGreenAfterImport
<1>5. ~ensureBlueGreenPending /\ ~waitForJobPrerequisites
      BY <1>2, <1>3 DEF ensureBlueGreenPending, waitForJobPrerequisites, Steps
<1>6. /\ ~reconcileTerminalOperation /\ ~blueGreenPendingReady /\ ~ensureJob
      /\ ~patchParentRebuildStatus /\ ~syncBlueGreenOperationStatus /\ ~FailCall
      BY <1>2 DEF reconcileTerminalOperation, blueGreenPendingReady, ensureJob, patchParentRebuildStatus,
         syncBlueGreenOperationStatus, FailCall, Steps
<1>7. ~CreateRebuild
      BY DEF CreateRebuild
<1>8. \/ syncStatusFromJob
      \/ vars' = vars \/ InstanceStep \/ WindowElapses \/ ClusterBecomesReady \/ StartPod \/ EndPod
      BY <1>4, <1>5, <1>6, <1>7 DEF Next, PassStep
<1>9. syncStatusFromJob \/ (pass' = pass /\ phase' = phase)
      BY <1>8 DEF vars, opVars, InstanceStep, instStart, reconcileDatabaseClusterCreate,
         persistDatabaseStatus, reconcileAPI, WindowElapses, ClusterBecomesReady, StartPod, EndPod
<1> QED BY <1>6, <1>7, <1>9

LEMMA PhaseKept ==
  ASSUME SwapInv, PhaseFromJob, [Next]_vars
  PROVE  PhaseFromJob'
<1>1. job \in JobRecords /\ job' \in JobRecords /\ JobChange
      BY JobFrame DEF PhaseFromJob
<1>2. ASSUME pass'.pc = "swap"
      PROVE  (phase' = "Failed" /\ job'.failed > 0) \/ (phase' = "Succeeded" /\ job'.succeeded > 0)
  <2>1. CASE syncStatusFromJob
    <3>1. /\ job' = job /\ phase' = WP!phaseFromJob(job.succeeded, job.failed, job.active)
          /\ ~Return => phase' \in {"Succeeded", "Failed"}
          BY <2>1 DEF syncStatusFromJob, WP!isTerminalOperationPhase, WP!TerminalPhases
    <3>2. ~Return
          BY <1>2, PassSteps DEF SwapInv
    <3> QED BY <1>1, <3>1, <3>2, JobsTyped DEF WP!phaseFromJob
  <2>2. CASE pass.pc = "swap" /\ phase' = phase /\ ~CreateRebuild /\ ~ensureJob
        BY <1>1, <2>2 DEF PhaseFromJob, JobChange
  <2> QED BY <1>2, <2>1, <2>2, SwapReached
<1> QED BY <1>1, <1>2 DEF PhaseFromJob

LEMMA PhaseInit == Init => PhaseFromJob
BY RecordsTyped, JobsTyped DEF Init, PhaseFromJob

\* Clusters are taken away by the swap alone.
LEMMA RetiresInTime ==
  ASSUME SwapInv, PhaseFromJob, [Next]_vars
  PROVE  RetiresLate
<1> SUFFICES ASSUME NEW c \in Names, clusters[c] # "absent", clusters'[c] = "absent",
                    job.succeeded > 0, job.failed = 0
             PROVE  elapsed /\ api # c
    BY DEF RetiresLate
<1>0. clusters \in [Names -> ClusterStates] /\ api \in Names /\ live \in Names
      BY DEF SwapInv, ControlOK
<1>1. ~blueGreenPendingReady
  <2> SUFFICES ASSUME blueGreenPendingReady PROVE FALSE
      OBVIOUS
  <2>1. PICK x : clusters' = clusters \/ clusters' = [clusters EXCEPT ![x] = "starting"]
        BY DEF blueGreenPendingReady
  <2> QED BY <1>0, <2>1
<1>2. ~reconcileDatabaseClusterCreate
  <2> SUFFICES ASSUME reconcileDatabaseClusterCreate PROVE FALSE
      OBVIOUS
  <2> QED BY InstServed DEF reconcileDatabaseClusterCreate
<1>3. ~ClusterBecomesReady
      BY <1>0 DEF ClusterBecomesReady
<1>4. reconcileBlueGreenAfterImport
      BY <1>1, <1>2, <1>3
      DEF Next, vars, opVars, PassStep, InstanceStep, StartPass, reconcileTerminalOperation,
         ensureBlueGreenPending, waitForJobPrerequisites, ensureJob, syncStatusFromJob,
         patchParentRebuildStatus, syncBlueGreenOperationStatus, FailCall, instStart,
         persistDatabaseStatus, reconcileAPI, CreateRebuild, WindowElapses, StartPod, EndPod
<1>5. PICK out, ph, failed :
        /\ failed = (phase = "Failed" /\ pass.rebuild.phase \in {"none", "Provisioning", "Importing", "ReadyToCutover"})
        /\ ph = IF pass.rebuild.phase \in {"none", "Provisioning", "Importing"} THEN "Importing" ELSE pass.rebuild.phase
        /\ SwapResult(out, ph, failed)
      BY <1>4, SwapMade
<1>6. pass.pc = "swap" /\ phase # "Failed"
      BY <1>4, JobsTyped DEF reconcileBlueGreenAfterImport, PhaseFromJob
<1>7. out.act = "gcBlue" /\ elapsed
      BY <1>5, <1>6 DEF SwapResult, Outcome, SwapInv, WindowKept
<1>8. clusters' = [clusters EXCEPT ![Sibling(pass.live)] = "absent"] /\ pass.live = live /\ api = live
      BY <1>5, <1>6, <1>7 DEF SwapResult, SwapInv, AfterWindow
<1> QED BY <1>0, <1>7, <1>8 DEF Sibling, Names

(* A Cluster that an undisturbed import has replaced is deleted only after *)
(* the rollback window, when the API has left it, whichever calls failed   *)
(* and whatever the Instance controller wrote back meanwhile.              *)
THEOREM RetiredAfterWindowHolds == Spec => RetiredAfterWindow
<1>1. SwapInv /\ PhaseFromJob /\ [Next]_vars => PhaseFromJob'
      BY PhaseKept
<1>2. SwapInv /\ PhaseFromJob /\ [Next]_vars => [RetiresLate]_vars
      BY RetiresInTime
<1> QED BY <1>1, <1>2, PhaseInit, SwapInvariant, PTL DEF Spec, RetiredAfterWindow

-----------------------------------------------------------------------------
(* The import beside the live Cluster.                                     *)

\* What a step may do to status.rebuild and to the pass's copy.
LEMMA RebuildFrame ==
  ASSUME SwapInv, [Next]_vars
  PROVE  /\ \/ rebuild' = rebuild
            \/ pass.pc # "idle" /\ rebuild'.phase \in {"Provisioning", "Importing"}
            \/ pass.pc # "idle" /\ rebuild' = pass.rebuild
         /\ \/ pass'.rebuild \in {pass.rebuild, rebuild, NoRebuild}
            \/ pass'.rebuild.phase \in {"Provisioning", "Importing"}
            \/ reconcileBlueGreenAfterImport
         /\ pass'.pc # "idle" => pass.pc # "idle" \/ StartPass
<1>1. ControlOK /\ pass \in Passes
      BY DEF SwapInv, ControlOK
<1>2. CASE ensureBlueGreenPending
  <2>1. PICK rb : rb = seedBlueGreenRebuildStatus
        OBVIOUS
  <2>2. rb.phase = "Provisioning"
        BY <2>1 DEF seedBlueGreenRebuildStatus
  <2>3. \/ Goto("provision") /\ rebuild' = rebuild
        \/ pass' = [pass EXCEPT !.pc = "provision", !.rebuild = rb] /\ rebuild' = rb
        BY <1>2, <2>1 DEF ensureBlueGreenPending, Patch, nomVars
  <2>4. pass' = [pass EXCEPT !.pc = "provision", !.rebuild = rb] => pass'.rebuild = rb
        BY <1>1 DEF Passes
  <2> QED BY <1>1, <1>2, <2>2, <2>3, <2>4, PassSteps DEF ensureBlueGreenPending, Steps
<1>3. CASE waitForJobPrerequisites
  <2>1. PICK rb : rb = [pass.rebuild EXCEPT !.phase = "Importing"]
        OBVIOUS
  <2>2. rb.phase = "Importing"
        BY <1>1, <2>1, PassFields DEF Rebuilds
  <2>3. \/ Goto("job") /\ rebuild' = rebuild
        \/ pass' = [pass EXCEPT !.pc = "job", !.rebuild = rb] /\ rebuild' \in {rb, rebuild}
        BY <1>3, <2>1 DEF waitForJobPrerequisites, PatchOrLose, Patch, nomVars
  <2>4. pass' = [pass EXCEPT !.pc = "job", !.rebuild = rb] => pass'.rebuild = rb
        BY <1>1 DEF Passes
  <2> QED BY <1>1, <1>3, <2>2, <2>3, <2>4, PassSteps DEF waitForJobPrerequisites, Steps
<1>4. CASE StartPass
      BY <1>4 DEF StartPass, nomVars
<1>5. CASE patchParentRebuildStatus
      BY <1>1, <1>5, PassSteps DEF patchParentRebuildStatus, Patch, Steps
<1>6. CASE reconcileBlueGreenAfterImport
      BY <1>6 DEF reconcileBlueGreenAfterImport, nomVars
<1>7. CASE \/ reconcileTerminalOperation \/ blueGreenPendingReady \/ ensureJob \/ syncStatusFromJob
           \/ syncBlueGreenOperationStatus \/ FailCall
  <2>1. /\ rebuild' = rebuild /\ pass.pc # "idle"
        /\ Return \/ Goto("importing") \/ Goto("sync") \/ Goto("swap")
        BY <1>7 DEF reconcileTerminalOperation, blueGreenPendingReady, ensureJob, syncStatusFromJob,
           syncBlueGreenOperationStatus, FailCall, nomVars
  <2> QED BY <1>1, <2>1, PassSteps DEF Steps
<1>8. CASE \/ vars' = vars \/ InstanceStep \/ CreateRebuild \/ WindowElapses \/ ClusterBecomesReady
           \/ StartPod \/ EndPod
  <2>1. rebuild' = rebuild /\ pass' = pass
        BY <1>8 DEF vars, nomVars, InstanceStep, instStart, reconcileDatabaseClusterCreate,
           persistDatabaseStatus, reconcileAPI, CreateRebuild, WindowElapses, ClusterBecomesReady,
           StartPod, EndPod
  <2> QED BY <2>1
<1> QED BY <1>2, <1>3, <1>4, <1>5, <1>6, <1>7, <1>8 DEF Next, PassStep

\* The swap begins with a Job that succeeded.
LEMMA SwapBegins ==
  ASSUME SwapInv, PhaseFromJob, [Next]_vars, Swapped(rebuild)' \/ Swapped(pass.rebuild)'
  PROVE  Swapped(rebuild) \/ Swapped(pass.rebuild) \/ (job.succeeded > 0 /\ ~CreateRebuild)
<1>1. CASE reconcileBlueGreenAfterImport /\ ~Swapped(pass.rebuild) /\ Swapped(pass.rebuild)'
  <2>1. PICK out, ph, failed :
          /\ failed = (phase = "Failed" /\ pass.rebuild.phase \in {"none", "Provisioning", "Importing", "ReadyToCutover"})
          /\ ph = IF pass.rebuild.phase \in {"none", "Provisioning", "Importing"} THEN "Importing" ELSE pass.rebuild.phase
          /\ SwapResult(out, ph, failed)
        BY <1>1, SwapMade
  <2>2. ~failed /\ ph = "ReadyToCutover"
        BY <1>1, <2>1 DEF SwapResult, Outcome, Swapped
  <2>3. phase # "Failed" /\ pass.pc = "swap"
        BY <1>1, <2>1, <2>2 DEF reconcileBlueGreenAfterImport
  <2> QED BY <2>3 DEF PhaseFromJob, CreateRebuild
<1> QED BY <1>1, RebuildFrame, RecordsTyped DEF Swapped

LEMMA ImportKept ==
  ASSUME OneSwap, ImportInv, [Next]_vars
  PROVE  ImportInv'
<1>1. SwapInv /\ PhaseFromJob /\ job \in JobRecords /\ SwapInv' /\ PhaseFromJob'
      BY SwapKept, PhaseKept DEF ImportInv, PhaseFromJob
<1>2. job' \in JobRecords /\ JobChange
      BY <1>1, JobFrame
<1>3. /\ job.succeeded \in Nat /\ cur \in Nat /\ job'.succeeded \in Nat
      /\ job.exists \in BOOLEAN /\ job'.exists \in BOOLEAN
      BY <1>1, <1>2, JobsTyped DEF ImportInv
<1>4. (job.exists => target = "bg")'
  <2>1. target' = target \/ ensureJob
        BY DEF Next, vars, opVars, PassStep, InstanceStep, StartPass, reconcileTerminalOperation,
           ensureBlueGreenPending, blueGreenPendingReady, waitForJobPrerequisites, syncStatusFromJob,
           reconcileBlueGreenAfterImport, patchParentRebuildStatus, syncBlueGreenOperationStatus, FailCall,
           instStart, reconcileDatabaseClusterCreate, persistDatabaseStatus, reconcileAPI, WindowElapses,
           ClusterBecomesReady, CreateRebuild, StartPod, EndPod
  <2>2. ensureJob => target' = "bg" \/ (job' = job /\ target' = target)
        BY <1>1 DEF ensureJob, SwapInv, CopiesAgree
  <2> QED BY <1>2, <2>1, <2>2, JobsTyped DEF ImportInv, JobChange
<1>5. (job.active = 1 => job.exists /\ job.succeeded = 0)' /\ (job.succeeded > 0 => job.exists)'
  <2>1. EndPod => job.active = 1
        BY DEF EndPod
  <2>2. StartPod => job.exists
        BY DEF StartPod
  <2> QED BY <1>2, <1>3, <2>1, <2>2, JobsTyped DEF ImportInv, JobChange
<1>6. CASE CreateRebuild
  <2>1. pass.pc = "idle" /\ cur < drive.rebuilds /\ UNCHANGED <<rebuild, pass>> /\ cur' = cur + 1
        BY <1>6 DEF CreateRebuild, nomVars
  <2>2. drive \in Drives /\ drive.rebuilds \in Nat
        BY <1>1 DEF SwapInv, ControlOK, DriveRecords
  <2>3. ~Swapped(rebuild)
        BY <1>1, <1>3, <2>1, <2>2 DEF OneSwap, SwapInv, NeverSwapped, ImportInv, Swapped
  <2>4. ~Swapped(pass.rebuild)
        BY <1>1, <2>1, RecordsTyped DEF SwapInv, CopiesAgree, ImportingLost, Swapped
  <2> QED BY <1>1, <1>3, <1>4, <1>5, <2>1, <2>3, <2>4 DEF ImportInv, Swapped
<1>7. CASE ~CreateRebuild
  <2>1. cur' = cur
        BY <1>7 DEF Next, vars, opVars, PassStep, InstanceStep, StartPass, reconcileTerminalOperation,
           ensureBlueGreenPending, blueGreenPendingReady, waitForJobPrerequisites, syncStatusFromJob,
           ensureJob, reconcileBlueGreenAfterImport, patchParentRebuildStatus,
           syncBlueGreenOperationStatus, FailCall, instStart, reconcileDatabaseClusterCreate,
           persistDatabaseStatus, reconcileAPI, WindowElapses, ClusterBecomesReady, StartPod, EndPod
  <2>2. (rebuild.phase # "none" \/ pass.pc # "idle" => cur > 0)'
        BY <1>1, <2>1, RebuildFrame DEF ImportInv, StartPass
  <2>3. job.succeeded > 0 => job'.succeeded > 0
        BY <1>2, <1>3, <1>7 DEF JobChange, ImportInv
  <2>4. (Swapped(rebuild) \/ Swapped(pass.rebuild) => job.succeeded > 0)'
        BY <1>1, <2>3, SwapBegins DEF ImportInv
  <2> QED BY <1>1, <1>3, <1>4, <1>5, <2>1, <2>2, <2>4 DEF ImportInv
<1> QED BY <1>6, <1>7

(* The import runs beside the live Cluster: no pod of a BlueGreen Job is   *)
(* ever active on the Cluster that the API uses (ensureJob), when the swap *)
(* is driven once, or by Reconcile as it is any number of times.           *)
THEOREM ImportBesideLiveHolds ==
  ASSUME OneSwap
  PROVE  Spec => []ImportBesideLive
<1>1. Init => ImportInv
  <2> SUFFICES ASSUME Init PROVE ImportInv
      OBVIOUS
  <2>1. /\ ~job.exists /\ job.active = 0 /\ job.succeeded = 0 /\ cur = 0
        /\ rebuild.phase = "none" /\ pass.rebuild.phase = "none" /\ pass.pc = "idle"
        BY RecordsTyped, JobsTyped DEF Init
  <2> QED BY <2>1, SwapInit, PhaseInit DEF ImportInv, Swapped
<1>2. ImportInv /\ [Next]_vars => ImportInv'
      BY ImportKept
<1>3. ImportInv => ImportBesideLive
  <2> SUFFICES ASSUME ImportInv, job.active = 1 PROVE target # api
      BY DEF ImportBesideLive
  <2>1. target = "bg" /\ ~Swapped(rebuild)
        BY DEF ImportInv
  <2> QED BY <2>1 DEF ImportInv, SwapInv, BeforeCutover
<1> QED BY <1>1, <1>2, <1>3, PTL DEF Spec

=============================================================================
