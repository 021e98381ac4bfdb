---------------------------- MODULE RegionsProofs ---------------------------
(* Machine-checked proofs about Regions, for every set of regions and      *)
(* styles and every value of the bounds.                                   *)
EXTENDS Regions, TLAPS

USE RegionsAssumption

-----------------------------------------------------------------------------
(* Names and records.                                                      *)

LEMMA NamesTyped ==
  /\ Boot \in OpNames /\ TypeOf(Boot) = "Bootstrap"
  /\ <<"Manual", 0>> \in OpNames /\ TypeOf(<<"Manual", 0>>) = "Rebuild"
  /\ \A n \in OpNames : TypeOf(n) \in {"Bootstrap", "AddRegions", "Rebuild", "Update"}
  /\ \A n \in OpNames : TypeOf(n) = "Bootstrap" => n = Boot
BY DEF Boot, OpNames, TypeOf

LEMMA DriftNames ==
  ASSUME NEW t \in {"AddRegions", "Rebuild"}, NEW g \in 0..MaxGen
  PROVE  <<t, g>> \in OpNames /\ TypeOf(<<t, g>>) = t /\ <<t, g>> # <<"Manual", 0>>
BY DEF OpNames, TypeOf

LEMMA UpdateNames ==
  ASSUME NEW f \in 1..MaxFires
  PROVE  <<"Update", f>> \in OpNames /\ TypeOf(<<"Update", f>>) = "Update"
BY DEF OpNames, TypeOf

LEMMA NewTyped ==
  /\ IsOperation(NoOperation) /\ NoOperation.phase = "absent"
  /\ \A rs : IsOperation(NewOperation(rs)) /\ NewOperation(rs).phase = "Pending"
  /\ IsStatus(NoStatus) /\ NoStatus.regions = {}
BY DEF IsOperation, NoOperation, NewOperation, IsStatus, NoStatus, WP!TerminalPhases

LEMMA PhaseSet ==
  ASSUME NEW o, IsOperation(o), NEW ph \in {"Succeeded", "Failed"},
         NEW q, q = [o EXCEPT !.phase = ph]
  PROVE  IsOperation(q) /\ q.phase = ph /\ q.regions = o.regions /\ q.imports = o.imports
BY DEF IsOperation, WP!TerminalPhases

-----------------------------------------------------------------------------
(* What a step may do to the Operations.                                   *)

\* Who has created n.
Created(n) ==
  \/ ensureBootstrapOperation /\ n = Boot /\ pass.status.regions = {}
  \/ /\ reconcileRegionDrift /\ TypeOf(n) = (IF Policy = "Rebuild" THEN "Rebuild" ELSE "AddRegions")
     /\ n # <<"Manual", 0>>
     /\ pass.status.regions # {} /\ ~writeHeavyActive(pass.ops)
  \/ reconcileUpdates /\ TypeOf(n) = "Update"

OpChange(n) ==
  \/ ops'[n] = ops[n]
  \/ ops[n].phase = "absent" /\ ops'[n].phase = "Pending" /\ Created(n)
  \/ ops[n].phase = "Pending" /\ ops'[n].phase = "Failed"
  \/ /\ ops[n].phase = "Pending" /\ ops'[n].phase = "Running" /\ StartOperation(n) /\ ~Refused(n)
     /\ ops'[n].regions = ops[n].regions /\ ops'[n].imports = effectiveRegions(n)
  \/ /\ ops[n].phase = "Running" /\ ops'[n].phase = "Succeeded" /\ JobSucceeds(n)
     /\ ops'[n].regions = ops[n].regions
  \/ ops[n].phase = "Running" /\ ops'[n].phase = "Failed"

LEMMA OpsFrame ==
  ASSUME ManualRebuild = {}, ControlOK, [Next]_vars
  PROVE  /\ DOMAIN ops' = OpNames
         /\ \A n \in OpNames : IsOperation(ops'[n]) /\ OpChange(n)
         /\ \A m, n \in OpNames : ops'[m] # ops[m] /\ ops'[n] # ops[n] => m = n
<1> DEFINE Goal == /\ DOMAIN ops' = OpNames
                   /\ \A n \in OpNames : IsOperation(ops'[n]) /\ OpChange(n)
                   /\ \A m, n \in OpNames : ops'[m] # ops[m] /\ ops'[n] # ops[n] => m = n
<1>p. DOMAIN ops = OpNames /\ \A n \in OpNames : IsOperation(ops[n])
      BY DEF ControlOK
<1>1. ASSUME ops' = ops PROVE Goal
      BY <1>1, <1>p DEF OpChange
<1>x. ASSUME NEW x \in OpNames, NEW new, ops' = [ops EXCEPT ![x] = new], IsOperation(new), OpChange(x)
      PROVE  Goal
      BY <1>x, <1>p DEF OpChange
<1>y. ASSUME NEW x \in OpNames, NEW new, ops' = [ops EXCEPT ![x] = new] PROVE ops'[x] = new
      BY <1>y, <1>p
<1>c. ASSUME NEW x \in OpNames, NEW rs, ops[x].phase = "absent", Created(x),
             ops' = [ops EXCEPT ![x] = NewOperation(rs)]
      PROVE  Goal
  <2>1. PICK new : new = NewOperation(rs)
        OBVIOUS
  <2>2. IsOperation(new) /\ new.phase = "Pending"
        BY <2>1, NewTyped
  <2>3. ops' = [ops EXCEPT ![x] = new] /\ ops'[x] = new
        BY <1>c, <2>1, <1>y
  <2>4. OpChange(x)
        BY <1>c, <2>2, <2>3 DEF OpChange
  <2> QED BY <2>2, <2>3, <2>4, <1>x
<1>2. CASE ensureBootstrapOperation
  <2>1. CASE ops' = ops
        BY <2>1, <1>1
  <2>2. CASE ops' # ops
    <3>1. /\ pass.status.regions = {} /\ ops[Boot].phase = "absent"
          /\ ops' = [ops EXCEPT ![Boot] = NewOperation(pass.spec.regions)]
          BY <1>2, <2>2 DEF ensureBootstrapOperation, CreateThen, Boot
    <3> QED BY <1>2, <3>1, <1>c, NamesTyped DEF Created
  <2> QED BY <2>1, <2>2
<1>3. CASE reconcileRegionDrift
  <2>1. CASE ops' = ops
        BY <2>1, <1>1
  <2>2. CASE ops' # ops
    <3>1. PICK t \in {"AddRegions", "Rebuild"} : t = IF Policy = "Rebuild" THEN "Rebuild" ELSE "AddRegions"
          OBVIOUS
    <3>2. PICK rs : rs = IF Policy = "Rebuild" THEN pass.spec.regions ELSE {Min(pass.spec.regions \ pass.status.regions)}
          OBVIOUS
    <3>3. PICK x : x = driftOperationName(t, pass.ops, pass.gen)
          OBVIOUS
    <3>4. /\ pass.status.regions # {} /\ ~writeHeavyActive(pass.ops)
          /\ CreateThen(x, rs, "updates")
          BY <1>3, <2>2, <3>1, <3>2, <3>3 DEF reconcileRegionDrift
    <3>5. ops[x].phase = "absent" /\ ops' = [ops EXCEPT ![x] = NewOperation(rs)]
          BY <2>2, <3>4 DEF CreateThen
    <3>6. pass.gen \in 0..MaxGen
          BY <1>3 DEF reconcileRegionDrift, ControlOK, IsPass, Idle
    <3>7. x \in OpNames /\ TypeOf(x) = t /\ x # <<"Manual", 0>>
          BY <3>3, <3>6, DriftNames DEF driftOperationName
    <3> QED BY <1>3, <3>1, <3>4, <3>5, <3>7, <1>c DEF Created
  <2> QED BY <2>1, <2>2
<1>4. CASE reconcileUpdates
  <2>1. CASE ops' = ops
        BY <2>1, <1>1
  <2>2. CASE ops' # ops
    <3>1. /\ pass.status.cursor < clock /\ ops[<<"Update", clock>>].phase = "absent"
          /\ ops' = [ops EXCEPT ![<<"Update", clock>>] = NewOperation(pass.status.regions)]
          BY <1>4, <2>2 DEF reconcileUpdates
    <3>2. pass.status.cursor \in Nat /\ clock \in 0..MaxFires
          BY <1>4 DEF reconcileUpdates, ControlOK, IsStatus, Idle
    <3>3. clock \in 1..MaxFires
          BY <3>1, <3>2
    <3> QED BY <1>4, <3>1, <3>3, UpdateNames, <1>c DEF Created
  <2> QED BY <2>1, <2>2
<1>5. ASSUME NEW x \in OpNames, JobSucceeds(x) PROVE Goal
  <2>1. PICK new : new = [ops[x] EXCEPT !.phase = "Succeeded"]
        OBVIOUS
  <2>2. IsOperation(new) /\ new.phase = "Succeeded" /\ new.regions = ops[x].regions
        BY <2>1, <1>p, PhaseSet
  <2>3. ops' = [ops EXCEPT ![x] = new] /\ ops[x].phase = "Running"
        BY <1>5, <2>1 DEF JobSucceeds
  <2>4. OpChange(x)
        BY <1>5, <2>2, <2>3, <1>y DEF OpChange
  <2> QED BY <2>2, <2>3, <2>4, <1>x
<1>6. ASSUME NEW x \in OpNames, JobFails(x) PROVE Goal
  <2>1. PICK new : new = [ops[x] EXCEPT !.phase = "Failed"]
        OBVIOUS
  <2>2. IsOperation(new) /\ new.phase = "Failed"
        BY <2>1, <1>p, PhaseSet
  <2>3. ops' = [ops EXCEPT ![x] = new] /\ ops[x].phase = "Running"
        BY <1>6, <2>1 DEF JobFails
  <2>4. OpChange(x)
        BY <2>2, <2>3, <1>y DEF OpChange
  <2> QED BY <2>2, <2>3, <2>4, <1>x
<1>7. ASSUME NEW x \in OpNames, StartOperation(x), Refused(x) PROVE Goal
  <2>1. PICK new : new = [ops[x] EXCEPT !.phase = "Failed"]
        OBVIOUS
  <2>2. IsOperation(new) /\ new.phase = "Failed"
        BY <2>1, <1>p, PhaseSet
  <2>3. ops' = [ops EXCEPT ![x] = new] /\ ops[x].phase = "Pending"
        BY <1>7, <2>1 DEF StartOperation
  <2>4. OpChange(x)
        BY <2>2, <2>3, <1>y DEF OpChange
  <2> QED BY <2>2, <2>3, <2>4, <1>x
<1>8. ASSUME NEW x \in OpNames, StartOperation(x), ~Refused(x) PROVE Goal
  <2>1. PICK im, sty : im = effectiveRegions(x) /\ sty = effectiveImportTimeSettings
        OBVIOUS
  <2>2. PICK new : new = [phase |-> "Running", regions |-> ops[x].regions, imports |-> im, style |-> sty]
        OBVIOUS
  <2>3. IsOperation(new) /\ new.phase = "Running" /\ new.regions = ops[x].regions /\ new.imports = im
        BY <2>2 DEF IsOperation
  <2>4. ops' = [ops EXCEPT ![x] = new] /\ ops[x].phase = "Pending"
        BY <1>8, <2>1, <2>2 DEF StartOperation
  <2>5. OpChange(x)
        BY <1>8, <2>1, <2>3, <2>4, <1>y DEF OpChange
  <2> QED BY <2>3, <2>4, <2>5, <1>x
<1>9. \/ ops' = ops \/ ensureBootstrapOperation \/ reconcileRegionDrift \/ reconcileUpdates
      \/ \E x \in OpNames : JobSucceeds(x) \/ JobFails(x) \/ StartOperation(x)
      BY DEF Next, vars, InstancePass, ReadInstance, PersistDatabaseStatus, ListOperations,
         reconcileWorkloads, syncStatus, FailPass, EditSpec, CreateRebuild, ScheduleFires
<1> QED BY <1>1, <1>2, <1>3, <1>4, <1>5, <1>6, <1>7, <1>8, <1>9

-----------------------------------------------------------------------------
(* What a step may do to the pass.                                         *)

\* The observation of the Operations adds regions of Succeeded Operations only,
\* and seals an import style once.
LEMMA Sealed ==
  ASSUME NEW st, IsStatus(st), NEW sty, NEW q, q = st \/ q = [st EXCEPT !.seal = sty]
  PROVE  IsStatus(q) /\ q.regions = st.regions
BY DEF IsStatus

LEMMA SealedOnce ==
  ASSUME NEW st, NEW sp, st.seal # "none"
  PROVE  sealObservedNominatimConfig(st, sp, FALSE) = st
BY DEF sealObservedNominatimConfig

LEMMA RegionsSet ==
  ASSUME NEW st, IsStatus(st), NEW rs, NEW q, q = [st EXCEPT !.regions = rs]
  PROVE  IsStatus(q) /\ q.regions = rs /\ q.seal = st.seal
BY DEF IsStatus

\* x is a region of an Operation that has Succeeded.
Imports(os, x) ==
  \E n \in OpNames : /\ TypeOf(n) \in {"Bootstrap", "AddRegions", "Rebuild"}
                     /\ os[n].phase = "Succeeded" /\ x \in os[n].regions

LEMMA BootstrapSynced ==
  ASSUME NEW st, IsStatus(st), NEW sp, NEW os, NEW q, q = syncRegionsFromBootstrap(st, sp, os)
  PROVE  /\ IsStatus(q) /\ (st.seal # "none" => q.seal = st.seal)
         /\ \A x \in q.regions : x \in st.regions \/ Imports(os, x)
<1>1. CASE q = st
      BY <1>1
<1>2. CASE q # st
  <2>1. PICK m : m = [st EXCEPT !.regions = os[Boot].regions]
        OBVIOUS
  <2>2. IsStatus(m) /\ m.regions = os[Boot].regions /\ m.seal = st.seal
        BY <2>1, RegionsSet
  <2>3. os[Boot].phase = "Succeeded" /\ q = sealObservedNominatimConfig(m, sp, FALSE)
        BY <1>2, <2>1 DEF syncRegionsFromBootstrap, Boot
  <2>4. IsStatus(q) /\ q.regions = m.regions
    <3>1. PICK sty : q = m \/ q = [m EXCEPT !.seal = sty]
          BY <2>3 DEF sealObservedNominatimConfig
    <3> QED BY <2>2, <3>1, Sealed
  <2>5. m.seal # "none" => q.seal = m.seal
        BY <2>3, SealedOnce
  <2> QED BY <2>2, <2>3, <2>4, <2>5, NamesTyped DEF Imports
<1> QED BY <1>1, <1>2

LEMMA DriftSynced ==
  ASSUME NEW st, IsStatus(st), NEW sp, NEW os, NEW q \in syncRegionsFromDriftOps(st, sp, os)
  PROVE  /\ IsStatus(q)
         /\ \A x \in q.regions : x \in st.regions \/ Imports(os, x)
         /\ Succeeded(os, "Rebuild") = {} => q.seal = st.seal
<1>1. ASSUME NEW after \in SUBSET Succeeded(os, "AddRegions"), NEW base, NEW x \in Merged(os, base, after)
      PROVE  x \in base \/ Imports(os, x)
      BY <1>1 DEF Succeeded, Imports, Merged
<1>2. CASE Succeeded(os, "Rebuild") = {}
  <2>1. PICK rs : rs = Merged(os, st.regions, Succeeded(os, "AddRegions"))
        OBVIOUS
  <2>2. q = [st EXCEPT !.regions = rs]
        BY <1>2, <2>1 DEF syncRegionsFromDriftOps
  <2>3. IsStatus(q) /\ q.regions = rs /\ q.seal = st.seal
        BY <2>2, RegionsSet
  <2> QED BY <2>1, <2>3, <1>1
<1>3. CASE Succeeded(os, "Rebuild") # {}
  <2>1. PICK r \in Succeeded(os, "Rebuild"), after \in SUBSET Succeeded(os, "AddRegions") :
          q = Replaced(st, sp, os, r, after)
        BY <1>3 DEF syncRegionsFromDriftOps
  <2>2. PICK rs : rs = Merged(os, os[r].regions, after)
        OBVIOUS
  <2>3. PICK m : m = [st EXCEPT !.regions = rs]
        OBVIOUS
  <2>4. IsStatus(m) /\ m.regions = rs
        BY <2>3, RegionsSet
  <2>5. q = sealObservedNominatimConfig(m, sp, TRUE)
        BY <2>1, <2>2, <2>3, Zenon DEF Replaced
  <2>6. IsStatus(q) /\ q.regions = rs
    <3>1. PICK sty : q = m \/ q = [m EXCEPT !.seal = sty]
          BY <2>5 DEF sealObservedNominatimConfig
    <3> QED BY <2>4, <3>1, Sealed
  <2>7. \A x \in os[r].regions : Imports(os, x)
        BY DEF Succeeded, Imports
  <2> QED BY <1>3, <2>2, <2>6, <2>7, <1>1
<1> QED BY <1>2, <1>3

LEMMA Observed ==
  ASSUME NEW st, IsStatus(st), NEW sp, NEW os,
         NEW q \in observeRegionsFromSucceededOps(st, sp, os)
  PROVE  /\ IsStatus(q)
         /\ \A x \in q.regions : x \in st.regions \/ Imports(os, x)
         /\ Succeeded(os, "Rebuild") = {} /\ st.seal # "none" => q.seal = st.seal
<1>1. PICK b : b = syncRegionsFromBootstrap(st, sp, os)
      OBVIOUS
<1>2. q \in syncRegionsFromDriftOps(b, sp, os)
      BY <1>1 DEF observeRegionsFromSucceededOps
<1> QED BY <1>1, <1>2, BootstrapSynced, DriftSynced

\* A pass that goes on with what it has read.
GoesOn ==
  /\ pass # Idle /\ pass' # Idle
  /\ pass'.gen = pass.gen /\ pass'.spec = pass.spec /\ pass'.ops = pass.ops
  /\ pass'.status.regions = pass.status.regions /\ pass'.status.seal = pass.status.seal
  /\ \/ pass'.pc = pass.pc
     \/ pass.pc = "bootstrap" /\ pass'.pc = "workloads"
     \/ pass.pc = "workloads" /\ pass'.pc = "drift"
     \/ pass.pc \in {"drift", "updates"} /\ pass'.pc \in {"updates", "status"}

PassChange ==
  \/ pass' = Idle
  \/ pass' = pass
  \/ GoesOn
  \/ ReadInstance /\ pass'.pc = "persist" /\ pass'.gen = gen /\ pass'.spec = spec
  \/ /\ PersistDatabaseStatus /\ pass # Idle
     /\ pass'.pc = "list" /\ pass'.status = status /\ pass'.gen = pass.gen /\ pass'.spec = pass.spec
  \/ /\ ListOperations /\ pass # Idle /\ pass.pc = "list"
     /\ pass'.pc = "bootstrap" /\ pass'.ops = ops /\ pass'.gen = pass.gen /\ pass'.spec = pass.spec
     /\ pass'.status \in observeRegionsFromSucceededOps(pass.status, pass.spec, ops)

Working(p) == IsPass(p) /\ IsStatus(p.status) /\ p # Idle

LEMMA GoingOn ==
  ASSUME pass # Idle, Working(pass)
  PROVE  /\ \A s \in Steps : Goto(s) => Working(pass') /\ pass'.pc = s /\ pass'.gen = pass.gen
              /\ pass'.spec = pass.spec /\ pass'.ops = pass.ops /\ pass'.status = pass.status
         /\ TouchInstance => Working(pass') /\ pass'.pc = pass.pc /\ pass'.gen = pass.gen
              /\ pass'.spec = pass.spec /\ pass'.ops = pass.ops /\ pass'.status = pass.status
<1>1. ASSUME NEW s \in Steps, Goto(s)
      PROVE  Working(pass') /\ pass'.pc = s /\ pass'.gen = pass.gen
              /\ pass'.spec = pass.spec /\ pass'.ops = pass.ops /\ pass'.status = pass.status
  <2>1. pass' = [pass EXCEPT !.pc = s]
        BY <1>1 DEF Goto
  <2>2. IsPass(pass') /\ pass'.pc = s /\ pass'.gen = pass.gen
              /\ pass'.spec = pass.spec /\ pass'.ops = pass.ops /\ pass'.status = pass.status
        BY <2>1 DEF Working, IsPass
  <2>3. pass' # Idle
        BY <2>2 DEF Idle, Steps
  <2> QED BY <2>2, <2>3 DEF Working
<1>2. ASSUME TouchInstance
      PROVE  Working(pass') /\ pass'.pc = pass.pc /\ pass'.gen = pass.gen
              /\ pass'.spec = pass.spec /\ pass'.ops = pass.ops /\ pass'.status = pass.status
  <2>1. pass' = [pass EXCEPT !.stale = TRUE]
        BY <1>2 DEF TouchInstance
  <2>2. IsPass(pass') /\ pass'.pc = pass.pc /\ pass'.gen = pass.gen
              /\ pass'.spec = pass.spec /\ pass'.ops = pass.ops /\ pass'.status = pass.status
        BY <2>1 DEF Working, IsPass
  <2>3. pass.pc \in Steps
        BY DEF Working, IsPass
  <2>4. pass' # Idle
        BY <2>2, <2>3 DEF Idle, Steps
  <2> QED BY <2>2, <2>4 DEF Working
<1> QED BY <1>1, <1>2

LEMMA PassFrame ==
  ASSUME ControlOK, [Next]_vars
  PROVE  (pass' = Idle \/ Working(pass')) /\ PassChange
<1> DEFINE Goal == (pass' = Idle \/ Working(pass')) /\ PassChange
<1>w. pass = Idle \/ Working(pass)
      BY DEF ControlOK, Working
<1>i. Idle.pc = "idle"
      BY DEF Idle
<1>0. CASE pass' = pass
      BY <1>0, <1>w DEF PassChange
<1>1. CASE pass' = Idle
      BY <1>1 DEF PassChange
<1>2. ASSUME NEW s \in Steps, pass # Idle, Goto(s),
             \/ pass.pc = "bootstrap" /\ s = "workloads"
             \/ pass.pc = "workloads" /\ s = "drift"
             \/ pass.pc \in {"drift", "updates"} /\ s \in {"updates", "status"}
      PROVE  Goal
  <2>1. Working(pass') /\ pass'.pc = s /\ pass'.gen = pass.gen
              /\ pass'.spec = pass.spec /\ pass'.ops = pass.ops /\ pass'.status = pass.status
        BY <1>w, <1>2, GoingOn
  <2>2. GoesOn
        BY <1>2, <2>1 DEF GoesOn, Working
  <2> QED BY <2>1, <2>2 DEF PassChange
<1>3. CASE TouchInstance
  <2>1. CASE pass = Idle
        BY <1>3, <2>1, <1>0 DEF TouchInstance
  <2>2. CASE pass # Idle
    <3>1. Working(pass') /\ pass'.pc = pass.pc /\ pass'.gen = pass.gen
              /\ pass'.spec = pass.spec /\ pass'.ops = pass.ops /\ pass'.status = pass.status
          BY <1>w, <1>3, <2>2, GoingOn
    <3>2. GoesOn
          BY <2>2, <3>1 DEF GoesOn, Working
    <3> QED BY <3>1, <3>2 DEF PassChange
  <2> QED BY <2>1, <2>2
<1>4. CASE ReadInstance
  <2>1. PICK os, st, sp : /\ os = NoOps /\ st = NoStatus /\ sp = spec
                          /\ IsStatus(st)
        BY NewTyped DEF ControlOK
  <2>2. gen \in 1..MaxGen
        BY DEF ControlOK
  <2>3. pass' = [pc |-> "persist", stale |-> FALSE, gen |-> gen, spec |-> sp, status |-> st, ops |-> os]
        BY <1>4, <2>1 DEF ReadInstance
  <2>4. IsPass(pass') /\ pass'.pc = "persist" /\ pass'.gen = gen /\ pass'.spec = sp /\ pass'.status = st
        BY <2>2, <2>3 DEF IsPass, Steps
  <2>5. pass' # Idle
        BY <2>4, <1>i
  <2> QED BY <1>4, <2>1, <2>4, <2>5 DEF PassChange, Working
<1>5. CASE PersistDatabaseStatus
  <2>1. /\ pass.pc = "persist" /\ pass # Idle /\ Working(pass) /\ IsStatus(status)
        /\ pass' = [pass EXCEPT !.pc = "list", !.stale = FALSE, !.status = status]
        BY <1>5, <1>w, <1>i DEF PersistDatabaseStatus, ControlOK
  <2>2. /\ IsPass(pass') /\ pass'.pc = "list" /\ pass'.gen = pass.gen /\ pass'.spec = pass.spec
        /\ pass'.status = status
        BY <2>1 DEF Working, IsPass, Steps
  <2>3. pass' # Idle
        BY <2>2, <1>i
  <2> QED BY <1>5, <2>1, <2>2, <2>3 DEF PassChange, Working
<1>6. CASE ListOperations
  <2>1. PICK st \in observeRegionsFromSucceededOps(pass.status, pass.spec, ops) :
          pass' = [pass EXCEPT !.pc = "bootstrap", !.status = st, !.ops = ops]
        BY <1>6 DEF ListOperations
  <2>2. pass.pc = "list" /\ pass # Idle /\ Working(pass)
        BY <1>6, <1>w, <1>i DEF ListOperations
  <2>3. IsStatus(st)
        BY <2>1, <2>2, Observed DEF Working
  <2>4. /\ IsPass(pass') /\ pass'.pc = "bootstrap" /\ pass'.gen = pass.gen /\ pass'.spec = pass.spec
        /\ pass'.status = st /\ pass'.ops = ops
        BY <2>1, <2>2 DEF Working, IsPass, Steps
  <2>5. pass' # Idle
        BY <2>4, <1>i
  <2> QED BY <1>6, <2>1, <2>2, <2>3, <2>4, <2>5 DEF PassChange, Working
<1>7. CASE ensureBootstrapOperation
  <2>1. pass.pc = "bootstrap" /\ pass # Idle /\ (Goto("workloads") \/ pass' = Idle)
        BY <1>7, <1>i DEF ensureBootstrapOperation, CreateThen, Return
  <2> QED BY <2>1, <1>1, <1>2 DEF Steps
<1>8. CASE reconcileWorkloads
  <2>1. pass.pc = "workloads" /\ pass # Idle /\ Goto("drift")
        BY <1>8, <1>i DEF reconcileWorkloads
  <2> QED BY <2>1, <1>2 DEF Steps
<1>9. CASE reconcileRegionDrift
  <2>1. pass.pc = "drift" /\ pass # Idle /\ (Goto("updates") \/ pass' = Idle)
        BY <1>9, <1>i DEF reconcileRegionDrift, CreateThen, Return
  <2> QED BY <2>1, <1>1, <1>2 DEF Steps
<1>10. CASE reconcileUpdates
  <2>1. /\ pass.pc = "updates" /\ pass # Idle /\ Working(pass) /\ clock \in Nat
        /\ \/ Goto("status") \/ pass' = Idle
           \/ pass' = [pass EXCEPT !.pc = "status", !.status.cursor = clock]
        BY <1>10, <1>i, <1>w DEF reconcileUpdates, Return, ControlOK
  <2>2. CASE pass' = [pass EXCEPT !.pc = "status", !.status.cursor = clock]
    <3>1. PICK st : st = [pass.status EXCEPT !.cursor = clock]
          OBVIOUS
    <3>2. IsStatus(st) /\ st.regions = pass.status.regions /\ st.seal = pass.status.seal
          BY <2>1, <3>1 DEF Working, IsStatus
    <3>3. pass' = [pass EXCEPT !.pc = "status", !.status = st]
          BY <2>2, <3>1
    <3>4. /\ IsPass(pass') /\ pass'.pc = "status" /\ pass'.gen = pass.gen /\ pass'.spec = pass.spec
          /\ pass'.status = st /\ pass'.ops = pass.ops
          BY <2>1, <3>3 DEF Working, IsPass, Steps
    <3>5. pass' # Idle
          BY <3>4, <1>i
    <3>6. GoesOn
          BY <2>1, <3>2, <3>4, <3>5 DEF GoesOn
    <3> QED BY <2>1, <3>2, <3>4, <3>5, <3>6 DEF PassChange, Working
  <2> QED BY <2>1, <2>2, <1>1, <1>2 DEF Steps
<1>11. \/ pass' = pass \/ pass' = Idle \/ TouchInstance \/ ReadInstance \/ PersistDatabaseStatus
       \/ ListOperations \/ ensureBootstrapOperation \/ reconcileWorkloads \/ reconcileRegionDrift
       \/ reconcileUpdates
       BY DEF Next, vars, InstancePass, syncStatus, FailPass, EditSpec, CreateRebuild, ScheduleFires,
          StartOperation, JobSucceeds, JobFails, Return
<1> QED BY <1>0, <1>1, <1>3, <1>4, <1>5, <1>6, <1>7, <1>8, <1>9, <1>10, <1>11

-----------------------------------------------------------------------------
(* The other variables.                                                    *)

LEMMA StatusFrame ==
  ASSUME ControlOK, [Next]_vars
  PROVE  /\ IsStatus(status')
         /\ \/ status' = status
            \/ /\ syncStatus /\ pass # Idle /\ pass.pc = "status" /\ UNCHANGED <<spec, gen, db>>
               /\ status'.regions = pass.status.regions /\ status'.seal = pass.status.seal
               /\ status'.observed = pass.gen
               /\ status'.ready = (pass.spec.regions = pass.status.regions)
               /\ status'.drift = (/\ pass.status.regions # {} /\ pass.status.seal # "none"
                                   /\ pass.status.seal # pass.spec.style)
<1>1. CASE status' = status
      BY <1>1 DEF ControlOK
<1>2. CASE syncStatus /\ status' # status
  <2>1. pass.pc = "status" /\ pass # Idle /\ IsPass(pass) /\ IsStatus(pass.status)
        BY <1>2 DEF syncStatus, ControlOK, Idle
  <2>2. PICK rd \in BOOLEAN : rd = (pass.spec.regions = pass.status.regions)
        OBVIOUS
  <2>3. PICK dr \in BOOLEAN : dr = (/\ pass.status.regions # {} /\ pass.status.seal # "none"
                                    /\ pass.status.seal # pass.spec.style)
        OBVIOUS
  <2>4. PICK st : st = pass.status
        OBVIOUS
  <2>5. status' = [st EXCEPT !.observed = pass.gen, !.ready = rd, !.drift = dr]
        BY <1>2, <2>2, <2>3, <2>4 DEF syncStatus, SyncedStatus
  <2>6. pass.gen \in Nat
        BY <2>1 DEF IsPass
  <2>7. /\ IsStatus(status') /\ status'.regions = st.regions /\ status'.seal = st.seal
        /\ status'.observed = pass.gen /\ status'.ready = rd /\ status'.drift = dr
        BY <2>1, <2>4, <2>5, <2>6 DEF IsStatus
  <2> QED BY <1>2, <2>1, <2>2, <2>3, <2>4, <2>7 DEF syncStatus
<1>3. status' = status \/ syncStatus
      BY DEF Next, vars, InstancePass, ReadInstance, PersistDatabaseStatus, ListOperations,
         ensureBootstrapOperation, reconcileWorkloads, reconcileRegionDrift, reconcileUpdates, FailPass,
         EditSpec, CreateRebuild, ScheduleFires, StartOperation, JobSucceeds, JobFails
<1> QED BY <1>1, <1>2, <1>3

LEMMA SpecFrame ==
  ASSUME ControlOK, [Next]_vars
  PROVE  /\ (spec' = spec /\ gen' = gen) \/ (EditSpec /\ gen' = gen + 1)
         /\ gen' \in 1..MaxGen /\ clock' \in 0..MaxFires
<1>1. gen \in 1..MaxGen /\ clock \in 0..MaxFires
      BY DEF ControlOK
<1>2. (spec' = spec /\ gen' = gen) \/ EditSpec
      BY DEF Next, vars, InstancePass, ReadInstance, PersistDatabaseStatus, ListOperations,
         ensureBootstrapOperation, reconcileWorkloads, reconcileRegionDrift, reconcileUpdates, syncStatus,
         FailPass, CreateRebuild, ScheduleFires, StartOperation, JobSucceeds, JobFails
<1>3. EditSpec => gen' = gen + 1 /\ gen < MaxGen
      BY DEF EditSpec
<1>4. clock' = clock \/ (clock < MaxFires /\ clock' = clock + 1)
      BY DEF Next, vars, InstancePass, ReadInstance, PersistDatabaseStatus, ListOperations,
         ensureBootstrapOperation, reconcileWorkloads, reconcileRegionDrift, reconcileUpdates, syncStatus,
         FailPass, EditSpec, CreateRebuild, ScheduleFires, StartOperation, JobSucceeds, JobFails
<1> QED BY <1>1, <1>2, <1>3, <1>4

LEMMA ControlStep ==
  ASSUME ManualRebuild = {}, ControlOK, [Next]_vars
  PROVE  ControlOK'
BY OpsFrame, PassFrame, StatusFrame, SpecFrame DEF ControlOK, IsOperation, IsStatus, Working, IsPass

-----------------------------------------------------------------------------
(* One write-heavy Operation at a time.                                    *)

LEMMA Started ==
  ASSUME Init
  PROVE  /\ ControlOK /\ pass = Idle /\ gen = 1
         /\ \A n \in OpNames : n = Boot \/ ops[n].phase = "absent"
         /\ \/ ~Bootstrapped /\ ops[Boot].phase = "absent" /\ status = NoStatus /\ ~api
               /\ db = [regions |-> {}, style |-> "none"]
            \/ /\ Bootstrapped /\ BootDone /\ ops[Boot].regions # {} /\ spec.style \in Styles
               /\ status.regions = spec.regions /\ status.seal = spec.style /\ status.observed = 1
               /\ ops[Boot].regions = spec.regions /\ spec.regions # {}
               /\ db = [regions |-> spec.regions, style |-> spec.style]
<1>1. PICK r \in RegionPaths, s \in Styles, desired \in SUBSET {Min(RegionPaths)} :
        /\ r = Min(RegionPaths)
        /\ spec = [regions |-> desired, style |-> s]
        /\ IF Bootstrapped
             THEN /\ desired = {r}
                  /\ status = [regions |-> {r}, seal |-> s, cursor |-> 0, observed |-> 1,
                               ready |-> TRUE, drift |-> FALSE]
                  /\ ops = [NoOps EXCEPT ![<<"Bootstrap", 0>>] =
                              [phase |-> "Succeeded", regions |-> {r}, imports |-> {r}, style |-> s]]
                  /\ db = [regions |-> {r}, style |-> s]
             ELSE status = NoStatus /\ ops = NoOps /\ db = [regions |-> {}, style |-> "none"]
      BY DEF Init
<1>2. gen = 1 /\ api = Bootstrapped /\ clock = 0 /\ pass = Idle
      BY DEF Init
<1>3. 1 \in 1..MaxGen /\ 0 \in 0..MaxFires
      OBVIOUS
<1>4. /\ spec.regions = desired /\ spec.style = s
      /\ desired \in SUBSET RegionPaths
      BY <1>1
<1>n. DOMAIN NoOps = OpNames /\ \A n \in OpNames : NoOps[n] = NoOperation
      BY DEF NoOps
<1>5. CASE ~Bootstrapped
  <2>1. status = NoStatus /\ ops = NoOps /\ db = [regions |-> {}, style |-> "none"]
        BY <1>1, <1>5
  <2>2. DOMAIN ops = OpNames /\ \A n \in OpNames : IsOperation(ops[n]) /\ ops[n].phase = "absent"
        BY <2>1, <1>n, NewTyped
  <2>3. ControlOK
        BY <1>2, <1>3, <1>4, <2>1, <2>2, NewTyped DEF ControlOK
  <2> QED BY <1>2, <1>5, <2>1, <2>2, <2>3, NamesTyped
<1>6. CASE Bootstrapped
  <2>1. PICK b : b = [phase |-> "Succeeded", regions |-> {r}, imports |-> {r}, style |-> s]
        OBVIOUS
  <2>2. ops = [NoOps EXCEPT ![Boot] = b]
        BY <1>1, <1>6, <2>1 DEF Boot
  <2>3. DOMAIN ops = OpNames /\ ops[Boot] = b /\ \A n \in OpNames : n # Boot => ops[n] = NoOperation
        BY <2>2, <1>n, NamesTyped
  <2>4. IsOperation(b) /\ b.phase = "Succeeded" /\ b.regions = {r}
        BY <2>1 DEF IsOperation, WP!TerminalPhases
  <2>5. \A n \in OpNames : IsOperation(ops[n]) /\ (n = Boot \/ ops[n].phase = "absent")
        BY <2>3, <2>4, NewTyped
  <2>6. status = [regions |-> {r}, seal |-> s, cursor |-> 0, observed |-> 1, ready |-> TRUE, drift |-> FALSE]
        BY <1>1, <1>6
  <2>7. IsStatus(status) /\ status.regions = {r} /\ status.seal = s /\ status.observed = 1
        BY <2>6 DEF IsStatus
  <2>8. ControlOK
        BY <1>2, <1>3, <1>4, <2>3, <2>5, <2>7 DEF ControlOK
  <2>9. db = [regions |-> {r}, style |-> s] /\ desired = {r}
        BY <1>1, <1>6
  <2> QED BY <1>2, <1>4, <1>6, <2>3, <2>4, <2>5, <2>7, <2>8, <2>9 DEF BootDone
<1> QED BY <1>5, <1>6

LEMMA Heavy ==
  ASSUME NEW os, NEW n
  PROVE  n \in ActiveHeavy(os) <=>
           /\ n \in OpNames /\ TypeOf(n) \in {"Bootstrap", "AddRegions", "Rebuild"}
           /\ os[n].phase \in {"", "Pending", "Running"}
BY NamesTyped DEF ActiveHeavy, WP!isWriteHeavyOperation, WP!isActiveOperationPhase, WP!ActivePhases

LEMMA SerialInit == Init => SerialInv
<1> SUFFICES ASSUME Init PROVE SerialInv
    OBVIOUS
<1>1. \A n \in ActiveHeavy(ops) : FALSE
      BY Started, Heavy DEF BootDone
<1>2. BootstrapFirst
      BY Started, NewTyped, NamesTyped DEF BootstrapFirst, Read
<1> QED BY <1>1, <1>2, Started DEF SerialInv, ListIsCurrent

\* A Succeeded Bootstrap stays, and a pass is where the step that it takes begins.
LEMMA BootStays ==
  ASSUME ManualRebuild = {}, ControlOK, [Next]_vars, BootDone PROVE BootDone'
BY OpsFrame, NamesTyped DEF BootDone, OpChange

LEMMA CreatedAt ==
  ASSUME ControlOK
  PROVE  /\ ensureBootstrapOperation => pass # Idle /\ pass.pc = "bootstrap"
         /\ reconcileRegionDrift => /\ pass # Idle /\ pass.pc = "drift"
                                    /\ pass' = Idle \/ pass'.pc = "updates"
<1>1. ensureBootstrapOperation => pass # Idle /\ pass.pc = "bootstrap"
      BY DEF ensureBootstrapOperation, Idle
<1>2. ASSUME reconcileRegionDrift
      PROVE  pass # Idle /\ pass.pc = "drift" /\ (pass' = Idle \/ pass'.pc = "updates")
  <2>1. pass.pc = "drift" /\ pass # Idle /\ (Goto("updates") \/ pass' = Idle)
        BY <1>2 DEF reconcileRegionDrift, CreateThen, Return, Idle
  <2>2. Working(pass)
        BY <2>1 DEF ControlOK, Working
  <2> QED BY <2>1, <2>2, GoingOn DEF Steps
<1> QED BY <1>1, <1>2

LEMMA BootstrapFirstStep ==
  ASSUME ManualRebuild = {}, ControlOK, BootstrapFirst, [Next]_vars
  PROVE  BootstrapFirst'
<1>1. BootDone => BootDone'
      BY BootStays
<1>2. status'.regions # {} => BootDone'
      BY <1>1, StatusFrame DEF BootstrapFirst, Read
<1>3. ASSUME Read', pass'.status.regions # {} PROVE BootDone'
  <2>1. CASE pass' = pass \/ GoesOn
        BY <1>1, <1>3, <2>1 DEF BootstrapFirst, Read, GoesOn
  <2>2. CASE PersistDatabaseStatus /\ pass'.status = status
        BY <1>1, <1>3, <2>2 DEF BootstrapFirst
  <2>3. CASE ListOperations
    <3>1. /\ pass # Idle /\ pass.pc = "list" /\ IsStatus(pass.status)
          /\ pass'.status \in observeRegionsFromSucceededOps(pass.status, pass.spec, ops)
      <4>1. pass.pc = "list" /\ pass # Idle
            BY <2>3 DEF ListOperations, Idle
      <4>2. IsPass(pass) /\ IsStatus(pass.status)
            BY <4>1 DEF ControlOK
      <4>3. PICK st \in observeRegionsFromSucceededOps(pass.status, pass.spec, ops) :
              pass' = [pass EXCEPT !.pc = "bootstrap", !.status = st, !.ops = ops]
            BY <2>3 DEF ListOperations
      <4>4. pass'.status = st
            BY <4>2, <4>3 DEF IsPass
      <4> QED BY <4>1, <4>2, <4>3, <4>4
    <3>2. PICK x : x \in pass.status.regions \/ Imports(ops, x)
          BY <1>3, <3>1, Observed
    <3>3. CASE x \in pass.status.regions
          BY <1>1, <3>1, <3>3 DEF BootstrapFirst, Read
    <3>4. CASE Imports(ops, x)
      <4>1. PICK n \in OpNames : TypeOf(n) \in {"Bootstrap", "AddRegions", "Rebuild"} /\ ops[n].phase = "Succeeded"
            BY <3>4 DEF Imports
      <4>2. BootDone
            BY <4>1, NamesTyped DEF BootstrapFirst, BootDone
      <4> QED BY <4>2, <1>1
    <3> QED BY <3>2, <3>3, <3>4
  <2> QED BY <1>3, <2>1, <2>2, <2>3, PassFrame DEF PassChange, Read
<1>4. ASSUME NEW n \in OpNames, TypeOf(n) \in {"AddRegions", "Rebuild"}, ops'[n].phase # "absent"
      PROVE  BootDone'
  <2>1. CASE ops[n].phase # "absent"
        BY <1>1, <1>4, <2>1 DEF BootstrapFirst
  <2>2. CASE ops[n].phase = "absent"
    <3>1. Created(n)
          BY <1>4, <2>2, OpsFrame DEF OpChange
    <3>2. reconcileRegionDrift /\ pass.status.regions # {}
          BY <1>4, <3>1, NamesTyped DEF Created
    <3> QED BY <1>1, <3>2, CreatedAt DEF BootstrapFirst, Read
  <2> QED BY <2>1, <2>2
<1>5. ops'[<<"Manual", 0>>].phase = "absent"
  <2>1. ops[<<"Manual", 0>>].phase = "absent"
        BY DEF BootstrapFirst
  <2>2. OpChange(<<"Manual", 0>>)
        BY OpsFrame, NamesTyped
  <2>3. ~Created(<<"Manual", 0>>)
        BY NamesTyped DEF Created
  <2> QED BY <2>1, <2>2, <2>3 DEF OpChange
<1> QED BY <1>2, <1>3, <1>4, <1>5 DEF BootstrapFirst

LEMMA SerialStep ==
  ASSUME ManualRebuild = {}, SerialInv, [Next]_vars
  PROVE  SerialInv'
<1>1. ControlOK /\ BootstrapFirst /\ ListIsCurrent /\ \A m, n \in ActiveHeavy(ops) : m = n
      BY DEF SerialInv
<1>2. ControlOK' /\ BootstrapFirst'
      BY <1>1, ControlStep, BootstrapFirstStep
\* An active write-heavy Operation was active before, or this pass has created it.
<1>3. ASSUME NEW n \in ActiveHeavy(ops')
      PROVE  \/ n \in ActiveHeavy(ops)
             \/ /\ ops[n].phase = "absent" /\ ops'[n] # ops[n]
                /\ \/ ensureBootstrapOperation /\ n = Boot /\ pass.status.regions = {}
                   \/ /\ reconcileRegionDrift /\ TypeOf(n) # "Bootstrap"
                      /\ pass.status.regions # {} /\ ~writeHeavyActive(pass.ops)
  <2>1. /\ n \in OpNames /\ TypeOf(n) \in {"Bootstrap", "AddRegions", "Rebuild"}
        /\ ops'[n].phase \in {"", "Pending", "Running"}
        BY <1>3, Heavy
  <2>2. OpChange(n)
        BY <1>1, <2>1, OpsFrame
  <2>3. n \in ActiveHeavy(ops) \/ (ops[n].phase = "absent" /\ ops'[n] # ops[n] /\ Created(n))
        BY <2>1, <2>2, Heavy DEF OpChange
  <2> QED BY <2>1, <2>3 DEF Created
<1>4. ASSUME reconcileRegionDrift, pass.status.regions # {}, ~writeHeavyActive(pass.ops)
      PROVE  ActiveHeavy(ops) = {}
  <2>1. pass # Idle /\ pass.pc = "drift"
        BY <1>1, <1>4, CreatedAt
  <2>2. ActiveHeavy(pass.ops) = {}
        BY <1>4 DEF writeHeavyActive, ActiveHeavy
  <2> QED BY <1>1, <1>4, <2>1, <2>2 DEF ListIsCurrent
<1>5. ListIsCurrent'
  <2> SUFFICES ASSUME pass' # Idle, pass'.pc \in {"bootstrap", "workloads", "drift"},
                      NEW n \in ActiveHeavy(ops')
               PROVE  n \in ActiveHeavy(pass'.ops) \/ (n = Boot /\ pass'.status.regions = {})
      BY DEF ListIsCurrent
  <2>1. CASE pass' = pass \/ GoesOn
    <3>1. /\ pass # Idle /\ pass.pc \in {"bootstrap", "workloads", "drift"} /\ pass'.ops = pass.ops
          /\ pass'.status.regions = pass.status.regions
          BY <2>1 DEF GoesOn
    <3>2. ~reconcileRegionDrift
          BY <1>1, CreatedAt
    <3> QED BY <1>1, <1>3, <3>1, <3>2 DEF ListIsCurrent
  <2>2. CASE ListOperations /\ pass'.ops = ops
        BY <2>2 DEF ListOperations
  <2> QED BY <1>1, <2>1, <2>2, PassFrame DEF PassChange
<1>6. ASSUME NEW m \in ActiveHeavy(ops'), NEW n \in ActiveHeavy(ops') PROVE m = n
  <2>1. m \in OpNames /\ n \in OpNames
        BY Heavy
  <2>2. ops'[m] # ops[m] /\ ops'[n] # ops[n] => m = n
        BY <1>1, <2>1, OpsFrame
  \* A Bootstrap is created while no other write-heavy Operation exists.
  <2>3. ASSUME NEW k \in ActiveHeavy(ops), ops[Boot].phase = "absent" PROVE FALSE
    <3>1. /\ k \in OpNames /\ TypeOf(k) \in {"Bootstrap", "AddRegions", "Rebuild"}
          /\ ops[k].phase \in {"", "Pending", "Running"}
          BY <2>3, Heavy
    <3>2. k # Boot
          BY <2>3, <3>1
    <3>3. TypeOf(k) \in {"AddRegions", "Rebuild"}
          BY <3>1, <3>2, NamesTyped
    <3>4. ops[Boot].phase = "Succeeded"
          BY <1>1, <3>1, <3>3 DEF BootstrapFirst, BootDone
    <3> QED BY <2>3, <3>4
  <2> QED BY <1>1, <1>3, <1>4, <2>2, <2>3
<1> QED BY <1>2, <1>5, <1>6 DEF SerialInv

(* The controller never has two write-heavy Operations active, whatever is *)
(* edited, lost or retried: the list that a pass decides by misses none    *)
(* but the Bootstrap it has created itself, after which it creates no      *)
(* other (ensureBootstrapOperation, ensureAddRegionsOperation).  A user    *)
(* may create a Rebuild at any time, hence the hypothesis.                 *)
THEOREM DriftIsSerialHolds == ASSUME ManualRebuild = {} PROVE Spec => []DriftIsSerial
<1>1. SerialInv /\ [Next]_vars => SerialInv'
      BY SerialStep
<1>2. SerialInv => DriftIsSerial
  <2> SUFFICES ASSUME SerialInv, NEW m \in OpNames, NEW n \in OpNames,
                      WP!isActiveOperationPhase(ops[m].phase), WP!isActiveOperationPhase(ops[n].phase),
                      WP!operationsMutexConflict(m, n), TypeOf(m) # "Update", TypeOf(n) # "Update"
               PROVE  FALSE
      BY DEF DriftIsSerial
  <2>1. m # n
        BY DEF WP!operationsMutexConflict
  <2>2. m \in ActiveHeavy(ops) /\ n \in ActiveHeavy(ops)
        BY Heavy, NamesTyped DEF WP!isActiveOperationPhase, WP!ActivePhases
  <2> QED BY <2>1, <2>2 DEF SerialInv
<1> QED BY SerialInit, <1>1, <1>2, PTL DEF Spec

-----------------------------------------------------------------------------
(* Without Rebuilds, what is listed as imported is in the database.        *)

\* What the Jobs bring: the database only grows, and a Succeeded Operation has
\* brought what it imports.
LEMMA DatabaseFrame ==
  ASSUME NoRebuilds, SerialInv, DatabaseHolds, [Next]_vars
  PROVE  /\ db' \in [regions : {db'.regions}, style : {db'.style}]
         /\ db.regions \subseteq db'.regions
         /\ BootDone => db'.style = db.style
         /\ db' = db \/ BootDone'
         /\ \A n \in OpNames : JobSucceeds(n) /\ Importing(n) => ops[n].imports \subseteq db'.regions
<1> DEFINE Goal == /\ db' \in [regions : {db'.regions}, style : {db'.style}]
                   /\ db.regions \subseteq db'.regions
                   /\ BootDone => db'.style = db.style
                   /\ db' = db \/ BootDone'
<1>d. db \in [regions : {db.regions}, style : {db.style}]
      BY DEF DatabaseHolds
<1>c. ManualRebuild = {} /\ ControlOK /\ BootstrapFirst
      BY DEF NoRebuilds, SerialInv
<1>n. \A n \in OpNames : ops[n].phase # "absent" => TypeOf(n) \in {"Bootstrap", "AddRegions", "Update"}
      BY NamesTyped DEF DatabaseHolds
<1>1. ASSUME db' = db PROVE Goal
      BY <1>1, <1>d
<1>2. ASSUME NEW n \in OpNames, JobSucceeds(n)
      PROVE  Goal /\ (Importing(n) => ops[n].imports \subseteq db'.regions)
  <2>1. ops[n].phase = "Running" /\ db' = Imported(n) /\ ops' = [ops EXCEPT ![n].phase = "Succeeded"]
        BY <1>2 DEF JobSucceeds
  <2>2. CASE TypeOf(n) = "Update"
    <3>1. db' = db
          BY <2>1, <2>2 DEF Imported
    <3> QED BY <3>1, <1>1, <2>2 DEF Importing
  <2>3. CASE TypeOf(n) = "AddRegions"
    <3>1. PICK im : im = ops[n].imports
          OBVIOUS
    <3>2. PICK rs : rs = db.regions \union im
          OBVIOUS
    <3>3. db' = [db EXCEPT !.regions = rs]
          BY <2>1, <2>3, <3>1, <3>2 DEF Imported
    <3>4. /\ db'.regions = rs /\ db'.style = db.style
          /\ db' \in [regions : {db'.regions}, style : {db'.style}]
          BY <3>3, <1>d
    <3>5. BootDone
          BY <1>c, <2>1, <2>3 DEF BootstrapFirst
    <3> QED BY <1>c, <3>1, <3>2, <3>4, <3>5, BootStays
  <2>4. CASE TypeOf(n) = "Bootstrap"
    <3>1. PICK im, sty : im = ops[n].imports /\ sty = ops[n].style
          OBVIOUS
    <3>2. db' = [regions |-> im, style |-> sty]
          BY <2>1, <2>4, <3>1 DEF Imported
    <3>3. db'.regions = im /\ db' \in [regions : {db'.regions}, style : {db'.style}]
          BY <3>2
    <3>4. n = Boot /\ ~BootDone /\ db.regions = {}
          BY <2>1, <2>4, NamesTyped DEF BootDone, DatabaseHolds
    <3>5. BootDone'
      <4>1. IsOperation(ops[n]) /\ DOMAIN ops = OpNames
            BY <1>c DEF ControlOK
      <4>2. PICK new : new = [ops[n] EXCEPT !.phase = "Succeeded"]
            OBVIOUS
      <4>3. new.phase = "Succeeded"
            BY <4>1, <4>2, PhaseSet
      <4>4. ops'[n] = new
            BY <2>1, <4>1, <4>2
      <4> QED BY <3>4, <4>3, <4>4 DEF BootDone
    <3> QED BY <3>1, <3>3, <3>4, <3>5
  <2> QED BY <2>1, <2>2, <2>3, <2>4, <1>n
<1>3. ASSUME NEW n \in OpNames, StartOperation(n) PROVE db' = db
      BY <1>3, <1>n DEF StartOperation
<1>4. db' = db \/ \E n \in OpNames : JobSucceeds(n) \/ StartOperation(n)
      BY DEF Next, vars, InstancePass, ReadInstance, PersistDatabaseStatus, ListOperations,
         ensureBootstrapOperation, reconcileWorkloads, reconcileRegionDrift, reconcileUpdates, syncStatus,
         FailPass, EditSpec, CreateRebuild, ScheduleFires, JobFails
<1> QED BY <1>1, <1>2, <1>3, <1>4

LEMMA DatabaseStep ==
  ASSUME NoRebuilds, SerialInv, DatabaseHolds, [Next]_vars
  PROVE  DatabaseHolds'
<1>c. ManualRebuild = {} /\ Policy # "Rebuild" /\ ControlOK /\ BootstrapFirst
      BY DEF NoRebuilds, SerialInv
<1>g. /\ db' \in [regions : {db'.regions}, style : {db'.style}]
      /\ db.regions \subseteq db'.regions
      BY DatabaseFrame
<1>1. ASSUME NEW n \in OpNames, TypeOf(n) = "Rebuild" PROVE ops'[n].phase = "absent"
  <2>1. ops[n].phase = "absent" /\ OpChange(n)
        BY <1>1, <1>c, OpsFrame DEF DatabaseHolds
  <2>2. ~Created(n)
        BY <1>1, <1>c, NamesTyped DEF Created
  <2> QED BY <2>1, <2>2 DEF OpChange
<1>2. ASSUME NEW n \in OpNames, Importing(n), ops'[n].phase = "Running"
      PROVE  ops'[n].regions \subseteq ops'[n].imports
  <2>1. OpChange(n)
        BY <1>c, OpsFrame
  <2>2. CASE ops'[n] = ops[n]
        BY <1>2, <2>2 DEF DatabaseHolds
  <2>3. CASE ops'[n].regions = ops[n].regions /\ ops'[n].imports = effectiveRegions(n)
        BY <2>3 DEF effectiveRegions
  <2> QED BY <1>2, <2>1, <2>2, <2>3 DEF OpChange
<1>3. ASSUME NEW n \in OpNames, Importing(n), ops'[n].phase = "Succeeded"
      PROVE  ops'[n].regions \subseteq db'.regions
  <2>1. OpChange(n)
        BY <1>c, OpsFrame
  <2>2. CASE ops'[n] = ops[n]
        BY <1>3, <2>2, <1>g DEF DatabaseHolds
  <2>3. CASE ops[n].phase = "Running" /\ JobSucceeds(n) /\ ops'[n].regions = ops[n].regions
    <3>1. ops[n].regions \subseteq ops[n].imports
          BY <1>3, <2>3 DEF DatabaseHolds
    <3>2. ops[n].imports \subseteq db'.regions
          BY <1>3, <2>3, DatabaseFrame
    <3> QED BY <2>3, <3>1, <3>2
  <2> QED BY <1>3, <2>1, <2>2, <2>3 DEF OpChange
<1>4. db'.regions # {} => BootDone'
      BY <1>c, DatabaseFrame, BootStays DEF DatabaseHolds
<1>5. status'.regions \subseteq db'.regions
      BY <1>c, <1>g, StatusFrame DEF DatabaseHolds, Read
<1>6. ASSUME Read' PROVE pass'.status.regions \subseteq db'.regions
  <2>1. CASE pass' = pass \/ GoesOn
        BY <1>6, <2>1, <1>g DEF DatabaseHolds, Read, GoesOn
  <2>2. CASE pass'.status = status
        BY <2>2, <1>g DEF DatabaseHolds
  <2>3. CASE /\ pass # Idle /\ pass.pc = "list"
             /\ pass'.status \in observeRegionsFromSucceededOps(pass.status, pass.spec, ops)
    <3>1. IsStatus(pass.status) /\ pass.status.regions \subseteq db.regions
          BY <1>c, <2>3 DEF ControlOK, DatabaseHolds, Read
    <3>2. ASSUME NEW x, Imports(ops, x) PROVE x \in db.regions
          BY <3>2, NamesTyped DEF Imports, DatabaseHolds, Importing
    <3> QED BY <2>3, <3>1, <3>2, <1>g, Observed
  <2> QED BY <1>c, <1>6, <2>1, <2>2, <2>3, PassFrame DEF PassChange, Read
<1> QED BY <1>g, <1>1, <1>2, <1>3, <1>4, <1>5, <1>6 DEF DatabaseHolds, Importing

LEMMA GenerationsStep ==
  ASSUME ControlOK, GenerationsAgree, [Next]_vars
  PROVE  GenerationsAgree'
<1>1. gen \in Nat /\ (pass # Idle => pass.gen \in Nat) /\ status.observed \in Nat
      BY DEF ControlOK, IsPass, IsStatus
<1>2. gen' = gen \/ gen' = gen + 1
      BY SpecFrame
<1>3. status'.observed <= gen'
  <2>1. status' = status \/ (pass # Idle /\ status'.observed = pass.gen /\ gen' = gen)
        BY StatusFrame
  <2>2. status.observed <= gen /\ (pass # Idle => pass.gen <= gen)
        BY DEF GenerationsAgree
  <2> QED BY <1>1, <1>2, <2>1, <2>2
<1>4. ASSUME pass' # Idle, pass # Idle, pass'.gen = pass.gen, pass'.spec = pass.spec
      PROVE  pass'.gen <= gen' /\ (pass'.gen = gen' => pass'.spec = spec')
      BY <1>1, <1>4, SpecFrame DEF GenerationsAgree
<1>5. ASSUME pass' # Idle, ReadInstance, pass'.gen = gen, pass'.spec = spec
      PROVE  /\ status'.observed <= pass'.gen
             /\ pass'.gen <= gen' /\ (pass'.gen = gen' => pass'.spec = spec')
      BY <1>1, <1>5 DEF ReadInstance, GenerationsAgree
\* The pass that writes the status returns.
<1>6. ASSUME pass' # Idle, pass # Idle, pass'.gen = pass.gen PROVE status'.observed <= pass'.gen
  <2>1. ~syncStatus
        BY <1>6 DEF syncStatus, Return
  <2>2. status' = status
        BY <2>1, StatusFrame
  <2> QED BY <1>6, <2>2 DEF GenerationsAgree
<1> QED BY <1>3, <1>4, <1>5, <1>6, PassFrame DEF PassChange, GoesOn, GenerationsAgree

\* Only reconcileWorkloads takes a pass to the drift of the regions.
LEMMA Leaves ==
  ASSUME ControlOK, GoesOn, pass'.pc = "drift", [Next]_vars, ~reconcileWorkloads
  PROVE  pass.pc = "drift"
<1> SUFFICES ASSUME pass.pc = "workloads" PROVE FALSE
    BY DEF GoesOn
<1>1. pass # Idle /\ Working(pass)
      BY DEF ControlOK, Working, GoesOn
<1>2. ~ReadInstance /\ ~(\E pc \in Steps : pass.pc = pc /\ pc # "workloads")
      BY <1>1 DEF ReadInstance
<1>3. pass' = pass \/ pass' = Idle \/ TouchInstance
      BY <1>2 DEF Next, vars, InstancePass, PersistDatabaseStatus, ListOperations, ensureBootstrapOperation,
         reconcileRegionDrift, reconcileUpdates, syncStatus, FailPass, EditSpec, CreateRebuild,
         ScheduleFires, StartOperation, JobSucceeds, JobFails, Return, Steps
<1> QED BY <1>1, <1>3, GoingOn DEF GoesOn

LEMMA ImportedStep ==
  ASSUME NoRebuilds, ImportedInv, [Next]_vars
  PROVE  ImportedInv'
<1>1. SerialInv /\ DatabaseHolds /\ GenerationsAgree /\ ControlOK /\ ManualRebuild = {}
      BY DEF ImportedInv, SerialInv, NoRebuilds
<1>2. SerialInv' /\ DatabaseHolds' /\ GenerationsAgree'
      BY <1>1, SerialStep, DatabaseStep, GenerationsStep
<1>3. db.regions \subseteq db'.regions
      BY <1>1, DatabaseFrame
<1>4. ReadyMeansImported'
  <2> SUFFICES ASSUME status'.ready, status'.observed = gen' PROVE spec'.regions \subseteq db'.regions
      BY DEF ReadyMeansImported
  <2>1. CASE status' = status
    <3>1. gen \in Nat /\ status.observed <= gen /\ status.observed \in Nat
          BY <1>1 DEF ControlOK, GenerationsAgree, IsStatus
    <3>2. gen' = gen /\ spec' = spec
          BY <1>1, <2>1, <3>1, SpecFrame
    <3> QED BY <1>3, <2>1, <3>2 DEF ImportedInv, ReadyMeansImported
  <2>2. CASE /\ pass # Idle /\ pass.pc = "status" /\ UNCHANGED <<spec, gen, db>>
             /\ status'.observed = pass.gen
             /\ status'.ready = (pass.spec.regions = pass.status.regions)
        BY <1>1, <2>2 DEF GenerationsAgree, DatabaseHolds, Read
  <2> QED BY <1>1, <2>1, <2>2, StatusFrame
<1>5. api' = api \/ reconcileWorkloads
      BY DEF Next, vars, InstancePass, ReadInstance, PersistDatabaseStatus, ListOperations,
         ensureBootstrapOperation, reconcileRegionDrift, reconcileUpdates, syncStatus, FailPass, EditSpec,
         CreateRebuild, ScheduleFires, StartOperation, JobSucceeds, JobFails
\* The pass has read a spec with regions, and serves it when one is imported.
<1>6. ASSUME reconcileWorkloads
      PROVE  /\ pass # Idle /\ status' = status /\ gen' = gen /\ spec' = spec
             /\ pass'.spec = pass.spec
             /\ api' /\ pass.spec.regions # {} => db'.regions # {}
  <2>1. pass.pc = "workloads" /\ pass # Idle /\ api' = servingWorkloadsAllowed(pass.status, pass.spec)
        BY <1>6 DEF reconcileWorkloads, Idle
  <2>2. pass.status.regions \subseteq db.regions
        BY <1>1, <2>1 DEF DatabaseHolds, Read
  <2>3. api' /\ pass.spec.regions # {} => pass.status.regions # {}
        BY <2>1 DEF servingWorkloadsAllowed
  <2>4. pass'.spec = pass.spec
        BY <1>1, <1>6, <2>1, GoingOn DEF reconcileWorkloads, ControlOK, Working, Steps
  <2>5. status' = status /\ gen' = gen /\ spec' = spec
        BY <1>6 DEF reconcileWorkloads
  <2> QED BY <1>3, <2>1, <2>2, <2>3, <2>4, <2>5
<1>7. ApiDecided'
  <2> SUFFICES ASSUME pass' # Idle, pass'.pc \in {"drift", "updates", "status"}, api', pass'.spec.regions # {}
               PROVE  db'.regions # {}
      BY DEF ApiDecided
  <2>1. CASE reconcileWorkloads
        BY <2>1, <1>6
  <2>2. CASE api' = api /\ ~reconcileWorkloads
    <3>1. pass # Idle /\ pass.pc \in {"drift", "updates", "status"} /\ pass'.spec = pass.spec
      <4>1. CASE pass' = pass
            BY <4>1
      <4>2. CASE GoesOn
        <5>1. pass'.pc = "drift" => pass.pc = "drift"
              BY <1>1, <2>2, <4>2, Leaves DEF GoesOn
        <5> QED BY <4>2, <5>1 DEF GoesOn
      <4> QED BY <1>1, <4>1, <4>2, PassFrame DEF PassChange
    <3> QED BY <1>3, <2>2, <3>1 DEF ImportedInv, ApiDecided
  <2> QED BY <1>5, <2>1, <2>2
<1>8. ApiAfterImport'
  <2> SUFFICES ASSUME api', spec'.regions # {}, status'.observed = gen' PROVE db'.regions # {}
      BY DEF ApiAfterImport
  <2>1. CASE reconcileWorkloads
    <3>1. pass # Idle /\ status.observed = gen
          BY <1>6, <2>1
    <3>2. gen \in Nat /\ pass.gen \in Nat /\ status.observed \in Nat
          BY <1>1, <3>1 DEF ControlOK, IsPass, IsStatus
    <3>3. pass.gen = gen /\ pass.spec = spec
          BY <1>1, <3>1, <3>2 DEF GenerationsAgree
    <3> QED BY <1>6, <2>1, <3>3
  <2>2. CASE api' = api /\ status' = status
    <3>1. gen \in Nat /\ status.observed <= gen /\ status.observed \in Nat
          BY <1>1 DEF ControlOK, GenerationsAgree, IsStatus
    <3>2. gen' = gen /\ spec' = spec
          BY <1>1, <2>2, <3>1, SpecFrame
    <3> QED BY <1>3, <2>2, <3>2 DEF ImportedInv, ApiAfterImport
  <2>3. CASE /\ api' = api /\ pass # Idle /\ pass.pc = "status" /\ UNCHANGED <<spec, gen, db>>
             /\ status'.observed = pass.gen
    <3>1. pass.spec = spec
          BY <1>1, <2>3 DEF GenerationsAgree
    <3> QED BY <2>3, <3>1 DEF ImportedInv, ApiDecided
  <2>4. reconcileWorkloads => status' = status
        BY <1>6
  <2> QED BY <1>1, <1>5, <2>1, <2>2, <2>3, <2>4, StatusFrame
<1> QED BY <1>2, <1>4, <1>7, <1>8 DEF ImportedInv

LEMMA ImportedInit == Init => ImportedInv
<1> SUFFICES ASSUME Init PROVE ImportedInv
    OBVIOUS
<1>1. SerialInv
      BY SerialInit
<1>2. GenerationsAgree
      BY Started DEF GenerationsAgree, NoStatus
<1>3. DatabaseHolds
  <2>1. \A n \in OpNames : TypeOf(n) = "Rebuild" => ops[n].phase = "absent"
        BY Started, NamesTyped
  <2>2. \A n \in OpNames : ops[n].phase # "Running"
        BY Started DEF BootDone
  <2>3. \A n \in OpNames : ops[n].phase = "Succeeded" => ops[n].regions \subseteq db.regions
        BY Started
  <2>4. /\ db \in [regions : {db.regions}, style : {db.style}]
        /\ (db.regions # {} => BootDone) /\ status.regions \subseteq db.regions
        BY Started, NewTyped
  <2>5. ~Read
        BY Started DEF Read
  <2> QED BY <2>1, <2>2, <2>3, <2>4, <2>5 DEF DatabaseHolds, Importing
<1>4. ReadyMeansImported
      BY Started DEF ReadyMeansImported, NoStatus
<1>5. ApiAfterImport /\ ApiDecided
      BY Started DEF ApiAfterImport, ApiDecided
<1> QED BY <1>1, <1>2, <1>3, <1>4, <1>5 DEF ImportedInv

(* Without a Rebuild, whatever is edited, lost, retried or refused, the    *)
(* invariant that the next theorems rest on holds: what Operations list is *)
(* what they import, and no import takes a region away.                    *)
THEOREM ImportedInvariant == ASSUME NoRebuilds PROVE Spec => []ImportedInv
<1>1. ImportedInv /\ [Next]_vars => ImportedInv'
      BY ImportedStep
<1> QED BY ImportedInit, <1>1, PTL DEF Spec

(* No region is listed in status.regions before an Operation has brought   *)
(* it into the database (observeRegionsFromSucceededOps).                  *)
THEOREM StatusReflectsDatabaseHolds == ASSUME NoRebuilds PROVE Spec => []StatusReflectsDatabase
<1>1. ImportedInv => StatusReflectsDatabase
      BY DEF ImportedInv, DatabaseHolds, StatusReflectsDatabase
<1> QED BY ImportedInvariant, <1>1, PTL

(* Ready for the current generation means that the desired regions are in  *)
(* the database, although the pass that reports it works from a spec it    *)
(* read several steps earlier (syncStatus).                                *)
THEOREM ReadyMeansImportedHolds == ASSUME NoRebuilds PROVE Spec => []ReadyMeansImported
<1>1. ImportedInv => ReadyMeansImported
      BY DEF ImportedInv
<1> QED BY ImportedInvariant, <1>1, PTL

(* While regions are desired, and once a pass has been completed for that  *)
(* spec, the API exists only over a database that holds a region: a pass   *)
(* that began before the spec was edited cannot leave it behind, for it    *)
(* does not observe the new generation (servingWorkloadsAllowed).          *)
THEOREM ApiAfterImportHolds == ASSUME NoRebuilds PROVE Spec => []ApiAfterImport
<1>1. ImportedInv => ApiAfterImport
      BY DEF ImportedInv
<1> QED BY ImportedInvariant, <1>1, PTL

-----------------------------------------------------------------------------
(* The seal of an Instance that has been bootstrapped.                     *)

LEMMA SealedStep ==
  ASSUME NoRebuilds, SealedInv, [Next]_vars
  PROVE  SealedInv'
<1>1. ImportedInv /\ SerialInv /\ DatabaseHolds /\ GenerationsAgree /\ ControlOK /\ ManualRebuild = {}
      BY DEF SealedInv, ImportedInv, SerialInv, NoRebuilds
<1>2. ImportedInv' /\ BootDone'
      BY <1>1, ImportedStep, BootStays DEF SealedInv
<1>3. db'.style = db.style /\ db.style # "none"
      BY <1>1, DatabaseFrame DEF SealedInv
<1>4. status.seal = db.style /\ (Read => pass.status.seal = db.style)
      BY DEF SealedInv
<1>5. status'.seal = db'.style
      BY <1>1, <1>3, <1>4, StatusFrame DEF Read
<1>6. ASSUME Read' PROVE pass'.status.seal = db'.style
  <2>1. CASE pass' = pass \/ GoesOn
        BY <1>3, <1>4, <1>6, <2>1 DEF Read, GoesOn
  <2>2. CASE pass'.status = status
        BY <1>3, <1>4, <2>2
  <2>3. CASE /\ pass # Idle /\ pass.pc = "list"
             /\ pass'.status \in observeRegionsFromSucceededOps(pass.status, pass.spec, ops)
    <3>1. IsStatus(pass.status) /\ pass.status.seal = db.style
          BY <1>1, <1>4, <2>3 DEF ControlOK, Read
    <3>2. Succeeded(ops, "Rebuild") = {}
          BY <1>1 DEF Succeeded, DatabaseHolds
    <3> QED BY <1>3, <2>3, <3>1, <3>2, Observed
  <2> QED BY <1>1, <1>6, <2>1, <2>2, <2>3, PassFrame DEF PassChange, Read
<1>7. ASSUME status'.observed = gen', status'.regions # {}, spec'.style # db'.style PROVE status'.drift
  <2>1. CASE status' = status
    <3>1. gen \in Nat /\ status.observed <= gen /\ status.observed \in Nat
          BY <1>1 DEF ControlOK, GenerationsAgree, IsStatus
    <3>2. gen' = gen /\ spec' = spec
          BY <1>1, <1>7, <2>1, <3>1, SpecFrame
    <3> QED BY <1>3, <1>7, <2>1, <3>2 DEF SealedInv
  <2>2. CASE /\ pass # Idle /\ pass.pc = "status" /\ UNCHANGED <<spec, gen, db>>
             /\ status'.regions = pass.status.regions /\ status'.observed = pass.gen
             /\ status'.drift = (/\ pass.status.regions # {} /\ pass.status.seal # "none"
                                 /\ pass.status.seal # pass.spec.style)
    <3>1. pass.spec = spec /\ pass.status.seal = db.style
          BY <1>1, <1>4, <1>7, <2>2 DEF GenerationsAgree, Read
    <3> QED BY <1>3, <1>7, <2>2, <3>1
  <2> QED BY <1>1, <2>1, <2>2, StatusFrame
<1> QED BY <1>2, <1>3, <1>5, <1>6, <1>7 DEF SealedInv

(* Once an Instance has been bootstrapped, a desired import style that     *)
(* differs from that of the database is reported, whatever else the spec   *)
(* and the Operations do (sealObservedNominatimConfig, syncStatus).        *)
THEOREM DriftReportedHolds ==
  ASSUME NoRebuilds, Bootstrapped = TRUE PROVE Spec => []DriftReported
<1>1. Init => SealedInv
  <2> SUFFICES ASSUME Init PROVE SealedInv
      OBVIOUS
  <2>1. ImportedInv
        BY ImportedInit
  <2>2. /\ BootDone /\ pass = Idle /\ status.seal = spec.style /\ spec.style \in Styles
        /\ db = [regions |-> spec.regions, style |-> spec.style]
        BY Started
  <2>3. db.style = spec.style /\ "none" \notin Styles
        BY <2>2
  <2> QED BY <2>1, <2>2, <2>3 DEF SealedInv, Read
<1>2. SealedInv /\ [Next]_vars => SealedInv'
      BY SealedStep
<1>3. SealedInv => DriftReported
      BY DEF SealedInv, DriftReported
<1> QED BY <1>1, <1>2, <1>3, PTL DEF Spec

=============================================================================
