------------------------- MODULE LocalServingProofs -------------------------
(***************************************************************************)
(* What holds of the in-process backend for any number of operators and    *)
(* clients, any accelerators and any preferences: models are placed on     *)
(* hardware that is there, one of two racing unloads gets the weights,     *)
(* the rows that say READY have weights behind them, a request misses its  *)
(* weights only after an unload, and a retired deployment stays retired.   *)
(***************************************************************************)
EXTENDS LocalServing, ServingCoreProofs, WellFoundedInduction

(* Before the service is ready nothing is loaded, nobody manages models,   *)
(* and the rows that say READY were left by an earlier process.            *)
StartIsEmpty ==
  pc[Prewarm] = "start" =>
    /\ \A d \in Deps : ~IsLoaded(d)
    /\ \A o \in Operators : task[o] = NoTask /\ snapshot[o] = NoSnapshot
    /\ \A d \in Deps : Ready(d) => d \in ghosts

(* An unload that has the weights works on the row it has read, and nobody *)
(* else can get them: they are out, and no deploy puts them back.          *)
TasksAreSane ==
  \A o \in Operators :
    /\ task[o].at = "save" => task[o].device \in Available
    /\ snapshot[o] # NoSnapshot => snapshot[o].dep \in Deps /\ Exists(snapshot[o].dep)
    /\ task[o].at = "mark" =>
         /\ snapshot[o] # NoSnapshot
         /\ task[o].dep = snapshot[o].dep
         /\ ~IsLoaded(task[o].dep)

Tasks == [at : {"idle", "save", "init", "mark"}, model : Models \cup {NoModel},
          device : Available \cup {NoDevice}, dep : Deps \cup {NoDep}]

LocalTypeOK ==
  /\ loaded \in [Deps -> Available \cup {NoDevice}]
  /\ task \in [Operators -> Tasks]

LInv == IInv /\ LocalTypeOK /\ StartIsEmpty /\ TasksAreSane /\ OneUnloadWins /\ ReadyIsLoaded

-----------------------------------------------------------------------------
(* resolve_placement always finds hardware, whatever a request prefers.    *)
LEMMA PlacementIsAvailable ==
  ASSUME NEW wanted \in Placements
  PROVE  ResolvePlacement(wanted) \in Available
<1> DEFINE candidates == Append(wanted, "cpu")
           normalized == [i \in DOMAIN candidates |-> Lower[candidates[i]]]
           usable == {i \in DOMAIN candidates : normalized[i] \in Available}
<1>1. /\ DOMAIN candidates \subseteq Nat
      /\ Len(wanted) + 1 \in DOMAIN candidates
      /\ candidates[Len(wanted) + 1] = "cpu"
  <2>1. /\ candidates \in Seq(DOMAIN Lower)
        /\ Len(candidates) = Len(wanted) + 1
        /\ candidates[Len(wanted) + 1] = "cpu"
    <3>1. wanted \in Seq(DOMAIN Lower) /\ "cpu" \in DOMAIN Lower
      BY LocalAssumption
    <3> QED BY <3>1, AppendProperties
  <2>2. DOMAIN candidates = 1 .. Len(candidates) /\ Len(wanted) \in Nat
    BY <2>1, LenProperties
  <2> QED BY <2>1, <2>2
<1>2. usable \subseteq Nat /\ usable # {}
  BY <1>1, LocalAssumption DEF Available
<1>3. \E i \in usable : \A j \in usable : i <= j
  <2> HIDE DEF usable
  <2>1. PICK i \in usable : \A j \in usable : ~ (<<j, i>> \in OpToRel(<, Nat))
    BY <1>2, NatLessThanWellFounded, WFMin
  <2>2. \A j \in usable : ~ (j < i)
    BY <1>2, <2>1 DEF OpToRel
  <2> QED BY <1>2, <2>2
<1>4. ResolvePlacement(wanted) = normalized[CHOOSE i \in usable : \A j \in usable : i <= j]
  BY DEF ResolvePlacement
<1>5. (CHOOSE i \in usable : \A j \in usable : i <= j) \in usable
  BY <1>3
<1> QED BY <1>4, <1>5

-----------------------------------------------------------------------------
(* The steps of the core.                                                  *)

(* The steps a host without Docker takes are steps of the serving core.    *)
LEMMA CoreIsNext == CoreStep => ServiceStep \/ Tick
<1> SUFFICES ASSUME CoreStep PROVE ServiceStep \/ Tick
  OBVIOUS
<1>1. CASE CorePrewarmStep
  BY <1>1 DEF CorePrewarmStep, ServiceStep, PrewarmStep, ColdStartStep
<1>2. CASE \E c \in Clients : Receive(c) \/ CoreRequestStep(c)
  BY <1>2 DEF CoreRequestStep, ServiceStep, RequestStep, ColdStartStep
<1> QED BY <1>1, <1>2 DEF CoreStep

(* None of them finishes the start again, forgets a row that is in use, or *)
(* makes a deployment READY.                                               *)
LEMMA CoreTable ==
  ASSUME IInv, CoreStep
  PROVE  /\ UNCHANGED <<snapshot, loaded, task, popped, stranded>>
         /\ pc'[Prewarm] = "start" => pc[Prewarm] = "start"
         /\ \A d \in Deps : Ready(d)' => Ready(d)
         /\ pc[Prewarm] # "start" => \A d \in Deps : Exists(d) => Exists(d)'
         /\ pc[Prewarm] = "start" /\ pc'[Prewarm] # "start" => PrewarmStart
         /\ PrewarmStart \/ ghosts' = ghosts
<1> USE DEF Ready, Exists
<1> /\ Prewarm \in Coroutines /\ Prewarm \notin Clients
    /\ \A c \in Clients : c \in Coroutines /\ c # Prewarm
  BY CoroutinesAssumption DEF Coroutines
<1> deployment \in [Deps -> DeploymentRecord] /\ pc \in [Coroutines -> Labels]
  BY DEF IInv, TypeOK
<1>g. PrewarmStart \/ ghosts' = ghosts
  BY CoreIsNext, GhostsStay
<1>1. UNCHANGED <<snapshot, loaded, task, popped, stranded>>
  <2>1. UNCHANGED <<loaded, task, popped, stranded>>
    BY DEF CoreStep, localOnly
  <2>2. CASE CorePrewarmStep
    BY <2>1, <2>2 DEF CorePrewarmStep, PrewarmStart, PrewarmPick, PrewarmEnd, PrewarmCreate, Onboard, OnboardFails,
       LockModel, PrewarmLocked, Boot, RunDockerFails, PrewarmFails, taskVars
  <2>3. ASSUME NEW c \in Clients, Receive(c) \/ CoreRequestStep(c) PROVE UNCHANGED snapshot
    BY <2>3 DEF Receive, CoreRequestStep, Onboard, OnboardFails, Route, RouteFails, LockModel, Recheck, Boot,
       RunDockerFails, ColdStartFails, Begin, taskVars
  <2>4. CASE Tick
    BY <2>1, <2>4 DEF Tick, taskVars
  <2> QED BY <2>1, <2>2, <2>3, <2>4 DEF CoreStep
<1>2. CASE PrewarmStart
  <2>1. /\ pc[Prewarm] = "start" /\ pc'[Prewarm] = "next"
        /\ deployment' = deployment \/ deployment' = [d \in Deps |-> AbsentDeployment]
    BY <1>2 DEF PrewarmStart, At, Go
  <2> QED BY <1>g, <1>1, <1>2, <2>1 DEF AbsentDeployment
<1>3. CASE PrewarmCreate
  <2>1. PICK d \in Deps : IsNewDeployment(d) /\ SaveDeployment(d, PendingDeployment(job[Prewarm].model, TRUE))
    BY <1>3 DEF PrewarmCreate
  <2>2. pc[Prewarm] = "create" /\ pc'[Prewarm] = "lock"
    BY <1>3 DEF PrewarmCreate, At, Go
  <2> QED BY <1>g, <1>1, <2>1, <2>2 DEF SaveDeployment, PendingDeployment
<1>4. CASE PrewarmFails
  <2>1. pc[Prewarm] = "failed" /\ pc'[Prewarm] = "next" /\ SetStatus(job[Prewarm].dep, "failed")
    BY <1>4 DEF PrewarmFails, At, Go
  <2> QED BY <1>g, <1>1, <2>1, StatusIsSet DEF SetStatus
<1>o. ASSUME NEW c \in Coroutines, Onboard(c)
      PROVE  /\ \A d \in Deps : (Ready(d)' => Ready(d)) /\ (Exists(d) => Exists(d)')
             /\ pc[c] = "download" /\ pc'[c] # "start" /\ \A e \in Coroutines : e # c => pc'[e] = pc[e]
  <2>1. PICK d \in Deps : IsNewDeployment(d) /\ SaveDeployment(d, PendingDeployment(job[c].model, FALSE))
    BY <1>o DEF Onboard
  <2>2. pc[c] = "download" /\ pc'[c] # "start" /\ \A e \in Coroutines : e # c => pc'[e] = pc[e]
    BY <1>o DEF Onboard, At, Go
  <2> QED BY <2>1, <2>2 DEF SaveDeployment, PendingDeployment
<1>5. CASE PrewarmPick \/ PrewarmEnd \/ OnboardFails(Prewarm) \/ LockModel(Prewarm) \/ PrewarmLocked(Prewarm) \/ Boot(Prewarm)
           \/ RunDockerFails(Prewarm)
  <2>1. deployment' = deployment
    BY <1>5 DEF PrewarmPick, PrewarmEnd, OnboardFails, LockModel, PrewarmLocked, Boot, RunDockerFails, registryVars
  <2>2. pc[Prewarm] # "start" /\ pc'[Prewarm] # "start"
    BY <1>5 DEF PrewarmPick, PrewarmEnd, OnboardFails, LockModel, PrewarmLocked, WaitForBoot, Boot, AlreadyBooted, ReservePort,
       RunDockerFails, At, Go
  <2> QED BY <1>g, <1>1, <2>1, <2>2
<1>6. ASSUME NEW c \in Clients, Receive(c) \/ CoreRequestStep(c)
      PROVE  /\ pc'[Prewarm] = pc[Prewarm]
             /\ \A d \in Deps : (Ready(d)' => Ready(d)) /\ (Exists(d) => Exists(d)')
  <2>1. pc'[Prewarm] = pc[Prewarm]
    BY <1>6, ClientMoves DEF CoreRequestStep, RequestStep, ColdStartStep
  <2>2. CASE ColdStartFails(c)
    <3>1. deployment' = deployment \/ SetStatus(job[c].dep, "failed")
      BY <2>2 DEF ColdStartFails
    <3> QED BY <2>1, <3>1 DEF SetStatus, DeploymentRecord
  <2>3. CASE ~ColdStartFails(c) /\ ~Onboard(c)
    <3>1. deployment' = deployment
      BY <1>6, <2>3 DEF Receive, CoreRequestStep, OnboardFails, Route, RouteFails, LockModel, Recheck, Boot,
         RunDockerFails, Begin, registryVars
    <3> QED BY <2>1, <3>1
  <2>4. CASE Onboard(c)
    BY <1>o, <2>1, <2>4
  <2> QED BY <2>2, <2>3, <2>4
<1>7. CASE Tick
  <2>1. pc' = pc
    BY <1>7 DEF Tick, coroutineVars
  <2>2. PICK stop : TickUpTo(stop)
    BY <1>7 DEF Tick
  <2>3. \A d \in Deps : \/ deployment'[d] = deployment[d]
                        \/ deployment'[d] = [deployment[d] EXCEPT !.status = "unloaded"] /\ Ready(d)
    BY <2>2 DEF TickUpTo, Expires, Due
  <2> QED BY <1>g, <1>1, <2>1, <2>3 DEF DeploymentRecord
<1>8. CASE Onboard(Prewarm)
  BY <1>g, <1>1, <1>8, <1>o
<1> QED BY <1>g, <1>1, <1>2, <1>3, <1>4, <1>5, <1>6, <1>7, <1>8 DEF CoreStep, CorePrewarmStep

-----------------------------------------------------------------------------
(* Types.                                                                  *)

(* At first nothing is loaded and no row is READY.                         *)
LEMMA InitLInv == LocalInit => LInv
<1> SUFFICES ASSUME LocalInit PROVE LInv
  OBVIOUS
<1> USE DEF LocalInit
<1>1. IInv
  BY InitIInv
<1>2. /\ \A d \in Deps : ~IsLoaded(d)
      /\ \A o \in Operators : task[o] = NoTask /\ snapshot[o] = NoSnapshot
      /\ \A d \in Deps : ~Ready(d)
  BY DEF Init, IsLoaded, Ready, AbsentDeployment, PendingDeployment
<1>3. NoTask \in Tasks /\ NoTask.at = "idle"
  BY DEF NoTask, Tasks
<1>4. LocalTypeOK
  BY <1>3 DEF LocalTypeOK
<1>5. StartIsEmpty /\ TasksAreSane /\ OneUnloadWins /\ ReadyIsLoaded
  BY <1>2, <1>3 DEF StartIsEmpty, TasksAreSane, OneUnloadWins, ReadyIsLoaded
<1> QED BY <1>1, <1>4, <1>5 DEF LInv

(* A change of the tables and of what operators have read concerns no      *)
(* coroutine.                                                              *)
LEMMA TablesTyped ==
  ASSUME IInv,
         UNCHANGED <<registered, allocated, active, container, reserved, coroutineVars, pending, known, restarts,
                     ghosts>>,
         deployment' \in [Deps -> DeploymentRecord],
         lifecycle' \in [Deps -> LifecycleRecord],
         snapshot' \in [Operators -> Snapshot]
  PROVE  IInv'
BY DEF IInv, TypeOK, JobsAreTyped, EnginesHavePorts, LocksAreHeld, Running, Holds, coroutineVars

(* Deploying keeps every variable's type.                                  *)
LEMMA DeployTyped ==
  ASSUME LInv, NEW o \in Operators,
         DeployLoads(o) \/ DeploySaves(o) \/ DeploySaveFails(o) \/ DeployInits(o)
  PROVE  IInv' /\ LocalTypeOK'
<1> USE DEF LInv, IInv, TypeOK, LocalTypeOK
<1>1. task[o] \in Tasks /\ NoTask \in Tasks
  BY DEF Tasks, NoTask
<1>2. CASE DeployLoads(o)
  <2>1. PICK m \in Models, wanted \in Placements :
             SetTask(o, [NoTask EXCEPT !.at = "save", !.model = m, !.device = ResolvePlacement(wanted)])
    BY <1>2 DEF DeployLoads
  <2>2. ResolvePlacement(wanted) \in Available
    BY PlacementIsAvailable
  <2>3. [NoTask EXCEPT !.at = "save", !.model = m, !.device = ResolvePlacement(wanted)] \in Tasks
    BY <2>2 DEF NoTask, Tasks
  <2>4. IInv'
    BY <1>2, TablesTyped DEF DeployLoads, vars, registryVars, taskVars
  <2> QED BY <1>2, <2>1, <2>3, <2>4 DEF DeployLoads, SetTask
<1>3. CASE DeploySaves(o)
  <2>1. PICK d \in Deps :
             /\ SaveDeployment(d, ReadyRecord(task[o].model, NoPort, FALSE))
             /\ loaded' = [loaded EXCEPT ![d] = task[o].device]
             /\ SetTask(o, [task[o] EXCEPT !.at = "init", !.dep = d])
    BY <1>3 DEF DeploySaves
  <2>2. ReadyRecord(task[o].model, NoPort, FALSE) \in DeploymentRecord
    BY <1>1 DEF Tasks, ReadyRecord, DeploymentRecord, DeploymentStatus
  <2>3. IInv'
    BY <1>3, <2>1, <2>2, TablesTyped DEF DeploySaves, SaveDeployment, taskVars
  <2>4. [task[o] EXCEPT !.at = "init", !.dep = d] \in Tasks /\ task[o].device \in Available \cup {NoDevice}
    BY <1>1 DEF Tasks
  <2> QED BY <2>1, <2>3, <2>4 DEF SetTask
<1>4. CASE DeploySaveFails(o)
  <2>1. IInv'
    BY <1>4, TablesTyped DEF DeploySaveFails, vars, registryVars, taskVars
  <2> QED BY <1>1, <1>4, <2>1 DEF DeploySaveFails, SetTask
<1>5. CASE DeployInits(o)
  <2>1. Initialize \in LifecycleRecord
    BY ThresholdsAssumption DEF Initialize, LifecycleRecord
  <2>2. IInv'
    BY <1>5, <2>1, TablesTyped DEF DeployInits, taskVars
  <2> QED BY <1>1, <1>5, <2>2 DEF DeployInits, SetTask
<1> QED BY <1>2, <1>3, <1>4, <1>5

(* Unloading keeps every variable's type.                                  *)
LEMMA UnloadTyped ==
  ASSUME LInv, NEW o \in Operators,
         UnloadReads(o) \/ UnloadPops(o) \/ UnloadMisses(o) \/ UnloadMarks(o) \/ UnloadMarkFails(o)
  PROVE  IInv' /\ LocalTypeOK'
<1> USE DEF LInv, LocalTypeOK
<1>1. task[o] \in Tasks /\ NoTask \in Tasks /\ snapshot \in [Operators -> Snapshot]
  BY DEF Tasks, NoTask, IInv, TypeOK
<1>2. NoSnapshot \in Snapshot
  BY DEF NoSnapshot, Snapshot, AbsentDeployment, DeploymentRecord, DeploymentStatus, NoPort
<1>3. CASE UnloadReads(o)
  <2>1. IInv'
    BY <1>3, NextIInv DEF UnloadReads, Next, EnvironmentStep
  <2> QED BY <1>3, <2>1 DEF UnloadReads, localOnly
<1>4. CASE UnloadPops(o)
  <2>1. IInv'
    BY <1>4, NextIInv DEF UnloadPops
  <2>2. [NoTask EXCEPT !.at = "mark", !.dep = snapshot[o].dep] \in Tasks
    BY <1>1 DEF NoTask, Tasks, Snapshot
  <2> QED BY <1>4, <2>1, <2>2 DEF UnloadPops, SetTask
<1>5. CASE UnloadMisses(o)
  <2>1. IInv'
    BY <1>1, <1>2, <1>5, TablesTyped DEF UnloadMisses, registryVars, IInv, TypeOK
  <2> QED BY <1>5, <2>1 DEF UnloadMisses, localOnly
<1>6. CASE UnloadMarks(o)
  <2>1. IInv'
    BY <1>6, NextIInv DEF UnloadMarks, Next, EnvironmentStep
  <2> QED BY <1>1, <1>6, <2>1 DEF UnloadMarks, SetTask
<1>7. CASE UnloadMarkFails(o)
  <2>1. IInv'
    BY <1>1, <1>2, <1>7, TablesTyped DEF UnloadMarkFails, registryVars, IInv, TypeOK
  <2> QED BY <1>1, <1>7, <2>1 DEF UnloadMarkFails, SetTask
<1> QED BY <1>3, <1>4, <1>5, <1>6, <1>7

-----------------------------------------------------------------------------
(* The invariant.                                                          *)

Claims == StartIsEmpty /\ TasksAreSane /\ OneUnloadWins /\ ReadyIsLoaded

(* Nothing the invariant is about changes but rows that leave service.     *)
LEMMA NothingLoads ==
  ASSUME Claims, UNCHANGED <<snapshot, loaded, task, stranded>>,
         pc'[Prewarm] = "start" => pc[Prewarm] = "start",
         \A d \in Deps : Ready(d)' => Ready(d),
         pc[Prewarm] # "start" => \A d \in Deps : Exists(d) => Exists(d)',
         ghosts' = ghosts \/ (pc'[Prewarm] # "start" /\ \A d \in Deps : ~Ready(d)')
  PROVE  Claims'
<1> USE DEF Claims
<1>1. StartIsEmpty'
  BY DEF StartIsEmpty, IsLoaded
<1>2. TasksAreSane'
  BY DEF TasksAreSane, IsLoaded, StartIsEmpty, NoTask
<1>3. OneUnloadWins'
  BY DEF OneUnloadWins
<1>4. ReadyIsLoaded'
  BY DEF ReadyIsLoaded, StartIsEmpty, IsLoaded
<1> QED BY <1>1, <1>2, <1>3, <1>4

(* A step of the core keeps it.                                            *)
LEMMA CoreKeeps ==
  ASSUME LInv, CoreStep
  PROVE  LInv'
<1> USE DEF LInv
<1>1. IInv'
  BY CoreIsNext, NextIInv DEF Next
<1>2. LocalTypeOK'
  BY CoreTable DEF LocalTypeOK
<1>3. ghosts' = ghosts \/ (pc'[Prewarm] # "start" /\ \A d \in Deps : ~Ready(d)')
  <2>1. CASE PrewarmStart
    <3>1. pc'[Prewarm] # "start"
      BY <2>1, CoroutinesAssumption DEF PrewarmStart, Go, IInv, TypeOK, Coroutines
    <3> QED BY <2>1, <3>1 DEF PrewarmStart, Ready, AbsentDeployment
  <2> QED BY <2>1, CoreTable
<1>4. Claims'
  BY <1>3, CoreTable, NothingLoads DEF Claims
<1> QED BY <1>1, <1>2, <1>4 DEF Claims

(* Generating keeps it.                                                    *)
LEMMA GenerateKeeps ==
  ASSUME LInv, NEW c \in Clients, GenerateStep(c)
  PROVE  LInv'
<1> USE DEF LInv
<1> c \in Coroutines /\ Prewarm \in Coroutines /\ c # Prewarm
  BY CoroutinesAssumption DEF Coroutines
<1>1. /\ UNCHANGED <<deployment, ghosts, snapshot, loaded, task, stranded>>
      /\ pc'[Prewarm] = pc[Prewarm]
      /\ Finish(c) \/ UNCHANGED vars
  BY DEF GenerateStep, Lookup, LookupMisses, Generated, Finish, Go, vars, registryVars, taskVars, localOnly,
     IInv, TypeOK, coroutineVars
<1>2. IInv'
  BY <1>1, NextIInv DEF Next, ServiceStep, RequestStep
<1>3. LocalTypeOK'
  BY <1>1 DEF LocalTypeOK
<1>4. Claims'
  BY <1>1, NothingLoads DEF Claims, Ready, Exists
<1> QED BY <1>2, <1>3, <1>4 DEF Claims

(* Deploying keeps it: the new row is one no unload works on.              *)
LEMMA DeployKeeps ==
  ASSUME LInv, NEW o \in Operators,
         DeployLoads(o) \/ DeploySaves(o) \/ DeploySaveFails(o) \/ DeployInits(o)
  PROVE  LInv'
<1> USE DEF LInv, SetTask
<1> task \in [Operators -> Tasks]
  BY DEF LocalTypeOK
<1>1. IInv' /\ LocalTypeOK'
  BY DeployTyped
<1>2. pc' = pc /\ ghosts' = ghosts
  BY DEF DeployLoads, DeploySaves, DeploySaveFails, DeployInits, vars, coroutineVars, taskVars
<1>3. pc[Prewarm] # "start"
  <2>1. CASE DeployLoads(o)
    BY <2>1 DEF DeployLoads
  <2>2. CASE DeploySaves(o) \/ DeploySaveFails(o) \/ DeployInits(o)
    <3>1. task[o].at \in {"save", "init"}
      BY <2>2 DEF DeploySaves, DeploySaveFails, DeployInits
    <3> QED BY <3>1 DEF StartIsEmpty, NoTask
  <2> QED BY <2>1, <2>2
<1>4. CASE DeploySaves(o)
  <2>1. PICK d \in Deps :
             /\ ~Exists(d)
             /\ SaveDeployment(d, ReadyRecord(task[o].model, NoPort, FALSE))
             /\ loaded' = [loaded EXCEPT ![d] = task[o].device]
             /\ task' = [task EXCEPT ![o] = [task[o] EXCEPT !.at = "init", !.dep = d]]
    BY <1>4 DEF DeploySaves, IsNewDeployment
  <2>2. /\ deployment'[d].status = "ready"
        /\ \A e \in Deps : e # d => deployment'[e] = deployment[e] /\ loaded'[e] = loaded[e]
        /\ loaded'[d] = task[o].device
    BY <2>1 DEF SaveDeployment, ReadyRecord, IInv, TypeOK, LocalTypeOK
  <2>3. loaded'[d] # NoDevice
    <3>1. task[o].device \in Available
      BY <1>4 DEF DeploySaves, TasksAreSane
    <3> QED BY <2>2, <3>1, LocalAssumption DEF Available, NoDevice
  <2>4. /\ task'[o].at = "init"
        /\ \A p \in Operators : p # o => task'[p] = task[p]
        /\ snapshot' = snapshot /\ stranded' = stranded
    BY <1>4, <2>1 DEF Tasks, DeploySaves, taskVars
  <2>5. TasksAreSane'
    <3>1. \A p \in Operators : snapshot[p] # NoSnapshot => snapshot[p].dep \in Deps \ {d}
      BY <2>1 DEF TasksAreSane
    <3> QED BY <2>2, <2>4, <3>1 DEF TasksAreSane, Exists, IsLoaded
  <2>6. OneUnloadWins'
    BY <2>4 DEF OneUnloadWins
  <2>7. ReadyIsLoaded'
    <3>1. ASSUME NEW e \in Deps, Ready(e)', e # d
          PROVE  \/ IsLoaded(e)' \/ e \in stranded' \/ e \in ghosts'
                 \/ \E p \in Operators : task'[p].at = "mark" /\ task'[p].dep = e
      <4>1. task[o].at # "mark"
        BY <1>4 DEF DeploySaves
      <4>2. Ready(e)
        BY <2>2, <3>1 DEF Ready
      <4>3. IsLoaded(e) \/ e \in stranded \/ e \in ghosts \/ \E p \in Operators \ {o} : task[p].at = "mark" /\ task[p].dep = e
        BY <1>3, <4>1, <4>2 DEF ReadyIsLoaded
      <4> QED BY <1>2, <2>2, <2>4, <3>1, <4>3 DEF IsLoaded
    <3> QED BY <2>3, <3>1 DEF ReadyIsLoaded, IsLoaded
  <2> QED BY <1>1, <1>2, <1>3, <2>5, <2>6, <2>7 DEF StartIsEmpty
<1>5. CASE DeployLoads(o) \/ DeploySaveFails(o) \/ DeployInits(o)
  <2>1. UNCHANGED <<deployment, snapshot, loaded, stranded>>
    BY <1>5 DEF DeployLoads, DeploySaveFails, DeployInits, vars, registryVars, taskVars
  <2>2. /\ task[o].at # "mark" /\ task'[o].at # "mark"
        /\ \A p \in Operators : p # o => task'[p] = task[p]
        /\ task'[o].at = "save" => task'[o].device \in Available
    <3>1. CASE DeployLoads(o)
      <4>1. PICK m \in Models, wanted \in Placements :
                 task' = [task EXCEPT ![o] = [NoTask EXCEPT !.at = "save", !.model = m, !.device = ResolvePlacement(wanted)]]
        BY <3>1 DEF DeployLoads
      <4>2. ResolvePlacement(wanted) \in Available
        BY PlacementIsAvailable
      <4> QED BY <3>1, <4>1, <4>2 DEF DeployLoads, OperatorIdle, NoTask
    <3> QED BY <1>5, <3>1 DEF DeploySaveFails, DeployInits, NoTask
  <2>3. TasksAreSane'
    BY <2>1, <2>2 DEF TasksAreSane, Exists, IsLoaded
  <2>4. OneUnloadWins'
    BY <2>2 DEF OneUnloadWins
  <2>5. ReadyIsLoaded'
    BY <1>2, <2>1, <2>2 DEF ReadyIsLoaded, Ready, IsLoaded
  <2> QED BY <1>1, <1>2, <1>3, <2>3, <2>4, <2>5 DEF StartIsEmpty
<1> QED BY <1>4, <1>5

(* Unloading keeps it: whoever takes the weights is alone with them.       *)
LEMMA UnloadKeeps ==
  ASSUME LInv, NEW o \in Operators,
         UnloadReads(o) \/ UnloadPops(o) \/ UnloadMisses(o) \/ UnloadMarks(o) \/ UnloadMarkFails(o)
  PROVE  LInv'
<1> USE DEF LInv, SetTask
<1> /\ task \in [Operators -> Tasks] /\ loaded \in [Deps -> Available \cup {NoDevice}]
    /\ deployment \in [Deps -> DeploymentRecord] /\ snapshot \in [Operators -> Snapshot]
  BY DEF LocalTypeOK, IInv, TypeOK
<1>1. IInv' /\ LocalTypeOK'
  BY UnloadTyped
<1>2. pc' = pc /\ ghosts' = ghosts
  BY DEF UnloadReads, UnloadPops, UnloadMisses, UnloadMarks, UnloadMarkFails, OperatorReads, OperatorUnloads,
     vars, coroutineVars, taskVars
<1>3. pc[Prewarm] # "start"
  <2>1. CASE UnloadReads(o)
    BY <2>1 DEF UnloadReads, OperatorReads
  <2>2. CASE UnloadPops(o) \/ UnloadMisses(o)
    BY <2>2 DEF UnloadPops, UnloadMisses, StartIsEmpty
  <2>3. CASE UnloadMarks(o) \/ UnloadMarkFails(o)
    BY <2>3 DEF UnloadMarks, UnloadMarkFails, StartIsEmpty, NoTask
  <2> QED BY <2>1, <2>2, <2>3
<1>4. CASE UnloadReads(o)
  <2>1. PICK d \in Deps : Exists(d) /\ snapshot' = [snapshot EXCEPT ![o] = [dep |-> d, record |-> deployment[d]]]
    BY <1>4 DEF UnloadReads, OperatorReads
  <2>2. UNCHANGED <<deployment, loaded, task, stranded>> /\ task[o].at = "idle"
    BY <1>4 DEF UnloadReads, OperatorReads, localOnly, registryVars
  <2>3. TasksAreSane'
    BY <2>1, <2>2 DEF TasksAreSane, Exists, IsLoaded
  <2>4. OneUnloadWins' /\ ReadyIsLoaded'
    BY <1>2, <2>2 DEF OneUnloadWins, ReadyIsLoaded, Ready, IsLoaded
  <2> QED BY <1>1, <1>2, <1>3, <2>3, <2>4 DEF StartIsEmpty
<1>5. CASE UnloadPops(o)
  <2> DEFINE d == snapshot[o].dep
  <2>1. /\ d \in Deps /\ IsLoaded(d) /\ snapshot[o] # NoSnapshot
        /\ loaded' = [loaded EXCEPT ![d] = NoDevice]
        /\ UNCHANGED <<deployment, snapshot, stranded>>
    BY <1>5 DEF UnloadPops, TasksAreSane, vars, registryVars, taskVars
  <2>2. /\ task'[o].at = "mark" /\ task'[o].dep = d
        /\ \A p \in Operators : p # o => task'[p] = task[p]
    BY <1>5 DEF UnloadPops, NoTask
  <2>3. /\ loaded'[d] = NoDevice
        /\ \A e \in Deps : e # d => loaded'[e] = loaded[e]
    BY <2>1
  <2>4. TasksAreSane'
    BY <2>1, <2>2, <2>3 DEF TasksAreSane, Exists, IsLoaded
  <2>5. OneUnloadWins'
    BY <2>1, <2>2 DEF OneUnloadWins, TasksAreSane
  <2>6. ReadyIsLoaded'
    <3>1. ASSUME NEW e \in Deps, Ready(e)', e # d
          PROVE  \/ IsLoaded(e)' \/ e \in stranded' \/ e \in ghosts'
                 \/ \E p \in Operators : task'[p].at = "mark" /\ task'[p].dep = e
      <4>1. CASE IsLoaded(e) \/ e \in stranded \/ e \in ghosts
        BY <1>2, <2>1, <2>3, <3>1, <4>1 DEF IsLoaded
      <4>2. CASE \E p \in Operators : task[p].at = "mark" /\ task[p].dep = e
        <5>1. PICK p \in Operators : task[p].at = "mark" /\ task[p].dep = e
          BY <4>2
        <5>2. task[o].at = "idle"
          BY <1>5 DEF UnloadPops
        <5> QED BY <2>2, <5>1, <5>2
      <4> QED BY <1>3, <2>1, <3>1, <4>1, <4>2 DEF ReadyIsLoaded, Ready
    <3>2. \E p \in Operators : task'[p].at = "mark" /\ task'[p].dep = d
      BY <2>2
    <3> QED BY <3>1, <3>2 DEF ReadyIsLoaded
  <2> QED BY <1>1, <1>2, <1>3, <2>4, <2>5, <2>6 DEF StartIsEmpty
<1>6. CASE UnloadMisses(o)
  <2>1. /\ UNCHANGED <<deployment, loaded, task, stranded>> /\ task[o].at = "idle"
        /\ snapshot' = [snapshot EXCEPT ![o] = NoSnapshot]
    BY <1>6 DEF UnloadMisses, localOnly, registryVars
  <2>2. TasksAreSane'
    BY <2>1 DEF TasksAreSane, Exists, IsLoaded
  <2>3. OneUnloadWins' /\ ReadyIsLoaded'
    BY <1>2, <2>1 DEF OneUnloadWins, ReadyIsLoaded, Ready, IsLoaded
  <2> QED BY <1>1, <1>2, <1>3, <2>2, <2>3 DEF StartIsEmpty
<1>7. CASE UnloadMarks(o)
  <2> DEFINE d == snapshot[o].dep
  <2>1. /\ task[o].at = "mark" /\ task[o].dep = d /\ d \in Deps
        /\ deployment' = [deployment EXCEPT ![d] = [snapshot[o].record EXCEPT !.status = "unloaded"]]
        /\ snapshot' = [snapshot EXCEPT ![o] = NoSnapshot]
        /\ task' = [task EXCEPT ![o] = NoTask]
        /\ UNCHANGED <<loaded, stranded>>
    BY <1>7 DEF UnloadMarks, OperatorUnloads, SaveDeployment, TasksAreSane
  <2>2. deployment'[d].status = "unloaded" /\ \A e \in Deps : e # d => deployment'[e] = deployment[e]
    BY <2>1 DEF Snapshot, DeploymentRecord
  <2>3. task'[o].at = "idle" /\ \A p \in Operators : p # o => task'[p] = task[p]
    BY <2>1 DEF NoTask
  <2>4. TasksAreSane'
    BY <2>1, <2>2, <2>3 DEF TasksAreSane, Exists, IsLoaded
  <2>5. OneUnloadWins'
    BY <2>3 DEF OneUnloadWins
  <2>6. ReadyIsLoaded'
    BY <1>2, <2>1, <2>2, <2>3 DEF ReadyIsLoaded, Ready, IsLoaded
  <2> QED BY <1>1, <1>2, <1>3, <2>4, <2>5, <2>6 DEF StartIsEmpty
<1>8. CASE UnloadMarkFails(o)
  <2>1. /\ task[o].at = "mark"
        /\ snapshot' = [snapshot EXCEPT ![o] = NoSnapshot]
        /\ task' = [task EXCEPT ![o] = NoTask]
        /\ stranded' = stranded \cup {task[o].dep}
        /\ UNCHANGED <<deployment, loaded>>
    BY <1>8 DEF UnloadMarkFails, registryVars
  <2>2. task'[o].at = "idle" /\ \A p \in Operators : p # o => task'[p] = task[p]
    BY <2>1 DEF NoTask
  <2>3. TasksAreSane'
    BY <2>1, <2>2 DEF TasksAreSane, Exists, IsLoaded
  <2>4. OneUnloadWins'
    BY <2>2 DEF OneUnloadWins
  <2>5. ReadyIsLoaded'
    BY <1>2, <2>1, <2>2 DEF ReadyIsLoaded, Ready, IsLoaded
  <2> QED BY <1>1, <1>2, <1>3, <2>3, <2>4, <2>5 DEF StartIsEmpty
<1> QED BY <1>4, <1>5, <1>6, <1>7, <1>8

(* The end of the process keeps it: the rows that survive are those of an  *)
(* earlier process.                                                        *)
LEMMA RestartKeeps ==
  ASSUME LInv, LocalRestart
  PROVE  LInv'
<1> USE DEF LInv
<1>1. IInv'
  BY NextIInv DEF LocalRestart, Next, EnvironmentStep
<1>2. /\ \A d \in Deps : ~IsLoaded(d)'
      /\ \A o \in Operators : task'[o] = NoTask /\ snapshot'[o] = NoSnapshot
      /\ pc'[Prewarm] = "start"
  BY DEF LocalRestart, Restart, IsLoaded, Coroutines
<1>3. NoTask \in Tasks /\ NoTask.at = "idle"
  BY DEF NoTask, Tasks
<1>4. LocalTypeOK'
  BY <1>3 DEF LocalTypeOK, LocalRestart
<1>5. \A d \in Deps : Ready(d)' => d \in ghosts'
  BY DEF LocalRestart, Restart, Ready, Exists, registryVars
<1>6. StartIsEmpty' /\ TasksAreSane' /\ OneUnloadWins' /\ ReadyIsLoaded'
  BY <1>2, <1>3, <1>5 DEF StartIsEmpty, TasksAreSane, OneUnloadWins, ReadyIsLoaded
<1> QED BY <1>1, <1>4, <1>6

(* Every step keeps it.                                                    *)
LEMMA NextLInv == LInv /\ [LocalNext]_localVars => LInv'
<1> SUFFICES ASSUME LInv, [LocalNext]_localVars PROVE LInv'
  OBVIOUS
<1>1. CASE UNCHANGED localVars
  <2>1. IInv'
    BY <1>1, NextIInv DEF localVars, LInv
  <2>2. UNCHANGED <<deployment, ghosts, pc, snapshot, loaded, task, stranded>>
    BY <1>1 DEF localVars, vars, localOnly, registryVars, coroutineVars, taskVars
  <2>3. Claims'
    BY <2>2, NothingLoads DEF LInv, Claims, Ready, Exists
  <2> QED BY <2>1, <2>2, <2>3 DEF LInv, LocalTypeOK, Claims
<1>2. CASE LocalNext
  BY <1>2, CoreKeeps, GenerateKeeps, DeployKeeps, UnloadKeeps, RestartKeeps DEF LocalNext, ManagementStep
<1> QED BY <1>1, <1>2

(* The strengthened invariant holds in every reachable state.              *)
LEMMA LocalInductive == LocalSpec => []LInv
BY InitLInv, NextLInv, PTL DEF LocalSpec

(* One of two racing unloads of a deployment gets its weights.             *)
THEOREM UnloadsAreExclusive == LocalSpec => []OneUnloadWins
<1>1. LInv => OneUnloadWins
  BY DEF LInv
<1> QED BY LocalInductive, <1>1, PTL

(* Behind every READY row there are weights, unless an unload has just     *)
(* taken them or could not write that it did, or the row is of an earlier  *)
(* process and could not be deleted.                                       *)
THEOREM ReadyHasWeights == LocalSpec => []ReadyIsLoaded
<1>1. LInv => ReadyIsLoaded
  BY DEF LInv
<1> QED BY LocalInductive, <1>1, PTL

(* A retired deployment does not come back: only a deploy makes a row      *)
(* READY, and it makes a new one.                                          *)
THEOREM RetiredForGood == LocalSpec => RetiredStaysRetired
<1> DEFINE Kept == \A d \in Deps :
      deployment[d].status \in {"unloaded", "failed"} => deployment'[d].status # "ready"
<1>1. ASSUME LInv, [LocalNext]_localVars PROVE [Kept]_localVars
  <2> USE DEF Ready, Exists
  <2>1. CASE CoreStep
    BY <1>1, <2>1, CoreTable DEF LInv
  <2>2. ASSUME NEW c \in Clients, GenerateStep(c) PROVE Kept
    <3>1. deployment' = deployment
      BY <2>2 DEF GenerateStep, Lookup, LookupMisses, Generated, Finish, vars, registryVars
    <3> QED BY <3>1
  <2>3. ASSUME NEW o \in Operators, DeploySaves(o) PROVE Kept
    <3>1. PICK d \in Deps : ~Exists(d) /\ SaveDeployment(d, ReadyRecord(task[o].model, NoPort, FALSE))
      BY <2>3 DEF DeploySaves, IsNewDeployment
    <3>2. \A e \in Deps : e # d => deployment'[e] = deployment[e]
      BY <3>1 DEF SaveDeployment
    <3> QED BY <3>1, <3>2
  <2>4. ASSUME NEW o \in Operators, UnloadMarks(o) PROVE Kept
    <3>1. deployment' = [deployment EXCEPT ![snapshot[o].dep] = [snapshot[o].record EXCEPT !.status = "unloaded"]]
      BY <2>4 DEF UnloadMarks, OperatorUnloads, SaveDeployment
    <3>2. deployment \in [Deps -> DeploymentRecord] /\ snapshot[o] \in Snapshot
      BY <1>1 DEF LInv, IInv, TypeOK
    <3> QED BY <3>1, <3>2 DEF Snapshot, DeploymentRecord
  <2>5. ASSUME NEW o \in Operators,
               DeployLoads(o) \/ DeploySaveFails(o) \/ DeployInits(o)
               \/ UnloadReads(o) \/ UnloadPops(o) \/ UnloadMisses(o) \/ UnloadMarkFails(o)
        PROVE  Kept
    <3>1. deployment' = deployment
      BY <2>5 DEF DeployLoads, DeploySaveFails, DeployInits, UnloadReads, UnloadPops, UnloadMisses, UnloadMarkFails,
         OperatorReads, vars, registryVars
    <3> QED BY <3>1
  <2>6. CASE LocalRestart \/ UNCHANGED localVars
    <3>1. deployment' = deployment
      BY <2>6 DEF LocalRestart, Restart, localVars, vars, registryVars
    <3> QED BY <3>1
  <2> QED BY <1>1, <2>1, <2>2, <2>3, <2>4, <2>5, <2>6 DEF LocalNext, ManagementStep
<1> QED BY LocalInductive, <1>1, PTL DEF LocalSpec, RetiredStaysRetired

-----------------------------------------------------------------------------
(* Requests and the weights they were routed to.                           *)

(* From the moment a request is on its deployment, the weights are there,  *)
(* or an unload has taken them, or the row is of an earlier process; who took them is in the history; and   *)
(* no request is let in before the service has started.                    *)
Backed(d) == IsLoaded(d) \/ d \in popped \cup ghosts
Engaged == {"touch", "generate"}

RequestsAreBacked ==
  \A c \in Clients, d \in Deps : pc[c] \in Engaged /\ job[c].dep = d => Backed(d)

PoppedIsKnown ==
  /\ stranded \subseteq popped
  /\ \A o \in Operators : task[o].at = "mark" => task[o].dep \in popped

ClientsWait == pc[Prewarm] = "start" => \A c \in Clients : pc[c] = "idle"

MissInv == RequestsAreBacked /\ PoppedIsKnown /\ ClientsWait

(* A request gets to a deployment that is READY as it does, by its route,  *)
(* under the locks, or as a fallback.                                      *)
LEMMA Engages ==
  ASSUME IInv, NEW c \in Clients, Receive(c) \/ CoreRequestStep(c), pc'[c] \in Engaged
  PROVE  \/ pc[c] = "touch" /\ job'[c].dep = job[c].dep
         \/ \A d \in Deps : job'[c].dep = d => Ready(d) \/ Ready(d)'
<1> c \in Coroutines
  BY DEF Coroutines
<1> USE DEF At, Go, SetJob, Engaged, IInv, TypeOK
<1>1. CASE Route(c)
  <2>1. PICK r \in Routes(job[c].cap, job[c].model) :
             /\ job' = [job EXCEPT ![c] = [job[c] EXCEPT !.model = r.model, !.dep = r.dep, !.victim = r.victim]]
             /\ pc' = [pc EXCEPT ![c] = IF r.victim # NoDep THEN "evict" ELSE IF r.cold THEN "lock" ELSE "touch"]
    BY <1>1 DEF Route
  <2>2. ~r.cold
    BY <2>1
  <2>3. job'[c].dep = r.dep
    BY <2>1 DEF Job
  <2> QED BY <2>2, <2>3, RouteChoice
<1>2. CASE Recheck(c)
  <2>1. CASE FallBack(c, deployment)
    BY <2>1, FallBackIsReady DEF Ready
  <2>2. CASE StatusOf(job[c].dep) = "ready" /\ UNCHANGED job
    BY <2>2 DEF StatusOf, Ready
  <2>3. CASE WaitForBoot(c)
    BY <2>3 DEF WaitForBoot
  <2> QED BY <1>2, <2>1, <2>2, <2>3 DEF Recheck
<1>3. CASE Boot(c)
  <2>1. StatusOf(job[c].dep) = "ready" /\ AlreadyBooted(c)
    BY <1>3 DEF Boot, ReservePort
  <2>2. c # Prewarm
    BY CoroutinesAssumption
  <2>3. job'[c] = job[c]
    BY <2>1, <2>2 DEF AlreadyBooted
  <2> QED BY <2>1, <2>3 DEF StatusOf, Ready
<1>4. CASE ColdStartFails(c)
  <2>1. FallBack(c, deployment')
    BY <1>4 DEF ColdStartFails
  <2>2. deployment'[job'[c].dep].status = "ready"
    BY <1>4, <2>1, FallBackIsReady
  <2> QED BY <2>2 DEF Ready
<1>5. CASE Begin(c)
  BY <1>5 DEF Begin, NoJob
<1>6. CASE Receive(c) \/ Onboard(c) \/ OnboardFails(c) \/ RouteFails(c) \/ LockModel(c) \/ RunDockerFails(c)
  <2> c # Prewarm
    BY CoroutinesAssumption
  <2> QED BY <1>6 DEF Receive, Onboard, OnboardFails, RouteFails, LockModel, RunDockerFails
<1> QED BY <1>1, <1>2, <1>3, <1>4, <1>5, <1>6 DEF CoreRequestStep

(* A step that moves no client and takes no weights keeps the history.     *)
LEMMA NoneMoves ==
  ASSUME MissInv, UNCHANGED <<loaded, popped, stranded>>,
         \A c \in Clients : pc'[c] = pc[c] /\ job'[c] = job[c],
         pc'[Prewarm] = "start" => pc[Prewarm] = "start",
         ghosts' = ghosts \/ pc[Prewarm] = "start",
         \A o \in Operators : task'[o] = task[o] \/ task'[o].at # "mark"
  PROVE  MissInv'
BY DEF MissInv, RequestsAreBacked, PoppedIsKnown, ClientsWait, Backed, Engaged, IsLoaded

(* The steps of the core keep it: what a request is routed to is loaded.   *)
LEMMA CoreKeepsMisses ==
  ASSUME LInv, MissInv, CoreStep
  PROVE  MissInv'
<1> IInv
  BY DEF LInv
<1> Prewarm \in Coroutines /\ Prewarm \notin Clients
    /\ \A c \in Clients : c \in Coroutines /\ c # Prewarm
  BY CoroutinesAssumption DEF Coroutines
<1>1. /\ UNCHANGED <<loaded, task, popped, stranded>>
      /\ pc'[Prewarm] = "start" => pc[Prewarm] = "start"
      /\ ghosts' = ghosts \/ pc[Prewarm] = "start"
  BY CoreTable DEF PrewarmStart, At
<1>2. CASE CorePrewarmStep
  <2>1. PrewarmStep
    BY <1>2 DEF CorePrewarmStep, PrewarmStep, ColdStartStep
  <2> QED BY <1>1, <2>1, PrewarmMoves, NoneMoves
<1>3. CASE Tick
  <2>1. UNCHANGED <<pc, job>>
    BY <1>3 DEF Tick, coroutineVars
  <2> QED BY <1>1, <2>1, NoneMoves
<1>4. ASSUME NEW c \in Clients, Receive(c) \/ CoreRequestStep(c) PROVE MissInv'
  <2>1. /\ \A e \in Coroutines : e # c => pc'[e] = pc[e] /\ job'[e] = job[e]
        /\ pc[c] # "idle" \/ pc[Prewarm] # "start"
    BY <1>4, ClientMoves DEF CoreRequestStep, RequestStep, ColdStartStep
  <2>2. pc[Prewarm] # "start" /\ pc'[Prewarm] # "start"
    BY <2>1 DEF MissInv, ClientsWait
  <2>3. \A d \in Deps : Ready(d) => Backed(d)
    BY <2>2 DEF LInv, ReadyIsLoaded, MissInv, PoppedIsKnown, Backed
  <2>4. ASSUME NEW d \in Deps, pc'[c] \in Engaged, job'[c].dep = d PROVE Backed(d)
    <3>1. CASE pc[c] = "touch" /\ job'[c].dep = job[c].dep
      BY <2>4, <3>1 DEF MissInv, RequestsAreBacked, Engaged
    <3>2. CASE Ready(d) \/ Ready(d)'
      BY <2>3, <3>2, CoreTable
    <3> QED BY <1>4, <2>4, <3>1, <3>2, Engages
  <2>5. ASSUME NEW e \in Clients, NEW d \in Deps, pc'[e] \in Engaged, job'[e].dep = d PROVE Backed(d)
    <3>1. CASE e = c
      BY <2>4, <2>5, <3>1
    <3>2. CASE e # c
      BY <2>1, <2>5, <3>2 DEF MissInv, RequestsAreBacked
    <3> QED BY <3>1, <3>2
  <2>6. RequestsAreBacked'
    BY <1>1, <2>2, <2>5 DEF RequestsAreBacked, Backed, IsLoaded
  <2> QED BY <1>1, <2>2, <2>6 DEF MissInv, PoppedIsKnown, ClientsWait
<1> QED BY <1>2, <1>3, <1>4 DEF CoreStep

(* Generating keeps it.                                                    *)
LEMMA GenerateKeepsMisses ==
  ASSUME LInv, MissInv, NEW c \in Clients, GenerateStep(c)
  PROVE  MissInv'
<1> /\ pc \in [Coroutines -> Labels] /\ job \in [Coroutines -> Job]
    /\ Prewarm \in Coroutines /\ \A e \in Clients : e \in Coroutines /\ e # Prewarm
  BY CoroutinesAssumption DEF LInv, IInv, TypeOK, Coroutines
<1>1. UNCHANGED <<loaded, task, popped, stranded, ghosts>> /\ (UNCHANGED <<pc, job>> \/ Finish(c))
  BY DEF GenerateStep, Lookup, LookupMisses, Generated, Finish, localOnly, vars, coroutineVars, taskVars
<1>2. CASE UNCHANGED <<pc, job>>
  BY <1>1, <1>2, NoneMoves
<1>3. CASE Finish(c)
  <2>1. /\ \A e \in Coroutines : e # c => pc'[e] = pc[e] /\ job'[e] = job[e]
        /\ pc'[c] = "idle"
    BY <1>3 DEF Finish, Go, SetJob
  <2>2. RequestsAreBacked'
    BY <1>1, <2>1 DEF MissInv, RequestsAreBacked, Backed, IsLoaded, Engaged
  <2> QED BY <1>1, <2>1, <2>2 DEF MissInv, PoppedIsKnown, ClientsWait
<1> QED BY <1>1, <1>2, <1>3

(* So do the operators: a deploy adds weights, an unload that takes them   *)
(* is remembered.                                                          *)
LEMMA ManagementKeepsMisses ==
  ASSUME LInv, MissInv, NEW o \in Operators, DeployLoads(o) \/ UnloadReads(o) \/ ManagementStep(o)
  PROVE  MissInv'
<1> /\ task \in [Operators -> Tasks] /\ loaded \in [Deps -> Available \cup {NoDevice}]
    /\ task[o] \in Tasks
  BY DEF LInv, LocalTypeOK
<1> USE DEF SetTask
<1>1. UNCHANGED <<pc, job, ghosts>>
  BY DEF DeployLoads, UnloadReads, ManagementStep, DeploySaves, DeploySaveFails, DeployInits, UnloadPops,
     UnloadMisses, UnloadMarks, UnloadMarkFails, OperatorReads, OperatorUnloads, vars, coroutineVars, taskVars
<1>2. CASE DeployLoads(o) \/ DeploySaveFails(o) \/ DeployInits(o) \/ UnloadReads(o) \/ UnloadMisses(o) \/ UnloadMarks(o)
  <2>1. UNCHANGED <<loaded, popped, stranded>>
    BY <1>2 DEF DeployLoads, DeploySaveFails, DeployInits, UnloadReads, UnloadMisses, UnloadMarks, localOnly
  <2>2. \A p \in Operators : p # o => task'[p] = task[p]
    BY <1>2 DEF DeployLoads, DeploySaveFails, DeployInits, UnloadReads, UnloadMisses, UnloadMarks, localOnly
  <2>3. task'[o] = task[o] \/ task'[o].at # "mark"
    <3>1. CASE DeployLoads(o)
      BY <3>1 DEF DeployLoads, NoTask
    <3>2. CASE DeploySaveFails(o) \/ DeployInits(o) \/ UnloadMarks(o)
      BY <3>2 DEF DeploySaveFails, DeployInits, UnloadMarks, NoTask
    <3>3. CASE UnloadReads(o) \/ UnloadMisses(o)
      BY <3>3 DEF UnloadReads, UnloadMisses, localOnly
    <3> QED BY <1>2, <3>1, <3>2, <3>3
  <2> QED BY <1>1, <2>1, <2>2, <2>3, NoneMoves
<1>3. CASE DeploySaves(o)
  <2>1. PICK d \in Deps :
             /\ loaded' = [loaded EXCEPT ![d] = task[o].device]
             /\ task' = [task EXCEPT ![o] = [task[o] EXCEPT !.at = "init", !.dep = d]]
    BY <1>3 DEF DeploySaves
  <2>2. task[o].device # NoDevice
    <3>1. task[o].device \in Available
      BY <1>3 DEF DeploySaves, LInv, TasksAreSane
    <3> QED BY <3>1, LocalAssumption DEF Available, NoDevice
  <2>3. \A e \in Deps : IsLoaded(e) => IsLoaded(e)'
    BY <2>1, <2>2 DEF IsLoaded
  <2>4. task'[o].at = "init" /\ \A p \in Operators : p # o => task'[p] = task[p]
    BY <2>1 DEF Tasks
  <2>5. UNCHANGED <<popped, stranded>>
    BY <1>3 DEF DeploySaves
  <2> QED BY <1>1, <2>3, <2>4, <2>5 DEF MissInv, RequestsAreBacked, PoppedIsKnown, ClientsWait, Backed
<1>4. CASE UnloadPops(o)
  <2>1. PICK d : d = snapshot[o].dep
    OBVIOUS
  <2>2. /\ loaded' = [loaded EXCEPT ![d] = NoDevice]
        /\ popped' = popped \cup {d} /\ stranded' = stranded
        /\ task' = [task EXCEPT ![o] = [NoTask EXCEPT !.at = "mark", !.dep = d]]
    BY <1>4, <2>1 DEF UnloadPops
  <2>3. \A e \in Deps : Backed(e) => Backed(e)'
    BY <1>1, <2>2 DEF Backed, IsLoaded
  <2>4. task'[o].dep = d /\ \A p \in Operators : p # o => task'[p] = task[p]
    BY <2>2 DEF NoTask
  <2> QED BY <1>1, <2>2, <2>3, <2>4 DEF MissInv, RequestsAreBacked, PoppedIsKnown, ClientsWait
<1>5. CASE UnloadMarkFails(o)
  <2>1. task[o].at = "mark" /\ stranded' = stranded \cup {task[o].dep} /\ UNCHANGED <<loaded, popped>>
    BY <1>5 DEF UnloadMarkFails
  <2>2. task'[o].at = "idle" /\ \A p \in Operators : p # o => task'[p] = task[p]
    BY <1>5 DEF UnloadMarkFails, NoTask
  <2> QED BY <1>1, <2>1, <2>2 DEF MissInv, RequestsAreBacked, PoppedIsKnown, ClientsWait, Backed, IsLoaded
<1> QED BY <1>2, <1>3, <1>4, <1>5 DEF ManagementStep

(* Every step keeps it.                                                    *)
LEMMA NextMisses == LInv /\ MissInv /\ [LocalNext]_localVars => MissInv'
<1> SUFFICES ASSUME LInv, MissInv, [LocalNext]_localVars PROVE MissInv'
  OBVIOUS
<1>1. CASE LocalRestart
  <2>1. /\ \A c \in Clients : pc'[c] = "idle"
        /\ \A o \in Operators : task'[o].at = "idle"
        /\ popped' = {} /\ stranded' = {}
    BY <1>1, CoroutinesAssumption DEF LocalRestart, Restart, Coroutines, NoTask
  <2> QED BY <2>1 DEF MissInv, RequestsAreBacked, PoppedIsKnown, ClientsWait, Engaged
<1>2. CASE UNCHANGED localVars
  BY <1>2, NoneMoves DEF localVars, localOnly, vars, coroutineVars, taskVars
<1> QED BY <1>1, <1>2, CoreKeepsMisses, GenerateKeepsMisses, ManagementKeepsMisses DEF LocalNext

(* A request that finds no weights was routed to a deployment that had     *)
(* them, and an operator has unloaded it since, or to a row of an earlier  *)
(* process that could not be deleted.                                      *)
THEOREM MissMeansUnload == LocalSpec => []MissIsAnUnload
<1>1. LocalInit => MissInv
  BY CoroutinesAssumption DEF LocalInit, Init, MissInv, RequestsAreBacked, PoppedIsKnown, ClientsWait, Engaged,
     Coroutines, NoTask
<1>2. MissInv => MissIsAnUnload
  BY DEF MissInv, RequestsAreBacked, Backed, Engaged, MissIsAnUnload, Serving
<1> QED BY LocalInductive, NextMisses, <1>1, <1>2, PTL DEF LocalSpec
=============================================================================
