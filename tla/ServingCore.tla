---------------------------- MODULE ServingCore ----------------------------
(***************************************************************************)
(* The serving core: ChatService (services/chat.py) with the startup       *)
(* pre-warm task, the lifecycle worker (services/lifecycle_worker.py), the *)
(* unload and deploy endpoints (services/model_management.py) and the      *)
(* Docker daemon.                                                          *)
(*                                                                         *)
(* Concurrency.  Clients and Prewarm are coroutines of one asyncio loop:   *)
(* loop names the coroutine that is between two awaits, and no other       *)
(* coroutine steps until it reaches its next await.  Docker calls          *)
(* (run_in_threadpool), the containers themselves and the operators        *)
(* (synchronous endpoints, run in the thread pool) interleave with         *)
(* everything.  An asyncio.Lock is the queue of the coroutines that asked  *)
(* for it; its head holds it or is about to be woken.                      *)
(***************************************************************************)
EXTENDS Router, LifecycleManager

CONSTANTS
  Clients,         \* the chat requests that can be in flight at one time
  Prewarm,         \* the startup task prewarm_capabilities
  Operators,       \* threads serving POST /models/deploy and /models/unload
  Nobody,          \* no coroutine is running
  NoName,          \* a request that names no model
  Queries,         \* the requests clients send: [cap, name]
  PrewarmCaps,     \* the capabilities to pre-warm, in order
  DefaultOf,       \* DefaultOf[cap]: the repository pre-warm onboards, or NoName
  InitialModels,   \* the catalogue at the first start
  InitialPending,  \* the models with a PENDING deployment at the first start
  WipeOnStart,     \* pre-warm clears the deployment tables (a SQL registry)
  Faults,          \* which outside failures happen
  MaxRestarts      \* bound: how often the process is restarted

Coroutines == Clients \cup {Prewarm}

ASSUME CoroutinesAssumption ==
  /\ IsFiniteSet(Clients)
  /\ Prewarm \notin Clients
  /\ Nobody \notin Coroutines
  /\ NoName \notin Names
  /\ Queries \subseteq [cap : Capabilities, name : Names \cup {NoName}]
  /\ PrewarmCaps \in Seq(Capabilities)
  /\ DefaultOf \in [Capabilities -> Names \cup {NoName}]
  /\ InitialModels \in Seq(Models)
  /\ InitialPending \in Seq(Models)
  /\ Len(InitialPending) <= MaxDeps
  /\ WipeOnStart \in BOOLEAN
  /\ Faults \subseteq {"run", "remove", "cleanup", "crash", "onboard", "wipe"}
  /\ MaxRestarts \in Nat
  /\ MaxRestarts > 0 => WipeOnStart   \* only a SQL registry survives the process

VARIABLES
  container,    \* Docker: the engine process per repository name
  reserved,     \* _reserved_ports
  modelLock,    \* _cold_start_locks
  bootLock,     \* _global_boot_lock
  loop,         \* the coroutine that is running, or Nobody
  pc,           \* where each coroutine is
  job,          \* its local variables
  pending,      \* capabilities the pre-warm task still has to visit
  known,        \* the list of models the pre-warm task works from
  snapshot,     \* the record an operator's unload has read
  restarts,
  ghosts        \* history: the deployments an earlier run of the service left in the tables

coroutineVars == <<modelLock, bootLock, loop, pc, job>>
taskVars == <<pending, known, snapshot, restarts, ghosts>>
vars == <<registryVars, allocated, active, container, reserved, coroutineVars, taskVars>>

Labels == {"idle", "download", "route", "evict", "lock", "recheck", "boot", "docker",
           "poll", "cleanup", "failed", "touch", "generate",
           "start", "next", "create", "done"}

Job == [cap : Capabilities \cup {NoName}, model : Models \cup {NoModel}, dep : Deps \cup {NoDep},
        victim : Deps \cup {NoDep}, port : Ports \cup {NoPort}]
NoJob == [cap |-> NoName, model |-> NoModel, dep |-> NoDep, victim |-> NoDep, port |-> NoPort]

Container == [status : {"none", "starting", "healthy"}, port : Ports \cup {NoPort}]
NoContainer == [status |-> "none", port |-> NoPort]

Snapshot == [dep : Deps \cup {NoDep}, record : DeploymentRecord]
NoSnapshot == [dep |-> NoDep, record |-> AbsentDeployment]

-----------------------------------------------------------------------------
(* Docker and the event loop.                                              *)

Running(n) == container[n].status # "none"
Listening(p) == \E n \in Names : container[n].status = "healthy" /\ container[n].port = p

(* container_name is derived from the model's name, not from the           *)
(* deployment.                                                             *)
ContainerOf(d) == NameOf[deployment[d].model]
Managed(d) == deployment[d].port # NoPort

Runs(c) == loop \in {c, Nobody}
At(c, label) == pc[c] = label
Go(c, label) == pc' = [pc EXCEPT ![c] = label]
Keeps(c) == loop' = c
Yields == loop' = Nobody
SetJob(c, j) == job' = [job EXCEPT ![c] = j]

(* Wrong variant: a lock that does not exclude anybody.                    *)
HoldsShared(c, lock) == lock # <<>>

Holds(c, lock) == lock # <<>> /\ Head(lock) = c

(* Wrong variants: the scan starts below the first port; every start takes *)
(* the first port.                                                         *)
FreePortsOffByOne == {p \in 0 .. MaxPort : p \notin reserved /\ ~Listening(p)}
FreePortsFixed == Ports

FreePorts == {p \in Ports : p \notin reserved /\ ~Listening(p)}

(* Wrong variant: the status is remembered from routing time.              *)
StatusOfStale(d) == IF d = NoDep THEN "absent" ELSE "pending"

(* The status of a route's deployment; a route may have none.              *)
StatusOf(d) == IF d = NoDep THEN "absent" ELSE deployment[d].status

(* A record deployed for m is saved as READY on port p.                    *)
ReadyRecord(m, p, permanent) ==
  [status |-> "ready", model |-> m, permanent |-> permanent, port |-> p]

-----------------------------------------------------------------------------
Init ==
  /\ registered = InitialModels
  /\ deployment = [d \in Deps |-> IF d \in DOMAIN InitialPending
                                  THEN PendingDeployment(InitialPending[d], FALSE)
                                  ELSE AbsentDeployment]
  /\ lifecycle = [d \in Deps |-> NoLifecycle]
  /\ allocated = [d \in Deps |-> 0]
  /\ active = [d \in Deps |-> 0]
  /\ container = [n \in Names |-> NoContainer]
  /\ reserved = {}
  /\ modelLock = [m \in Models |-> <<>>]
  /\ bootLock = <<>>
  /\ loop = Nobody
  /\ pc = [c \in Coroutines |-> IF c = Prewarm THEN "start" ELSE "idle"]
  /\ job = [c \in Coroutines |-> NoJob]
  /\ pending = PrewarmCaps
  /\ known = <<>>
  /\ snapshot = [o \in Operators |-> NoSnapshot]
  /\ restarts = 0
  /\ ghosts = {}

-----------------------------------------------------------------------------
(* ChatService.chat: receiving and routing a request.                      *)

(* Requests name a model by its repository; by id they find one of the    *)
(* same records.                                                           *)
Named(name) == {m \in Models : IsRegistered(m) /\ NameOf[m] = name}

(* A model record nobody uses yet, for an onboarding of this repository.   *)
Unused(name) ==
  {m \in Models : NameOf[m] = name /\ ~IsRegistered(m) /\ \A c \in Coroutines : job[c].model # m}

(* The requested model is looked up; a repository the catalogue does not   *)
(* have is downloaded first.  (Without the password, or for an unsuitable  *)
(* repository, the request is refused and nothing changes.)                *)
Receive(c) ==
  /\ At(c, "idle") /\ loop = Nobody
  /\ pc[Prewarm] # "start"
  /\ \E q \in Queries :
       \/ /\ q.name = NoName
          /\ Go(c, "route") /\ Keeps(c)
          /\ SetJob(c, [NoJob EXCEPT !.cap = q.cap])
       \/ /\ q.name # NoName
          /\ \E m \in Named(q.name) :
               /\ \A n \in Named(q.name) : Position(m) <= Position(n)
               /\ Go(c, "route") /\ Keeps(c)
               /\ SetJob(c, [NoJob EXCEPT !.cap = q.cap, !.model = m])
       \/ /\ q.name # NoName /\ Named(q.name) = {}
          /\ \E m \in Unused(q.name) :
               /\ Go(c, "download") /\ Yields
               /\ SetJob(c, [NoJob EXCEPT !.cap = q.cap, !.model = m])
  /\ UNCHANGED <<registryVars, allocated, active, container, reserved, modelLock, bootLock, taskVars>>

(* onboard_model: the weights are there; the model is registered with a    *)
(* PENDING deployment.  chat() goes on to route, pre-warm to its own       *)
(* deployment of the model.                                                *)
Onboard(c) ==
  /\ At(c, "download") /\ loop = Nobody
  /\ registered' = Append(registered, job[c].model)
  /\ \E d \in Deps : IsNewDeployment(d) /\ SaveDeployment(d, PendingDeployment(job[c].model, FALSE))
  /\ known' = IF c = Prewarm THEN Append(known, job[c].model) ELSE known
  /\ Go(c, IF c = Prewarm THEN "create" ELSE "route") /\ Keeps(c)
  /\ UNCHANGED <<lifecycle, allocated, active, container, reserved, modelLock, bootLock, job,
                 pending, snapshot, restarts, ghosts>>

(* The repository is incompatible or the download fails.                   *)
OnboardFails(c) ==
  /\ "onboard" \in Faults
  /\ At(c, "download") /\ loop = Nobody
  /\ Go(c, IF c = Prewarm THEN "next" ELSE "idle") /\ Yields
  /\ SetJob(c, NoJob)
  /\ UNCHANGED <<registryVars, allocated, active, container, reserved, modelLock, bootLock, taskVars>>

(* route() and the immediate reservation of the VRAM.  A cold start of a   *)
(* model without a deployment has no deployment_id, so nothing is reserved *)
(* for it.                                                                 *)
Route(c) ==
  /\ At(c, "route") /\ loop = c
  /\ \E r \in Routes(job[c].cap, job[c].model) :
       /\ SetJob(c, [job[c] EXCEPT !.model = r.model, !.dep = r.dep, !.victim = r.victim])
       /\ IF r.cold /\ r.dep # NoDep THEN Allocate(r.dep, MemOf[r.model]) ELSE UNCHANGED allocated
       /\ Go(c, IF r.victim # NoDep THEN "evict" ELSE IF r.cold THEN "lock" ELSE "touch")
  /\ Keeps(c)
  /\ UNCHANGED <<registryVars, active, container, reserved, modelLock, bootLock, taskVars>>

(* RoutingError: the request is answered with an error.                    *)
RouteFails(c) ==
  /\ At(c, "route") /\ loop = c
  /\ Routes(job[c].cap, job[c].model) = {}
  /\ Go(c, "idle") /\ Yields /\ SetJob(c, NoJob)
  /\ UNCHANGED <<registryVars, allocated, active, container, reserved, modelLock, bootLock, taskVars>>

(* unload_deployment stops the victim's container, if the service started  *)
(* one, and chat() releases its VRAM.                                      *)
Evict(c) ==
  LET v == job[c].victim IN
  /\ At(c, "evict") /\ loop = c
  /\ container' = IF Managed(v) THEN [container EXCEPT ![ContainerOf(v)] = NoContainer] ELSE container
  /\ SetStatus(v, "unloaded")
  /\ Release(v)
  /\ Go(c, "lock") /\ Keeps(c)
  /\ UNCHANGED <<registered, lifecycle, active, reserved, modelLock, bootLock, job, taskVars>>

(* The Docker daemon refuses: the exception leaves chat().                 *)
EvictFails(c) ==
  /\ "remove" \in Faults
  /\ At(c, "evict") /\ loop = c
  /\ Managed(job[c].victim)
  /\ Go(c, "idle") /\ Yields /\ SetJob(c, NoJob)
  /\ UNCHANGED <<registryVars, allocated, active, container, reserved, modelLock, bootLock, taskVars>>

-----------------------------------------------------------------------------
(* The cold start, shared by chat() and prewarm_capabilities().            *)

(* The per-model lock is taken, or waited for.                             *)
LockModel(c) ==
  LET m == job[c].model IN
  /\ At(c, "lock") /\ loop = c
  /\ modelLock' = [modelLock EXCEPT ![m] = Append(@, c)]
  /\ Go(c, "recheck")
  /\ IF modelLock[m] = <<>> THEN Keeps(c) ELSE Yields
  /\ UNCHANGED <<registryVars, allocated, active, container, reserved, bootLock, job, taskVars>>

UnlockModel(c) == modelLock' = [modelLock EXCEPT ![job[c].model] = Tail(@)]

(* Wrong variant: any ready deployment will do.                            *)
FallbackAnyModel(table, cap) ==
  LET usable == {d \in Deps : table[d].status = "ready"}
  IN  {d \in usable : \A e \in usable : active[d] <= active[e]}

(* _find_fallback_deployment: the first of the least loaded ready          *)
(* deployments whose model has the capability.                             *)
Fallback(table, cap) ==
  LET usable == {d \in Deps : table[d].status = "ready" /\ table[d].model \in Capable(cap)}
      before(d, e) == active[d] < active[e] \/ (active[d] = active[e] /\ d <= e)
  IN  {d \in usable : \A e \in usable : before(d, e)}

(* Continue on a fallback deployment, or answer with RoutingError.  The    *)
(* model of the route stays the one that could not be started.             *)
FallBack(c, table) ==
  \/ \E f \in Fallback(table, job[c].cap) :
       /\ SetJob(c, [job[c] EXCEPT !.dep = f])
       /\ Go(c, "touch") /\ Keeps(c)
  \/ /\ Fallback(table, job[c].cap) = {}
     /\ SetJob(c, NoJob)
     /\ Go(c, "idle") /\ Yields

WaitForBoot(c) ==
  /\ bootLock' = Append(bootLock, c)
  /\ Go(c, "boot")
  /\ IF bootLock = <<>> THEN Keeps(c) ELSE Yields

(* Under the model lock the deployment is read again: another request may  *)
(* have started it, or may have failed to.                                 *)
Recheck(c) ==
  LET d == job[c].dep IN
  /\ c \in Clients
  /\ At(c, "recheck") /\ Runs(c) /\ Holds(c, modelLock[job[c].model])
  /\ \/ /\ StatusOf(d) = "ready"
        /\ Go(c, "touch") /\ Keeps(c)
        /\ UnlockModel(c)
        /\ UNCHANGED <<bootLock, job>>
     \/ /\ StatusOf(d) = "failed"
        /\ FallBack(c, deployment)
        /\ UnlockModel(c)
        /\ UNCHANGED bootLock
     \/ /\ StatusOf(d) \notin {"ready", "failed"}
        /\ WaitForBoot(c)
        /\ UNCHANGED <<modelLock, job>>
  /\ UNCHANGED <<registryVars, allocated, active, container, reserved, taskVars>>

PrewarmLocked(c) ==
  /\ c = Prewarm
  /\ At(c, "recheck") /\ Runs(c) /\ Holds(c, modelLock[job[c].model])
  /\ WaitForBoot(c)
  /\ UNCHANGED <<registryVars, allocated, active, container, reserved, modelLock, job, taskVars>>

(* deploy_vllm_container under the boot lock: nothing is left to do for a  *)
(* deployment that is READY by now ...                                     *)
AlreadyBooted(c) ==
  /\ bootLock' = Tail(bootLock)
  /\ UnlockModel(c)
  /\ SetJob(c, IF c = Prewarm THEN NoJob ELSE job[c])
  /\ Go(c, IF c = Prewarm THEN "next" ELSE "touch") /\ Keeps(c)
  /\ UNCHANGED reserved

(* ... for any other the smallest port that is neither reserved nor bound  *)
(* is reserved, and a thread goes to talk to Docker.                       *)
ReservePort(c) ==
  /\ \E p \in FreePorts :
       /\ \A q \in FreePorts : p <= q
       /\ reserved' = reserved \cup {p}
       /\ SetJob(c, [job[c] EXCEPT !.port = p])
  /\ Go(c, "docker") /\ Yields
  /\ UNCHANGED <<modelLock, bootLock>>

Boot(c) ==
  /\ At(c, "boot") /\ Runs(c) /\ Holds(c, bootLock)
  /\ IF StatusOf(job[c].dep) = "ready" THEN AlreadyBooted(c) ELSE ReservePort(c)
  /\ UNCHANGED <<registryVars, allocated, active, container, taskVars>>

(* No port is left: binding past the last port raises OverflowError.       *)
BootNoPort(c) ==
  /\ At(c, "boot") /\ Runs(c) /\ Holds(c, bootLock)
  /\ StatusOf(job[c].dep) # "ready"
  /\ FreePorts = {}
  /\ Go(c, "failed") /\ Keeps(c)
  /\ UNCHANGED <<registryVars, allocated, active, container, reserved, modelLock, bootLock, job, taskVars>>

(* run_docker: a running container of that name is taken over on the port  *)
(* it already has, otherwise a new one is started.  _reserved_ports is     *)
(* corrected when the coroutine resumes; only the holder of the boot lock  *)
(* reads it, so that is part of this step.                                 *)
RunDocker(c) ==
  LET n == NameOf[job[c].model]
      port == IF Running(n) THEN container[n].port ELSE job[c].port
  IN
  /\ At(c, "docker")
  /\ container' = IF Running(n) THEN container
                  ELSE [container EXCEPT ![n] = [status |-> "starting", port |-> port]]
  /\ reserved' = (reserved \ {job[c].port}) \cup {port}
  /\ SetJob(c, [job[c] EXCEPT !.port = port])
  /\ Go(c, "poll")
  /\ UNCHANGED <<registryVars, allocated, active, modelLock, bootLock, loop, taskVars>>

RunDockerFails(c) ==
  /\ "run" \in Faults
  /\ At(c, "docker")
  /\ Go(c, "failed")
  /\ UNCHANGED <<registryVars, allocated, active, container, reserved, modelLock, bootLock, loop, job, taskVars>>

(* The health poll is answered, by whatever listens on the port: the       *)
(* deployment is READY.  A route without a deployment gets a new one.      *)
Booted(c) ==
  /\ c \in Clients
  /\ At(c, "poll") /\ loop = Nobody
  /\ Listening(job[c].port)
  /\ \E d \in Deps :
       /\ IF job[c].dep = NoDep THEN IsNewDeployment(d) ELSE d = job[c].dep
       /\ SaveDeployment(d, ReadyRecord(job[c].model, job[c].port, Permanent(d)))
       /\ SetJob(c, [job[c] EXCEPT !.dep = d])
  /\ bootLock' = Tail(bootLock)
  /\ UnlockModel(c)
  /\ Go(c, "touch") /\ Keeps(c)
  /\ UNCHANGED <<registered, lifecycle, allocated, active, container, reserved, taskVars>>

(* 360 polls without an answer: the container is removed in a thread.      *)
PollTimeout(c) ==
  /\ At(c, "poll") /\ loop = Nobody
  /\ ~Listening(job[c].port)
  /\ Go(c, "cleanup")
  /\ UNCHANGED <<registryVars, allocated, active, container, reserved, modelLock, bootLock, loop, job, taskVars>>

Cleanup(c) ==
  /\ At(c, "cleanup")
  /\ \/ container' = [container EXCEPT ![NameOf[job[c].model]] = NoContainer]
     \/ "cleanup" \in Faults /\ UNCHANGED container
  /\ Go(c, "failed")
  /\ UNCHANGED <<registryVars, allocated, active, reserved, modelLock, bootLock, loop, job, taskVars>>

(* Wrong variants: the VRAM stays reserved; the boot lock stays held.      *)
ColdStartFailsKeepingVram(c) ==
  LET d == job[c].dep IN
  /\ c \in Clients
  /\ At(c, "failed") /\ Runs(c)
  /\ reserved' = reserved \ {job[c].port}
  /\ bootLock' = Tail(bootLock)
  /\ UnlockModel(c)
  /\ IF d = NoDep THEN UNCHANGED deployment ELSE SetStatus(d, "failed")
  /\ FallBack(c, deployment')
  /\ UNCHANGED <<registered, lifecycle, allocated, active, container, taskVars>>

ColdStartFailsKeepingLock(c) ==
  LET d == job[c].dep IN
  /\ c \in Clients
  /\ At(c, "failed") /\ Runs(c)
  /\ reserved' = reserved \ {job[c].port}
  /\ UnlockModel(c)
  /\ IF d = NoDep THEN UNCHANGED <<allocated, deployment>> ELSE Release(d) /\ SetStatus(d, "failed")
  /\ FallBack(c, deployment')
  /\ UNCHANGED <<registered, lifecycle, active, container, bootLock, taskVars>>

(* The exception leaves deploy_vllm_container: its port is free again.     *)
(* chat() releases the VRAM, marks the deployment FAILED and falls back.   *)
ColdStartFails(c) ==
  LET d == job[c].dep IN
  /\ c \in Clients
  /\ At(c, "failed") /\ Runs(c)
  /\ reserved' = reserved \ {job[c].port}
  /\ bootLock' = Tail(bootLock)
  /\ UnlockModel(c)
  /\ IF d = NoDep THEN UNCHANGED <<allocated, deployment>> ELSE Release(d) /\ SetStatus(d, "failed")
  /\ FallBack(c, deployment')
  /\ UNCHANGED <<registered, lifecycle, active, container, taskVars>>

-----------------------------------------------------------------------------
(* ChatService.chat: serving the request.                                  *)

(* The idle clock is reset and the request is counted.                     *)
Begin(c) ==
  LET d == job[c].dep IN
  /\ At(c, "touch") /\ loop = c
  /\ lifecycle' = [lifecycle EXCEPT ![d] = IF @.state = "NONE" THEN Initialize ELSE Touch(@)]
  /\ Increment(d)
  /\ SetJob(c, [NoJob EXCEPT !.cap = job[c].cap, !.model = job[c].model, !.dep = d])
  /\ Go(c, "generate") /\ Yields
  /\ UNCHANGED <<registered, deployment, allocated, container, reserved, modelLock, bootLock, taskVars>>

(* Wrong variant: a failed call is not counted off.                        *)
FinishWithoutFinally(c) ==
  /\ At(c, "generate") /\ loop = Nobody
  /\ Decrement(job[c].dep) \/ UNCHANGED active
  /\ Go(c, "idle") /\ SetJob(c, NoJob)
  /\ UNCHANGED <<registryVars, allocated, container, reserved, modelLock, bootLock, loop, taskVars>>

(* The engine answers, or the call fails: the count is taken back.         *)
Finish(c) ==
  /\ At(c, "generate") /\ loop = Nobody
  /\ Decrement(job[c].dep)
  /\ Go(c, "idle") /\ SetJob(c, NoJob)
  /\ UNCHANGED <<registryVars, allocated, container, reserved, modelLock, bootLock, loop, taskVars>>

-----------------------------------------------------------------------------
(* ChatService.prewarm_capabilities.                                       *)

(* Wrong variant: only the lifecycle records are deleted.                  *)
PrewarmStartKeepingRows ==
  /\ At(Prewarm, "start") /\ loop = Nobody
  /\ known' = registered
  /\ lifecycle' = [d \in Deps |-> NoLifecycle]
  /\ ghosts' = {}
  /\ Go(Prewarm, "next") /\ Keeps(Prewarm)
  /\ UNCHANGED <<registered, deployment, allocated, active, container, reserved, modelLock, bootLock, job,
                 pending, snapshot, restarts>>

(* The list of models is read and, with a SQL registry, the deployments    *)
(* and lifecycle records of earlier runs are deleted in one transaction.   *)
(* If that fails it is logged, and the task goes on with all of them.      *)
PrewarmStart ==
  /\ At(Prewarm, "start") /\ loop = Nobody
  /\ known' = registered
  /\ \/ /\ WipeOnStart
        /\ deployment' = [d \in Deps |-> AbsentDeployment]
        /\ lifecycle' = [d \in Deps |-> NoLifecycle]
        /\ ghosts' = {}
     \/ /\ ~WipeOnStart \/ "wipe" \in Faults
        /\ UNCHANGED <<deployment, lifecycle, ghosts>>
  /\ Go(Prewarm, "next") /\ Keeps(Prewarm)
  /\ UNCHANGED <<registered, allocated, active, container, reserved, modelLock, bootLock, job,
                 pending, snapshot, restarts>>

(* The models of the list that have the capability, best first: the        *)
(* broadest, the earliest of equals.                                       *)
BestKnown(cap) ==
  LET eligible == {i \in DOMAIN known : cap \in CapsOf[known[i]]}
      better(i, j) == \/ Breadth(known[i]) > Breadth(known[j])
                      \/ Breadth(known[i]) = Breadth(known[j]) /\ i <= j
  IN  {known[i] : i \in {k \in eligible : \A j \in eligible : better(k, j)}}

(* The next capability: its model, the default repository to onboard, or   *)
(* nothing that can be done about it.                                      *)
PrewarmPick ==
  LET cap == Head(pending)
      default == DefaultOf[cap]
  IN
  /\ At(Prewarm, "next") /\ Runs(Prewarm) /\ pending # <<>>
  /\ pending' = Tail(pending)
  /\ \/ \E m \in BestKnown(cap) :
          /\ SetJob(Prewarm, [NoJob EXCEPT !.cap = cap, !.model = m])
          /\ Go(Prewarm, "create") /\ Keeps(Prewarm)
     \/ /\ BestKnown(cap) = {} /\ default # NoName
        /\ \E m \in Unused(default) :
             /\ SetJob(Prewarm, [NoJob EXCEPT !.cap = cap, !.model = m])
             /\ Go(Prewarm, "download") /\ Yields
     \/ /\ BestKnown(cap) = {} /\ default = NoName
        /\ Keeps(Prewarm)
        /\ UNCHANGED <<job, pc>>
  /\ UNCHANGED <<registryVars, allocated, active, container, reserved, modelLock, bootLock,
                 known, snapshot, restarts, ghosts>>

PrewarmEnd ==
  /\ At(Prewarm, "next") /\ Runs(Prewarm) /\ pending = <<>>
  /\ Go(Prewarm, "done") /\ Yields
  /\ UNCHANGED <<registryVars, allocated, active, container, reserved, modelLock, bootLock, job, taskVars>>

(* A permanent PENDING deployment with its VRAM and its lifecycle record.  *)
PrewarmCreate ==
  /\ At(Prewarm, "create") /\ loop = Prewarm
  /\ \E d \in Deps :
       /\ IsNewDeployment(d)
       /\ SaveDeployment(d, PendingDeployment(job[Prewarm].model, TRUE))
       /\ Allocate(d, MemOf[job[Prewarm].model])
       /\ lifecycle' = [lifecycle EXCEPT ![d] = Initialize]
       /\ SetJob(Prewarm, [job[Prewarm] EXCEPT !.dep = d])
  /\ Go(Prewarm, "lock") /\ Keeps(Prewarm)
  /\ UNCHANGED <<registered, active, container, reserved, modelLock, bootLock, taskVars>>

PrewarmBooted ==
  LET d == job[Prewarm].dep IN
  /\ At(Prewarm, "poll") /\ loop = Nobody
  /\ Listening(job[Prewarm].port)
  /\ SaveDeployment(d, ReadyRecord(job[Prewarm].model, job[Prewarm].port, TRUE))
  /\ bootLock' = Tail(bootLock)
  /\ UnlockModel(Prewarm)
  /\ SetJob(Prewarm, NoJob)
  /\ Go(Prewarm, "next") /\ Keeps(Prewarm)
  /\ UNCHANGED <<registered, lifecycle, allocated, active, container, reserved, taskVars>>

(* Wrong variant: the failed deployment stays PENDING.                     *)
PrewarmFailsSilently ==
  LET d == job[Prewarm].dep IN
  /\ At(Prewarm, "failed") /\ Runs(Prewarm)
  /\ reserved' = reserved \ {job[Prewarm].port}
  /\ bootLock' = Tail(bootLock)
  /\ UnlockModel(Prewarm)
  /\ Release(d)
  /\ SetJob(Prewarm, NoJob)
  /\ Go(Prewarm, "next") /\ Keeps(Prewarm)
  /\ UNCHANGED <<registryVars, active, container, taskVars>>

(* The permanent deployment is marked FAILED, its VRAM released, and the   *)
(* next capability follows.                                                *)
PrewarmFails ==
  LET d == job[Prewarm].dep IN
  /\ At(Prewarm, "failed") /\ Runs(Prewarm)
  /\ reserved' = reserved \ {job[Prewarm].port}
  /\ bootLock' = Tail(bootLock)
  /\ UnlockModel(Prewarm)
  /\ SetStatus(d, "failed")
  /\ Release(d)
  /\ SetJob(Prewarm, NoJob)
  /\ Go(Prewarm, "next") /\ Keeps(Prewarm)
  /\ UNCHANGED <<registered, lifecycle, active, container, taskVars>>

-----------------------------------------------------------------------------
(* run_lifecycle_loop: one tick over all deployments, without an await     *)
(* that suspends.  An exception while unloading deployment stop ends the   *)
(* tick there; its lifecycle record has been saved already.                *)

(* Wrong variant: permanent deployments age as well.                       *)
DueAll(d) == Ready(d) /\ lifecycle[d].state # "NONE"

Due(d) == Ready(d) /\ ~Permanent(d) /\ lifecycle[d].state # "NONE"
Advanced(d) == Advance(lifecycle[d], active[d])
Expires(d) == Due(d) /\ Advanced(d).state = "COLD"

TickUpTo(stop) ==
  LET Unloads(d) == Expires(d) /\ d < stop
      Removed(n) == \E d \in Deps : Unloads(d) /\ Managed(d) /\ ContainerOf(d) = n
  IN
  /\ lifecycle' = [d \in Deps |-> IF Due(d) /\ d <= stop THEN Advanced(d) ELSE lifecycle[d]]
  /\ deployment' = [d \in Deps |-> IF Unloads(d) THEN [deployment[d] EXCEPT !.status = "unloaded"]
                                   ELSE deployment[d]]
  /\ allocated' = [d \in Deps |-> IF Unloads(d) THEN 0 ELSE allocated[d]]
  /\ container' = [n \in Names |-> IF Removed(n) THEN NoContainer ELSE container[n]]

Tick ==
  /\ loop = Nobody
  /\ \/ TickUpTo(MaxDeps + 1)
     \/ /\ "remove" \in Faults
        /\ \E d \in Deps : Expires(d) /\ Managed(d) /\ TickUpTo(d)
  /\ UNCHANGED <<registered, active, reserved, coroutineVars, taskVars>>

-----------------------------------------------------------------------------
(* The engines.                                                            *)

(* The engine binds its port and becomes healthy; it exits if the port is  *)
(* taken (all containers share the host's network).                        *)
EngineStarts(n) ==
  /\ container[n].status = "starting"
  /\ container' = [container EXCEPT ![n] = IF Listening(@.port) THEN NoContainer
                                           ELSE [@ EXCEPT !.status = "healthy"]]
  /\ UNCHANGED <<registryVars, allocated, active, reserved, coroutineVars, taskVars>>

EngineCrashes(n) ==
  /\ "crash" \in Faults
  /\ Running(n)
  /\ container' = [container EXCEPT ![n] = NoContainer]
  /\ UNCHANGED <<registryVars, allocated, active, reserved, coroutineVars, taskVars>>

-----------------------------------------------------------------------------
(* ModelManagementService.deploy_model and unload_model, on threads.       *)

OperatorDeploy(o) ==
  /\ snapshot[o] = NoSnapshot /\ pc[Prewarm] # "start"
  /\ \E m \in Models, d \in Deps :
       /\ IsRegistered(m) /\ IsNewDeployment(d)
       /\ SaveDeployment(d, ReadyRecord(m, NoPort, FALSE))
       /\ lifecycle' = [lifecycle EXCEPT ![d] = Initialize]
  /\ UNCHANGED <<registered, allocated, active, container, reserved, coroutineVars, taskVars>>

(* unload_model reads the record ...                                       *)
OperatorReads(o) ==
  /\ snapshot[o] = NoSnapshot /\ pc[Prewarm] # "start"
  /\ \E d \in Deps :
       /\ Exists(d)
       /\ snapshot' = [snapshot EXCEPT ![o] = [dep |-> d, record |-> deployment[d]]]
  /\ UNCHANGED <<registryVars, allocated, active, container, reserved, coroutineVars,
                 pending, known, restarts, ghosts>>

(* ... and writes all of it back as UNLOADED.  The vLLM backend's unload   *)
(* does nothing, and no VRAM is released.                                  *)
OperatorUnloads(o) ==
  LET s == snapshot[o] IN
  /\ s # NoSnapshot
  /\ SaveDeployment(s.dep, [s.record EXCEPT !.status = "unloaded"])
  /\ snapshot' = [snapshot EXCEPT ![o] = NoSnapshot]
  /\ UNCHANGED <<registered, lifecycle, allocated, active, container, reserved, coroutineVars,
                 pending, known, restarts, ghosts>>

-----------------------------------------------------------------------------
(* The process dies and is started again: only the database and the        *)
(* containers survive.                                                     *)
Restart ==
  /\ restarts < MaxRestarts
  /\ restarts' = restarts + 1
  /\ allocated' = [d \in Deps |-> 0]
  /\ active' = [d \in Deps |-> 0]
  /\ reserved' = {}
  /\ modelLock' = [m \in Models |-> <<>>]
  /\ bootLock' = <<>>
  /\ loop' = Nobody
  /\ pc' = [c \in Coroutines |-> IF c = Prewarm THEN "start" ELSE "idle"]
  /\ job' = [c \in Coroutines |-> NoJob]
  /\ pending' = PrewarmCaps
  /\ known' = <<>>
  /\ snapshot' = [o \in Operators |-> NoSnapshot]
  /\ ghosts' = {d \in Deps : Exists(d)}
  /\ UNCHANGED <<registryVars, container>>

-----------------------------------------------------------------------------
ColdStartStep(c) ==
  \/ LockModel(c) \/ Recheck(c) \/ PrewarmLocked(c) \/ Boot(c) \/ BootNoPort(c)
  \/ RunDocker(c) \/ RunDockerFails(c) \/ Booted(c) \/ PollTimeout(c) \/ Cleanup(c)
  \/ ColdStartFails(c)

(* Every step of a request that has been received.                         *)
RequestStep(c) ==
  \/ Onboard(c) \/ OnboardFails(c)
  \/ Route(c) \/ RouteFails(c) \/ Evict(c) \/ EvictFails(c)
  \/ ColdStartStep(c)
  \/ Begin(c) \/ Finish(c)

PrewarmStep ==
  \/ PrewarmStart \/ PrewarmPick \/ PrewarmEnd \/ PrewarmCreate
  \/ PrewarmBooted \/ PrewarmFails
  \/ Onboard(Prewarm) \/ OnboardFails(Prewarm)
  \/ ColdStartStep(Prewarm)

ServiceStep == PrewarmStep \/ \E c \in Clients : Receive(c) \/ RequestStep(c)

EnvironmentStep ==
  \/ \E n \in Names : EngineStarts(n) \/ EngineCrashes(n)
  \/ \E o \in Operators : OperatorDeploy(o) \/ OperatorReads(o) \/ OperatorUnloads(o)
  \/ Restart

Next == ServiceStep \/ Tick \/ EnvironmentStep

Spec == Init /\ [][Next]_vars

(* The event loop runs every ready coroutine in turn and asyncio locks are *)
(* first come first served; Docker calls and engine calls return or time   *)
(* out; the polls are bounded.  A coroutine's step may be interrupted      *)
(* again and again by others that hold the loop, hence strong fairness.    *)
(* Nothing forces clients to send requests or engines to become healthy.   *)
Fairness ==
  /\ \A c \in Clients : SF_vars(RequestStep(c))
  /\ SF_vars(PrewarmStep)
  /\ SF_vars(Tick)

FairSpec == Spec /\ Fairness
=============================================================================
