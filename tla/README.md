# Foundation AI Platform: a verification project

TLA+ models of the platform (`llm_platform/`) and of its Mac serving plane
(`src/mac-serving/`), checked with TLC and, for every safety property, proved with
TLAPS. Paths below are relative to `src/llm_platform/`
unless they start with `src/`.

## 1. The system

The platform is one Python process: a FastAPI gateway on an asyncio event loop,
a database, one GPU, and a Docker daemon that runs at most one vLLM engine per
model. A request asks for a *capability*, optionally for a model; the router
picks a deployment, starts one if it must (minutes of waiting under two locks),
possibly evicting an idle one, and the request is generated on it. A background worker
unloads what has been idle, a startup task pre-warms a model per capability.
Models get into the catalogue by onboarding, by hand, and by a sync of the SSD
cache at every start. On a host without Docker an in-process backend holds the
weights. `mac-serving` is a second program: a control plane around `llama-server`.

| component | state | operations | talks to | what must be right |
|---|---|---|---|---|
| Chat service `services/chat.py` | `_cold_start_locks`, `_global_boot_lock`, `_reserved_ports`, a coroutine per request | `chat`, `_find_fallback_deployment`, `unload_deployment`, `onboard_model`, `deploy_vllm_container`, `prewarm_capabilities` | everything below | one boot at a time; no repeated cold starts; failures give back ports, VRAM and locks; a request ends on a ready deployment that has its capability |
| Router `routing/router.py` | none | `route` | registry rows, ledger, counters | busy, booting and stopped deployments are told apart; eviction only when it helps |
| GPU tracker `services/gpu_tracker.py` | `_allocated` | `allocate`, `release`, `can_fit`, `find_evictable` | registry | no leaked reservation; victims idle, not permanent, large enough |
| Concurrency tracker `services/concurrency.py` | `_active` | `increment`, `decrement`, `get_active_requests` | chat, router, worker | counter = requests being generated |
| Lifecycle manager and worker `lifecycle/manager.py`, `services/lifecycle_worker.py` | lifecycle rows | `initialize`, `touch`, `reconcile`; a tick each 10 s | registry, chat, ledger | nothing busy is unloaded, everything idle is |
| Registry and repositories `registry/service.py`, `database/` | four tables (SQL or memory) | `register_model`, `update_deployment`, `upsert_lifecycle`, `list_*`, `get_*`, telemetry `save`, `list`, `snapshot` | database | rows of an earlier run are not used, unless their deletion failed; records survive |
| Model management `services/model_management.py` | none | `register_model`, `deploy_model`, `unload_model`, on threads | registry, model server | unloading from a stale record harms nobody |
| Hugging Face server `serving/huggingface_model_server.py`, `serving/placement.py` | `_loaded_deployments` under a lock | `deploy`, `unload`, `generate` | management, chat | registry and loaded weights agree |
| Platform builder `bootstrap.py` | the model cache on the SSD | build, sync of cache and catalogue, VRAM estimate | registry | no model twice, none forgotten, none charged too little |
| Telemetry `telemetry/`, `services/health.py` | a row per request id | `emit`, `snapshot`, `recent_events` | chat, gateway | answered requests are recorded; figures were true |
| Gateway `gateway/` | background tasks | routes, `lifespan`, metric views | chat, management | |
| Docker and engines (external) | containers by name, ports of the host, files they fetch | run, remove, health | chat | an endpoint reaches its own engine |
| Remote and fake model servers `serving/` | none | `generate` | | |
| Compatibility, plugins, configuration | none | pure functions | | agree with their definition |
| Mac control plane `src/mac-serving/.../backend.py`, `app.py` | one `llama-server` process, a connection pool, a gauge | start, readiness loop, stop, proxy, health | `llama-server` | no lost process, no lost connection, starts and stops end |
| Mac tools, web interface, scripts, migrations | none | clients and tools | HTTP | |

What is hard about it, and invisible to the repository's unit tests: a route is
chosen in one instant and used minutes later; the locks are per *model*, the
counters and clocks per *deployment*, the containers per model *name*;
reservations are made before the deployment they are for exists; every await is
a place where the table changes; Docker can refuse any call; weights are
inserted before the row that names them and taken out before the row that says
so; the process can die in the middle of a download, of the sync or of a
shutdown, and containers, files and `llama-server` survive it. PROJECT.json
lists these hazards at their lines with the properties that watch them.

## 2. Modules

    Registry          LifecycleManager      ConcurrencyTracker
        |                   |                     |
    GpuTracker              |                     |
        |-------------- Router -------------------|
                            |
                      ServingCore            DeploymentLease (abstract)
                            |                     |
                    ServingProperties ------------+  (LeaseRefinement)
                    |       |       |
      MCServingCore |       |  ServingCoreProofs -- ServingTableProofs -- ServingResourceProofs
                    |       |       |                                        |
              LocalServing -+       |                                 FiniteInduction
                |       |           |                                  |          |
      MCLocalServing   LocalServingProofs                              |          |
                                                                       |          |
    CatalogueSync -- MCCatalogueSync, CatalogueSyncProofs -------------+          |
    Telemetry     -- MCTelemetry,     TelemetryProofs ----------------------------+
    MacServing    -- MCMacServing,    MacServingProofs

* **Registry**: the catalogue and the two tables. A deployment is a number: `list_deployments`
  orders by creation, so the n-th row created is deployment n. `port` stands for the
  metadata a started container leaves (`port`, `container_name`, `base_url`).
  Every repository call is one transaction, as in the code.
* **LifecycleManager**, **ConcurrencyTracker**, **GpuTracker**, **Router**: one operator or
  action per method. The router's `random.choice` and `random.sample` become *sets* of
  decisions, so TLC tries every choice. Ties in `find_evictable` (dictionary
  order) are left open too.
* **ServingCore**: the processes.
  * *Clients* and *Prewarm* are coroutines. `loop` names the coroutine that is
    between two awaits; nobody else on the loop moves until it reaches the next
    one that suspends. So `Route`, `Evict`, `LockModel`, `Recheck` run together when the
    locks are free, exactly as in asyncio, and interleave where the code awaits:
    a lock that is held, Docker (a thread), the health poll, the download,
    generation. `unload_deployment` calls Docker without a thread, so it blocks the loop.
  * An `asyncio.Lock` is the queue of the coroutines that asked for it; its
    head owns it. Locks are per model (`modelLock`) and global (`bootLock`).
  * `pc[c]` is the place in the code, `job[c]` the local variables:
    `route`, `evict`, `lock` (asking for the model lock), `recheck` (in its
    queue), `boot` (in the boot lock's queue), `docker`, `poll`, `cleanup`, `failed` (the
    except clauses), `touch` (lifecycle and counter), `generate`.
  * `Tick` is one turn of the worker: no await in it suspends, so it is one step; a
    Docker error cuts it short (`TickUpTo`).
  * `OperatorDeploy`, `OperatorReads`, `OperatorUnloads` are the synchronous management
    endpoints, which run on threads and interleave with everything, between
    their read and their write too.
  * `EngineStarts`, `EngineCrashes` and Docker's answers are external. `Restart` is
    the death of the process: tables and containers survive. `PrewarmStart` then deletes the old rows in one
    transaction or, with the fault `wipe`, logs that it could not and goes on with them. The history variable `ghosts` names the
    rows an earlier run has left; it is empty once they are deleted, and no action reads it.
* **DeploymentLease**: the promise, in 70 lines without locks, ports, containers or a GPU: a
  deployment is used only while ready, taken down only when unused, started only from a stopped
  state, never used after it failed.
* **ServingProperties**: the properties, and the statements of comments that do not hold.
* **LocalServing**: ServingCore composed with `HuggingFaceModelServer`, on a host without
  Docker. `loaded` is `_loaded_deployments`; `task[o]` is where an operator's thread is in
  `deploy_model` (weights loaded, row saved, lifecycle saved) or `unload_model` (row read, weights
  popped, row written), and each step can be the last one if the registry cannot write.
  `view[c]` is what a generation holds after its lookup. Its next-state relation takes
  ServingCore's own actions for onboarding, routing, the locks, cold starts (which fail at Docker), the
  worker and the pre-warm task, so operators and requests race over one table.
* **CatalogueSync**: the three ways into the catalogue over the cache on the SSD. `cache[n]` is the
  set of complete files of a repository; downloads, engines with the cache mounted and crashes
  leave any subset. The sync is a loop of `SyncSkips`, `SyncPicks`, `SyncSaves`, `SyncSavesRow`,
  `SyncEnds`, cut off by `SyncFails` or `Crash` between any two; `Estimate` is the arithmetic of
  `_read_model_vram_from_cache` with its rounding, its minimum and its guess from the name.
* **Telemetry**: `event` is the table, a row per request id with the place `list()` gives it, which
  differs between a dict and SQL. A reader takes the figures one query at a time from the
  table, at once from the dict, then lists a page by Python's slicing.
* **MacServing**: `plane` is where the lifespan of the control plane is, `engine` the processes it has
  ever spawned, which live in sessions of their own, and somebody else's (`Foreign`), which a plane without an engine of its own is
  meant to reach and one that manages its engine may find on the port; `request`, `peer`, `pool` and
  `inFlight` are the proxy, its HTTP client and its gauge.
* **MC** modules and their `.cfg` files are the instances, **Proofs** modules and **FiniteInduction** section 5.

Definitions whose comment says "Wrong variant" are what a plausible bug would
make of the definition after them. They are used by nothing: each is there to be put in the
place of the right definition, to see that the property notices.

## 3. What the runs check

In the serving core two models do most of the work: `big` has both capabilities and fills the GPU (2 GB),
`small` has one capability and needs 1 GB; `tiny` is a third, `again` a second record of `big`'s repository.
Where the pre-warm task has work to do the capabilities are `chat` and
`math`, two of the four it visits; elsewhere they are `coding` and `vision`, which it does not visit, so its pass ends at once.

| run | system | question |
|---|---|---|
| MCRouting | 3 clients, 3 stopped models for a GPU of 2 GB, starts and removals fail, engines crash | types; exact counters; busy is HOT; generation only on READY and capable deployments; one boot at a time and never of a ready deployment; unique ports; FAILED is for ever; evictions fit the ledger |
| MCOnboarding | no deployments, a repository outside the catalogue, downloads fail, engines crash | with duplicate records of one repository sharing a container, an endpoint reaches its own engine until a cold start fails on a port that is shared |
| MCRestart | pre-warm with a default repository, one restart at any point, after which the old rows may stay | pre-warm settles; permanent stays READY and reserved; no leaked reservation; the table behaves like leases |
| MCOperators | one operator thread, two clients | the boot rule survives stale unloads |
| MCLiveness | two clients, fair scheduling | every request is answered; a deployment that stays unused is unloaded |
| MCLocalServing | 2 operators, 2 clients, in-process backend, onboarding, failing saves, one restart after which the old rows may stay | READY rows have weights; a request that is served has weights unless an unload took them or its row is an old one; one unload wins; what was retired stays retired |
| MCCatalogueSync | 3 repositories, 2 clients, 2 crashes, failing saves and downloads | no name twice; nothing complete is forgotten; weights are covered |
| MCTelemetry | 2 requests, one reader, 3 saves, repeated ids, one restart, each provider | answered is recorded; figures were true, of one moment where one copy is read; the page fits the summary |
| MCMacServing | 3 starts, one unclean death, perhaps a stranger on the port, 3 requests for 2 connections, fair scheduling | no lost engine, no other start's engine, exact gauge and pool; starts, stops and requests end |

Violated statements, one per run, each a sentence of the repository that the code
does not keep (PROJECT.json `findings` quotes it):

* DocReservation: a model without a deployment is started without a reservation (`services/chat.py:119`).
* DocWorker: the worker removes the container two deployments share while one of them
  generates (`services/chat.py:304`): clocks are per deployment, containers per model.
* DocLarge: a download cut off by a crash is taken for a small model by the next sync (`bootstrap.py:287`).

### Read while modelling, without a run

Serving core:

* A request routed without a deployment repeats the cold start it waited for (`services/chat.py:145`, against
  138-139) and creates a second deployment for the same container.
* Through the PENDING sibling that onboarding leaves (`services/chat.py:391-400`) the worker can remove
  the container of a permanent deployment (304, against 599-600).
* `/models/unload` makes a FAILED deployment startable (`services/model_management.py:87`, against `services/chat.py:172`).
* A refused eviction leaks the reservation made before it (`services/chat.py:128` is outside the `try` at 168); the
  row then looks "booting" to the router until a request queues on it.
* The wipe at start (`services/chat.py:609`) also deletes the PENDING rows the sync has just
  made. On PostgreSQL it fails on the foreign key of the telemetry table (`database/models.py:67`) at every restart once
  telemetry is stored; SQLite does not enforce it. The failure is logged (619) and the start goes on, so requests are routed to READY
  rows whose engines are dead, which the wipe is there to prevent ("so router doesn't hit dead ports"). After a failed wipe a pre-warmed row is READY and permanent without a
  reservation, so the router counts its memory as free; one of a pre-warm that was cut off stays PENDING; in the in-process backend
  READY rows have no weights. `PermanentIsReserved`, `PrewarmSettles`, `ReadyIsLoaded` and `MissIsAnUnload` exempt exactly these
  rows (`ghosts`) and hold of all others, also beside them.
* `routing/router.py:6-7` promises the broadest idle model, line 132 chooses at random.
* After a restart a port that a surviving, still starting container was given can be handed out again
  (`PortsAreUnique` fails); a clean-up that Docker refuses does the same. An operator
  unloads a deployment under its requests (`ServingReady`) or leaves its reservation (`LedgerJustified`).
  The fault sets of the runs say where these properties hold.

* Two deployments of one model share a container and its port. If it dies while a cold start of one of them polls
  it and the other one is READY, the failing cold start gives the port back (`services/chat.py:560`), the next model is
  started on it, and requests to the READY deployment reach that model's engine (`EndpointsAreOwn` fails in the instance of
  MCOnboarding: three deployments, two ports, a crash). The proof attempt found it: `EndpointsKept` says, and
  `EndpointsStayOwn` proves, that nothing else leads there.

In-process backend:

* The worker and the router retire deployments through `chat.unload_deployment`, which only knows
  containers: weights of a retired deployment stay loaded (against `serving/README.md:56`).
* A deploy whose save fails leaves weights nobody can name; an unload whose save fails leaves a READY
  row a second unload cannot get at. `ReadyIsLoaded` names these cases (`stranded`).

Catalogue:

* `bootstrap.py:65` speaks of 20 % overhead; the code adds 2 GB, which is 20 % only up to the limit of 10 GB.
  `SyncedCoversWeights` states both bounds where they hold.
* `compatibility/inspector.py:51` takes `safetensors.total`, a parameter count, for bytes: onboarded models are charged
  about half of their 16-bit weights.
* EAGLE heads that vLLM fetches into the cache are registered as chat models at the next start.

Telemetry:

* The SQL summary never computes p95 and p99 (`database/repositories.py:335` returns 0). Its figures come from
  separate queries: it can count more speculative requests than requests.
* The memory provider keeps the old place of a repeated request id in the recent events, SQL moves it to the end.

Mac plane:

* A killed plane leaves `llama-server` behind, and the next plane serves from it (against
  `src/mac-serving/README.md:4-6`); both properties exempt it as `orphaned`.
* An exhausted connection pool is answered with 503 "inference backend unavailable", and `/healthz` says
  "down", while the engine is healthy (`app.py:186-187`, limits at 84-86).

### Bounds

Serving core and LocalServing:

* *Clients* 2 or 3: the races are pairwise (routed while another boots; waiting while another
  fails), the third makes a queue on a lock and a load for the power of two choices.
* *MaxDeps* 2 to 5 (3 in MCOnboarding, where two of the rows must share a container; 5 in MCRestart, where rows that a failed wipe
  leaves take up numbers): every initial row plus those that cold starts, onboarding, pre-warm and operators create.
  When the rows are used up the creating step is not enabled: such a request waits, an
  artefact of the bound. MCLiveness has one row per model, so nothing is created there.
* *MaxPort* 3: one port more than there are names, and small enough that ports run out (`BootNoPort`)
  when failures keep them. In MCOnboarding 2, so that a port that was given back is taken next; in MCLocalServing, where
  no container ever runs, 2.
* *WarmAfter* 1, *ColdAfter* 2, *IdleBound* 3 ticks for 300 s and 600 s of 10 s ticks: all states
  and the saturated clock occur; only comparisons with the thresholds matter.
* *TotalVram* 2: one big or two small models.
* *MaxRestarts* 1: the second start already finds everything a crash can leave.
* *Faults* names the outside failures of a run: `run` (Docker refuses to start), `remove`, `cleanup`
  (refuses to remove), `crash` (an engine exits), `onboard` (download or compatibility fails), `wipe` (the old rows cannot be deleted);
  *LocalFaults* `save` (the registry cannot write); *Faults* of MacServing: `exit`, `slow` (upstream calls time out), `taken` (a
  stranger's server has the port when the plane is first started).
* *Operators* 2 in MCLocalServing: the race is between two unloads of one row. Two thirds of a million states, a minute.

CatalogueSync: `small` is one file, `split` two files and an index of 14 GB in all, so that a part of it passes
the limit; `draft` is an EAGLE head. *MaxCrashes* 2: a crash in a download and one in the sync that follows.
*MaxRecords* 2 stops registrations by hand and by onboarding once there are two; the sync itself is not stopped, and goes beyond.

Telemetry: *MaxEmits* 3 saves over two ids give a repeated id and a new one during one summary; limits -1, 0, 1, 2
are each side of the length of the list. *MaxEmits* disables further requests, not readers.

MacServing: *MaxStarts* 3 (an orphan, a start that finds it, one after that), *MaxKills* 1, three requests for a pool of 2 so that
one waits. At the last start `Start` is disabled and the plane stays down, so the run does not check for deadlock;
MCCatalogueSync does not either, because when the records and crashes are used up nothing is left to do.

Clients, operators, requests and ids are interchangeable, so the safety runs use symmetry; the liveness runs and MCOnboarding,
whose property is a temporal implication, do not.

## 4. Fairness

Serving core: `RequestStep(c)`, `PrewarmStep` and `Tick` are strongly fair. The event loop runs ready
coroutines in turn, asyncio locks are first come first served, polls are bounded (360),
Docker and engine calls return or time out. A coroutine's step is disabled
whenever another one holds the loop, again and again, hence strong fairness.
Nothing is assumed of clients (they need not send anything), of engines
(they need not become healthy) or of operators.

Mac plane: `BackendStep` is weakly fair (the lifespan is one coroutine that nothing disables for good),
`StartupTimesOut` strongly: it is enabled in each round of the readiness loop and not in between, and the
deadline is fixed. `RequestStep(r)` is weakly fair: connecting is bounded by the client's pool and
connect timeouts, and `llama-server` bounds a generation by its context, so it answers and ends its
streams unless it exits, which the plane sees. This also assumes that a client reads its stream or closes the connection: one
that keeps it open and stops reading holds its place in the pool for as long as it likes. `Drained` is weakly fair: the
server leaves its lifespan once the open requests are through. No engine has to load, bind or exit, nobody has
to ask for a shutdown or to hurry it.

## 5. What is proved

Every safety invariant and every action property the passing runs check, and the refinement, are theorems for all values
of the constants that satisfy the named assumptions: positive sizes and bounds, ordered thresholds, finite sets of clients,
distinct markers, and that only a service with a SQL registry is restarted with its rows. Some need more, because the code
does; the hypothesis is then part of the theorem:

| theorem (property) | hypothesis | what the code does without it |
|---|---|---|
| NothingUnloadedInUse, FailedStaysFailed, PermanentStays, CoreImplementsLease, PermanentHoldsMemory, PrewarmLeavesNonePending, NothingLeaks | no operators: `Operators = {}` | `/models/unload` writes UNLOADED over any row, also under a request, over FAILED and permanent ones, and leaves the reservation; a row it changes back can be started again |
| NothingLeaks (`LedgerJustified`) | the daemon removes what it is asked to: `"remove" \notin Faults` | a refused eviction leaves the reservation made before it (`services/chat.py:128`) |
| OneEnginePerPort (`PortsAreUnique`), EndpointsStayOwn (`EndpointsKept`) | one life of the process: `MaxRestarts = 0`; failed containers can be removed: `"cleanup" \notin Faults` | `_reserved_ports` is forgotten while containers run on; the port of a container that is still there is given back |

Each hypothesis is needed. TLC violates every property of the first line when MCRestart gets an operator, `LedgerJustified` in
the instance of MCRouting (removals fail), `PortsAreUnique` in that of MCOnboarding with a restart or with failing clean-ups;
`EndpointsKept` shares the hypotheses of the ports it rests on. All other theorems hold with
operators, every fault and any number of restarts.

### The serving core (`ServingCoreProofs`)

* **TypeCorrect** (`TypeOK`), **OneBootAtATime** (`BootIsExclusive`), **CountsAreExact** (`ActiveCounts`), **BusyStaysHot** (`BusyIsHot`),
  **NothingUnloadedInUse** (`ServingReady`).

`TypeOK` alone is not inductive: `Tail(bootLock)` needs a lock that is not empty, and a container
is removed or a row saved from a job's fields. The inductive invariant `IInv` adds
`JobsAreTyped` (at each label the fields of the job that will be used are there),
`EnginesHavePorts`, and `LocksAreHeld`: who talks to Docker, polls, cleans up or has
just failed heads the queues of both locks, who asked for the boot lock heads the queue of its
model's lock. `BootIsExclusive` follows: two coroutines in the boot would both be the head of one queue.

`ActiveCounts` is proved over `IInv` with the cardinality theorems of finite sets: only
`Begin` and `Finish` change the set of users of a deployment, by one element.

`BusyIsHot`: `Begin` heats the deployment, a tick with `active > 0` resets its clock, and nothing else
cools one. The exception is the wipe of the lifecycle table when the pre-warm task starts,
so the invariant carries `QuietAtStart`: until then no request has been let in and every
counter is 0, at the first start as after a restart.

`LeaseInv` carries what a request knows between the moment it chooses and the moment it acts.
`Chosen`: at `evict` the victim is still a candidate, at `touch` the deployment is still READY, because
the coroutine has not let go of the loop (`loop = c`) and nobody else's step on a thread
touches the tables (`OffTheLoop`). Then an eviction hits no
user (a candidate is not HOT, so by `BusyIsHot` it has no active requests, so by `ActiveCounts` no
users), nor does a tick (it unloads only what has an idle clock), nor a cold start that fails (the
deployment it marks is not READY), nor the wipe (`QuietAtStart`).

### The deployment table (`ServingTableProofs`)

* **CapableModelServes** (`ServedCapably`), **NoNeedlessBoot** (`BootNotReady`), **FailedStaysFailed** (`FailedIsForever`),
  **PermanentStays** (`PermanentStaysReady`), **CoreImplementsLease** (`LeaseRefinement`).

`TableInv` says that the row a coroutine works on exists and is a row of the model it starts, and that the model has the
capability asked for. It must also cover what operators hold: the record an operator read and is about to write back is one
of its row's (`SnapshotsFit`), or a stale write could turn one model's row into another's.

A request looks at its row once it has the model lock; the pre-warm task does not look again, it goes from the queue straight to
the boot lock. That it never boots a row that has failed rests on its place in the queue: `FirstInv` says that nobody before it
waits for its row (`PrewarmIsFirst`), because nobody knew the row when it joined (`RowIsUnknown`). This needs
`QueuesAreSane` (who is in a queue waits for that model or holds it, and is in it once) and `QueueMove`, the four things a step can do to a
queue. `HandsOff` is the conjunction that holds while nobody deploys or unloads by hand.

From it `StatusMoves` says what any step may do to the status of a row; the two action properties and the simulation of
`DeploymentLease` read it off. The initial states map to `LeaseInit`, each step to one of the lease's
(`Publish`, `GoLive`, `GiveUp`, `TakeDown`, `BeginUse`, `EndUse`, `Stop`, `Forget`) or to none.

### Memory, ports and endpoints (`ServingResourceProofs`)

* **PermanentHoldsMemory** (`PermanentIsReserved`), **PrewarmLeavesNonePending** (`PrewarmSettles`), **NothingLeaks** (`LedgerJustified`),
  **EvictionsMakeRoom** (`EvictionMakesRoom`), **OneEnginePerPort** (`PortsAreUnique`), **EndpointsStayOwn** (`EndpointsKept`).

`AccountMove` lists the moves a row and its reservation can make together; `LedgerInv` ties the two for permanent rows and says that
the ledger is empty at a start, when the permanent rows there are are `ghosts` (`NothingAtStart`); only a start changes which those are
(`GhostsStay`). `LedgerJustified` is inductive on top of it.

`EvictionMakesRoom` is about the sum of the ledger. `EvictionsFit` keeps what the router has calculated until the
eviction: the sum, with the new reservation and without the victim's, is within the GPU. Nothing can
come between, since the coroutine is alone on the loop. The eviction then takes exactly one term out of the sum (`LedgerSum`).

`PortsInv` adds to the uniqueness what makes it inductive: an engine's port is in `_reserved_ports`, and the one coroutine that
starts a container knows who may run on the port in its job: nobody before `docker run`, its own model's engine after it
(`KnowsItsPort`). The boot lock makes it the only one. `EndpointInv` adds the ports of READY rows.

### Sums, maxima and lists (`FiniteInduction`)

The induction theorems of the library take an operator as a parameter, which the installed provers cannot instantiate. The module does
induction over *sets* instead: a set with 0 and every successor holds all naturals (`AllNaturals`, from the well-foundedness of
`<`). With it: the function inside `MapThenSumSet` exists (`SumExists`), is a natural number, positive for positive terms, gives up any
term (`SumSplits`) and depends on its terms alone (`SumAgrees`); a finite set has an element with the largest key (`Maximum`), and a list in
the order of the keys (`ListExists`) that leaves no element out (`ListIsWhole`).

### In-process backend (`LocalServingProofs`)

For any operators, clients, accelerators, preferences and faults:

* **UnloadsAreExclusive** (`OneUnloadWins`), **ReadyHasWeights** (`ReadyIsLoaded`), **RetiredForGood** (`RetiredStaysRetired`),
  **MissMeansUnload** (`MissIsAnUnload`).

The invariant `LInv` stands on `IInv`: the core's steps on such a host are steps of ServingCore (`CoreIsNext`), so `NextIInv`
types them, and `CoreTable` says what they do to the rows: none becomes READY, none is forgotten once the start is over.
`TasksAreSane` is the argument for the race: an unload that has popped the weights works on a row that exists and is not loaded, and
a deploy gives its weights a row that did not exist, so nobody can load or pop what it works on. `StartIsEmpty` carries
`ReadyIsLoaded` over a restart: until the wipe, and after one that fails, the READY rows without weights are `ghosts`.
`MissInv` follows a request from its choice, when the row is READY and so loaded, to its end: an unload that takes the weights
meanwhile leaves them in `popped`.
That a placement has a type at all (the first usable preference exists, `PlacementIsAvailable`) uses the well-foundedness of the naturals.

### Catalogue (`CatalogueSyncProofs`)

* **CatalogueInvariant**, **CatalogueTypeCorrect**, **SyncNeverDuplicates**, **SyncCoversTheWeights**, **CachedModelsAreRegistered**.

A pick is a name that was neither listed nor registered by this sync, because nothing else registers while the process
starts: that is the invariant behind both "no duplicate" and "nothing forgotten" (a directory is gone from `todo` only when it was
skipped, for its size or its name, or registered). The weights are covered by integer arithmetic: rounding up, the flat 2 GB, and the
limit that makes 2 GB at least 20 %. That the weight of any set of files is a natural number, and positive unless there is no file, is
`WeightIsNatural`, from the sums above; it was an assumption before.

### Telemetry (`TelemetryProofs`)

* **PercentilesCover** (for every length), **TelemetryTypeCorrect** (`TelemetryTypeOK`), **AnswersAreRecorded** (`AnsweredIsRecorded`),
  **FiguresWereTrue** (`EveryFigureWasTrue`), **FiguresOfOneMoment** (`OneMoment`), **PageIsOfTheLast** (`PageFollowsSummary`).

Every reader's `seen` contains the present table, since every change is added to it; so a figure is true when it is read, and stays so.
That a figure is a number at all is the content of the type theorem: the mean is a sum, and a percentile exists because its index is
within the list (`PercentilesCover`) and all latencies are at or below the largest one (`Maximum`).
The page: rows are never deleted while a reader is under way, so what it counted is still there when it lists (`PageFits`), and
`list()` gives each row once in the order of the places, which are distinct by `RecordsInv`; Python's slice of it is then as long as the
limit allows, and its last part. `Listed` and `Percentile` are stated by what they return: the provers cannot look into TLC's sort.

### Mac plane (`MacServingProofs`)

* **MacInvariant**, **MacTypeCorrect**, **NoEngineIsLost**, **RequestsReachTheirEngine**, **GaugeCounts**, **NoConnectionIsLost**.

The invariant ties `handle` to the place in the lifespan and says that all spawned engines but the handle's and the orphaned ones
are gone. While there is no orphan and no stranger an engine that is up is therefore the plane's own, which is all a request can connect to;
a stranger that was not there at first never comes (`StrangerStays`).
Gauge and pool are cardinalities that each step of a request changes by one element.

### Only model-checked

`RequestsAreAnswered`, `ScaleToZero`, `StartSettles`, `StopEnds` and `RequestsEnd`: liveness under fairness is out of the prover's
reach. The three violated statements are counterexamples, not theorems. No operator of the modelled code is recursive.

## 6. Not modelled

* Streaming tokens, prompts, wording, log lines, HTTP codes: nothing depends on them.
* `ModelStatus.DISABLED/FAILED` and `LifecycleState.FAILED`: read by the router, written by nothing.
* Cancellation in the serving core: `chat()` ends by `Finish` or on an error path; a coroutine that is
  cancelled inside the boot because its client went away is not modelled.
* A client that goes away in the middle of a generation of the serving core: for the counter it is one more way for `Finish` to happen.
* A tick that fails again and again for one deployment stops the clocks of all later ones, and a deploy whose lifecycle record cannot be saved leaves
  a READY row without a clock. Both steps are modelled (`TickUpTo`, `DeployInits`), but `ScaleToZero` is checked where they do not
  happen; with them it does not hold.
* A stranger's server that takes the port of a Mac plane only after its first start.
* The directory name of a cached model is turned into a repository name by replacing `--` (`bootstrap.py:284`). The hub refuses
  repository names with `--`, so on what it lets into the cache this is the inverse of its own encoding, and CatalogueSync uses
  one name for both.
* Compatibility checks of registrations, the capabilities the sync guesses from names, the other averages of
  the summary, the API key of the Mac plane: functions of one input without a state to disagree with.
* Plugins (prompt templates), configuration (YAML validated field by field), the Mac tools (an estimate, a command line), web
  interface and scripts: no state that outlives a call and nothing concurrent. They are `not_modelled` in
  PROJECT.json, and a model of them would be a second copy of the code.
* The gateway's catalogue, capability and GPU views only read.

## 7. What could come next

1. Operators in the theorems that exclude them: `LedgerJustified` and `PermanentIsReserved` restated for the rows that no operator has
   touched, as `NoNeedlessBoot` and `CapableModelServes` already hold with them.
2. `PortsAreUnique` over restarts, for the ports that no container kept from an earlier life, and the same split for `EndpointsKept`.
3. The safety part of liveness: whoever holds a lock has an enabled step (no deadlock among coroutines), as an invariant
   with a proof.
4. Cancellation of requests in the boot, at each await.
