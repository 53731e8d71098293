----------------------- MODULE ServingResourceProofs -----------------------
(***************************************************************************)
(* VRAM and ports, for every catalogue, any number of clients and any      *)
(* bounds: the ledger reserves for what is READY or being started and for  *)
(* nothing else, permanent deployments keep their reservation and settle,  *)
(* an eviction leaves the sum within the GPU, no two engines run on one    *)
(* port, and endpoints stay with their own engine.                         *)
(***************************************************************************)
EXTENDS ServingTableProofs, FiniteInduction

(* A row that is not there, or has failed, holds no memory.                *)
FailedIsFree == \A d \in Deps : deployment[d].status \in {"failed", "absent"} => allocated[d] = 0

(* Before the pre-warm task starts the ledger is empty, and the permanent  *)
(* rows there are were left by an earlier run.                             *)
NothingAtStart ==
  pc[Prewarm] = "start" => \A d \in Deps : allocated[d] = 0 /\ (Permanent(d) => d \in ghosts)

(* A permanent row of this run is PENDING or READY with its memory, or has *)
(* failed.                                                                 *)
PermanentKept ==
  pc[Prewarm] # "start" => \A d \in Deps : Permanent(d) =>
    \/ deployment[d].status \in {"pending", "ready"} /\ allocated[d] = MemOf[deployment[d].model]
    \/ deployment[d].status = "failed"
    \/ d \in ghosts

(* The pre-warm task starts permanent rows, and only the one it is about   *)
(* to start is PENDING.                                                    *)
PrewarmOwns == ColdStarting(Prewarm) => Permanent(job[Prewarm].dep)

OnePending ==
  pc[Prewarm] # "start" => \A d \in Deps :
    Permanent(d) /\ deployment[d].status = "pending" =>
      d \in ghosts \/ (ColdStarting(Prewarm) /\ job[Prewarm].dep = d)

LedgerInv == FailedIsFree /\ NothingAtStart /\ PermanentKept /\ PrewarmOwns /\ OnePending

-----------------------------------------------------------------------------
(* What one step does to a row and its reservation.                        *)

Stays(d) == deployment'[d] = deployment[d] /\ allocated'[d] = allocated[d]

IsReserved(d) ==
  /\ Startable(d) /\ deployment'[d] = deployment[d]
  /\ allocated'[d] = MemOf[deployment[d].model]
  /\ \E c \in Clients : ColdStarting(c)' /\ job'[c].dep = d

IsTakenDown(d) ==
  /\ Ready(d) /\ ~Permanent(d)
  /\ deployment'[d] = [deployment[d] EXCEPT !.status = "unloaded"]
  /\ allocated'[d] = 0

IsGivenUp(d) ==
  /\ Startable(d) /\ deployment'[d] = [deployment[d] EXCEPT !.status = "failed"]
  /\ allocated'[d] = 0

GoesLive(d) ==
  /\ Startable(d) /\ deployment'[d].status = "ready"
  /\ deployment'[d].model = deployment[d].model
  /\ deployment'[d].permanent = deployment[d].permanent
  /\ allocated'[d] = allocated[d]

Appears(d) ==
  /\ ~Exists(d) /\ deployment'[d].status \in {"pending", "ready"}
  /\ deployment'[d].permanent = FALSE
  /\ allocated'[d] = allocated[d]

IsPrewarmed(d) ==
  /\ ~Exists(d) /\ PrewarmCreate
  /\ deployment'[d].status = "pending" /\ deployment'[d].permanent = TRUE
  /\ allocated'[d] = MemOf[deployment'[d].model]
  /\ pc'[Prewarm] = "lock" /\ job'[Prewarm].dep = d

AccountMove(d) ==
  \/ Stays(d) \/ IsReserved(d) \/ IsTakenDown(d) \/ IsGivenUp(d) \/ GoesLive(d) \/ Appears(d) \/ IsPrewarmed(d)

(* route() has memory reserved for stopped rows only.                      *)
LEMMA RouteReserves ==
  ASSUME TypeOK, NEW cap, NEW preferred, NEW r \in Routes(cap, preferred), r.cold, r.dep # NoDep
  PROVE  Startable(r.dep)
<1>1. CASE r \in ServePreferred(cap, preferred)
  BY <1>1 DEF ServePreferred, Decision
<1>2. CASE r \in ServeIdle(cap)
  BY <1>2 DEF ServeIdle, Decision
<1>3. CASE r \in ScaleOut(cap, preferred)
  <2>1. \A x \in OnDisk(cap) : x.dep # NoDep => Startable(x.dep)
    BY DEF OnDisk
  <2>2. PICK x \in OnDisk(cap) : r.dep = x.dep
    BY <1>3 DEF ScaleOut, Decision
  <2> QED BY <2>1, <2>2 DEF Startable
<1>4. CASE r \in QueueOnActive(cap)
  <2>1. PICK d \in ReadyBusy(cap) \cup Booting(cap) : r = Decision(deployment[d].model, d, NoDep, Startable(d))
    BY <1>4, Zenon DEF QueueOnActive
  <2>2. r.dep = d /\ r.cold = Startable(d)
    BY <2>1 DEF Decision
  <2> QED BY <2>2
<1> QED BY <1>1, <1>2, <1>3, <1>4 DEF Routes

(* Clearing or setting one entry of the ledger.                            *)
LEMMA LedgerEntry ==
  ASSUME TypeOK, NEW e, NEW n, allocated' = [allocated EXCEPT ![e] = n], NEW d \in Deps
  PROVE  allocated'[d] = IF d = e THEN n ELSE allocated[d]
BY DEF TypeOK

(* The steps of a request.                                                 *)
LEMMA ClientAccounts ==
  ASSUME HandsOff, NEW c \in Clients, Receive(c) \/ RequestStep(c), NEW d \in Deps
  PROVE  AccountMove(d)
<1> /\ c \in Coroutines /\ c # Prewarm
    /\ TypeOK /\ IInv
    /\ deployment \in [Deps -> DeploymentRecord] /\ deployment[d] \in DeploymentRecord
    /\ job \in [Coroutines -> Job] /\ job[c] \in Job
    /\ pc \in [Coroutines -> Labels]
  BY CoroutinesAssumption DEF Coroutines, HandsOff, IInv, TypeOK
<1> USE DEF AccountMove
<1>1. CASE Onboard(c)
  <2>1. PICK n \in Deps : IsNewDeployment(n) /\ SaveDeployment(n, PendingDeployment(job[c].model, FALSE))
    BY <1>1 DEF Onboard
  <2>2. allocated' = allocated
    BY <1>1 DEF Onboard
  <2>3. CASE d = n
    BY <2>1, <2>2, <2>3 DEF Appears, IsNewDeployment, SaveDeployment, PendingDeployment
  <2>4. CASE d # n
    BY <2>1, <2>2, <2>4 DEF Stays, SaveDeployment
  <2> QED BY <2>3, <2>4
<1>2. CASE Route(c)
  <2>1. PICK r \in Routes(job[c].cap, job[c].model) :
         /\ SetJob(c, [job[c] EXCEPT !.model = r.model, !.dep = r.dep, !.victim = r.victim])
         /\ IF r.cold /\ r.dep # NoDep THEN Allocate(r.dep, MemOf[r.model]) ELSE UNCHANGED allocated
         /\ Go(c, IF r.victim # NoDep THEN "evict" ELSE IF r.cold THEN "lock" ELSE "touch")
    BY <1>2 DEF Route
  <2>2. deployment' = deployment
    BY <1>2 DEF Route, registryVars
  <2>3. CASE r.cold /\ r.dep # NoDep /\ d = r.dep
    <3>1. Startable(d) /\ deployment[d].model = r.model
      BY <2>3, RouteReserves, RouteFits
    <3>2. allocated'[d] = MemOf[deployment[d].model]
      BY <2>1, <2>3, <3>1 DEF Allocate, TypeOK
    <3>3. job'[c].dep = d /\ pc'[c] \in {"evict", "lock"}
      BY <2>1, <2>3 DEF SetJob, Job, Go
    <3> QED BY <2>2, <3>1, <3>2, <3>3 DEF IsReserved, ColdStarting
  <2>4. CASE ~(r.cold /\ r.dep # NoDep /\ d = r.dep)
    <3>1. allocated'[d] = allocated[d]
      BY <2>1, <2>4 DEF Allocate, TypeOK
    <3> QED BY <2>2, <3>1 DEF Stays
  <2> QED BY <2>3, <2>4
<1>3. CASE Evict(c)
  <2>1. SetStatus(job[c].victim, "unloaded") /\ Release(job[c].victim)
    BY <1>3 DEF Evict
  <2>2. allocated'[d] = IF d = job[c].victim THEN 0 ELSE allocated[d]
    BY <2>1, LedgerEntry DEF Release
  <2>3. deployment'[d] = IF d = job[c].victim THEN [deployment[d] EXCEPT !.status = "unloaded"] ELSE deployment[d]
    BY <2>1 DEF SetStatus
  <2>4. EvictionCandidate(job[c].victim)
    BY <1>3 DEF Evict, At, HandsOff, LeaseInv, Chosen
  <2>5. CASE d = job[c].victim
    BY <2>2, <2>3, <2>4, <2>5 DEF IsTakenDown, EvictionCandidate
  <2>6. CASE d # job[c].victim
    BY <2>2, <2>3, <2>6 DEF Stays
  <2> QED BY <2>5, <2>6
<1>4. CASE Booted(c)
  <2>1. PICK n \in Deps :
          /\ IF job[c].dep = NoDep THEN IsNewDeployment(n) ELSE n = job[c].dep
          /\ SaveDeployment(n, ReadyRecord(job[c].model, job[c].port, Permanent(n)))
    BY <1>4 DEF Booted
  <2>2. allocated' = allocated /\ pc[c] \in HoldsBootLock /\ ColdStarting(c)
    BY <1>4 DEF Booted, At, HoldsBootLock, ColdStarting
  <2>3. CASE d # n
    BY <2>1, <2>2, <2>3 DEF Stays, SaveDeployment
  <2>4. CASE d = n /\ job[c].dep = NoDep
    <3>1. ~Exists(d)
      BY <2>1, <2>4 DEF IsNewDeployment
    <3>2. Permanent(d) = FALSE
      BY <3>1 DEF HandsOff, TableInv, AbsentIsBlank, AbsentDeployment, Permanent
    <3>3. deployment'[d].status = "ready" /\ deployment'[d].permanent = FALSE
      BY <2>1, <2>4, <3>2 DEF SaveDeployment, ReadyRecord
    <3> QED BY <2>2, <3>1, <3>3 DEF Appears
  <2>5. CASE d = n /\ job[c].dep = d
    <3>1. d # NoDep
      BY DEF Deps, NoDep
    <3>2. Startable(d) /\ deployment[d].model = job[c].model
      BY <2>2, <2>5, <3>1, BootedRow DEF Startable, HandsOff, TableInv, JobsFit, JobFits
    <3>3. /\ deployment'[d].status = "ready"
          /\ deployment'[d].model = job[c].model
          /\ deployment'[d].permanent = deployment[d].permanent
      BY <2>1, <2>5 DEF SaveDeployment, ReadyRecord, Permanent
    <3> QED BY <2>2, <3>2, <3>3 DEF GoesLive
  <2> QED BY <2>1, <2>3, <2>4, <2>5
<1>5. CASE ColdStartFails(c)
  <2>1. CASE job[c].dep = NoDep
    BY <1>5, <2>1 DEF ColdStartFails, Stays
  <2>2. CASE job[c].dep # NoDep
    <3>1. Release(job[c].dep) /\ SetStatus(job[c].dep, "failed") /\ pc[c] \in HoldsBootLock
      BY <1>5, <2>2 DEF ColdStartFails, At, HoldsBootLock
    <3>2. allocated'[d] = IF d = job[c].dep THEN 0 ELSE allocated[d]
      BY <3>1, LedgerEntry DEF Release
    <3>3. deployment'[d] = IF d = job[c].dep THEN [deployment[d] EXCEPT !.status = "failed"] ELSE deployment[d]
      BY <3>1 DEF SetStatus
    <3>4. Startable(job[c].dep)
      BY <2>2, <3>1, BootedRow DEF Startable
    <3>5. CASE d = job[c].dep
      BY <3>2, <3>3, <3>4, <3>5 DEF IsGivenUp
    <3>6. CASE d # job[c].dep
      BY <3>2, <3>3, <3>6 DEF Stays
    <3> QED BY <3>5, <3>6
  <2> QED BY <2>1, <2>2
<1>6. CASE \/ Receive(c) \/ OnboardFails(c) \/ RouteFails(c) \/ EvictFails(c) \/ Begin(c) \/ Finish(c)
           \/ LockModel(c) \/ Recheck(c) \/ PrewarmLocked(c) \/ Boot(c) \/ BootNoPort(c) \/ RunDocker(c)
           \/ RunDockerFails(c) \/ PollTimeout(c) \/ Cleanup(c)
  <2>1. deployment' = deployment /\ allocated' = allocated
    BY <1>6 DEF Receive, OnboardFails, RouteFails, EvictFails, Begin, Finish, LockModel, Recheck, PrewarmLocked, Boot,
       BootNoPort, RunDocker, RunDockerFails, PollTimeout, Cleanup, registryVars
  <2> QED BY <2>1 DEF Stays
<1> QED BY <1>1, <1>2, <1>3, <1>4, <1>5, <1>6 DEF RequestStep, ColdStartStep

(* The steps of the pre-warm task, its start apart.                        *)
LEMMA PrewarmAccounts ==
  ASSUME HandsOff, PrewarmOwns, PrewarmStep, ~PrewarmStart, NEW d \in Deps
  PROVE  AccountMove(d)
<1> /\ Prewarm \in Coroutines
    /\ TypeOK /\ IInv
    /\ deployment \in [Deps -> DeploymentRecord] /\ deployment[d] \in DeploymentRecord
    /\ job \in [Coroutines -> Job] /\ job[Prewarm] \in Job
    /\ pc \in [Coroutines -> Labels]
  BY CoroutinesAssumption DEF Coroutines, HandsOff, IInv, TypeOK
<1> USE DEF AccountMove
<1>1. CASE Onboard(Prewarm)
  <2>1. PICK n \in Deps : IsNewDeployment(n) /\ SaveDeployment(n, PendingDeployment(job[Prewarm].model, FALSE))
    BY <1>1 DEF Onboard
  <2>2. allocated' = allocated
    BY <1>1 DEF Onboard
  <2>3. CASE d = n
    BY <2>1, <2>2, <2>3 DEF Appears, IsNewDeployment, SaveDeployment, PendingDeployment
  <2>4. CASE d # n
    BY <2>1, <2>2, <2>4 DEF Stays, SaveDeployment
  <2> QED BY <2>3, <2>4
<1>2. CASE PrewarmCreate
  <2>1. PICK n \in Deps :
          /\ IsNewDeployment(n)
          /\ SaveDeployment(n, PendingDeployment(job[Prewarm].model, TRUE))
          /\ Allocate(n, MemOf[job[Prewarm].model])
          /\ SetJob(Prewarm, [job[Prewarm] EXCEPT !.dep = n])
    BY <1>2 DEF PrewarmCreate
  <2>2. allocated'[d] = IF d = n THEN MemOf[job[Prewarm].model] ELSE allocated[d]
    BY <2>1, LedgerEntry DEF Allocate
  <2>3. job'[Prewarm].dep = n /\ pc'[Prewarm] = "lock"
    BY <1>2, <2>1, JobFields DEF SetJob, PrewarmCreate, Go
  <2>4. CASE d = n
    <3>1. /\ deployment'[d].status = "pending" /\ deployment'[d].permanent = TRUE
          /\ deployment'[d].model = job[Prewarm].model
      BY <2>1, <2>4 DEF SaveDeployment, PendingDeployment
    <3> QED BY <1>2, <2>1, <2>2, <2>3, <2>4, <3>1 DEF IsPrewarmed, IsNewDeployment
  <2>5. CASE d # n
    BY <2>1, <2>2, <2>5 DEF Stays, SaveDeployment
  <2> QED BY <2>4, <2>5
<1>3. CASE PrewarmBooted
  <2> DEFINE x == job[Prewarm].dep
  <2>1. SaveDeployment(x, ReadyRecord(job[Prewarm].model, job[Prewarm].port, TRUE)) /\ allocated' = allocated
    BY <1>3 DEF PrewarmBooted
  <2>2. pc[Prewarm] \in HoldsBootLock /\ ColdStarting(Prewarm)
    BY <1>3 DEF PrewarmBooted, At, HoldsBootLock, ColdStarting
  <2>3. x # NoDep /\ deployment[x].model = job[Prewarm].model
    BY <2>2 DEF HandsOff, TableInv, JobsFit, JobFits
  <2>4. x \in Deps /\ Startable(x) /\ Permanent(x)
    BY <2>2, <2>3, BootedRow DEF Startable, PrewarmOwns
  <2>5. Permanent(x) = TRUE
    BY <2>4 DEF Permanent, DeploymentRecord
  <2>6. CASE d = x
    <3>1. /\ deployment'[d].status = "ready"
          /\ deployment'[d].model = deployment[d].model
          /\ deployment'[d].permanent = deployment[d].permanent
      BY <2>1, <2>3, <2>5, <2>6 DEF SaveDeployment, ReadyRecord, Permanent
    <3> QED BY <2>1, <2>4, <2>6, <3>1 DEF GoesLive
  <2>7. CASE d # x
    BY <2>1, <2>7 DEF Stays, SaveDeployment
  <2> QED BY <2>6, <2>7
<1>4. CASE PrewarmFails
  <2> DEFINE x == job[Prewarm].dep
  <2>1. Release(x) /\ SetStatus(x, "failed") /\ pc[Prewarm] \in HoldsBootLock /\ ColdStarting(Prewarm)
    BY <1>4 DEF PrewarmFails, At, HoldsBootLock, ColdStarting
  <2>2. allocated'[d] = IF d = x THEN 0 ELSE allocated[d]
    BY <2>1, LedgerEntry DEF Release
  <2>3. deployment'[d] = IF d = x THEN [deployment[d] EXCEPT !.status = "failed"] ELSE deployment[d]
    BY <2>1 DEF SetStatus
  <2>4. Startable(x)
    <3>1. x # NoDep
      BY <2>1 DEF HandsOff, TableInv, JobsFit
    <3> QED BY <2>1, <3>1, BootedRow DEF Startable
  <2>5. CASE d = x
    BY <2>2, <2>3, <2>4, <2>5 DEF IsGivenUp
  <2>6. CASE d # x
    BY <2>2, <2>3, <2>6 DEF Stays
  <2> QED BY <2>5, <2>6
<1>5. CASE PrewarmPick \/ PrewarmEnd \/ OnboardFails(Prewarm) \/ ColdStartStep(Prewarm)
  <2>1. deployment' = deployment /\ allocated' = allocated
    BY <1>5, CoroutinesAssumption DEF PrewarmPick, PrewarmEnd, OnboardFails, ColdStartStep, LockModel, Recheck,
       PrewarmLocked, Boot, BootNoPort, RunDocker, RunDockerFails, Booted, PollTimeout, Cleanup, ColdStartFails, registryVars
  <2> QED BY <2>1 DEF Stays
<1> QED BY <1>1, <1>2, <1>3, <1>4, <1>5 DEF PrewarmStep

(* The worker, the engines, and nobody.                                    *)
LEMMA OtherAccounts ==
  ASSUME Operators = {}, HandsOff, Tick \/ EnvironmentStep \/ UNCHANGED vars, ~Restart, NEW d \in Deps
  PROVE  AccountMove(d)
<1>1. CASE Tick
  <2>1. PICK stop : TickUpTo(stop)
    BY <1>1 DEF Tick
  <2>2. CASE Expires(d) /\ d < stop
    BY <2>1, <2>2 DEF TickUpTo, AccountMove, IsTakenDown, Expires, Due
  <2>3. CASE ~(Expires(d) /\ d < stop)
    BY <2>1, <2>3 DEF TickUpTo, AccountMove, Stays
  <2> QED BY <2>2, <2>3
<1>2. EnvironmentStep \/ UNCHANGED vars => UNCHANGED <<deployment, allocated>>
  BY DEF EnvironmentStep, EngineStarts, EngineCrashes, registryVars, vars
<1> QED BY <1>1, <1>2 DEF AccountMove, Stays


(* Any ordinary step.                                                      *)
LEMMA NextAccounts ==
  ASSUME Operators = {}, HandsOff, PrewarmOwns, [Next]_vars, ~PrewarmStart, ~Restart, NEW d \in Deps
  PROVE  AccountMove(d)
BY ClientAccounts, PrewarmAccounts, OtherAccounts DEF Next, ServiceStep

(* The ways a request gives up the row it is starting: the row is READY,   *)
(* or it has FAILED.                                                       *)
LEMMA ClientWay ==
  ASSUME IInv, "remove" \notin Faults, NEW c \in Clients, Receive(c) \/ RequestStep(c),
         ColdStarting(c), job[c].dep # NoDep
  PROVE  \/ ColdStarting(c)' /\ job'[c].dep = job[c].dep
         \/ deployment'[job[c].dep].status \in {"ready", "failed"}
<1> /\ c \in Coroutines /\ c # Prewarm
    /\ deployment \in [Deps -> DeploymentRecord]
    /\ job \in [Coroutines -> Job] /\ job[c] \in Job
    /\ pc \in [Coroutines -> Labels]
    /\ job[c].dep \in Deps
  BY CoroutinesAssumption DEF Coroutines, IInv, TypeOK, Job
<1> USE DEF At, Go
<1>1. CASE Receive(c) \/ Onboard(c) \/ OnboardFails(c) \/ Route(c) \/ RouteFails(c) \/ Begin(c) \/ Finish(c)
  BY <1>1 DEF Receive, Onboard, OnboardFails, Route, RouteFails, Begin, Finish, ColdStarting
<1>2. CASE EvictFails(c) \/ PrewarmLocked(c)
  BY <1>2 DEF EvictFails, PrewarmLocked
<1>3. CASE Evict(c) \/ LockModel(c) \/ BootNoPort(c) \/ RunDockerFails(c) \/ PollTimeout(c) \/ Cleanup(c)
  BY <1>3 DEF Evict, LockModel, BootNoPort, RunDockerFails, PollTimeout, Cleanup, ColdStarting
<1>4. CASE Recheck(c)
  <2>1. CASE StatusOf(job[c].dep) \in {"ready", "failed"}
    BY <1>4, <2>1 DEF Recheck, StatusOf, registryVars
  <2>2. CASE StatusOf(job[c].dep) \notin {"ready", "failed"}
    BY <1>4, <2>2 DEF Recheck, WaitForBoot, ColdStarting
  <2> QED BY <2>1, <2>2
<1>5. CASE Boot(c)
  <2>1. CASE StatusOf(job[c].dep) = "ready"
    BY <1>5, <2>1 DEF Boot, StatusOf, registryVars
  <2>2. CASE StatusOf(job[c].dep) # "ready"
    <3>1. PICK p \in FreePorts : SetJob(c, [job[c] EXCEPT !.port = p])
      BY <1>5, <2>2 DEF Boot, ReservePort
    <3>2. pc'[c] = "docker"
      BY <1>5, <2>2 DEF Boot, ReservePort
    <3> QED BY <3>1, <3>2, JobFields DEF SetJob, ColdStarting
  <2> QED BY <2>1, <2>2
<1>6. CASE RunDocker(c)
  <2>1. PICK p : SetJob(c, [job[c] EXCEPT !.port = p])
    BY <1>6 DEF RunDocker
  <2>2. pc'[c] = "poll"
    BY <1>6 DEF RunDocker
  <2> QED BY <2>1, <2>2, JobFields DEF SetJob, ColdStarting
<1>7. CASE Booted(c)
  BY <1>7 DEF Booted, SaveDeployment, ReadyRecord
<1>8. CASE ColdStartFails(c)
  <2>1. SetStatus(job[c].dep, "failed")
    BY <1>8 DEF ColdStartFails
  <2>2. \A d \in Deps : d = job[c].dep => deployment'[d] = [deployment[d] EXCEPT !.status = "failed"]
    BY <2>1 DEF SetStatus
  <2>3. \A d \in Deps : [deployment[d] EXCEPT !.status = "failed"].status = "failed"
    BY StatusField
  <2> QED BY <2>2, <2>3
<1> QED BY <1>1, <1>2, <1>3, <1>4, <1>5, <1>6, <1>7, <1>8 DEF RequestStep, ColdStartStep

(* The same of the pre-warm task, which takes up only rows it creates.     *)
LEMMA PrewarmWay ==
  ASSUME HandsOff, PrewarmStep
  PROVE  /\ ColdStarting(Prewarm)' =>
              PrewarmCreate \/ (ColdStarting(Prewarm) /\ job'[Prewarm].dep = job[Prewarm].dep)
         /\ ColdStarting(Prewarm) =>
              \/ ColdStarting(Prewarm)' /\ job'[Prewarm].dep = job[Prewarm].dep
              \/ deployment'[job[Prewarm].dep].status \in {"ready", "failed"}
         /\ pc[Prewarm] = "start" => PrewarmStart
<1> /\ Prewarm \in Coroutines /\ Prewarm \notin Clients
    /\ TypeOK
    /\ deployment \in [Deps -> DeploymentRecord]
    /\ job \in [Coroutines -> Job] /\ job[Prewarm] \in Job
    /\ pc \in [Coroutines -> Labels]
  BY CoroutinesAssumption DEF Coroutines, HandsOff, IInv, TypeOK
<1> ColdStarting(Prewarm) => job[Prewarm].dep \in Deps
  BY DEF HandsOff, TableInv, JobsFit, Job
<1> USE DEF At, Go
<1>1. CASE PrewarmStart \/ PrewarmEnd \/ Onboard(Prewarm) \/ OnboardFails(Prewarm)
  BY <1>1 DEF PrewarmStart, PrewarmEnd, Onboard, OnboardFails, ColdStarting
<1>2. CASE PrewarmPick
  <2>1. pc[Prewarm] = "next" /\ pc'[Prewarm] \in {"create", "download", "next"}
    BY <1>2 DEF PrewarmPick
  <2> QED BY <2>1 DEF ColdStarting
<1>3. CASE PrewarmCreate
  BY <1>3 DEF PrewarmCreate, ColdStarting
<1>4. CASE PrewarmBooted
  BY <1>4 DEF PrewarmBooted, SaveDeployment, ReadyRecord, ColdStarting
<1>5. CASE PrewarmFails
  <2>1. SetStatus(job[Prewarm].dep, "failed") /\ pc[Prewarm] = "failed" /\ pc'[Prewarm] = "next"
    BY <1>5 DEF PrewarmFails
  <2>2. \A d \in Deps : d = job[Prewarm].dep => deployment'[d] = [deployment[d] EXCEPT !.status = "failed"]
    BY <2>1 DEF SetStatus
  <2>3. \A d \in Deps : [deployment[d] EXCEPT !.status = "failed"].status = "failed"
    BY StatusField
  <2> QED BY <2>1, <2>2, <2>3 DEF ColdStarting
<1>6. CASE LockModel(Prewarm) \/ BootNoPort(Prewarm) \/ RunDockerFails(Prewarm) \/ PollTimeout(Prewarm)
           \/ Cleanup(Prewarm) \/ PrewarmLocked(Prewarm)
  BY <1>6 DEF LockModel, BootNoPort, RunDockerFails, PollTimeout, Cleanup, PrewarmLocked, WaitForBoot, ColdStarting
<1>7. CASE Boot(Prewarm)
  <2>1. pc[Prewarm] = "boot"
    BY <1>7 DEF Boot
  <2>2. CASE StatusOf(job[Prewarm].dep) = "ready"
    <3>1. deployment'[job[Prewarm].dep].status = "ready" /\ pc'[Prewarm] = "next"
      BY <1>7, <2>2 DEF Boot, AlreadyBooted, StatusOf, registryVars
    <3> QED BY <2>1, <3>1 DEF ColdStarting
  <2>3. CASE StatusOf(job[Prewarm].dep) # "ready"
    <3>1. PICK p \in FreePorts : SetJob(Prewarm, [job[Prewarm] EXCEPT !.port = p])
      BY <1>7, <2>3 DEF Boot, ReservePort
    <3>2. pc'[Prewarm] = "docker"
      BY <1>7, <2>3 DEF Boot, ReservePort
    <3>3. job'[Prewarm].dep = job[Prewarm].dep
      BY <3>1, JobFields DEF SetJob
    <3> QED BY <2>1, <3>2, <3>3 DEF ColdStarting
  <2> QED BY <2>2, <2>3
<1>8. CASE RunDocker(Prewarm)
  <2>1. PICK p : SetJob(Prewarm, [job[Prewarm] EXCEPT !.port = p])
    BY <1>8 DEF RunDocker
  <2>2. pc[Prewarm] = "docker" /\ pc'[Prewarm] = "poll"
    BY <1>8 DEF RunDocker
  <2> QED BY <2>1, <2>2, JobFields DEF SetJob, ColdStarting
<1> QED BY <1>1, <1>2, <1>3, <1>4, <1>5, <1>6, <1>7, <1>8
        DEF PrewarmStep, ColdStartStep, Recheck, Booted, ColdStartFails


-----------------------------------------------------------------------------
(* The ledger is kept: at the start of the pre-warm task, over a restart,  *)
(* and by every other step.                                                *)
LEMMA StartKeepsLedger ==
  ASSUME HandsOff, LedgerInv, PrewarmStart
  PROVE  LedgerInv'
<1> pc \in [Coroutines -> Labels] /\ Prewarm \in Coroutines
  BY DEF HandsOff, IInv, TypeOK, Coroutines
<1>1. pc[Prewarm] = "start" /\ pc'[Prewarm] = "next" /\ allocated' = allocated /\ job' = job
  BY DEF PrewarmStart, At, Go
<1>2. \A d \in Deps : allocated[d] = 0
  BY <1>1 DEF LedgerInv, NothingAtStart
<1>3. \A d \in Deps : Permanent(d)' => d \in ghosts'
  <2>1. CASE deployment' = [d \in Deps |-> AbsentDeployment]
    BY <2>1 DEF AbsentDeployment, Permanent
  <2>2. CASE UNCHANGED <<deployment, ghosts>>
    BY <1>1, <2>2 DEF LedgerInv, NothingAtStart, Permanent
  <2> QED BY <2>1, <2>2 DEF PrewarmStart
<1> QED BY <1>1, <1>2, <1>3
        DEF LedgerInv, FailedIsFree, NothingAtStart, PermanentKept, PrewarmOwns, OnePending, ColdStarting

LEMMA RestartKeepsLedger ==
  ASSUME HandsOff, Restart
  PROVE  LedgerInv'
<1> Prewarm \in Coroutines
  BY DEF Coroutines
<1>1. \A d \in Deps : Permanent(d)' => d \in ghosts'
  <2>1. \A d \in Deps : Permanent(d) => Exists(d)
    BY DEF HandsOff, TableInv, AbsentIsBlank, AbsentDeployment, Permanent
  <2> QED BY <2>1 DEF Restart, registryVars, Permanent
<1>2. pc'[Prewarm] = "start" /\ \A d \in Deps : allocated'[d] = 0
  BY DEF Restart
<1> QED BY <1>1, <1>2
        DEF LedgerInv, FailedIsFree, NothingAtStart, PermanentKept, PrewarmOwns, OnePending, ColdStarting

LEMMA StepKeepsLedger ==
  ASSUME Operators = {}, HandsOff, LedgerInv, [Next]_vars, HandsOff', ~PrewarmStart, ~Restart
  PROVE  LedgerInv'
<1> /\ Prewarm \in Coroutines /\ \A c \in Clients : c \in Coroutines /\ c # Prewarm
    /\ \A d \in Deps : deployment[d] \in DeploymentRecord /\ AccountMove(d)
    /\ job[Prewarm] \in Job
  BY NextAccounts, CoroutinesAssumption DEF Coroutines, HandsOff, IInv, TypeOK, LedgerInv
<1>g. ghosts' = ghosts
  <2>1. EnvironmentStep \/ UNCHANGED vars => ghosts' = ghosts
    BY DEF EnvironmentStep, EngineStarts, EngineCrashes, OperatorDeploy, OperatorReads, OperatorUnloads,
       vars, taskVars
  <2> QED BY <2>1, GhostsStay DEF Next
<1>a. \A d \in Deps : [deployment[d] EXCEPT !.status = "unloaded"].permanent = deployment[d].permanent
                   /\ [deployment[d] EXCEPT !.status = "failed"].permanent = deployment[d].permanent
                   /\ [deployment[d] EXCEPT !.status = "unloaded"].status = "unloaded"
                   /\ [deployment[d] EXCEPT !.status = "failed"].status = "failed"
  BY StatusField
<1>1. /\ pc[Prewarm] = "start" <=> pc'[Prewarm] = "start"
      /\ PrewarmStep \/ (pc'[Prewarm] = pc[Prewarm] /\ job'[Prewarm] = job[Prewarm])
  <2>1. CASE PrewarmStep
    BY <2>1, PrewarmMoves, PrewarmWay DEF HandsOff
  <2>2. ASSUME NEW c \in Clients, Receive(c) \/ RequestStep(c)
        PROVE  pc'[Prewarm] = pc[Prewarm] /\ job'[Prewarm] = job[Prewarm]
    BY <2>2, ClientMoves DEF HandsOff
  <2>3. Tick \/ EnvironmentStep \/ UNCHANGED vars => pc' = pc /\ job' = job
    BY DEF Tick, EnvironmentStep, EngineStarts, EngineCrashes, coroutineVars, vars
  <2> QED BY <2>1, <2>2, <2>3 DEF Next, ServiceStep
<1>2. /\ ColdStarting(Prewarm)' =>
           PrewarmCreate \/ (ColdStarting(Prewarm) /\ job'[Prewarm].dep = job[Prewarm].dep)
      /\ ColdStarting(Prewarm) =>
           \/ ColdStarting(Prewarm)' /\ job'[Prewarm].dep = job[Prewarm].dep
           \/ deployment'[job[Prewarm].dep].status \in {"ready", "failed"}
  <2>1. CASE PrewarmStep
    BY <2>1, PrewarmWay
  <2>2. CASE pc'[Prewarm] = pc[Prewarm] /\ job'[Prewarm] = job[Prewarm]
    BY <2>2 DEF ColdStarting
  <2> QED BY <1>1, <2>1, <2>2
<1>3. FailedIsFree'
  <2> SUFFICES ASSUME NEW d \in Deps, deployment'[d].status \in {"failed", "absent"} PROVE allocated'[d] = 0
    BY DEF FailedIsFree
  <2>1. CASE Stays(d)
    BY <2>1 DEF Stays, LedgerInv, FailedIsFree
  <2>2. CASE IsTakenDown(d) \/ IsGivenUp(d)
    BY <2>2 DEF IsTakenDown, IsGivenUp
  <2>3. CASE IsReserved(d) \/ GoesLive(d) \/ Appears(d) \/ IsPrewarmed(d)
    BY <2>3 DEF IsReserved, Startable, GoesLive, Appears, IsPrewarmed
  <2> QED BY <2>1, <2>2, <2>3 DEF AccountMove
<1>4. NothingAtStart'
  <2> SUFFICES ASSUME pc'[Prewarm] = "start", NEW d \in Deps
               PROVE  allocated'[d] = 0 /\ (Permanent(d)' => d \in ghosts)
    BY <1>g DEF NothingAtStart
  <2>1. allocated[d] = 0 /\ (Permanent(d) => d \in ghosts)
    BY <1>1 DEF LedgerInv, NothingAtStart
  <2>2. ~IsReserved(d)
    BY DEF HandsOff, HotInv, QuietAtStart, IsReserved, ColdStarting
  <2> QED BY <1>a, <2>1, <2>2 DEF AccountMove, Stays, IsTakenDown, IsGivenUp, GoesLive, Appears, IsPrewarmed, Permanent
<1>5. PermanentKept'
  <2> SUFFICES ASSUME pc'[Prewarm] # "start", NEW d \in Deps, Permanent(d)', d \notin ghosts
               PROVE  \/ /\ deployment'[d].status \in {"pending", "ready"}
                         /\ allocated'[d] = MemOf[deployment'[d].model]
                      \/ deployment'[d].status = "failed"
    BY <1>g DEF PermanentKept
  <2>1. Permanent(d) => \/ /\ deployment[d].status \in {"pending", "ready"}
                           /\ allocated[d] = MemOf[deployment[d].model]
                        \/ deployment[d].status = "failed"
    BY <1>1 DEF LedgerInv, PermanentKept
  <2>2. CASE Stays(d)
    BY <2>1, <2>2 DEF Stays, Permanent
  <2>3. CASE IsTakenDown(d) \/ Appears(d)
    BY <1>a, <2>3 DEF IsTakenDown, Appears, Permanent
  <2>4. CASE IsGivenUp(d) \/ IsPrewarmed(d)
    BY <1>a, <2>4 DEF IsGivenUp, IsPrewarmed
  <2>5. CASE IsReserved(d) \/ GoesLive(d)
    BY <2>1, <2>5 DEF IsReserved, GoesLive, Permanent, Startable
  <2> QED BY <2>2, <2>3, <2>4, <2>5 DEF AccountMove
<1>6. PrewarmOwns'
  <2> SUFFICES ASSUME ColdStarting(Prewarm)' PROVE deployment'[job'[Prewarm].dep].permanent
    BY DEF PrewarmOwns, Permanent
  <2>1. CASE PrewarmCreate
    <3>1. PICK n \in Deps :
            /\ SaveDeployment(n, PendingDeployment(job[Prewarm].model, TRUE))
            /\ SetJob(Prewarm, [job[Prewarm] EXCEPT !.dep = n])
      BY <2>1 DEF PrewarmCreate
    <3>2. job'[Prewarm].dep = n
      BY <3>1, JobFields DEF SetJob, HandsOff, IInv, TypeOK
    <3>3. deployment'[n].permanent = TRUE
      BY <3>1 DEF SaveDeployment, PendingDeployment, HandsOff, IInv, TypeOK
    <3> QED BY <3>2, <3>3
  <2>2. CASE ColdStarting(Prewarm) /\ job'[Prewarm].dep = job[Prewarm].dep
    <3>1. Permanent(job[Prewarm].dep) /\ Exists(job[Prewarm].dep) /\ job[Prewarm].dep \in Deps
      BY <2>2 DEF LedgerInv, PrewarmOwns, HandsOff, TableInv, JobsFit, JobFits, Job
    <3>2. ASSUME NEW d \in Deps, Permanent(d), Exists(d)
          PROVE  deployment'[d].permanent
      <4>1. deployment'[d].permanent = deployment[d].permanent
        BY <1>a, <3>2 DEF AccountMove, Stays, IsReserved, IsTakenDown, IsGivenUp, GoesLive, Appears, IsPrewarmed
      <4> QED BY <3>2, <4>1 DEF Permanent
    <3> QED BY <2>2, <3>1, <3>2
  <2> QED BY <1>2, <2>1, <2>2
<1>7. OnePending'
  <2> SUFFICES ASSUME pc'[Prewarm] # "start", NEW d \in Deps, Permanent(d)', deployment'[d].status = "pending",
                      d \notin ghosts
               PROVE  ColdStarting(Prewarm)' /\ job'[Prewarm].dep = d
    BY <1>g DEF OnePending
  <2>1. CASE IsPrewarmed(d)
    BY <2>1 DEF IsPrewarmed, ColdStarting
  <2>2. CASE ~IsPrewarmed(d)
    <3>1. deployment'[d] = deployment[d]
      BY <1>a, <2>2 DEF AccountMove, Stays, IsReserved, IsTakenDown, IsGivenUp, GoesLive, Appears, Permanent
    <3>2. ColdStarting(Prewarm) /\ job[Prewarm].dep = d
      BY <1>1, <3>1 DEF LedgerInv, OnePending, Permanent
    <3> QED BY <1>2, <3>2
  <2> QED BY <2>1, <2>2
<1> QED BY <1>3, <1>4, <1>5, <1>6, <1>7 DEF LedgerInv

LEMMA LedgerInductive ==
  ASSUME Operators = {}
  PROVE  Spec => [](HandsOff /\ LedgerInv)
<1>1. Init => LedgerInv
  <2> SUFFICES ASSUME Init PROVE LedgerInv
    OBVIOUS
  <2>1. pc[Prewarm] = "start" /\ \A d \in Deps : allocated[d] = 0 /\ ~Permanent(d)
    BY DEF Init, Coroutines, Permanent, PendingDeployment, AbsentDeployment
  <2> QED BY <2>1
          DEF LedgerInv, FailedIsFree, NothingAtStart, PermanentKept, PrewarmOwns, OnePending, ColdStarting
<1>2. HandsOff /\ HandsOff' /\ LedgerInv /\ [Next]_vars => LedgerInv'
  BY StartKeepsLedger, RestartKeepsLedger, StepKeepsLedger
<1> QED BY <1>1, <1>2, HandsOffInductive, PTL DEF Spec


(* Every permanent deployment that is READY has its memory reserved, but   *)
(* for rows of an earlier run that could not be deleted.                   *)
THEOREM PermanentHoldsMemory ==
  ASSUME Operators = {}
  PROVE  Spec => []PermanentIsReserved
<1>1. LedgerInv => PermanentIsReserved
  BY DEF LedgerInv, PermanentKept, PermanentIsReserved, Ready
<1> QED BY <1>1, LedgerInductive, PTL

(* The pre-warm task leaves no deployment of its own PENDING; only a row   *)
(* of an earlier run that could not be deleted may be.                     *)
THEOREM PrewarmLeavesNonePending ==
  ASSUME Operators = {}
  PROVE  Spec => []PrewarmSettles
<1>1. LedgerInv => PrewarmSettles
  BY DEF LedgerInv, PermanentKept, OnePending, PrewarmSettles, ColdStarting
<1> QED BY <1>1, LedgerInductive, PTL

(* A justified reservation stays one, or is released.                      *)
LEMMA NextJustified ==
  ASSUME Operators = {}, "remove" \notin Faults, HandsOff, LedgerInv, LedgerJustified,
         [Next]_vars, HandsOff', LedgerInv'
  PROVE  LedgerJustified'
<1> /\ Prewarm \in Coroutines /\ \A c \in Clients : c \in Coroutines /\ c # Prewarm
    /\ \A c \in Coroutines : c = Prewarm \/ c \in Clients
    /\ \A d \in Deps : d # NoDep
  BY CoroutinesAssumption DEF Coroutines, Deps, NoDep
<1> SUFFICES ASSUME NEW d \in Deps, allocated'[d] > 0
             PROVE  Ready(d)' \/ \E c \in Coroutines : ColdStarting(c)' /\ job'[c].dep = d
  BY DEF LedgerJustified, IsAllocated
<1> allocated'[d] # 0
  OBVIOUS
<1>1. ~PrewarmStart
  BY DEF PrewarmStart, At, LedgerInv, NothingAtStart
<1>2. ~Restart
  BY DEF Restart
<1>3. AccountMove(d)
  BY <1>1, <1>2, NextAccounts DEF LedgerInv
<1>4. CASE Stays(d) /\ ~Ready(d)'
  <2>1. PICK c \in Coroutines : ColdStarting(c) /\ job[c].dep = d
    BY <1>4 DEF LedgerJustified, IsAllocated, Stays, Ready
  <2>2. deployment'[d].status # "failed"
    BY DEF LedgerInv, FailedIsFree
  <2>3. CASE pc'[c] = pc[c] /\ job'[c] = job[c]
    BY <2>1, <2>3 DEF ColdStarting
  <2>4. CASE CoroutineStep(c)
    <3>1. \/ ColdStarting(c)' /\ job'[c].dep = job[c].dep
          \/ deployment'[job[c].dep].status \in {"ready", "failed"}
      BY <2>1, <2>4, ClientWay, PrewarmWay DEF CoroutineStep, HandsOff
    <3> QED BY <1>4, <2>1, <2>2, <3>1 DEF Ready
  <2>5. CoroutineStep(c) \/ (pc'[c] = pc[c] /\ job'[c] = job[c])
    <3>1. ASSUME NEW e \in Coroutines, CoroutineStep(e)
          PROVE  e = c \/ (pc'[c] = pc[c] /\ job'[c] = job[c])
      BY <3>1, OthersStand DEF HandsOff
    <3>2. Tick \/ EnvironmentStep \/ UNCHANGED vars => pc' = pc /\ job' = job
      BY <1>2 DEF Tick, EnvironmentStep, EngineStarts, EngineCrashes, coroutineVars, vars
    <3> QED BY <3>1, <3>2 DEF Next, ServiceStep, CoroutineStep
  <2> QED BY <2>3, <2>4, <2>5
<1>5. CASE IsReserved(d)
  BY <1>5 DEF IsReserved
<1>6. CASE Appears(d)
  BY <1>6 DEF Appears, LedgerInv, FailedIsFree, Exists
<1>7. CASE IsPrewarmed(d)
  BY <1>7 DEF IsPrewarmed, ColdStarting
<1> QED BY <1>3, <1>4, <1>5, <1>6, <1>7 DEF AccountMove, IsTakenDown, IsGivenUp, GoesLive, Ready

(* The ledger does not leak: memory is reserved for rows that are READY or *)
(* being started.  When the daemon refuses to remove an evicted container, *)
(* chat() leaves the reservation behind (chat.py:128), hence the second    *)
(* assumption.                                                             *)
THEOREM NothingLeaks ==
  ASSUME Operators = {}, "remove" \notin Faults
  PROVE  Spec => []LedgerJustified
<1>1. Init => LedgerJustified
  BY DEF Init, LedgerJustified, IsAllocated
<1>2. HandsOff /\ LedgerInv /\ HandsOff' /\ LedgerInv' /\ LedgerJustified /\ [Next]_vars => LedgerJustified'
  BY NextJustified
<1> QED BY <1>1, <1>2, LedgerInductive, PTL DEF Spec


-----------------------------------------------------------------------------
(* Ports.  Every engine that runs has its port in _reserved_ports, and the *)
(* one coroutine that starts a container knows which engine may run on the *)
(* port in its job: none before docker run, its own after it.              *)

PortsAreReserved == \A n \in Names : Running(n) => container[n].port \in reserved

OnItsPort(c, n) == Running(n) /\ container[n].port = job[c].port

KnowsItsPort(c) ==
  /\ pc[c] \notin HoldsBootLock \cup {"touch"} => job[c].port = NoPort
  /\ pc[c] \in {"docker", "failed"} => \A n \in Names : ~OnItsPort(c, n)
  /\ pc[c] \in {"docker", "poll", "cleanup"} => job[c].port \in reserved
  /\ pc[c] \in {"poll", "cleanup"} => \A n \in Names : OnItsPort(c, n) => n = NameOf[job[c].model]

PortsInv == PortsAreReserved /\ PortsAreUnique /\ \A c \in Coroutines : KnowsItsPort(c)

(* Engines are only stopped.                                               *)
EnginesStop == \A n \in Names : Running(n)' => Running(n) /\ container'[n].port = container[n].port

(* Stopping engines and leaving the jobs alone changes nothing.            *)
LEMMA StoppingIsSafe ==
  ASSUME PortsInv, EnginesStop, reserved' = reserved
  PROVE  /\ PortsAreReserved' /\ PortsAreUnique'
         /\ \A c \in Coroutines : pc'[c] = pc[c] /\ job'[c].port = job[c].port /\ job'[c].model = job[c].model
                                    => KnowsItsPort(c)'
<1>1. PortsAreReserved' /\ PortsAreUnique'
  BY DEF PortsInv, EnginesStop, PortsAreReserved, PortsAreUnique, Running
<1>2. ASSUME NEW c \in Coroutines,
             pc'[c] = pc[c], job'[c].port = job[c].port, job'[c].model = job[c].model
      PROVE  KnowsItsPort(c)'
  <2>1. \A n \in Names : OnItsPort(c, n)' => OnItsPort(c, n)
    BY <1>2 DEF EnginesStop, OnItsPort, Running
  <2> QED BY <1>2, <2>1 DEF PortsInv, KnowsItsPort
<1> QED BY <1>1, <1>2

(* Removing one container, or several.                                     *)
LEMMA RemovalStops ==
  ASSUME TypeOK, NEW n, container' = [container EXCEPT ![n] = NoContainer]
  PROVE  EnginesStop /\ (n \in Names => ~Running(n)')
<1>1. container' = [k \in Names |-> IF k = n THEN NoContainer ELSE container[k]]
  BY DEF TypeOK
<1> QED BY <1>1 DEF EnginesStop, Running, NoContainer

(* The others neither hold the boot lock, nor do their jobs change.        *)
LEMMA OthersKeepPorts ==
  ASSUME IInv, PortsInv, NEW c \in Coroutines, CoroutineStep(c),
         pc[c] \in HoldsBootLock \/ (pc[c] = "boot" /\ Holds(c, bootLock)),
         NEW e \in Coroutines, e # c
  PROVE  KnowsItsPort(e)'
<1>1. pc[e] \notin HoldsBootLock
  BY DEF IInv, LocksAreHeld, Holds
<1>2. pc'[e] = pc[e] /\ job'[e] = job[e]
  BY OthersStand
<1> QED BY <1>1, <1>2 DEF PortsInv, KnowsItsPort, HoldsBootLock


(* The port a coroutine's job names after a step that neither takes nor    *)
(* gives back one.                                                         *)
LEMMA PortIsKept ==
  ASSUME IInv, NEW c \in Coroutines, CoroutineStep(c)
  PROVE  \/ job'[c].port = job[c].port /\ job'[c].model = job[c].model /\ pc'[c] = pc[c]
         \/ pc'[c] \notin HoldsBootLock /\ pc[c] \notin HoldsBootLock \cup {"touch"} /\ job'[c].port = job[c].port
         \/ pc'[c] \notin HoldsBootLock /\ job'[c].port = NoPort
         \/ pc'[c] = "touch"
         \/ /\ job'[c] = job[c]
            /\ <<pc[c], pc'[c]>> \in {<<"boot", "failed">>, <<"docker", "failed">>, <<"poll", "cleanup">>,
                                      <<"cleanup", "failed">>}
         \/ RunDocker(c) \/ (Boot(c) /\ ReservePort(c)) \/ ColdStartFails(c) \/ (c = Prewarm /\ PrewarmFails)
<1> /\ job \in [Coroutines -> Job] /\ job[c] \in Job
    /\ pc \in [Coroutines -> Labels]
  BY DEF IInv, TypeOK
<1> USE DEF At, Go, HoldsBootLock
<1>1. NoJob.port = NoPort
  BY DEF NoJob
<1>2. CASE Receive(c)
  <2>1. pc'[c] \in {"route", "download"}
    BY <1>2 DEF Receive
  <2>2. job'[c].port = NoPort
    BY <1>2 DEF Receive, SetJob, NoJob
  <2> QED BY <2>1, <2>2
<1>3. CASE Onboard(c) \/ LockModel(c) \/ PrewarmLocked(c) \/ PrewarmStart \/ PrewarmEnd
  BY <1>3 DEF Onboard, LockModel, PrewarmLocked, WaitForBoot, PrewarmStart, PrewarmEnd
<1>4. CASE OnboardFails(c) \/ RouteFails(c) \/ EvictFails(c) \/ Finish(c)
  BY <1>1, <1>4 DEF OnboardFails, RouteFails, EvictFails, Finish, SetJob
<1>5. CASE Route(c)
  <2>1. PICK r : /\ SetJob(c, [job[c] EXCEPT !.model = r.model, !.dep = r.dep, !.victim = r.victim])
                 /\ Go(c, IF r.victim # NoDep THEN "evict" ELSE IF r.cold THEN "lock" ELSE "touch")
    BY <1>5 DEF Route
  <2>2. job'[c].port = job[c].port
    BY <2>1 DEF SetJob, Job
  <2>3. pc[c] = "route" /\ pc'[c] \in {"evict", "lock", "touch"}
    BY <1>5, <2>1 DEF Route
  <2> QED BY <2>2, <2>3
<1>6. CASE Evict(c)
  BY <1>6 DEF Evict
<1>7. CASE Recheck(c)
  <2>1. CASE FallBack(c, deployment)
    BY <1>1, <2>1 DEF FallBack, SetJob
  <2>2. CASE ~FallBack(c, deployment)
    BY <1>7, <2>2 DEF Recheck, WaitForBoot
  <2> QED BY <2>1, <2>2
<1>8. CASE Boot(c)
  BY <1>1, <1>8 DEF Boot, AlreadyBooted, SetJob
<1>9. CASE BootNoPort(c) \/ RunDockerFails(c) \/ PollTimeout(c) \/ Cleanup(c)
  BY <1>9 DEF BootNoPort, RunDockerFails, PollTimeout, Cleanup
<1>10. CASE Booted(c)
  BY <1>10 DEF Booted
<1>11. CASE Begin(c)
  BY <1>11 DEF Begin, SetJob, NoJob
<1>12. CASE c = Prewarm /\ PrewarmPick
  <2>1. pc'[c] \in {"next", "create", "download"} /\ pc[c] = "next"
    BY <1>12 DEF PrewarmPick
  <2>2. job'[c].port = NoPort \/ job'[c] = job[c]
    BY <1>12 DEF PrewarmPick, SetJob, NoJob
  <2> QED BY <2>1, <2>2
<1>13. CASE c = Prewarm /\ PrewarmCreate
  BY <1>13, JobFields DEF PrewarmCreate, SetJob
<1>14. CASE c = Prewarm /\ PrewarmBooted
  BY <1>1, <1>14 DEF PrewarmBooted, SetJob
<1> QED BY <1>2, <1>3, <1>4, <1>5, <1>6, <1>7, <1>8, <1>9, <1>10, <1>11, <1>12, <1>13, <1>14
        DEF CoroutineStep, RequestStep, ColdStartStep, PrewarmStep


(* Which steps touch engines and reservations.                             *)
LEMMA QuietPorts ==
  ASSUME IInv, "cleanup" \notin Faults, NEW c \in Coroutines, CoroutineStep(c),
         ~(RunDocker(c) \/ (Boot(c) /\ ReservePort(c)) \/ ColdStartFails(c) \/ (c = Prewarm /\ PrewarmFails))
  PROVE  /\ reserved' = reserved
         /\ EnginesStop
         /\ pc[c] = "cleanup" => pc'[c] = "failed" /\ \A n \in Names : n = NameOf[job[c].model] => ~Running(n)'
<1> TypeOK
  BY DEF IInv
<1>1. CASE Cleanup(c)
  <2>1. pc[c] = "cleanup" /\ pc'[c] = "failed" /\ NameOf[job[c].model] \in Names
    BY <1>1, ModelsAssumption DEF Cleanup, At, Go, TypeOK, IInv, JobsAreTyped, HasModel
  <2>2. PICK n \in Names : n = NameOf[job[c].model]
    BY <2>1
  <2>3. container' = [container EXCEPT ![n] = NoContainer] /\ reserved' = reserved
    BY <1>1, <2>2 DEF Cleanup
  <2>4. EnginesStop /\ ~Running(n)'
    BY <2>3, RemovalStops
  <2> QED BY <2>1, <2>2, <2>3, <2>4
<1>2. CASE Evict(c)
  <2>1. PICK n : container' \in {container, [container EXCEPT ![n] = NoContainer]}
    BY <1>2 DEF Evict
  <2>2. EnginesStop
    BY <2>1, RemovalStops DEF EnginesStop, Running
  <2> QED BY <1>2, <2>2 DEF Evict, At
<1>3. CASE UNCHANGED <<container, reserved>> /\ pc[c] # "cleanup"
  BY <1>3 DEF EnginesStop, Running
<1>4. CASE \/ Receive(c) \/ Onboard(c) \/ OnboardFails(c) \/ Route(c) \/ RouteFails(c) \/ EvictFails(c)
           \/ LockModel(c) \/ Recheck(c) \/ PrewarmLocked(c) \/ BootNoPort(c)
  BY <1>3, <1>4 DEF At, Receive, Onboard, OnboardFails, Route, RouteFails, EvictFails, LockModel, Recheck,
     PrewarmLocked, BootNoPort
<1>5. CASE \/ RunDockerFails(c) \/ Booted(c) \/ PollTimeout(c) \/ Begin(c) \/ Finish(c)
           \/ (c = Prewarm /\ (PrewarmStart \/ PrewarmPick \/ PrewarmEnd \/ PrewarmCreate \/ PrewarmBooted))
  BY <1>3, <1>5 DEF At, RunDockerFails, Booted, PollTimeout, Begin, Finish, PrewarmStart, PrewarmPick, PrewarmEnd,
     PrewarmCreate, PrewarmBooted
<1>6. CASE Boot(c) /\ ~ReservePort(c)
  BY <1>3, <1>6 DEF At, Boot, AlreadyBooted
<1> QED BY <1>1, <1>2, <1>4, <1>5, <1>6 DEF CoroutineStep, RequestStep, ColdStartStep, PrewarmStep

LEMMA QuietKeepsPorts ==
  ASSUME IInv, PortsInv, "cleanup" \notin Faults, NEW c \in Coroutines, CoroutineStep(c),
         ~(RunDocker(c) \/ (Boot(c) /\ ReservePort(c)) \/ ColdStartFails(c) \/ (c = Prewarm /\ PrewarmFails))
  PROVE  PortsInv'
<1>1. /\ reserved' = reserved
      /\ EnginesStop
      /\ pc[c] = "cleanup" => pc'[c] = "failed" /\ \A n \in Names : n = NameOf[job[c].model] => ~Running(n)'
  BY QuietPorts
<1>2. PortsAreReserved' /\ PortsAreUnique' /\ (\A e \in Coroutines : e # c => KnowsItsPort(e)')
  BY <1>1, StoppingIsSafe, OthersStand
<1>3. KnowsItsPort(c)'
  <2>1. CASE job'[c].port = job[c].port /\ job'[c].model = job[c].model /\ pc'[c] = pc[c]
    BY <1>1, <2>1, StoppingIsSafe
  <2>2. CASE pc'[c] \notin HoldsBootLock /\ pc[c] \notin HoldsBootLock \cup {"touch"} /\ job'[c].port = job[c].port
    BY <2>2 DEF PortsInv, KnowsItsPort, HoldsBootLock
  <2>3. CASE pc'[c] \notin HoldsBootLock /\ job'[c].port = NoPort
    BY <2>3 DEF KnowsItsPort, HoldsBootLock
  <2>4. CASE pc'[c] = "touch"
    BY <2>4 DEF KnowsItsPort
  <2>5. CASE job'[c] = job[c] /\ pc[c] = "boot" /\ pc'[c] = "failed"
    <3>1. job'[c].port = NoPort
      BY <2>5 DEF PortsInv, KnowsItsPort, HoldsBootLock
    <3>2. \A n \in Names : Running(n)' => container'[n].port \in Ports
      BY <1>1 DEF EnginesStop, IInv, EnginesHavePorts
    <3>3. NoPort \notin Ports
      BY DEF NoPort, Ports
    <3> QED BY <2>5, <3>1, <3>2, <3>3 DEF KnowsItsPort, OnItsPort, Running, HoldsBootLock
  <2>6. CASE job'[c] = job[c] /\ <<pc[c], pc'[c]>> \in {<<"docker", "failed">>, <<"poll", "cleanup">>, <<"cleanup", "failed">>}
    <3>1. \A n \in Names : OnItsPort(c, n)' => OnItsPort(c, n)
      BY <1>1, <2>6 DEF EnginesStop, OnItsPort, Running
    <3>2. CASE pc[c] = "docker" /\ pc'[c] = "failed"
      BY <3>1, <3>2 DEF PortsInv, KnowsItsPort, HoldsBootLock
    <3>3. CASE pc[c] = "poll" /\ pc'[c] = "cleanup"
      BY <1>1, <2>6, <3>1, <3>3 DEF PortsInv, KnowsItsPort, HoldsBootLock
    <3>4. CASE pc[c] = "cleanup" /\ pc'[c] = "failed"
      <4>1. \A n \in Names : OnItsPort(c, n)' => n = NameOf[job[c].model] /\ Running(n)'
        BY <3>1, <3>4 DEF PortsInv, KnowsItsPort, OnItsPort, Running
      <4>2. \A n \in Names : ~OnItsPort(c, n)'
        BY <1>1, <3>4, <4>1
      <4> QED BY <3>4, <4>2 DEF KnowsItsPort, HoldsBootLock
    <3> QED BY <2>6, <3>2, <3>3, <3>4
  <2> QED BY <2>1, <2>2, <2>3, <2>4, <2>5, <2>6, PortIsKept DEF HoldsBootLock
<1> QED BY <1>2, <1>3 DEF PortsInv


(* Taking a port: no engine runs on one that is not reserved.              *)
LEMMA ReserveKeepsPorts ==
  ASSUME IInv, PortsInv, NEW c \in Coroutines, CoroutineStep(c), Boot(c), ReservePort(c)
  PROVE  PortsInv'
<1> job \in [Coroutines -> Job] /\ job[c] \in Job /\ pc \in [Coroutines -> Labels]
  BY DEF IInv, TypeOK
<1>1. PICK p \in FreePorts : reserved' = reserved \cup {p} /\ SetJob(c, [job[c] EXCEPT !.port = p])
  BY DEF ReservePort
<1>2. container' = container /\ pc'[c] = "docker" /\ job'[c].port = p
  <2>1. job'[c].port = p
    BY <1>1, JobFields DEF SetJob
  <2> QED BY <2>1 DEF Boot, ReservePort, Go
<1>3. PortsAreReserved' /\ PortsAreUnique'
  BY <1>1, <1>2 DEF PortsInv, PortsAreReserved, PortsAreUnique, Running
<1>4. KnowsItsPort(c)'
  <2>1. \A n \in Names : ~OnItsPort(c, n)'
    BY <1>1, <1>2 DEF PortsInv, PortsAreReserved, FreePorts, OnItsPort, Running
  <2> QED BY <1>1, <1>2, <2>1 DEF KnowsItsPort, HoldsBootLock
<1>5. \A e \in Coroutines : e # c => KnowsItsPort(e)'
  BY OthersKeepPorts DEF Boot, At
<1> QED BY <1>3, <1>4, <1>5 DEF PortsInv

(* docker run: on the port taken before, or taking the engine over on its  *)
(* own port.                                                               *)
LEMMA RunKeepsPorts ==
  ASSUME IInv, PortsInv, NEW c \in Coroutines, CoroutineStep(c), RunDocker(c)
  PROVE  PortsInv'
<1> /\ job \in [Coroutines -> Job] /\ job[c] \in Job /\ pc \in [Coroutines -> Labels]
    /\ container \in [Names -> Container]
  BY DEF IInv, TypeOK
<1>1. /\ pc[c] = "docker" /\ pc'[c] = "poll"
      /\ \A n \in Names : ~OnItsPort(c, n)
      /\ job[c].port \in reserved
      /\ job[c].model \in Models
  BY DEF RunDocker, At, Go, PortsInv, KnowsItsPort, IInv, JobsAreTyped, HasModel
<1>2. PICK k \in Names : k = NameOf[job[c].model]
  BY <1>1, ModelsAssumption
<1>3. \A e \in Coroutines : e # c => KnowsItsPort(e)'
  BY <1>1, OthersKeepPorts DEF HoldsBootLock
<1>4. CASE Running(k)
  <2>1. /\ container' = container
        /\ reserved' = (reserved \ {job[c].port}) \cup {container[k].port}
        /\ SetJob(c, [job[c] EXCEPT !.port = container[k].port])
    BY <1>2, <1>4 DEF RunDocker
  <2>2. job'[c].port = container[k].port /\ job'[c].model = job[c].model
    BY <2>1, JobFields DEF SetJob
  <2>3. PortsAreReserved' /\ PortsAreUnique'
    BY <1>1, <2>1 DEF PortsInv, PortsAreReserved, PortsAreUnique, Running, OnItsPort
  <2>4. \A n \in Names : OnItsPort(c, n)' => n = k
    BY <1>4, <2>1, <2>2 DEF OnItsPort, PortsInv, PortsAreUnique, Running
  <2>5. KnowsItsPort(c)'
    BY <1>1, <1>2, <2>1, <2>2, <2>4 DEF KnowsItsPort, HoldsBootLock
  <2> QED BY <1>3, <2>3, <2>5 DEF PortsInv
<1>5. CASE ~Running(k)
  <2>1. /\ container' = [container EXCEPT ![k] = [status |-> "starting", port |-> job[c].port]]
        /\ reserved' = (reserved \ {job[c].port}) \cup {job[c].port}
        /\ SetJob(c, [job[c] EXCEPT !.port = job[c].port])
    BY <1>2, <1>5 DEF RunDocker
  <2>2. job'[c].port = job[c].port /\ job'[c].model = job[c].model
    BY <2>1, JobFields DEF SetJob
  <2>3. \A n \in Names : IF n = k THEN container'[n].port = job[c].port ELSE container'[n] = container[n]
    BY <2>1
  <2>4. PortsAreReserved'
    BY <1>1, <2>1, <2>3 DEF PortsInv, PortsAreReserved, Running
  <2>5. PortsAreUnique'
    BY <1>1, <2>3 DEF PortsInv, PortsAreUnique, Running, OnItsPort
  <2>6. \A n \in Names : OnItsPort(c, n)' => n = k
    BY <1>1, <2>2, <2>3 DEF OnItsPort, Running
  <2>7. KnowsItsPort(c)'
    BY <1>1, <1>2, <2>1, <2>2, <2>6 DEF KnowsItsPort, HoldsBootLock
  <2> QED BY <1>3, <2>4, <2>5, <2>7 DEF PortsInv
<1> QED BY <1>4, <1>5

(* Giving the port of a failed cold start back: nothing runs on it.        *)
LEMMA FailureKeepsPorts ==
  ASSUME IInv, PortsInv, NEW c \in Coroutines, CoroutineStep(c), ColdStartFails(c) \/ (c = Prewarm /\ PrewarmFails)
  PROVE  PortsInv'
<1> job \in [Coroutines -> Job] /\ pc \in [Coroutines -> Labels]
  BY DEF IInv, TypeOK
<1>1. /\ pc[c] = "failed"
      /\ container' = container
      /\ reserved' = reserved \ {job[c].port}
  BY DEF ColdStartFails, PrewarmFails, At
<1>2. \A n \in Names : ~OnItsPort(c, n)
  BY <1>1 DEF PortsInv, KnowsItsPort
<1>3. PortsAreReserved' /\ PortsAreUnique'
  BY <1>1, <1>2 DEF PortsInv, PortsAreReserved, PortsAreUnique, Running, OnItsPort
<1>4. KnowsItsPort(c)'
  <2>1. CASE ColdStartFails(c)
    <3>1. FallBack(c, deployment')
      BY <2>1 DEF ColdStartFails
    <3>2. pc'[c] = "touch" \/ (pc'[c] = "idle" /\ job'[c] = NoJob)
      BY <3>1 DEF FallBack, Go, SetJob
    <3> QED BY <3>2 DEF KnowsItsPort, NoJob, HoldsBootLock
  <2>2. CASE c = Prewarm /\ PrewarmFails
    BY <2>2 DEF PrewarmFails, Go, SetJob, KnowsItsPort, NoJob, HoldsBootLock
  <2> QED BY <2>1, <2>2
<1>5. \A e \in Coroutines : e # c => KnowsItsPort(e)'
  BY <1>1, OthersKeepPorts DEF HoldsBootLock
<1> QED BY <1>3, <1>4, <1>5 DEF PortsInv

(* The worker removes containers, engines start and die.                   *)
LEMMA OthersStop ==
  ASSUME IInv, Tick \/ EnvironmentStep \/ UNCHANGED vars, ~Restart
  PROVE  UNCHANGED <<pc, job, reserved>> /\ EnginesStop
<1> container \in [Names -> Container]
  BY DEF IInv, TypeOK
<1>1. UNCHANGED <<pc, job, reserved>>
  BY DEF Tick, EnvironmentStep, EngineStarts, EngineCrashes, OperatorDeploy, OperatorReads, OperatorUnloads,
     coroutineVars, vars
<1>2. EnginesStop
  <2>1. CASE Tick
    <3>1. PICK stop : TickUpTo(stop)
      BY <2>1 DEF Tick
    <3>2. \A n \in Names : container'[n] \in {container[n], NoContainer}
      BY <3>1 DEF TickUpTo
    <3> QED BY <3>2 DEF EnginesStop, Running, NoContainer
  <2>2. ASSUME NEW n \in Names, EngineStarts(n)
        PROVE  EnginesStop
    <3>1. \A k \in Names : \/ container'[k] \in {container[k], NoContainer}
                           \/ k = n /\ container'[k] = [container[k] EXCEPT !.status = "healthy"]
      BY <2>2 DEF EngineStarts
    <3>2. [container[n] EXCEPT !.status = "healthy"].port = container[n].port
      BY DEF Container
    <3>3. Running(n)
      BY <2>2 DEF EngineStarts, Running
    <3>4. ASSUME NEW k \in Names, Running(k)'
          PROVE  Running(k) /\ container'[k].port = container[k].port
      <4>1. container'[k] # NoContainer
        BY <3>4 DEF Running, NoContainer
      <4>2. CASE container'[k] = container[k]
        BY <3>4, <4>2 DEF Running
      <4>3. CASE container'[k] # container[k]
        <5>1. k = n /\ container'[n] = [container[n] EXCEPT !.status = "healthy"]
          BY <3>1, <4>1, <4>3
        <5> QED BY <3>2, <3>3, <5>1
      <4> QED BY <4>2, <4>3
    <3> QED BY <3>4 DEF EnginesStop
  <2>3. ASSUME NEW n \in Names, EngineCrashes(n)
        PROVE  EnginesStop
    <3>1. container' = [container EXCEPT ![n] = NoContainer] /\ TypeOK
      BY <2>3 DEF EngineCrashes, IInv
    <3> QED BY <3>1, RemovalStops
  <2>4. CASE UNCHANGED container
    BY <2>4 DEF EnginesStop, Running
  <2> QED BY <2>1, <2>2, <2>3, <2>4 DEF EnvironmentStep, OperatorDeploy, OperatorReads, OperatorUnloads, vars
<1> QED BY <1>1, <1>2

LEMMA NextPorts ==
  ASSUME MaxRestarts = 0, "cleanup" \notin Faults
  PROVE  IInv /\ PortsInv /\ [Next]_vars => PortsInv'
<1> SUFFICES ASSUME IInv, PortsInv, [Next]_vars PROVE PortsInv'
  OBVIOUS
<1>1. ASSUME NEW c \in Coroutines, CoroutineStep(c) PROVE PortsInv'
  BY <1>1, QuietKeepsPorts, ReserveKeepsPorts, RunKeepsPorts, FailureKeepsPorts
<1>2. ~Restart
  BY DEF Restart, IInv, TypeOK
<1>3. Tick \/ EnvironmentStep \/ UNCHANGED vars \/ \E c \in Coroutines : CoroutineStep(c)
  BY DEF Next, ServiceStep, CoroutineStep, Coroutines
<1>4. CASE Tick \/ EnvironmentStep \/ UNCHANGED vars
  <2>1. UNCHANGED <<pc, job, reserved>> /\ EnginesStop
    BY <1>2, <1>4, OthersStop
  <2> QED BY <2>1, StoppingIsSafe DEF PortsInv
<1> QED BY <1>1, <1>3, <1>4

LEMMA PortsInductive ==
  ASSUME MaxRestarts = 0, "cleanup" \notin Faults
  PROVE  Spec => [](IInv /\ PortsInv)
<1>1. Init => PortsInv
  BY DEF Init, PortsInv, PortsAreReserved, PortsAreUnique, KnowsItsPort, Running, NoContainer, NoJob, HoldsBootLock,
     Coroutines
<1> QED BY <1>1, Inductive, NextPorts, PTL DEF Spec

(* Two engines never run on one port, whatever operators do and engines    *)
(* die.  A restart forgets _reserved_ports while the containers run on,    *)
(* and a container that could not be removed keeps a port that is given    *)
(* back: hence the two assumptions.                                        *)
THEOREM OneEnginePerPort ==
  ASSUME MaxRestarts = 0, "cleanup" \notin Faults
  PROVE  Spec => []PortsAreUnique
<1>1. PortsInv => PortsAreUnique
  BY DEF PortsInv
<1> QED BY <1>1, PortsInductive, PTL


-----------------------------------------------------------------------------
(* Endpoints.  The port of a READY row is reserved, no cold start is about *)
(* to use it for a new engine, and no engine but its own runs on it.       *)
EndpointsAreHeld ==
  \A d \in Deps : Ready(d) /\ Managed(d) =>
    /\ deployment[d].port \in reserved
    /\ \A c \in Coroutines : pc[c] = "docker" => job[c].port # deployment[d].port

EndpointInv == EndpointsAreHeld /\ EndpointsAreOwn

(* A row that is READY on a port after a step has not changed, or a cold   *)
(* start of its model has just ended well on that port.                    *)
ReadyOn(c, d) ==
  /\ pc[c] = "poll" /\ pc'[c] # "docker" /\ UNCHANGED <<container, reserved>>
  /\ deployment'[d].port = job[c].port /\ deployment'[d].model = job[c].model

LEMMA ReadyRows ==
  ASSUME IInv, [Next]_vars, NEW d \in Deps, Ready(d)', Managed(d)', deployment'[d] # deployment[d]
  PROVE  \E c \in Coroutines : CoroutineStep(c) /\ ReadyOn(c, d)
<1> /\ Prewarm \in Coroutines /\ \A c \in Clients : c \in Coroutines
    /\ deployment[d] \in DeploymentRecord
    /\ pc \in [Coroutines -> Labels]
  BY DEF Coroutines, IInv, TypeOK
<1>1. deployment'[d].status = "ready" /\ deployment'[d].port # NoPort
  BY DEF Ready, Managed
<1>2. /\ deployment'[d] # [deployment[d] EXCEPT !.status = "unloaded"]
      /\ deployment'[d] # [deployment[d] EXCEPT !.status = "failed"]
  <2>1. /\ [deployment[d] EXCEPT !.status = "unloaded"].status = "unloaded"
        /\ [deployment[d] EXCEPT !.status = "failed"].status = "failed"
    BY StatusField
  <2> QED BY <1>1, <2>1
<1>a. \A m, b : deployment'[d] # PendingDeployment(m, b) /\ deployment'[d] # ReadyRecord(m, NoPort, b)
  BY <1>1 DEF PendingDeployment, ReadyRecord
<1>b. deployment'[d] # AbsentDeployment
  BY <1>1 DEF AbsentDeployment
<1>3. ASSUME NEW c \in Clients, Receive(c) \/ RequestStep(c)
      PROVE  CoroutineStep(c) /\ ReadyOn(c, d)
  <2>1. ClientWrites(c, d)
    BY <1>3, ClientRow
  <2>2. Booted(c) /\ deployment'[d] = ReadyRecord(job[c].model, job[c].port, Permanent(d))
    BY <1>2, <1>a, <2>1, Zenon DEF ClientWrites
  <2>3. deployment'[d].port = job[c].port /\ deployment'[d].model = job[c].model
    BY <2>2 DEF ReadyRecord
  <2> QED BY <1>3, <2>2, <2>3 DEF Booted, At, Go, ReadyOn, CoroutineStep
<1>4. ASSUME PrewarmStep
      PROVE  CoroutineStep(Prewarm) /\ ReadyOn(Prewarm, d)
  <2>1. PrewarmWrites(d)
    BY <1>4, PrewarmRow
  <2>2. PrewarmBooted /\ deployment'[d] = ReadyRecord(job[Prewarm].model, job[Prewarm].port, TRUE)
    BY <1>2, <1>a, <1>b, <2>1, Zenon DEF PrewarmWrites
  <2>3. deployment'[d].port = job[Prewarm].port /\ deployment'[d].model = job[Prewarm].model
    BY <2>2 DEF ReadyRecord
  <2> QED BY <1>4, <2>2, <2>3 DEF PrewarmBooted, At, Go, ReadyOn, CoroutineStep
<1>5. ASSUME Tick \/ EnvironmentStep \/ UNCHANGED vars
      PROVE  FALSE
  <2>1. OtherWrites(d)
    BY <1>5, OtherRow
  <2>2. \A o \in Operators : deployment'[d] # [snapshot[o].record EXCEPT !.status = "unloaded"]
    <3>1. \A o \in Operators : snapshot[o].record \in DeploymentRecord
      BY DEF IInv, TypeOK, Snapshot
    <3>2. \A o \in Operators : [snapshot[o].record EXCEPT !.status = "unloaded"].status = "unloaded"
      BY <3>1, StatusField
    <3> QED BY <1>1, <3>2
  <2> QED BY <1>2, <1>a, <2>1, <2>2, Zenon DEF OtherWrites
<1> QED BY <1>3, <1>4, <1>5 DEF Next, ServiceStep

(* What each step may do to engines and reserved ports: nothing but stop   *)
(* engines, or one of the three moves of a cold start.                     *)
PortMove ==
  \/ /\ reserved' = reserved /\ EnginesStop
     /\ \A c \in Coroutines : pc'[c] = "docker" => pc[c] = "docker" /\ job'[c].port = job[c].port
  \/ \E c \in Coroutines :
       /\ deployment' = deployment
       /\ \A e \in Coroutines : e # c => pc'[e] = pc[e] /\ job'[e] = job[e]
       /\ (Boot(c) /\ ReservePort(c)) \/ RunDocker(c)
  \/ \E c \in Coroutines :
       /\ pc[c] = "failed" /\ container' = container /\ reserved' = reserved \ {job[c].port}
       /\ \A e \in Coroutines : pc'[e] = "docker" => pc[e] = "docker" /\ job'[e].port = job[e].port

LEMMA PortMoves ==
  ASSUME MaxRestarts = 0, "cleanup" \notin Faults, IInv, [Next]_vars
  PROVE  PortMove
<1> pc \in [Coroutines -> Labels] /\ job \in [Coroutines -> Job]
  BY DEF IInv, TypeOK
<1>1. ASSUME NEW c \in Coroutines, CoroutineStep(c)
      PROVE  PortMove
  <2>1. \A e \in Coroutines : e # c => pc'[e] = pc[e] /\ job'[e] = job[e]
    BY <1>1, OthersStand
  <2>2. CASE (Boot(c) /\ ReservePort(c)) \/ RunDocker(c)
    <3>1. deployment' = deployment
      BY <2>2 DEF Boot, RunDocker, registryVars
    <3> QED BY <2>1, <2>2, <3>1 DEF PortMove
  <2>3. CASE ColdStartFails(c) \/ (c = Prewarm /\ PrewarmFails)
    <3>1. pc[c] = "failed" /\ container' = container /\ reserved' = reserved \ {job[c].port}
      BY <2>3 DEF ColdStartFails, PrewarmFails, At
    <3>2. pc'[c] # "docker"
      BY <2>3 DEF ColdStartFails, PrewarmFails, FallBack, Go
    <3> QED BY <2>1, <3>1, <3>2 DEF PortMove
  <2>4. CASE ~(RunDocker(c) \/ (Boot(c) /\ ReservePort(c)) \/ ColdStartFails(c) \/ (c = Prewarm /\ PrewarmFails))
    <3>1. reserved' = reserved /\ EnginesStop
      BY <1>1, <2>4, QuietPorts
    <3>2. pc'[c] = "docker" => pc[c] = "docker" /\ job'[c].port = job[c].port
      BY <1>1, <2>4, PortIsKept DEF HoldsBootLock
    <3> QED BY <2>1, <3>1, <3>2 DEF PortMove
  <2> QED BY <2>2, <2>3, <2>4
<1>2. CASE Tick \/ EnvironmentStep \/ UNCHANGED vars
  <2>1. UNCHANGED <<pc, job, reserved>> /\ EnginesStop
    BY <1>2, OthersStop DEF Restart, IInv, TypeOK
  <2> QED BY <2>1 DEF PortMove
<1> QED BY <1>1, <1>2 DEF Next, ServiceStep, CoroutineStep, Coroutines

LEMMA NextEndpoints ==
  ASSUME MaxRestarts = 0, "cleanup" \notin Faults,
         IInv, PortsInv, EndpointInv, NoStrandedFailure, [Next]_vars
  PROVE  EndpointInv'
<1> /\ pc \in [Coroutines -> Labels] /\ job \in [Coroutines -> Job]
    /\ container \in [Names -> Container]
  BY DEF IInv, TypeOK
<1> SUFFICES ASSUME NEW d \in Deps, Ready(d)', Managed(d)'
             PROVE  /\ deployment'[d].port \in reserved'
                    /\ \A c \in Coroutines : pc'[c] = "docker" => job'[c].port # deployment'[d].port
                    /\ \A n \in Names : Running(n)' /\ container'[n].port = deployment'[d].port
                                           => n = NameOf[deployment'[d].model]
  BY DEF EndpointInv, EndpointsAreHeld, EndpointsAreOwn, ContainerOf
<1>1. CASE deployment'[d] = deployment[d]
  <2>1. /\ Ready(d) /\ Managed(d)
        /\ deployment[d].port \in reserved
        /\ \A c \in Coroutines : pc[c] = "docker" => job[c].port # deployment[d].port
        /\ \A n \in Names : Running(n) /\ container[n].port = deployment[d].port
                               => n = NameOf[deployment[d].model]
    BY <1>1 DEF EndpointInv, EndpointsAreHeld, EndpointsAreOwn, ContainerOf, Ready, Managed
  <2>2. CASE /\ reserved' = reserved /\ EnginesStop
             /\ \A c \in Coroutines : pc'[c] = "docker" => pc[c] = "docker" /\ job'[c].port = job[c].port
    BY <1>1, <2>1, <2>2 DEF EnginesStop
  <2>3. ASSUME NEW c \in Coroutines,
               \A e \in Coroutines : e # c => pc'[e] = pc[e] /\ job'[e] = job[e],
               Boot(c), ReservePort(c)
        PROVE  /\ deployment[d].port \in reserved'
               /\ \A e \in Coroutines : pc'[e] = "docker" => job'[e].port # deployment[d].port
               /\ container' = container
    <3>1. PICK p \in FreePorts : reserved' = reserved \cup {p} /\ SetJob(c, [job[c] EXCEPT !.port = p])
      BY <2>3 DEF ReservePort
    <3>2. job'[c].port = p
      BY <3>1, JobFields DEF SetJob
    <3>3. p # deployment[d].port
      BY <2>1 DEF FreePorts
    <3> QED BY <2>1, <2>3, <3>1, <3>2, <3>3 DEF Boot
  <2>4. ASSUME NEW c \in Coroutines,
               \A e \in Coroutines : e # c => pc'[e] = pc[e] /\ job'[e] = job[e],
               RunDocker(c)
        PROVE  /\ deployment[d].port \in reserved'
               /\ \A e \in Coroutines : pc'[e] = "docker" => job'[e].port # deployment[d].port
               /\ \A n \in Names : Running(n)' /\ container'[n].port = deployment[d].port
                                      => Running(n) /\ container[n].port = deployment[d].port
    <3>1. pc[c] = "docker" /\ pc'[c] = "poll" /\ job[c].port # deployment[d].port
      BY <2>1, <2>4 DEF RunDocker, At, Go
    <3>2. PICK k, p : /\ reserved' = (reserved \ {job[c].port}) \cup {p}
                      /\ \/ container' = container
                         \/ container' = [container EXCEPT ![k] = [status |-> "starting", port |-> job[c].port]]
      BY <2>4 DEF RunDocker
    <3> QED BY <2>1, <2>4, <3>1, <3>2 DEF Running
  <2>5. ASSUME NEW c \in Coroutines, pc[c] = "failed", reserved' = reserved \ {job[c].port}
        PROVE  deployment[d].port \in reserved'
    BY <2>1, <2>5 DEF NoStrandedFailure
  <2> QED BY <1>1, <2>1, <2>2, <2>3, <2>4, <2>5, PortMoves DEF PortMove, Running
<1>2. CASE deployment'[d] # deployment[d]
  <2>1. PICK c \in Coroutines : CoroutineStep(c) /\ ReadyOn(c, d)
    BY <1>2, ReadyRows
  <2>2. /\ deployment'[d].port \in reserved
        /\ \A n \in Names : Running(n) /\ container[n].port = deployment'[d].port
                               => n = NameOf[deployment'[d].model]
    BY <2>1 DEF ReadyOn, PortsInv, KnowsItsPort, OnItsPort
  <2>3. \A e \in Coroutines : pc'[e] # "docker"
    <3>1. ASSUME NEW e \in Coroutines, e # c PROVE pc'[e] # "docker"
      <4>1. pc'[e] = pc[e]
        BY <2>1, <3>1, OthersStand
      <4> QED BY <2>1, <3>1, <4>1 DEF ReadyOn, HoldsBootLock, IInv, LocksAreHeld, Holds
    <3> QED BY <2>1, <3>1 DEF ReadyOn
  <2> QED BY <2>1, <2>2, <2>3 DEF ReadyOn, Running
<1> QED BY <1>1, <1>2

(* The endpoint of a READY deployment reaches another model's engine only  *)
(* after a cold start has failed on the port of a READY deployment that    *)
(* shares its container.                                                   *)
THEOREM EndpointsStayOwn ==
  ASSUME MaxRestarts = 0, "cleanup" \notin Faults
  PROVE  Spec => EndpointsKept
<1>1. Init => EndpointInv
  BY DEF Init, EndpointInv, EndpointsAreHeld, EndpointsAreOwn, Ready, PendingDeployment, AbsentDeployment
<1>2. IInv /\ PortsInv /\ EndpointInv /\ NoStrandedFailure /\ [Next]_vars => EndpointInv'
  BY NextEndpoints
<1>3. EndpointInv => EndpointsAreOwn
  BY DEF EndpointInv
<1> QED BY <1>1, <1>2, <1>3, PortsInductive, PTL DEF Spec, EndpointsKept

-----------------------------------------------------------------------------
(* The sum of the ledger.                                                  *)

(* Setting one entry moves the sum by the difference.                      *)
LEMMA LedgerSum ==
  ASSUME NEW a \in [Deps -> Nat], NEW d \in Deps, NEW v \in Nat
  PROVE  /\ AllocatedVram(a) \in Nat
         /\ AllocatedVram([a EXCEPT ![d] = v]) = AllocatedVram(a) - a[d] + v
<1> DEFINE b == [a EXCEPT ![d] = v]
           SumOf(t) == CHOOSE s : IsSum(s, t, Deps)
<1>1. IsFiniteSet(Deps) /\ b \in [Deps -> Nat] /\ b[d] = v /\ \A x \in Deps \ {d} : a[x] = b[x]
  <2>1. 1 \in Int /\ MaxDeps \in Int
    BY BoundsAssumption
  <2>2. IsFiniteSet(1 .. MaxDeps)
    BY <2>1, FS_Interval
  <2>3. IsFiniteSet(Deps)
    BY <2>2 DEF Deps
  <2> QED BY <2>3
<1> HIDE DEF b
<1>2. ASSUME NEW t PROVE AllocatedVram(t) = SumOf(t)[Deps]
  BY DEF AllocatedVram, MapThenSumSet, MapThenFoldSet, IsSum, Pick
<1>3. \A t : IsSum(SumOf(t), t, Deps)
  BY <1>1, SumExists
<1> HIDE DEF SumOf
<1>4. SumOf(a)[Deps] = a[d] + SumOf(a)[Deps \ {d}] /\ SumOf(b)[Deps] = b[d] + SumOf(b)[Deps \ {d}]
  BY <1>1, <1>3, SumSplits
<1>5. SumOf(a)[Deps \ {d}] = SumOf(b)[Deps \ {d}]
  BY <1>1, <1>3, SumAgrees
<1>6. SumOf(a)[Deps \ {d}] \in Nat /\ SumOf(a)[Deps] \in Nat
  BY <1>1, <1>3, SumIsNatural
<1>7. AllocatedVram(b) = AllocatedVram(a) - a[d] + v
  <2>1. \A p, q, r, s \in Nat : p = q + r => s + r = p - q + s
    OBVIOUS
  <2> QED BY <1>1, <1>2, <1>4, <1>5, <1>6, <2>1
<1> QED BY <1>2, <1>6, <1>7 DEF b

(* A victim is chosen only if what it holds, with what is free, is enough. *)
LEMMA VictimsSuffice ==
  ASSUME TypeOK, NEW cap, NEW preferred, NEW r \in Routes(cap, preferred), r.victim # NoDep
  PROVE  /\ r.cold /\ r.victim \in Deps /\ r.victim # r.dep
         /\ r.dep # NoDep => r.dep \in Deps /\ allocated[r.dep] = 0
         /\ AllocatedVram(allocated) + MemOf[r.model] - allocated[r.victim] <= TotalVram
<1>1. r.model \in Models /\ r.dep \in Deps \cup {NoDep} /\ r.victim \in Deps
  BY RouteTypes
<1>2. r \in ScaleOut(cap, preferred)
  <2>1. CASE r \in ServePreferred(cap, preferred) \/ r \in ServeIdle(cap)
    BY <2>1 DEF ServePreferred, ServeIdle, Decision
  <2>2. CASE r \in QueueOnActive(cap)
    <3>1. PICK d : r = Decision(deployment[d].model, d, NoDep, Startable(d))
      BY <2>2, Zenon DEF QueueOnActive
    <3> QED BY <3>1 DEF Decision
  <2> QED BY <2>1, <2>2 DEF Routes
<1>3. PICK x \in OnDisk(cap) :
           /\ r.model = x.model /\ r.dep = x.dep /\ r.cold = TRUE
           /\ MakesRoom(r.victim, MemOf[x.model])
  BY <1>2 DEF ScaleOut, Decision
<1>4. r.dep # NoDep => Startable(r.dep) /\ ~IsAllocated(r.dep)
  BY <1>3 DEF OnDisk
<1>5. Ready(r.victim)
  BY RouteChoice DEF EvictionCandidate
<1>6. allocated \in [Deps -> Nat] /\ MemOf[r.model] \in Nat /\ TotalVram \in Nat
  BY <1>1, ModelsAssumption, VramAssumption DEF TypeOK
<1>7. AllocatedVram(allocated) \in Nat
  BY <1>1, <1>6, LedgerSum
<1> QED BY <1>1, <1>3, <1>4, <1>5, <1>6, <1>7 DEF MakesRoom, AvailableVram, IsAllocated, Startable, Ready

(* Between its decision and the eviction a request is alone on the loop,   *)
(* so what it has calculated still holds.                                  *)
EvictionsFit ==
  \A c \in Clients : pc[c] = "evict" =>
    /\ loop = c /\ job[c].victim \in Deps
    /\ AllocatedVram(allocated) - allocated[job[c].victim] <= TotalVram

(* A request that gets there has just been routed.                         *)
LEMMA RoutedToEvict ==
  ASSUME IInv, NEW c \in Clients, Receive(c) \/ RequestStep(c), pc'[c] = "evict"
  PROVE  Route(c)
<1> /\ c \in Coroutines /\ c # Prewarm
    /\ pc \in [Coroutines -> Labels]
  BY CoroutinesAssumption DEF Coroutines, IInv, TypeOK
<1> USE DEF At, Go
<1>1. ~Receive(c) /\ ~Onboard(c) /\ ~OnboardFails(c) /\ ~RouteFails(c) /\ ~Evict(c) /\ ~EvictFails(c)
  BY DEF Receive, Onboard, OnboardFails, RouteFails, Evict, EvictFails
<1>2. ~LockModel(c) /\ ~Boot(c) /\ ~BootNoPort(c) /\ ~RunDocker(c) /\ ~RunDockerFails(c) /\ ~Booted(c)
      /\ ~PollTimeout(c) /\ ~Cleanup(c) /\ ~Begin(c) /\ ~Finish(c) /\ ~PrewarmLocked(c)
  BY DEF LockModel, Boot, AlreadyBooted, ReservePort, BootNoPort, RunDocker, RunDockerFails, Booted, PollTimeout,
     Cleanup, Begin, Finish, PrewarmLocked
<1>3. ~Recheck(c) /\ ~ColdStartFails(c)
  BY DEF Recheck, WaitForBoot, FallBack, ColdStartFails
<1> QED BY <1>1, <1>2, <1>3 DEF RequestStep, ColdStartStep

(* Its decision leaves enough to evict.                                    *)
LEMMA RouteFitsEviction ==
  ASSUME IInv, NEW c \in Clients, Route(c), pc'[c] = "evict"
  PROVE  /\ loop' = c /\ job'[c].victim \in Deps
         /\ AllocatedVram(allocated') - allocated'[job'[c].victim] <= TotalVram
<1> /\ c \in Coroutines /\ TypeOK
    /\ pc \in [Coroutines -> Labels] /\ job \in [Coroutines -> Job] /\ allocated \in [Deps -> Nat]
  BY DEF Coroutines, IInv, TypeOK
<1>1. PICK r \in Routes(job[c].cap, job[c].model) :
           /\ job' = [job EXCEPT ![c] = [job[c] EXCEPT !.model = r.model, !.dep = r.dep, !.victim = r.victim]]
           /\ IF r.cold /\ r.dep # NoDep THEN Allocate(r.dep, MemOf[r.model]) ELSE UNCHANGED allocated
           /\ pc' = [pc EXCEPT ![c] = IF r.victim # NoDep THEN "evict" ELSE IF r.cold THEN "lock" ELSE "touch"]
  BY DEF Route, SetJob, Go
<1>2. r.victim # NoDep
  BY <1>1
<1>3. loop' = c /\ job'[c].victim = r.victim
  BY <1>1 DEF Route, Keeps, At, Job
<1>4. /\ r.cold /\ r.victim \in Deps /\ r.victim # r.dep
      /\ r.dep # NoDep => r.dep \in Deps /\ allocated[r.dep] = 0
      /\ AllocatedVram(allocated) + MemOf[r.model] - allocated[r.victim] <= TotalVram
  BY <1>2, VictimsSuffice
<1>5. MemOf[r.model] \in Nat /\ TotalVram \in Nat /\ AllocatedVram(allocated) \in Nat /\ allocated[r.victim] \in Nat
  BY <1>4, RouteTypes, LedgerSum, ModelsAssumption, VramAssumption
<1>6. CASE r.dep = NoDep
  BY <1>1, <1>3, <1>4, <1>5, <1>6
<1>7. CASE r.dep # NoDep
  <2>1. allocated' = [allocated EXCEPT ![r.dep] = MemOf[r.model]]
    BY <1>1, <1>4, <1>7 DEF Allocate
  <2>2. AllocatedVram([allocated EXCEPT ![r.dep] = MemOf[r.model]])
          = AllocatedVram(allocated) - allocated[r.dep] + MemOf[r.model]
    BY <1>4, <1>5, <1>7, LedgerSum
  <2>3. allocated'[r.victim] = allocated[r.victim]
    BY <1>4, <2>1
  <2> QED BY <1>3, <1>4, <1>5, <1>7, <2>1, <2>2, <2>3
<1> QED BY <1>6, <1>7

(* Every step keeps it.                                                    *)
LEMMA NextEvictions ==
  ASSUME IInv, EvictionsFit, [Next]_vars
  PROVE  EvictionsFit'
<1> SUFFICES ASSUME NEW c \in Clients, pc'[c] = "evict"
             PROVE  /\ loop' = c /\ job'[c].victim \in Deps
                    /\ AllocatedVram(allocated') - allocated'[job'[c].victim] <= TotalVram
  BY DEF EvictionsFit
<1> c \in Coroutines /\ c # Prewarm /\ c # Nobody
  BY CoroutinesAssumption DEF Coroutines
<1>1. ASSUME pc[c] = "evict", job'[c] = job[c], UNCHANGED <<allocated, loop>>
      PROVE  /\ loop' = c /\ job'[c].victim \in Deps
             /\ AllocatedVram(allocated') - allocated'[job'[c].victim] <= TotalVram
  BY <1>1 DEF EvictionsFit
<1>2. CASE Receive(c) \/ RequestStep(c)
  BY <1>2, RoutedToEvict, RouteFitsEviction
<1>3. ASSUME NEW e \in Coroutines, e # c, CoroutineStep(e)
      PROVE  /\ pc[c] = "evict" /\ job'[c] = job[c]
             /\ UNCHANGED <<allocated, loop>>
  <2>1. pc[c] = "evict" /\ job'[c] = job[c]
    BY <1>3, OthersStand
  <2>2. loop = c
    BY <2>1 DEF EvictionsFit
  <2> QED BY <1>3, <2>1, <2>2, OffTheLoop DEF CoroutineStep
<1>4. CASE Tick \/ EnvironmentStep \/ UNCHANGED vars
  <2>1. ~Restart
    BY DEF Restart
  <2>2. UNCHANGED <<pc, job>>
    BY <1>4, <2>1, OtherMoves
  <2>3. loop = c
    BY <2>2 DEF EvictionsFit
  <2>4. UNCHANGED <<allocated, loop>>
    BY <1>4, <2>1, <2>3 DEF Tick, EnvironmentStep, EngineStarts, EngineCrashes, OperatorDeploy, OperatorReads,
       OperatorUnloads, coroutineVars, vars
  <2> QED BY <1>1, <2>2, <2>4
<1> QED BY <1>1, <1>2, <1>3, <1>4 DEF Next, ServiceStep, CoroutineStep, Coroutines

(* Only the eviction leads on to the lock, and it leaves the ledger within *)
(* the memory of the GPU.                                                  *)
LEMMA EvictionFrees ==
  ASSUME IInv, EvictionsFit, [Next]_vars, NEW c \in Clients, pc[c] = "evict", pc'[c] = "lock"
  PROVE  AllocatedVram(allocated') <= TotalVram
<1> /\ c \in Coroutines /\ c # Prewarm
    /\ pc \in [Coroutines -> Labels] /\ allocated \in [Deps -> Nat]
  BY CoroutinesAssumption DEF Coroutines, IInv, TypeOK
<1>1. Receive(c) \/ RequestStep(c)
  <2>1. ~(Tick \/ EnvironmentStep \/ UNCHANGED vars)
    BY OtherMoves DEF Restart
  <2>2. \A e \in Coroutines : e # c => ~CoroutineStep(e)
    BY OthersStand
  <2> QED BY <2>1, <2>2 DEF Next, ServiceStep, CoroutineStep, Coroutines
<1>2. Evict(c)
  <2> USE DEF At, Go
  <2>1. ~Receive(c) /\ ~Onboard(c) /\ ~OnboardFails(c) /\ ~Route(c) /\ ~RouteFails(c) /\ ~EvictFails(c)
    BY DEF Receive, Onboard, OnboardFails, Route, RouteFails, EvictFails
  <2>2. ~ColdStartStep(c) /\ ~Begin(c) /\ ~Finish(c)
    BY DEF ColdStartStep, LockModel, Recheck, PrewarmLocked, Boot, BootNoPort, RunDocker, RunDockerFails, Booted,
       PollTimeout, Cleanup, ColdStartFails, Begin, Finish
  <2> QED BY <1>1, <2>1, <2>2 DEF RequestStep
<1>3. PICK v : v = job[c].victim
  OBVIOUS
<1>4. v \in Deps /\ AllocatedVram(allocated) - allocated[v] <= TotalVram
  BY <1>3 DEF EvictionsFit
<1>5. allocated' = [allocated EXCEPT ![v] = 0]
  BY <1>2, <1>3 DEF Evict, Release
<1>6. /\ AllocatedVram(allocated) \in Nat
      /\ AllocatedVram(allocated') = AllocatedVram(allocated) - allocated[v] + 0
  BY <1>4, <1>5, LedgerSum
<1>7. allocated[v] \in Nat /\ TotalVram \in Nat
  BY <1>4, VramAssumption
<1> QED BY <1>4, <1>6, <1>7

(* An eviction leaves the ledger within the GPU's memory, with the         *)
(* reservation of the deployment it was made for.                          *)
THEOREM EvictionsMakeRoom == Spec => EvictionMakesRoom
<1>1. Init => EvictionsFit
  BY CoroutinesAssumption DEF Init, EvictionsFit, Coroutines
<1>2. IInv /\ EvictionsFit /\ [Next]_vars => EvictionsFit'
  BY NextEvictions
<1>3. IInv /\ EvictionsFit /\ [Next]_vars
        => [\A c \in Clients : pc[c] = "evict" /\ pc'[c] = "lock" => AllocatedVram(allocated') <= TotalVram]_vars
  BY EvictionFrees
<1> QED BY Inductive, <1>1, <1>2, <1>3, PTL DEF Spec, EvictionMakesRoom
=============================================================================
