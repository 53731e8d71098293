------------------------- MODULE ServingTableProofs -------------------------
(***************************************************************************)
(* The deployment table: which step writes which row, what the jobs of the *)
(* coroutines know about their rows, and what follows for the requests     *)
(* they serve - for every catalogue, any number of clients and operators,  *)
(* any faults, restarts and bounds.                                        *)
(***************************************************************************)
EXTENDS ServingCoreProofs

Resting == {"idle", "start", "next", "done"}

(* A row that does not exist says nothing.                                 *)
AbsentIsBlank == \A d \in Deps : ~Exists(d) => deployment[d] = AbsentDeployment

(* The row a coroutine works on exists and is a row of the model it        *)
(* starts.                                                                 *)
JobFits(c) ==
  /\ pc[c] \in Resting => job[c] = NoJob
  /\ pc[c] \in {"download", "route", "create"} => job[c].dep = NoDep
  /\ job[c].dep # NoDep => Exists(job[c].dep)
  /\ ColdStarting(c) /\ job[c].dep # NoDep => deployment[job[c].dep].model = job[c].model

(* The model that is started for a request, or serves it, has the          *)
(* capability.                                                             *)
RequestFits(c) ==
  /\ ColdStarting(c) => job[c].cap \in CapsOf[job[c].model]
  /\ pc[c] \in {"touch", "generate"} =>
       job[c].dep # NoDep /\ job[c].cap \in CapsOf[deployment[job[c].dep].model]

JobsFit ==
  /\ \A c \in Coroutines : JobFits(c)
  /\ \A c \in Clients : RequestFits(c)
  /\ ColdStarting(Prewarm) => job[Prewarm].dep # NoDep

(* The record an operator is about to write back is one of its row's.      *)
SnapshotsFit ==
  \A o \in Operators : snapshot[o] # NoSnapshot =>
    /\ pc[Prewarm] # "start"
    /\ snapshot[o].dep \in Deps /\ Exists(snapshot[o].dep)
    /\ snapshot[o].record.model = deployment[snapshot[o].dep].model
    /\ snapshot[o].record.status # "absent"

TableInv == AbsentIsBlank /\ JobsFit /\ SnapshotsFit

-----------------------------------------------------------------------------
(* Who writes which row.                                                   *)

(* Setting a status touches one row, and its other fields not at all.      *)
LEMMA StatusRow ==
  ASSUME TypeOK, NEW e, NEW s \in DeploymentStatus, SetStatus(e, s), NEW d \in Deps
  PROVE  /\ d # e => deployment'[d] = deployment[d]
         /\ d = e => /\ deployment'[d] = [deployment[d] EXCEPT !.status = s]
                     /\ deployment'[d].status = s
                     /\ deployment'[d].model = deployment[d].model
                     /\ deployment'[d].permanent = deployment[d].permanent
                     /\ deployment'[d].port = deployment[d].port
<1>1. deployment[d] \in DeploymentRecord
  BY DEF TypeOK
<1>2. deployment'[d] = IF d = e THEN [deployment[d] EXCEPT !.status = s] ELSE deployment[d]
  BY DEF SetStatus, TypeOK
<1> QED BY <1>1, <1>2 DEF DeploymentRecord

(* The rows a request writes.                                              *)
ClientWrites(c, d) ==
  \/ Evict(c) /\ d = job[c].victim /\ deployment'[d] = [deployment[d] EXCEPT !.status = "unloaded"]
  \/ ColdStartFails(c) /\ d = job[c].dep /\ deployment'[d] = [deployment[d] EXCEPT !.status = "failed"]
  \/ /\ Booted(c)
     /\ IF job[c].dep = NoDep THEN IsNewDeployment(d) ELSE d = job[c].dep
     /\ job'[c] = [job[c] EXCEPT !.dep = d]
     /\ deployment'[d] = ReadyRecord(job[c].model, job[c].port, Permanent(d))
  \/ Onboard(c) /\ IsNewDeployment(d) /\ deployment'[d] = PendingDeployment(job[c].model, FALSE)

LEMMA ClientRow ==
  ASSUME IInv, NEW c \in Clients, Receive(c) \/ RequestStep(c), NEW d \in Deps
  PROVE  deployment'[d] = deployment[d] \/ ClientWrites(c, d)
<1> c \in Coroutines /\ deployment \in [Deps -> DeploymentRecord] /\ job \in [Coroutines -> Job]
  BY DEF Coroutines, IInv, TypeOK
<1>1. CASE Evict(c)
  <2>1. SetStatus(job[c].victim, "unloaded")
    BY <1>1 DEF Evict
  <2>2. \/ deployment'[d] = deployment[d]
        \/ d = job[c].victim /\ deployment'[d] = [deployment[d] EXCEPT !.status = "unloaded"]
    BY <2>1, StatusRow DEF IInv, DeploymentStatus
  <2> QED BY <1>1, <2>2 DEF ClientWrites
<1>2. CASE ColdStartFails(c)
  <2>1. deployment' = deployment \/ SetStatus(job[c].dep, "failed")
    BY <1>2 DEF ColdStartFails
  <2>2. \/ deployment'[d] = deployment[d]
        \/ d = job[c].dep /\ deployment'[d] = [deployment[d] EXCEPT !.status = "failed"]
    BY <2>1, StatusRow DEF IInv, DeploymentStatus
  <2> QED BY <1>2, <2>2 DEF ClientWrites
<1>3. CASE Booted(c)
  <2>1. PICK n \in Deps :
          /\ IF job[c].dep = NoDep THEN IsNewDeployment(n) ELSE n = job[c].dep
          /\ SaveDeployment(n, ReadyRecord(job[c].model, job[c].port, Permanent(n)))
          /\ SetJob(c, [job[c] EXCEPT !.dep = n])
    BY <1>3 DEF Booted
  <2>2. job'[c] = [job[c] EXCEPT !.dep = n]
    BY <2>1 DEF SetJob
  <2>3. CASE d = n
    BY <1>3, <2>1, <2>2, <2>3 DEF ClientWrites, SaveDeployment
  <2>4. CASE d # n
    BY <2>1, <2>4 DEF SaveDeployment
  <2> QED BY <2>3, <2>4
<1>4. CASE Onboard(c)
  <2>1. PICK n \in Deps : IsNewDeployment(n) /\ SaveDeployment(n, PendingDeployment(job[c].model, FALSE))
    BY <1>4 DEF Onboard
  <2> QED BY <1>4, <2>1 DEF ClientWrites, SaveDeployment
<1>5. UNCHANGED deployment \/ Evict(c) \/ Onboard(c) \/ ColdStartFails(c) \/ Booted(c)
  <2>1. CASE Receive(c) \/ OnboardFails(c) \/ Route(c) \/ RouteFails(c) \/ EvictFails(c) \/ Begin(c) \/ Finish(c)
    BY <2>1 DEF Receive, OnboardFails, Route, RouteFails, EvictFails, Begin, Finish, registryVars
  <2>2. CASE LockModel(c) \/ Recheck(c) \/ PrewarmLocked(c) \/ Boot(c) \/ BootNoPort(c) \/ RunDocker(c)
             \/ RunDockerFails(c) \/ PollTimeout(c) \/ Cleanup(c)
    BY <2>2 DEF LockModel, Recheck, PrewarmLocked, Boot, BootNoPort, RunDocker, RunDockerFails,
       PollTimeout, Cleanup, registryVars
  <2> QED BY <2>1, <2>2 DEF RequestStep, ColdStartStep
<1> QED BY <1>1, <1>2, <1>3, <1>4, <1>5

(* The rows the pre-warm task writes.                                      *)
PrewarmWrites(d) ==
  \/ PrewarmStart /\ deployment'[d] = AbsentDeployment
  \/ Onboard(Prewarm) /\ IsNewDeployment(d) /\ deployment'[d] = PendingDeployment(job[Prewarm].model, FALSE)
  \/ /\ PrewarmCreate
     /\ IsNewDeployment(d)
     /\ job'[Prewarm] = [job[Prewarm] EXCEPT !.dep = d]
     /\ allocated' = [allocated EXCEPT ![d] = MemOf[job[Prewarm].model]]
     /\ deployment'[d] = PendingDeployment(job[Prewarm].model, TRUE)
  \/ /\ PrewarmBooted
     /\ d = job[Prewarm].dep
     /\ deployment'[d] = ReadyRecord(job[Prewarm].model, job[Prewarm].port, TRUE)
  \/ PrewarmFails /\ d = job[Prewarm].dep /\ deployment'[d] = [deployment[d] EXCEPT !.status = "failed"]

LEMMA PrewarmRow ==
  ASSUME IInv, PrewarmStep, NEW d \in Deps
  PROVE  deployment'[d] = deployment[d] \/ PrewarmWrites(d)
<1> /\ Prewarm \in Coroutines
    /\ deployment \in [Deps -> DeploymentRecord]
    /\ job \in [Coroutines -> Job]
    /\ allocated \in [Deps -> Nat]
  BY DEF Coroutines, IInv, TypeOK
<1>1. CASE PrewarmStart
  BY <1>1 DEF PrewarmStart, PrewarmWrites
<1>2. CASE Onboard(Prewarm)
  <2>1. PICK n \in Deps : IsNewDeployment(n) /\ SaveDeployment(n, PendingDeployment(job[Prewarm].model, FALSE))
    BY <1>2 DEF Onboard
  <2> QED BY <1>2, <2>1 DEF PrewarmWrites, SaveDeployment
<1>3. CASE PrewarmCreate
  <2>1. PICK n \in Deps :
          /\ IsNewDeployment(n)
          /\ SaveDeployment(n, PendingDeployment(job[Prewarm].model, TRUE))
          /\ Allocate(n, MemOf[job[Prewarm].model])
          /\ SetJob(Prewarm, [job[Prewarm] EXCEPT !.dep = n])
    BY <1>3 DEF PrewarmCreate
  <2>2. job'[Prewarm] = [job[Prewarm] EXCEPT !.dep = n]
    BY <2>1 DEF SetJob
  <2>3. CASE d = n
    BY <1>3, <2>1, <2>2, <2>3 DEF PrewarmWrites, SaveDeployment, Allocate
  <2>4. CASE d # n
    BY <2>1, <2>4 DEF SaveDeployment
  <2> QED BY <2>3, <2>4
<1>4. CASE PrewarmBooted
  BY <1>4 DEF PrewarmBooted, PrewarmWrites, SaveDeployment
<1>5. CASE PrewarmFails
  <2>1. SetStatus(job[Prewarm].dep, "failed")
    BY <1>5 DEF PrewarmFails
  <2>2. \/ deployment'[d] = deployment[d]
        \/ d = job[Prewarm].dep /\ deployment'[d] = [deployment[d] EXCEPT !.status = "failed"]
    BY <2>1, StatusRow DEF IInv, DeploymentStatus
  <2> QED BY <1>5, <2>2 DEF PrewarmWrites
<1>6. UNCHANGED deployment \/ PrewarmStart \/ PrewarmCreate \/ PrewarmFails \/ PrewarmBooted \/ Onboard(Prewarm)
  <2>1. CASE PrewarmPick \/ PrewarmEnd \/ OnboardFails(Prewarm)
    BY <2>1 DEF PrewarmPick, PrewarmEnd, OnboardFails, registryVars
  <2>2. CASE ColdStartStep(Prewarm)
    BY <2>2, CoroutinesAssumption DEF ColdStartStep, LockModel, Recheck, PrewarmLocked, Boot, BootNoPort, RunDocker,
       RunDockerFails, Booted, PollTimeout, Cleanup, ColdStartFails, registryVars
  <2> QED BY <2>1, <2>2 DEF PrewarmStep
<1> QED BY <1>1, <1>2, <1>3, <1>4, <1>5, <1>6

(* The rows the worker and the operators write.                            *)
OtherWrites(d) ==
  \/ Tick /\ Expires(d) /\ deployment'[d] = [deployment[d] EXCEPT !.status = "unloaded"]
  \/ \E o \in Operators, m \in Models :
       OperatorDeploy(o) /\ IsNewDeployment(d) /\ deployment'[d] = ReadyRecord(m, NoPort, FALSE)
  \/ \E o \in Operators :
       /\ OperatorUnloads(o)
       /\ d = snapshot[o].dep
       /\ deployment'[d] = [snapshot[o].record EXCEPT !.status = "unloaded"]

LEMMA OtherRow ==
  ASSUME IInv, Tick \/ EnvironmentStep \/ UNCHANGED vars, NEW d \in Deps
  PROVE  deployment'[d] = deployment[d] \/ OtherWrites(d)
<1> deployment \in [Deps -> DeploymentRecord]
  BY DEF IInv, TypeOK
<1>1. CASE Tick
  <2>1. PICK stop : TickUpTo(stop)
    BY <1>1 DEF Tick
  <2>2. deployment'[d] = IF Expires(d) /\ d < stop THEN [deployment[d] EXCEPT !.status = "unloaded"]
                         ELSE deployment[d]
    BY <2>1 DEF TickUpTo
  <2> QED BY <1>1, <2>2 DEF OtherWrites
<1>2. ASSUME NEW o \in Operators, OperatorDeploy(o)
      PROVE  deployment'[d] = deployment[d] \/ OtherWrites(d)
  <2>1. PICK m \in Models, n \in Deps : IsNewDeployment(n) /\ SaveDeployment(n, ReadyRecord(m, NoPort, FALSE))
    BY <1>2 DEF OperatorDeploy
  <2>2. CASE d = n
    BY <1>2, <2>1, <2>2 DEF OtherWrites, SaveDeployment
  <2>3. CASE d # n
    BY <2>1, <2>3 DEF SaveDeployment
  <2> QED BY <2>2, <2>3
<1>3. ASSUME NEW o \in Operators, OperatorUnloads(o)
      PROVE  deployment'[d] = deployment[d] \/ OtherWrites(d)
  BY <1>3 DEF OperatorUnloads, SaveDeployment, OtherWrites
<1>4. \/ UNCHANGED deployment \/ Tick
      \/ \E o \in Operators : OperatorDeploy(o) \/ OperatorUnloads(o)
  BY DEF EnvironmentStep, EngineStarts, EngineCrashes, OperatorReads, Restart, registryVars, vars
<1> QED BY <1>1, <1>2, <1>3, <1>4

(* A row that exists stays, and stays a row of its model.                  *)
RowsKept == \A d \in Deps : Exists(d) => Exists(d)' /\ deployment'[d].model = deployment[d].model

(* A new status leaves the rest of the record alone.                       *)
LEMMA StatusField ==
  ASSUME NEW r \in DeploymentRecord, NEW s
  PROVE  /\ [r EXCEPT !.status = s].status = s
         /\ [r EXCEPT !.status = s].model = r.model
         /\ [r EXCEPT !.status = s].permanent = r.permanent
         /\ [r EXCEPT !.status = s].port = r.port
BY DEF DeploymentRecord

(* Every row that a request writes exists then, with its model.            *)
LEMMA ClientKeepsRows ==
  ASSUME IInv, TableInv, NEW c \in Clients, Receive(c) \/ RequestStep(c), NEW d \in Deps
  PROVE  /\ deployment'[d] = deployment[d] \/ Exists(d)'
         /\ Exists(d) => Exists(d)' /\ deployment'[d].model = deployment[d].model
<1> c \in Coroutines /\ deployment[d] \in DeploymentRecord
  BY DEF Coroutines, IInv, TypeOK
<1>1. CASE deployment'[d] = deployment[d]
  BY <1>1 DEF Exists
<1>2. CASE \E s \in {"unloaded", "failed"} : deployment'[d] = [deployment[d] EXCEPT !.status = s]
  BY <1>2, StatusField DEF Exists
<1>3. CASE Booted(c) /\ (job[c].dep = NoDep => ~Exists(d)) /\ (job[c].dep # NoDep => d = job[c].dep)
           /\ deployment'[d] = ReadyRecord(job[c].model, job[c].port, Permanent(d))
  <2>1. deployment'[d].status = "ready" /\ deployment'[d].model = job[c].model
    BY <1>3 DEF ReadyRecord
  <2>2. job[c].dep # NoDep => deployment[d].model = job[c].model
    BY <1>3 DEF TableInv, JobsFit, JobFits, Booted, At, ColdStarting
  <2> QED BY <1>3, <2>1, <2>2 DEF Exists
<1>4. CASE ~Exists(d) /\ deployment'[d] = PendingDeployment(job[c].model, FALSE)
  BY <1>4 DEF Exists, ReadyRecord, PendingDeployment
<1> QED BY <1>1, <1>2, <1>3, <1>4, ClientRow DEF ClientWrites, IsNewDeployment

(* So does every row the pre-warm task writes, its start apart.            *)
LEMMA PrewarmKeepsRows ==
  ASSUME IInv, TableInv, PrewarmStep, ~PrewarmStart, NEW d \in Deps
  PROVE  /\ deployment'[d] = deployment[d] \/ Exists(d)'
         /\ Exists(d) => Exists(d)' /\ deployment'[d].model = deployment[d].model
<1> Prewarm \in Coroutines /\ deployment[d] \in DeploymentRecord
  BY DEF Coroutines, IInv, TypeOK
<1>1. CASE deployment'[d] = deployment[d]
  BY <1>1 DEF Exists
<1>2. CASE deployment'[d] = [deployment[d] EXCEPT !.status = "failed"]
  BY <1>2, StatusField DEF Exists
<1>3. CASE PrewarmBooted /\ d = job[Prewarm].dep
           /\ deployment'[d] = ReadyRecord(job[Prewarm].model, job[Prewarm].port, TRUE)
  <2>1. deployment'[d].status = "ready" /\ deployment'[d].model = job[Prewarm].model
    BY <1>3 DEF ReadyRecord
  <2>2. deployment[d].model = job[Prewarm].model
    BY <1>3 DEF TableInv, JobsFit, JobFits, PrewarmBooted, At, ColdStarting
  <2> QED BY <2>1, <2>2 DEF Exists
<1>4. CASE ~Exists(d) /\ \E b \in BOOLEAN : deployment'[d] = PendingDeployment(job[Prewarm].model, b)
  BY <1>4 DEF Exists, ReadyRecord, PendingDeployment
<1> QED BY <1>1, <1>2, <1>3, <1>4, PrewarmRow DEF PrewarmWrites, IsNewDeployment

(* So do those that the worker and the operators write.                    *)
LEMMA OthersKeepRows ==
  ASSUME IInv, TableInv, Tick \/ EnvironmentStep \/ UNCHANGED vars, NEW d \in Deps
  PROVE  /\ deployment'[d] = deployment[d] \/ Exists(d)'
         /\ Exists(d) => Exists(d)' /\ deployment'[d].model = deployment[d].model
<1> deployment[d] \in DeploymentRecord
  BY DEF IInv, TypeOK
<1>1. CASE deployment'[d] = deployment[d]
  BY <1>1 DEF Exists
<1>2. CASE deployment'[d] = [deployment[d] EXCEPT !.status = "unloaded"]
  BY <1>2, StatusField DEF Exists
<1>3. ASSUME NEW o \in Operators, OperatorUnloads(o), d = snapshot[o].dep,
             deployment'[d] = [snapshot[o].record EXCEPT !.status = "unloaded"]
      PROVE  Exists(d)' /\ deployment'[d].model = deployment[d].model
  <2>1. snapshot[o].record \in DeploymentRecord
    BY DEF IInv, TypeOK, Snapshot
  <2>2. snapshot[o].record.model = deployment[d].model
    BY <1>3 DEF TableInv, SnapshotsFit, OperatorUnloads
  <2> QED BY <1>3, <2>1, <2>2, StatusField DEF Exists
<1>4. ASSUME NEW m \in Models, ~Exists(d), deployment'[d] = ReadyRecord(m, NoPort, FALSE)
      PROVE  Exists(d)'
  BY <1>4 DEF Exists, ReadyRecord, PendingDeployment
<1> QED BY <1>1, <1>2, <1>3, <1>4, OtherRow DEF OtherWrites, IsNewDeployment

-----------------------------------------------------------------------------
(* What the jobs know about their rows.                                    *)

(* What route() returns: a capable model and, if any, a row of it.         *)
LEMMA RouteFits ==
  ASSUME TypeOK, NEW cap, NEW preferred, NEW r \in Routes(cap, preferred)
  PROVE  /\ cap \in CapsOf[r.model]
         /\ r.dep # NoDep => Exists(r.dep) /\ deployment[r.dep].model = r.model
         /\ ~r.cold => r.dep # NoDep
<1>1. \A d \in CapableDeployments(cap) : d # NoDep /\ Exists(d) /\ cap \in CapsOf[deployment[d].model]
  BY DEF CapableDeployments, Capable, Deps, NoDep
<1>2. CASE r \in ServePreferred(cap, preferred)
  BY <1>1, <1>2 DEF ServePreferred, PreferredReady, Decision
<1>3. CASE r \in ServeIdle(cap)
  BY <1>1, <1>3 DEF ServeIdle, ReadyIdle, Decision
<1>4. CASE r \in ScaleOut(cap, preferred)
  <2>1. \A x \in OnDisk(cap) : /\ cap \in CapsOf[x.model]
                               /\ x.dep # NoDep => Exists(x.dep) /\ deployment[x.dep].model = x.model
    BY <1>1 DEF OnDisk, Capable
  <2>2. PICK x \in OnDisk(cap) : r.model = x.model /\ r.dep = x.dep /\ r.cold = TRUE
    BY <1>4 DEF ScaleOut, Decision
  <2> QED BY <2>1, <2>2 DEF Exists
<1>5. CASE r \in QueueOnActive(cap)
  <2>1. PICK d \in ReadyBusy(cap) \cup Booting(cap) : r = Decision(deployment[d].model, d, NoDep, Startable(d))
    BY <1>5, Zenon DEF QueueOnActive
  <2>2. r.model = deployment[d].model /\ r.dep = d
    BY <2>1 DEF Decision
  <2>3. d \in CapableDeployments(cap)
    BY <2>1 DEF ReadyBusy, Booting
  <2> QED BY <1>1, <2>2, <2>3
<1> QED BY <1>2, <1>3, <1>4, <1>5 DEF Routes

(* A fallback is a row of a capable model.                                 *)
LEMMA FallBackFits ==
  ASSUME IInv, NEW c \in Clients, NEW table, FallBack(c, table)
  PROVE  \/ pc'[c] = "idle" /\ job'[c] = NoJob
         \/ /\ pc'[c] = "touch"
            /\ \E f \in Deps : /\ job'[c] = [job[c] EXCEPT !.dep = f]
                               /\ table[f].status = "ready"
                               /\ job[c].cap \in CapsOf[table[f].model]
<1> c \in Coroutines /\ job \in [Coroutines -> Job] /\ pc \in [Coroutines -> Labels]
  BY DEF Coroutines, IInv, TypeOK
<1>1. CASE SetJob(c, NoJob) /\ Go(c, "idle")
  BY <1>1 DEF SetJob, Go
<1>2. ASSUME NEW f \in Fallback(table, job[c].cap), SetJob(c, [job[c] EXCEPT !.dep = f]), Go(c, "touch")
      PROVE  /\ pc'[c] = "touch"
             /\ f \in Deps
             /\ job'[c] = [job[c] EXCEPT !.dep = f]
             /\ table[f].status = "ready"
             /\ job[c].cap \in CapsOf[table[f].model]
  BY <1>2 DEF SetJob, Go, Fallback, Capable
<1> QED BY <1>1, <1>2 DEF FallBack

(* The fields of a job that gets another deployment or port.               *)
LEMMA JobFields ==
  ASSUME NEW j \in Job, NEW x
  PROVE  /\ [j EXCEPT !.dep = x].dep = x
         /\ [j EXCEPT !.dep = x].cap = j.cap
         /\ [j EXCEPT !.dep = x].model = j.model
         /\ [j EXCEPT !.dep = x].port = j.port
         /\ [j EXCEPT !.port = x].port = x
         /\ [j EXCEPT !.port = x].dep = j.dep
         /\ [j EXCEPT !.port = x].cap = j.cap
         /\ [j EXCEPT !.port = x].model = j.model
BY DEF Job

(* A request's job fits after each of its steps.                           *)
LEMMA ClientJobFits ==
  ASSUME IInv, TableInv, NEW c \in Clients, Receive(c) \/ RequestStep(c)
  PROVE  JobFits(c)' /\ RequestFits(c)'
<1> /\ c \in Coroutines /\ c # Prewarm
    /\ deployment \in [Deps -> DeploymentRecord]
    /\ job \in [Coroutines -> Job] /\ job[c] \in Job
    /\ pc \in [Coroutines -> Labels]
  BY CoroutinesAssumption DEF Coroutines, IInv, TypeOK
<1>a. /\ job[c].dep \in Deps \cup {NoDep}
      /\ NoDep \notin Deps
      /\ NoJob.dep = NoDep /\ NoJob.port = NoPort
  BY DEF Job, Deps, NoDep, NoJob
<1>b. JobFits(c) /\ RequestFits(c)
  BY DEF TableInv, JobsFit
<1>c. job[c].dep # NoDep => /\ deployment[job[c].dep].status # "absent"
                            /\ deployment'[job[c].dep].status # "absent"
                            /\ deployment'[job[c].dep].model = deployment[job[c].dep].model
  <2>1. \A d \in Deps : Exists(d) => deployment'[d].status # "absent" /\ deployment'[d].model = deployment[d].model
    BY ClientKeepsRows DEF Exists
  <2> QED BY <1>a, <1>b, <2>1 DEF JobFits, Exists
<1> USE DEF JobFits, RequestFits, At, Go
<1>d. ASSUME job'[c] = NoJob, pc'[c] \in {"idle", "download", "route"}
      PROVE  JobFits(c)' /\ RequestFits(c)'
  BY <1>a, <1>d DEF ColdStarting
<1>e. ASSUME job'[c].dep = job[c].dep, job'[c].cap = job[c].cap, job'[c].model = job[c].model,
             ColdStarting(c), ColdStarting(c)'
      PROVE  JobFits(c)' /\ RequestFits(c)'
  BY <1>b, <1>c, <1>e DEF ColdStarting, Resting, Exists
<1>f. ASSUME NEW f \in Deps, job'[c].dep = f, pc'[c] = "touch", Exists(f)',
             job'[c].cap \in CapsOf[deployment'[f].model]
      PROVE  JobFits(c)' /\ RequestFits(c)'
  BY <1>a, <1>f DEF ColdStarting, Resting, Exists
<1>g. ASSUME job'[c] = job[c], pc'[c] = "touch", ColdStarting(c), job[c].dep # NoDep
      PROVE  JobFits(c)' /\ RequestFits(c)'
  BY <1>a, <1>b, <1>c, <1>g DEF ColdStarting, Resting, Exists
<1>h. ASSUME NEW table, FallBack(c, table), table = deployment'
      PROVE  JobFits(c)' /\ RequestFits(c)'
  <2>1. CASE pc'[c] = "idle" /\ job'[c] = NoJob
    BY <1>d, <2>1
  <2>2. ASSUME NEW f \in Deps, pc'[c] = "touch", job'[c] = [job[c] EXCEPT !.dep = f],
               table[f].status = "ready", job[c].cap \in CapsOf[table[f].model]
        PROVE  JobFits(c)' /\ RequestFits(c)'
    <3>1. job'[c].dep = f /\ job'[c].cap = job[c].cap
      BY <2>2, JobFields
    <3>2. Exists(f)'
      BY <1>h, <2>2 DEF Exists
    <3> QED BY <1>f, <1>h, <2>2, <3>1, <3>2
  <2>3. \/ pc'[c] = "idle" /\ job'[c] = NoJob
        \/ /\ pc'[c] = "touch"
           /\ \E f \in Deps : /\ job'[c] = [job[c] EXCEPT !.dep = f]
                              /\ table[f].status = "ready"
                              /\ job[c].cap \in CapsOf[table[f].model]
    BY <1>h, FallBackFits
  <2> QED BY <2>1, <2>2, <2>3
<1>1. CASE Receive(c)
  <2>1. PICK q : SetJob(c, [NoJob EXCEPT !.cap = q.cap]) \/ \E m : SetJob(c, [NoJob EXCEPT !.cap = q.cap, !.model = m])
    BY <1>1 DEF Receive
  <2>2. job'[c].dep = NoDep
    BY <2>1 DEF SetJob, NoJob
  <2>3. pc'[c] \in {"route", "download"}
    BY <1>1 DEF Receive
  <2> QED BY <2>2, <2>3 DEF ColdStarting, Resting
<1>2. CASE Onboard(c)
  <2>1. pc[c] = "download" /\ pc'[c] = "route" /\ job'[c] = job[c]
    BY <1>2 DEF Onboard
  <2> QED BY <1>b, <2>1 DEF ColdStarting, Resting
<1>3. CASE OnboardFails(c) \/ RouteFails(c) \/ EvictFails(c) \/ Finish(c)
  <2>1. pc'[c] = "idle" /\ job'[c] = NoJob
    BY <1>3 DEF OnboardFails, RouteFails, EvictFails, Finish, SetJob
  <2> QED BY <1>d, <2>1
<1>4. CASE Route(c)
  <2>1. PICK r \in Routes(job[c].cap, job[c].model) :
         /\ SetJob(c, [job[c] EXCEPT !.model = r.model, !.dep = r.dep, !.victim = r.victim])
         /\ Go(c, IF r.victim # NoDep THEN "evict" ELSE IF r.cold THEN "lock" ELSE "touch")
    BY <1>4 DEF Route
  <2>2. job'[c].dep = r.dep /\ job'[c].model = r.model /\ job'[c].cap = job[c].cap
    BY <2>1 DEF SetJob, Job
  <2>3. UNCHANGED deployment
    BY <1>4 DEF Route, registryVars
  <2>4. /\ job[c].cap \in CapsOf[r.model]
        /\ r.dep # NoDep => Exists(r.dep) /\ deployment[r.dep].model = r.model
        /\ ~r.cold => r.dep # NoDep
    BY RouteFits DEF IInv
  <2>5. pc'[c] \in {"evict", "lock", "touch"} /\ (pc'[c] = "touch" => ~r.cold)
    BY <2>1
  <2> QED BY <2>2, <2>3, <2>4, <2>5 DEF ColdStarting, Resting, Exists
<1>5. CASE Evict(c) \/ LockModel(c) \/ RunDockerFails(c) \/ PollTimeout(c) \/ Cleanup(c) \/ BootNoPort(c)
  <2>1. job'[c] = job[c] /\ ColdStarting(c) /\ ColdStarting(c)'
    BY <1>5 DEF Evict, LockModel, RunDockerFails, PollTimeout, Cleanup, BootNoPort, ColdStarting
  <2> QED BY <1>e, <2>1
<1>6. CASE Recheck(c)
  <2>1. ColdStarting(c) /\ deployment' = deployment
    BY <1>6 DEF Recheck, ColdStarting, registryVars
  <2>2. CASE StatusOf(job[c].dep) = "ready" /\ Go(c, "touch") /\ UNCHANGED job
    BY <1>g, <2>1, <2>2 DEF StatusOf
  <2>3. CASE FallBack(c, deployment)
    BY <1>h, <2>1, <2>3
  <2>4. CASE WaitForBoot(c) /\ UNCHANGED job
    BY <1>e, <2>1, <2>4 DEF WaitForBoot, ColdStarting
  <2> QED BY <1>6, <2>2, <2>3, <2>4 DEF Recheck
<1>7. CASE Boot(c)
  <2>1. ColdStarting(c)
    BY <1>7 DEF Boot, ColdStarting
  <2>2. CASE StatusOf(job[c].dep) = "ready"
    <3>1. job'[c] = job[c] /\ pc'[c] = "touch"
      BY <1>7, <2>2 DEF Boot, AlreadyBooted, SetJob
    <3>2. job[c].dep # NoDep
      BY <2>2 DEF StatusOf
    <3> QED BY <1>g, <2>1, <3>1, <3>2
  <2>3. CASE StatusOf(job[c].dep) # "ready"
    <3>1. PICK p : SetJob(c, [job[c] EXCEPT !.port = p])
      BY <1>7, <2>3 DEF Boot, ReservePort
    <3>2. job'[c] = [job[c] EXCEPT !.port = p]
      BY <3>1 DEF SetJob
    <3>3. ColdStarting(c)'
      BY <1>7, <2>3 DEF Boot, ReservePort, ColdStarting
    <3> QED BY <1>e, <2>1, <3>2, <3>3, JobFields
  <2> QED BY <2>2, <2>3
<1>8. CASE RunDocker(c)
  <2>1. PICK p : SetJob(c, [job[c] EXCEPT !.port = p])
    BY <1>8 DEF RunDocker
  <2>2. job'[c] = [job[c] EXCEPT !.port = p] /\ ColdStarting(c) /\ ColdStarting(c)'
    BY <1>8, <2>1 DEF RunDocker, SetJob, ColdStarting
  <2> QED BY <1>e, <2>2, JobFields
<1>9. CASE Booted(c)
  <2>1. PICK d \in Deps : /\ SaveDeployment(d, ReadyRecord(job[c].model, job[c].port, Permanent(d)))
                          /\ SetJob(c, [job[c] EXCEPT !.dep = d])
    BY <1>9 DEF Booted
  <2>2. job'[c] = [job[c] EXCEPT !.dep = d] /\ pc'[c] = "touch" /\ ColdStarting(c)
    BY <1>9, <2>1 DEF Booted, SetJob, ColdStarting
  <2>3. deployment'[d].status = "ready" /\ deployment'[d].model = job[c].model
    BY <2>1 DEF SaveDeployment, ReadyRecord
  <2>4. job'[c].dep = d /\ job'[c].cap = job[c].cap
    BY <2>2, JobFields
  <2> QED BY <1>b, <1>f, <2>2, <2>3, <2>4 DEF Exists
<1>10. CASE ColdStartFails(c)
  BY <1>10, <1>h DEF ColdStartFails
<1>11. CASE Begin(c)
  <2>1. /\ pc[c] = "touch" /\ pc'[c] = "generate"
        /\ job'[c].dep = job[c].dep /\ job'[c].cap = job[c].cap
        /\ deployment' = deployment
    BY <1>11 DEF Begin, SetJob, NoJob
  <2> QED BY <1>b, <2>1 DEF ColdStarting, Resting, Exists
<1> QED BY <1>1, <1>2, <1>3, <1>4, <1>5, <1>6, <1>7, <1>8, <1>9, <1>10, <1>11 DEF RequestStep, ColdStartStep, PrewarmLocked

(* The pre-warm task's job fits after each of its steps.                   *)
LEMMA PrewarmJobFits ==
  ASSUME IInv, TableInv, PrewarmStep
  PROVE  JobFits(Prewarm)' /\ (ColdStarting(Prewarm)' => job'[Prewarm].dep # NoDep)
<1> /\ Prewarm \in Coroutines /\ Prewarm \notin Clients
    /\ deployment \in [Deps -> DeploymentRecord]
    /\ job \in [Coroutines -> Job] /\ job[Prewarm] \in Job
    /\ pc \in [Coroutines -> Labels]
  BY CoroutinesAssumption DEF Coroutines, IInv, TypeOK
<1>a. /\ job[Prewarm].dep \in Deps \cup {NoDep}
      /\ NoDep \notin Deps
      /\ NoJob.dep = NoDep /\ NoJob.port = NoPort
  BY DEF Job, Deps, NoDep, NoJob
<1>b. JobFits(Prewarm) /\ (ColdStarting(Prewarm) => job[Prewarm].dep # NoDep)
  BY DEF TableInv, JobsFit
<1>c. job[Prewarm].dep # NoDep /\ ~PrewarmStart =>
        /\ deployment[job[Prewarm].dep].status # "absent"
        /\ deployment'[job[Prewarm].dep].status # "absent"
        /\ deployment'[job[Prewarm].dep].model = deployment[job[Prewarm].dep].model
  <2>1. ~PrewarmStart => \A d \in Deps : Exists(d) =>
          deployment'[d].status # "absent" /\ deployment'[d].model = deployment[d].model
    BY PrewarmKeepsRows DEF Exists
  <2> QED BY <1>a, <1>b, <2>1 DEF JobFits, Exists
<1> USE DEF JobFits, At, Go
<1>d. ASSUME job'[Prewarm] = NoJob, pc'[Prewarm] \in Resting
      PROVE  JobFits(Prewarm)' /\ (ColdStarting(Prewarm)' => job'[Prewarm].dep # NoDep)
  BY <1>a, <1>d DEF ColdStarting, Resting
<1>e. ASSUME job'[Prewarm].dep = job[Prewarm].dep, job'[Prewarm].model = job[Prewarm].model,
             ColdStarting(Prewarm), ColdStarting(Prewarm)', ~PrewarmStart
      PROVE  JobFits(Prewarm)' /\ (ColdStarting(Prewarm)' => job'[Prewarm].dep # NoDep)
  BY <1>b, <1>c, <1>e DEF ColdStarting, Resting, Exists
<1>f. ASSUME job'[Prewarm].dep = NoDep, pc'[Prewarm] \in {"download", "create"}
      PROVE  JobFits(Prewarm)' /\ (ColdStarting(Prewarm)' => job'[Prewarm].dep # NoDep)
  BY <1>f DEF ColdStarting, Resting
<1>1. CASE PrewarmStart
  <2>1. pc[Prewarm] = "start" /\ pc'[Prewarm] = "next" /\ job'[Prewarm] = job[Prewarm]
    BY <1>1 DEF PrewarmStart
  <2> QED BY <1>b, <1>d, <2>1 DEF Resting
<1>2. CASE PrewarmPick
  <2>1. \/ \E m, cap : SetJob(Prewarm, [NoJob EXCEPT !.cap = cap, !.model = m]) /\ pc'[Prewarm] \in {"create", "download"}
        \/ UNCHANGED <<pc, job>> /\ pc[Prewarm] = "next"
    BY <1>2 DEF PrewarmPick
  <2>2. CASE UNCHANGED <<pc, job>> /\ pc[Prewarm] = "next"
    BY <1>b, <1>d, <2>2 DEF Resting
  <2>3. ASSUME NEW m, NEW cap, SetJob(Prewarm, [NoJob EXCEPT !.cap = cap, !.model = m])
        PROVE  job'[Prewarm].dep = NoDep
    BY <2>3 DEF SetJob, NoJob
  <2> QED BY <1>f, <2>1, <2>2, <2>3
<1>3. CASE PrewarmEnd
  <2>1. pc[Prewarm] = "next" /\ pc'[Prewarm] = "done" /\ job'[Prewarm] = job[Prewarm]
    BY <1>3 DEF PrewarmEnd
  <2> QED BY <1>b, <1>d, <2>1 DEF Resting
<1>4. CASE PrewarmBooted \/ PrewarmFails \/ OnboardFails(Prewarm)
  <2>1. pc'[Prewarm] = "next" /\ job'[Prewarm] = NoJob
    BY <1>4 DEF PrewarmBooted, PrewarmFails, OnboardFails, SetJob
  <2> QED BY <1>d, <2>1 DEF Resting
<1>5. CASE Onboard(Prewarm)
  <2>1. pc[Prewarm] = "download" /\ pc'[Prewarm] = "create" /\ job'[Prewarm] = job[Prewarm]
    BY <1>5 DEF Onboard
  <2> QED BY <1>b, <1>f, <2>1
<1>6. CASE PrewarmCreate
  <2>1. PICK n \in Deps :
          /\ SaveDeployment(n, PendingDeployment(job[Prewarm].model, TRUE))
          /\ SetJob(Prewarm, [job[Prewarm] EXCEPT !.dep = n])
    BY <1>6 DEF PrewarmCreate
  <2>2. job'[Prewarm] = [job[Prewarm] EXCEPT !.dep = n]
    BY <2>1 DEF SetJob
  <2>3. job'[Prewarm].dep = n /\ job'[Prewarm].model = job[Prewarm].model
    BY <2>2, JobFields
  <2>4. deployment'[n].status = "pending" /\ deployment'[n].model = job[Prewarm].model
    BY <2>1 DEF SaveDeployment, PendingDeployment
  <2>5. pc'[Prewarm] = "lock"
    BY <1>6 DEF PrewarmCreate
  <2> QED BY <1>a, <2>3, <2>4, <2>5 DEF ColdStarting, Resting, Exists
<1>7. CASE LockModel(Prewarm) \/ PrewarmLocked(Prewarm) \/ RunDockerFails(Prewarm) \/ PollTimeout(Prewarm)
           \/ Cleanup(Prewarm) \/ BootNoPort(Prewarm)
  <2>1. job'[Prewarm] = job[Prewarm] /\ ColdStarting(Prewarm) /\ ColdStarting(Prewarm)'
    BY <1>7 DEF LockModel, PrewarmLocked, WaitForBoot, RunDockerFails, PollTimeout, Cleanup, BootNoPort, ColdStarting
  <2>2. ~PrewarmStart
    BY <2>1 DEF PrewarmStart, ColdStarting
  <2> QED BY <1>e, <2>1, <2>2
<1>8. CASE Boot(Prewarm)
  <2>1. ColdStarting(Prewarm)
    BY <1>8 DEF Boot, ColdStarting
  <2>2. CASE StatusOf(job[Prewarm].dep) = "ready"
    <3>1. job'[Prewarm] = NoJob /\ pc'[Prewarm] = "next"
      BY <1>8, <2>2 DEF Boot, AlreadyBooted, SetJob
    <3> QED BY <1>d, <3>1 DEF Resting
  <2>3. CASE StatusOf(job[Prewarm].dep) # "ready"
    <3>1. PICK p : SetJob(Prewarm, [job[Prewarm] EXCEPT !.port = p])
      BY <1>8, <2>3 DEF Boot, ReservePort
    <3>2. job'[Prewarm] = [job[Prewarm] EXCEPT !.port = p]
      BY <3>1 DEF SetJob
    <3>3. ColdStarting(Prewarm)' /\ ~PrewarmStart
      BY <1>8, <2>3 DEF Boot, ReservePort, ColdStarting, PrewarmStart
    <3> QED BY <1>e, <2>1, <3>2, <3>3, JobFields
  <2> QED BY <2>2, <2>3
<1>9. CASE RunDocker(Prewarm)
  <2>1. PICK p : SetJob(Prewarm, [job[Prewarm] EXCEPT !.port = p])
    BY <1>9 DEF RunDocker
  <2>2. job'[Prewarm] = [job[Prewarm] EXCEPT !.port = p] /\ ColdStarting(Prewarm) /\ ColdStarting(Prewarm)'
    BY <1>9, <2>1 DEF RunDocker, SetJob, ColdStarting
  <2>3. ~PrewarmStart
    BY <2>2 DEF PrewarmStart, ColdStarting
  <2> QED BY <1>e, <2>2, <2>3, JobFields
<1> QED BY <1>1, <1>2, <1>3, <1>4, <1>5, <1>6, <1>7, <1>8, <1>9
        DEF PrewarmStep, ColdStartStep, Recheck, Booted, ColdStartFails

(* The snapshots belong to the operators.                                  *)
LEMMA OneWritesSnapshots ==
  ASSUME PrewarmStep \/ \E c \in Clients : Receive(c) \/ RequestStep(c)
  PROVE  snapshot' = snapshot
<1>1. \A c : Receive(c) \/ Onboard(c) \/ OnboardFails(c) \/ Route(c) \/ RouteFails(c) \/ Evict(c) \/ EvictFails(c)
             \/ Begin(c) \/ Finish(c) => snapshot' = snapshot
  BY DEF Receive, Onboard, OnboardFails, Route, RouteFails, Evict, EvictFails, Begin, Finish, taskVars
<1>2. \A c : ColdStartStep(c) => snapshot' = snapshot
  BY DEF ColdStartStep, LockModel, Recheck, PrewarmLocked, Boot, BootNoPort, RunDocker, RunDockerFails, Booted,
     PollTimeout, Cleanup, ColdStartFails, taskVars
<1>3. PrewarmStart \/ PrewarmPick \/ PrewarmEnd \/ PrewarmCreate \/ PrewarmBooted \/ PrewarmFails => snapshot' = snapshot
  BY DEF PrewarmStart, PrewarmPick, PrewarmEnd, PrewarmCreate, PrewarmBooted, PrewarmFails, taskVars
<1> QED BY <1>1, <1>2, <1>3 DEF PrewarmStep, RequestStep

(* A coroutine that stands still keeps a fitting job while rows are kept.  *)
LEMMA OthersFit ==
  ASSUME TypeOK, RowsKept, NEW e \in Coroutines, JobFits(e), pc'[e] = pc[e], job'[e] = job[e]
  PROVE  /\ JobFits(e)'
         /\ RequestFits(e) => RequestFits(e)'
<1>1. job[e].dep \in Deps \cup {NoDep}
  BY DEF TypeOK, Job
<1>2. job[e].dep # NoDep => /\ deployment'[job[e].dep].status # "absent"
                            /\ deployment'[job[e].dep].model = deployment[job[e].dep].model
  BY <1>1 DEF JobFits, RowsKept, Exists
<1> QED BY <1>2 DEF JobFits, RequestFits, ColdStarting, Exists

(* The start of the pre-warm task finds nobody at work.                    *)
LEMMA StartKeepsTable ==
  ASSUME IInv, QuietAtStart, TableInv, PrewarmStart
  PROVE  TableInv'
<1> Prewarm \in Coroutines /\ \A e \in Clients : e \in Coroutines /\ e # Prewarm
  BY CoroutinesAssumption DEF Coroutines
<1>1. PrewarmStep
  BY DEF PrewarmStep
<1>2. \A e \in Clients : pc[e] = "idle" /\ pc'[e] = "idle" /\ job'[e] = NoJob
  <2>1. \A e \in Clients : pc[e] = "idle" /\ job[e] = NoJob
    BY DEF PrewarmStart, At, QuietAtStart, TableInv, JobsFit, JobFits, Resting
  <2> QED BY <1>1, <2>1, PrewarmMoves
<1>3. AbsentIsBlank'
  BY DEF PrewarmStart, AbsentIsBlank, TableInv, Exists
<1>4. JobsFit'
  <2>1. NoJob.dep = NoDep
    BY DEF NoJob
  <2>2. \A e \in Clients : JobFits(e)' /\ RequestFits(e)'
    BY <1>2, <2>1 DEF JobFits, RequestFits, ColdStarting
  <2> QED BY <1>1, <2>2, PrewarmJobFits DEF JobsFit, Coroutines
<1>5. SnapshotsFit'
  BY DEF PrewarmStart, At, TableInv, SnapshotsFit
<1> QED BY <1>3, <1>4, <1>5 DEF TableInv

(* Every other step keeps the rows ...                                     *)
LEMMA RowsStay ==
  ASSUME IInv, TableInv, [Next]_vars, ~PrewarmStart
  PROVE  RowsKept /\ \A d \in Deps : deployment'[d] = deployment[d] \/ Exists(d)'
<1>1. CASE PrewarmStep
  BY <1>1, PrewarmKeepsRows DEF RowsKept
<1>2. ASSUME NEW c \in Clients, Receive(c) \/ RequestStep(c)
      PROVE  RowsKept /\ \A d \in Deps : deployment'[d] = deployment[d] \/ Exists(d)'
  BY <1>2, ClientKeepsRows DEF RowsKept
<1>3. CASE Tick \/ EnvironmentStep \/ UNCHANGED vars
  BY <1>3, OthersKeepRows DEF RowsKept
<1> QED BY <1>1, <1>2, <1>3 DEF Next, ServiceStep

(* ... and with them what jobs and snapshots say of them.                  *)
LEMMA NextTable == IInv /\ QuietAtStart /\ TableInv /\ [Next]_vars => TableInv'
<1> SUFFICES ASSUME IInv, QuietAtStart, TableInv, [Next]_vars, ~PrewarmStart PROVE TableInv'
  BY StartKeepsTable
<1> /\ Prewarm \in Coroutines /\ Prewarm \notin Clients
    /\ \A e \in Clients : e \in Coroutines /\ e # Prewarm
    /\ \A e \in Coroutines : e = Prewarm \/ e \in Clients
  BY CoroutinesAssumption DEF Coroutines
<1>1. RowsKept /\ \A d \in Deps : deployment'[d] = deployment[d] \/ Exists(d)'
  BY RowsStay
<1>2. AbsentIsBlank'
  BY <1>1 DEF AbsentIsBlank, TableInv, Exists
<1>3. TypeOK /\ \A e \in Coroutines : JobFits(e)
  BY DEF IInv, TableInv, JobsFit
<1>4. \A e \in Clients : RequestFits(e)
  BY DEF TableInv, JobsFit
<1>5. ASSUME Restart PROVE JobsFit'
  BY <1>5 DEF Restart, JobsFit, JobFits, RequestFits, ColdStarting, NoJob
<1>6. ASSUME NEW c \in Clients, Receive(c) \/ RequestStep(c) PROVE JobsFit'
  <2>1. \A e \in Coroutines : e # c => pc'[e] = pc[e] /\ job'[e] = job[e]
    BY <1>6, ClientMoves
  <2>2. \A e \in Coroutines : e # c => JobFits(e)'
    BY <1>1, <1>3, <2>1, OthersFit
  <2>3. \A e \in Clients : e # c => RequestFits(e)'
    BY <1>1, <1>3, <1>4, <2>1, OthersFit
  <2>4. ColdStarting(Prewarm)' => job'[Prewarm].dep # NoDep
    BY <2>1 DEF TableInv, JobsFit, ColdStarting
  <2> QED BY <1>6, <2>2, <2>3, <2>4, ClientJobFits DEF JobsFit
<1>7. ASSUME PrewarmStep PROVE JobsFit'
  <2>1. \A e \in Clients : pc'[e] = pc[e] /\ job'[e] = job[e]
    BY <1>7, PrewarmMoves
  <2>2. \A e \in Clients : JobFits(e)' /\ RequestFits(e)'
    BY <1>1, <1>3, <1>4, <2>1, OthersFit
  <2> QED BY <1>7, <2>2, PrewarmJobFits DEF JobsFit
<1>8. ASSUME UNCHANGED <<pc, job>> PROVE JobsFit'
  <2>1. \A e \in Coroutines : JobFits(e)'
    BY <1>1, <1>3, <1>8, OthersFit
  <2>2. \A e \in Clients : RequestFits(e)'
    BY <1>1, <1>3, <1>4, <1>8, OthersFit
  <2>3. ColdStarting(Prewarm)' => job'[Prewarm].dep # NoDep
    BY <1>8 DEF TableInv, JobsFit, ColdStarting
  <2> QED BY <2>1, <2>2, <2>3 DEF JobsFit
<1>9. JobsFit'
  BY <1>5, <1>6, <1>7, <1>8, OtherMoves DEF Next, ServiceStep
<1>10. ASSUME snapshot' = snapshot, pc[Prewarm] # "start" => pc'[Prewarm] # "start"
       PROVE  SnapshotsFit'
  BY <1>1, <1>10 DEF TableInv, SnapshotsFit, RowsKept, Exists
<1>11. ASSUME NEW o \in Operators, OperatorReads(o) PROVE SnapshotsFit'
  <2>1. PICK d \in Deps : Exists(d) /\ snapshot' = [snapshot EXCEPT ![o] = [dep |-> d, record |-> deployment[d]]]
    BY <1>11 DEF OperatorReads
  <2>2. deployment' = deployment /\ pc' = pc /\ pc[Prewarm] # "start"
    BY <1>11 DEF OperatorReads, registryVars, coroutineVars
  <2>3. snapshot'[o] = [dep |-> d, record |-> deployment[d]] /\ \A u \in Operators : u # o => snapshot'[u] = snapshot[u]
    BY <2>1 DEF IInv, TypeOK
  <2> QED BY <2>1, <2>2, <2>3 DEF TableInv, SnapshotsFit, Exists
<1>12. ASSUME NEW o \in Operators, OperatorUnloads(o) PROVE SnapshotsFit'
  <2>1. pc' = pc
    BY <1>12 DEF OperatorUnloads, coroutineVars
  <2>2. snapshot'[o] = NoSnapshot /\ \A u \in Operators : u # o => snapshot'[u] = snapshot[u]
    BY <1>12 DEF OperatorUnloads, IInv, TypeOK
  <2> QED BY <1>1, <2>1, <2>2 DEF TableInv, SnapshotsFit, RowsKept, Exists
<1>13. SnapshotsFit'
  <2>1. CASE PrewarmStep
    <3>1. snapshot' = snapshot
      BY <2>1, OneWritesSnapshots
    <3> QED BY <1>10, <2>1, <3>1, PrewarmMoves
  <2>2. ASSUME NEW c \in Clients, Receive(c) \/ RequestStep(c) PROVE SnapshotsFit'
    <3>1. snapshot' = snapshot
      BY <2>2, OneWritesSnapshots
    <3> QED BY <1>10, <2>2, <3>1, ClientMoves
  <2>3. CASE Tick \/ EnvironmentStep \/ UNCHANGED vars
    <3>1. \/ Restart \/ UNCHANGED <<pc, snapshot>>
          \/ \E o \in Operators : OperatorReads(o) \/ OperatorUnloads(o)
      BY <2>3 DEF Tick, EnvironmentStep, EngineStarts, EngineCrashes, OperatorDeploy, coroutineVars, taskVars, vars
    <3>2. CASE Restart
      BY <3>2 DEF Restart, SnapshotsFit
    <3> QED BY <1>10, <1>11, <1>12, <3>1, <3>2
  <2> QED BY <2>1, <2>2, <2>3 DEF Next, ServiceStep
<1> QED BY <1>2, <1>9, <1>13 DEF TableInv

(* The table invariant is inductive together with those of the core.       *)
LEMMA TableInductive == Spec => [](IInv /\ HotInv /\ TableInv)
<1>1. Init => HotInv
  BY CoroutinesAssumption DEF Init, HotInv, QuietAtStart, BusyIsHot, Coroutines
<1>2. Init => TableInv
  <2> SUFFICES ASSUME Init PROVE TableInv
    OBVIOUS
  <2>1. AbsentIsBlank
    BY DEF Init, AbsentIsBlank, Exists, PendingDeployment
  <2>2. JobsFit
    BY CoroutinesAssumption DEF Init, JobsFit, JobFits, RequestFits, ColdStarting, NoJob, Coroutines
  <2>3. SnapshotsFit
    BY DEF Init, SnapshotsFit
  <2> QED BY <2>1, <2>2, <2>3 DEF TableInv
<1>3. HotInv => QuietAtStart
  BY DEF HotInv
<1> QED BY <1>1, <1>2, <1>3, Inductive, NextHot, NextTable, PTL DEF Spec

(* A request is only ever served by a model that has the capability asked  *)
(* for: routing, a boot that ends well and every fallback choose a row of  *)
(* a capable model, and the row stays a row of that model.                 *)
THEOREM CapableModelServes == Spec => []ServedCapably
<1>1. TableInv => ServedCapably
  BY DEF TableInv, JobsFit, RequestFits, ServedCapably, Serving
<1> QED BY <1>1, TableInductive, PTL

-----------------------------------------------------------------------------
(* No needless boots, with operators at work as well: the row that is      *)
(* being started exists, so no hand-made READY row takes its place.        *)

(* A coroutine goes on to a boot only when its deployment is not READY.    *)
LEMMA ClientBootRelies ==
  ASSUME IInv, BootsAreNeeded, NEW c \in Clients, Receive(c) \/ RequestStep(c),
         pc'[c] \in HoldsBootLock, job'[c].dep # NoDep
  PROVE  deployment'[job'[c].dep].status # "ready"
<1> c \in Coroutines /\ c # Prewarm
  BY CoroutinesAssumption DEF Coroutines
<1> USE DEF IInv, TypeOK, At, Go
<1>1. CASE \/ Receive(c) \/ Onboard(c) \/ OnboardFails(c) \/ Route(c) \/ RouteFails(c) \/ Evict(c)
           \/ EvictFails(c) \/ Begin(c) \/ Finish(c) \/ LockModel(c) \/ Booted(c)
  BY <1>1 DEF Receive, Onboard, OnboardFails, Route, RouteFails, Evict, EvictFails, Begin, Finish, LockModel, Booted,
     HoldsBootLock
<1>2. CASE Recheck(c) \/ ColdStartFails(c)
  BY <1>2 DEF Recheck, ColdStartFails, FallBack, WaitForBoot, HoldsBootLock
<1>3. CASE Boot(c) \/ BootNoPort(c)
  <2>1. deployment' = deployment
    BY <1>3 DEF Boot, BootNoPort, registryVars
  <2>2. StatusOf(job[c].dep) # "ready"
    BY <1>3 DEF Boot, AlreadyBooted, BootNoPort, HoldsBootLock
  <2>3. job'[c].dep = job[c].dep
    BY <1>3, <2>2 DEF Boot, ReservePort, BootNoPort, SetJob, Job
  <2> QED BY <2>1, <2>2, <2>3 DEF StatusOf
<1>4. CASE RunDocker(c) \/ RunDockerFails(c) \/ PollTimeout(c) \/ Cleanup(c)
  <2>1. /\ pc[c] \in HoldsBootLock
        /\ job'[c].dep = job[c].dep
        /\ deployment' = deployment
    BY <1>4 DEF RunDocker, RunDockerFails, PollTimeout, Cleanup, SetJob, Job, registryVars, HoldsBootLock
  <2> QED BY <2>1 DEF BootsAreNeeded, Ready
<1> QED BY <1>1, <1>2, <1>3, <1>4 DEF RequestStep, ColdStartStep, PrewarmLocked

(* Nothing but its own boot makes a row READY that is being started.       *)
LEMMA NextBoots == IInv /\ TableInv /\ BootsAreNeeded /\ [Next]_vars => BootsAreNeeded'
<1> SUFFICES ASSUME IInv, TableInv, BootsAreNeeded, [Next]_vars,
                    NEW e \in Coroutines, pc'[e] \in HoldsBootLock, job'[e].dep # NoDep
             PROVE  deployment'[job'[e].dep].status # "ready"
  BY DEF BootsAreNeeded, Ready
<1> Prewarm \in Coroutines /\ \A c \in Clients : c \in Coroutines /\ c # Prewarm
  BY CoroutinesAssumption DEF Coroutines
<1>1. ASSUME pc'[e] = pc[e], job'[e] = job[e]
      PROVE  /\ pc[e] \in HoldsBootLock
             /\ job[e].dep \in Deps
             /\ deployment[job[e].dep].status \notin {"ready", "absent"}
  BY <1>1 DEF BootsAreNeeded, Ready, IInv, TypeOK, Job, TableInv, JobsFit, JobFits, Exists
<1>2. ASSUME NEW c \in Clients, Receive(c) \/ RequestStep(c)
      PROVE  deployment'[job'[e].dep].status # "ready"
  <2>1. CASE e = c
    BY <1>2, <2>1, ClientBootRelies
  <2>2. CASE e # c
    <3>1. pc'[e] = pc[e] /\ job'[e] = job[e] /\ c \in Coroutines
      BY <1>2, <2>2, ClientMoves
    <3>2. ~Booted(c)
      BY <1>1, <2>2, <3>1, OneBoots DEF Booted, At, HoldsBootLock
    <3>3. \A d \in Deps : deployment'[d].status = "ready" => deployment[d].status = "ready"
      BY <1>2, <3>2, ClientTable DEF Ready
    <3> QED BY <1>1, <3>1, <3>3
  <2> QED BY <2>1, <2>2
<1>3. CASE PrewarmStep
  <2>1. CASE e = Prewarm
    BY <1>3, <2>1, PrewarmRelies DEF Ready
  <2>2. CASE e # Prewarm
    <3>1. pc'[e] = pc[e] /\ job'[e] = job[e]
      BY <1>3, <2>2, PrewarmMoves DEF Coroutines
    <3>2. ~PrewarmBooted
      BY <1>1, <2>2, <3>1, OneBoots DEF PrewarmBooted, At, HoldsBootLock
    <3>3. \A d \in Deps : deployment'[d].status = "ready" => deployment[d].status = "ready"
      BY <1>3, <3>2, PrewarmTable DEF Ready
    <3> QED BY <1>1, <3>1, <3>3
  <2> QED BY <2>1, <2>2
<1>4. CASE Tick \/ EnvironmentStep \/ UNCHANGED vars
  <2>1. CASE Restart
    BY <2>1 DEF Restart, HoldsBootLock
  <2>2. CASE UNCHANGED <<pc, job, active>>
    <3>1. ASSUME NEW d \in Deps, deployment'[d].status = "ready"
          PROVE  deployment[d].status \in {"ready", "absent"}
      <4>1. CASE deployment'[d] = deployment[d]
        BY <3>1, <4>1
      <4>2. CASE deployment'[d] = [deployment[d] EXCEPT !.status = "unloaded"]
        BY <3>1, <4>2, StatusField DEF IInv, TypeOK
      <4>3. CASE \E o \in Operators : deployment'[d] = [snapshot[o].record EXCEPT !.status = "unloaded"]
        BY <3>1, <4>3, StatusField DEF IInv, TypeOK, Snapshot
      <4>4. CASE IsNewDeployment(d)
        BY <4>4 DEF IsNewDeployment, Exists
      <4> QED BY <1>4, <4>1, <4>2, <4>3, <4>4, OtherRow DEF OtherWrites
    <3> QED BY <1>1, <2>2, <3>1
  <2> QED BY <1>4, <2>1, <2>2, OtherMoves
<1> QED BY <1>2, <1>3, <1>4 DEF Next, ServiceStep

(* No container is started for a deployment that is READY.                 *)
THEOREM NoNeedlessBoot == Spec => []BootNotReady
<1>1. Init => BootsAreNeeded
  BY CoroutinesAssumption DEF Init, BootsAreNeeded, HoldsBootLock
<1>2. BootsAreNeeded => BootNotReady
  BY DEF BootsAreNeeded, BootNotReady, InBoot, HoldsBootLock
<1> QED BY <1>1, <1>2, TableInductive, NextBoots, PTL DEF Spec

-----------------------------------------------------------------------------
(* The queues of the model locks.                                          *)

Queueing == HoldsModelLock \cup {"recheck"}

(* Whoever is in a queue waits for that model's lock or holds it, and is   *)
(* in it once.                                                             *)
QueuesAreSane ==
  \A m \in Models : \A i \in DOMAIN modelLock[m] :
    LET e == modelLock[m][i] IN
    /\ pc[e] \in Queueing
    /\ job[e].model = m
    /\ \A j \in DOMAIN modelLock[m] : modelLock[m][j] = e => j = i

CoroutineStep(c) == (c \in Clients /\ (Receive(c) \/ RequestStep(c))) \/ (c = Prewarm /\ PrewarmStep)

(* A step of one coroutine leaves the others where they are.               *)
LEMMA OthersStand ==
  ASSUME IInv, NEW c \in Coroutines, CoroutineStep(c)
  PROVE  \A e \in Coroutines : e # c => pc'[e] = pc[e] /\ job'[e] = job[e]
BY ClientMoves, PrewarmMoves DEF CoroutineStep, Coroutines

(* What a step does to the queue of its model: nothing from outside, join, *)
(* move on inside, or leave from its head.                                 *)
QueueMove(c) ==
  \/ pc[c] \notin Queueing /\ modelLock' = modelLock
  \/ LockModel(c)
  \/ /\ pc[c] \in Queueing /\ pc'[c] \in Queueing
     /\ job'[c].model = job[c].model /\ job'[c].dep = job[c].dep
     /\ modelLock' = modelLock
  \/ /\ pc[c] \in Queueing
     /\ Holds(c, modelLock[job[c].model])
     /\ UnlockModel(c)

LEMMA EachStepQueues ==
  ASSUME IInv, NEW c \in Coroutines, CoroutineStep(c)
  PROVE  QueueMove(c)
<1> /\ job \in [Coroutines -> Job] /\ job[c] \in Job
    /\ pc \in [Coroutines -> Labels]
  BY DEF IInv, TypeOK
<1> USE DEF At, Go
<1>1. CASE Receive(c) \/ Onboard(c) \/ OnboardFails(c) \/ Route(c) \/ RouteFails(c) \/ Evict(c) \/ EvictFails(c)
           \/ Begin(c) \/ Finish(c)
  <2>1. pc[c] \in {"idle", "download", "route", "evict", "touch", "generate"} /\ modelLock' = modelLock
    BY <1>1 DEF Receive, Onboard, OnboardFails, Route, RouteFails, Evict, EvictFails, Begin, Finish
  <2> QED BY <2>1 DEF QueueMove, Queueing, HoldsModelLock, HoldsBootLock
<1>2. CASE c = Prewarm /\ (PrewarmStart \/ PrewarmPick \/ PrewarmEnd \/ PrewarmCreate)
  <2>1. pc[c] \in {"start", "next", "create"} /\ modelLock' = modelLock
    BY <1>2 DEF PrewarmStart, PrewarmPick, PrewarmEnd, PrewarmCreate
  <2> QED BY <2>1 DEF QueueMove, Queueing, HoldsModelLock, HoldsBootLock
<1>3. CASE LockModel(c)
  BY <1>3 DEF QueueMove
<1>4. ASSUME pc[c] \in HoldsModelLock, UnlockModel(c)
      PROVE  QueueMove(c)
  BY <1>4 DEF QueueMove, Queueing, IInv, LocksAreHeld
<1>5. ASSUME pc[c] \in Queueing, pc'[c] \in Queueing, \E p : job'[c] = [job[c] EXCEPT !.port = p], modelLock' = modelLock
      PROVE  QueueMove(c)
  BY <1>5, JobFields DEF QueueMove
<1>6. ASSUME pc[c] \in Queueing, pc'[c] \in Queueing, job' = job, modelLock' = modelLock
      PROVE  QueueMove(c)
  BY <1>6 DEF QueueMove
<1>7. CASE Recheck(c) \/ PrewarmLocked(c)
  <2>1. pc[c] = "recheck" /\ Holds(c, modelLock[job[c].model])
    BY <1>7 DEF Recheck, PrewarmLocked
  <2>2. UnlockModel(c) \/ (WaitForBoot(c) /\ UNCHANGED <<modelLock, job>>)
    BY <1>7 DEF Recheck, PrewarmLocked
  <2>3. CASE UnlockModel(c)
    BY <2>1, <2>3 DEF QueueMove, Queueing
  <2>4. CASE WaitForBoot(c) /\ UNCHANGED <<modelLock, job>>
    BY <1>6, <2>1, <2>4 DEF WaitForBoot, Queueing, HoldsModelLock, HoldsBootLock
  <2> QED BY <2>2, <2>3, <2>4
<1>8. CASE Boot(c)
  <2>1. pc[c] \in HoldsModelLock
    BY <1>8 DEF Boot, HoldsModelLock
  <2>2. CASE AlreadyBooted(c)
    BY <1>4, <2>1, <2>2 DEF AlreadyBooted
  <2>3. CASE ReservePort(c)
    <3>1. \E p : job'[c] = [job[c] EXCEPT !.port = p]
      BY <2>3 DEF ReservePort, SetJob
    <3>2. pc'[c] = "docker" /\ modelLock' = modelLock
      BY <2>3 DEF ReservePort
    <3> QED BY <1>5, <2>1, <3>1, <3>2 DEF Queueing, HoldsModelLock, HoldsBootLock
  <2> QED BY <1>8, <2>2, <2>3 DEF Boot
<1>9. CASE BootNoPort(c) \/ RunDockerFails(c) \/ PollTimeout(c) \/ Cleanup(c)
  <2>1. pc[c] \in HoldsModelLock /\ pc'[c] \in HoldsModelLock /\ job' = job /\ modelLock' = modelLock
    BY <1>9 DEF BootNoPort, RunDockerFails, PollTimeout, Cleanup, HoldsModelLock, HoldsBootLock
  <2> QED BY <1>6, <2>1 DEF Queueing
<1>10. CASE RunDocker(c)
  <2>1. \E p : job'[c] = [job[c] EXCEPT !.port = p]
    BY <1>10 DEF RunDocker, SetJob
  <2>2. pc[c] = "docker" /\ pc'[c] = "poll" /\ modelLock' = modelLock
    BY <1>10 DEF RunDocker
  <2> QED BY <1>5, <2>1, <2>2 DEF Queueing, HoldsModelLock, HoldsBootLock
<1>11. CASE Booted(c) \/ ColdStartFails(c)
  BY <1>4, <1>11 DEF Booted, ColdStartFails, HoldsModelLock, HoldsBootLock
<1>12. CASE c = Prewarm /\ (PrewarmBooted \/ PrewarmFails)
  BY <1>4, <1>12 DEF PrewarmBooted, PrewarmFails, HoldsModelLock, HoldsBootLock
<1> QED BY <1>1, <1>2, <1>3, <1>7, <1>8, <1>9, <1>10, <1>11, <1>12
        DEF CoroutineStep, RequestStep, PrewarmStep, ColdStartStep

(* A queue after its head has left, or with one more at its end.           *)
LEMMA QueueFacts ==
  ASSUME NEW q \in Seq(Coroutines), NEW c \in Coroutines
  PROVE  /\ q # <<>> => /\ Head(q) = q[1] /\ 1 \in DOMAIN q
                        /\ \A i \in DOMAIN Tail(q) :
                             i \in Nat \ {0} /\ i + 1 \in DOMAIN q /\ Tail(q)[i] = q[i + 1]
                        /\ \A i \in DOMAIN q : i # 1 => i - 1 \in DOMAIN Tail(q)
         /\ \A i \in DOMAIN Append(q, c) :
              IF i \in DOMAIN q THEN Append(q, c)[i] = q[i] ELSE i = Len(q) + 1 /\ Append(q, c)[i] = c
         /\ \A i \in DOMAIN q : i \in DOMAIN Append(q, c) /\ i < Len(q) + 1
         /\ Len(q) + 1 \in DOMAIN Append(q, c)
         /\ DOMAIN q \subseteq Nat
<1>1. q # <<>> => /\ Head(q) = q[1] /\ Tail(q) \in Seq(Coroutines) /\ Len(Tail(q)) = Len(q) - 1
                  /\ Len(q) > 0
                  /\ \A i \in 1 .. Len(Tail(q)) : Tail(q)[i] = q[i + 1]
  BY HeadTailProperties, EmptySeq
<1>2. DOMAIN q = 1 .. Len(q) /\ Len(q) \in Nat /\ (q # <<>> => DOMAIN Tail(q) = 1 .. Len(q) - 1)
  BY <1>1
<1>3. /\ DOMAIN Append(q, c) = 1 .. Len(q) + 1
      /\ Append(q, c)[Len(q) + 1] = c
      /\ \A i \in 1 .. Len(q) : Append(q, c)[i] = q[i]
  BY AppendProperties
<1> QED BY <1>1, <1>2, <1>3

(* Queues stay sane.                                                       *)
LEMMA CoroutineKeepsQueues ==
  ASSUME IInv, QueuesAreSane, NEW c \in Coroutines, CoroutineStep(c)
  PROVE  QueuesAreSane'
<1> /\ modelLock \in [Models -> Seq(Coroutines)]
    /\ \A m \in Models : modelLock[m] \in Seq(Coroutines)
    /\ \A m \in Models : \A i \in DOMAIN modelLock[m] : modelLock[m][i] \in Coroutines
  BY DEF IInv, TypeOK
<1>1. \A e \in Coroutines : e # c => pc'[e] = pc[e] /\ job'[e] = job[e]
  BY OthersStand
<1>2. CASE pc[c] \notin Queueing /\ modelLock' = modelLock
  BY <1>1, <1>2 DEF QueuesAreSane
<1>3. CASE LockModel(c)
  <2> DEFINE m == job[c].model
  <2>1. /\ m \in Models
        /\ pc[c] = "lock" /\ pc'[c] = "recheck" /\ job'[c] = job[c]
        /\ modelLock' = [modelLock EXCEPT ![m] = Append(@, c)]
    BY <1>3 DEF LockModel, At, Go, IInv, TypeOK, JobsAreTyped, HasModel
  <2>2. \A k \in Models : \A i \in DOMAIN modelLock[k] : modelLock[k][i] # c
    BY <2>1 DEF QueuesAreSane, Queueing, HoldsModelLock, HoldsBootLock
  <2>3. \A k \in Models : k # m => modelLock'[k] = modelLock[k]
    BY <2>1
  <2>4. modelLock'[m] = Append(modelLock[m], c)
    BY <2>1
  <2>5. \A i \in DOMAIN modelLock'[m] :
          \/ i \in DOMAIN modelLock[m] /\ modelLock'[m][i] = modelLock[m][i]
          \/ i = Len(modelLock[m]) + 1 /\ modelLock'[m][i] = c
    BY <2>1, <2>4, QueueFacts
  <2>6. "recheck" \in Queueing
    BY DEF Queueing
  <2>7. ASSUME NEW k \in Models, k # m, NEW i \in DOMAIN modelLock'[k]
        PROVE  /\ pc'[modelLock'[k][i]] \in Queueing
               /\ job'[modelLock'[k][i]].model = k
               /\ \A j \in DOMAIN modelLock'[k] : modelLock'[k][j] = modelLock'[k][i] => j = i
    <3>1. modelLock'[k] = modelLock[k] /\ modelLock[k][i] \in Coroutines /\ modelLock[k][i] # c
      BY <2>2, <2>3, <2>7
    <3> QED BY <1>1, <2>7, <3>1 DEF QueuesAreSane
  <2>8. ASSUME NEW i \in DOMAIN modelLock'[m]
        PROVE  /\ pc'[modelLock'[m][i]] \in Queueing
               /\ job'[modelLock'[m][i]].model = m
               /\ \A j \in DOMAIN modelLock'[m] : modelLock'[m][j] = modelLock'[m][i] => j = i
    BY <1>1, <2>1, <2>2, <2>5, <2>6, <2>8 DEF QueuesAreSane
  <2> QED BY <2>7, <2>8 DEF QueuesAreSane
<1>4. CASE /\ pc[c] \in Queueing /\ pc'[c] \in Queueing
           /\ job'[c].model = job[c].model
           /\ modelLock' = modelLock
  BY <1>1, <1>4 DEF QueuesAreSane
<1>5. CASE /\ pc[c] \in Queueing
           /\ Holds(c, modelLock[job[c].model])
           /\ UnlockModel(c)
  <2> DEFINE m == job[c].model
  <2>1. m \in Models /\ modelLock[m] # <<>> /\ Head(modelLock[m]) = c
    BY <1>5 DEF Holds, IInv, JobsAreTyped, HasModel, Queueing, HoldsModelLock, HoldsBootLock
  <2>2. modelLock' = [modelLock EXCEPT ![m] = Tail(@)]
    BY <1>5 DEF UnlockModel
  <2>3. \A k \in Models : k # m => modelLock'[k] = modelLock[k]
    BY <2>2
  <2>4. modelLock'[m] = Tail(modelLock[m])
    BY <2>1, <2>2
  <2>5. 1 \in DOMAIN modelLock[m] /\ modelLock[m][1] = c
    BY <2>1, QueueFacts
  <2>6. \A i \in DOMAIN modelLock'[m] : i \in Nat \ {0} /\ i + 1 \in DOMAIN modelLock[m] /\ modelLock'[m][i] = modelLock[m][i + 1]
    BY <2>1, <2>4, QueueFacts
  <2>7. ASSUME NEW k \in Models, k # m, NEW i \in DOMAIN modelLock'[k]
        PROVE  /\ pc'[modelLock'[k][i]] \in Queueing
               /\ job'[modelLock'[k][i]].model = k
               /\ \A j \in DOMAIN modelLock'[k] : modelLock'[k][j] = modelLock'[k][i] => j = i
    BY <1>1, <2>3, <2>7 DEF QueuesAreSane
  <2>8. ASSUME NEW i \in DOMAIN modelLock'[m]
        PROVE  /\ pc'[modelLock'[m][i]] \in Queueing
               /\ job'[modelLock'[m][i]].model = m
               /\ \A j \in DOMAIN modelLock'[m] : modelLock'[m][j] = modelLock'[m][i] => j = i
    <3>1. i \in Nat /\ i + 1 \in DOMAIN modelLock[m] /\ modelLock'[m][i] = modelLock[m][i + 1] /\ i + 1 # 1
      BY <2>6
    <3>2. modelLock[m][i + 1] # c /\ modelLock[m][i + 1] \in Coroutines
      BY <2>1, <2>5, <3>1 DEF QueuesAreSane
    <3>3. ASSUME NEW j \in DOMAIN modelLock'[m], modelLock'[m][j] = modelLock'[m][i] PROVE j = i
      <4>1. j \in Nat /\ j + 1 \in DOMAIN modelLock[m] /\ modelLock'[m][j] = modelLock[m][j + 1]
        BY <2>6
      <4>2. j + 1 = i + 1
        BY <2>1, <3>1, <3>3, <4>1 DEF QueuesAreSane
      <4> QED BY <3>1, <4>1, <4>2
    <3> QED BY <1>1, <2>1, <3>1, <3>2, <3>3 DEF QueuesAreSane
  <2> QED BY <2>7, <2>8 DEF QueuesAreSane
<1> QED BY <1>2, <1>3, <1>4, <1>5, EachStepQueues DEF QueueMove

LEMMA NextQueues == IInv /\ QueuesAreSane /\ [Next]_vars => QueuesAreSane'
<1> SUFFICES ASSUME IInv, QueuesAreSane, [Next]_vars PROVE QueuesAreSane'
  OBVIOUS
<1>1. CASE Restart
  BY <1>1 DEF Restart, QueuesAreSane
<1>2. CASE UNCHANGED <<pc, job, modelLock>>
  BY <1>2 DEF QueuesAreSane
<1>3. ASSUME NEW c \in Coroutines, CoroutineStep(c) PROVE QueuesAreSane'
  BY <1>3, CoroutineKeepsQueues
<1>4. Tick \/ EnvironmentStep \/ UNCHANGED vars => Restart \/ UNCHANGED <<pc, job, modelLock>>
  BY DEF Tick, EnvironmentStep, EngineStarts, EngineCrashes, OperatorDeploy, OperatorReads, OperatorUnloads,
         coroutineVars, vars
<1> QED BY <1>1, <1>2, <1>3, <1>4 DEF Next, ServiceStep, CoroutineStep, Coroutines

-----------------------------------------------------------------------------
(* FAILED is for ever, permanent deployments stay.  The pre-warm task goes *)
(* from its queue straight to the boot lock without looking at its row     *)
(* again: that is safe because it is in the queue before every request for *)
(* that row.                                                               *)

FailedIsNotBooted ==
  \A c \in Coroutines :
    pc[c] \in HoldsModelLock /\ job[c].dep # NoDep => deployment[job[c].dep].status # "failed"

(* What the pre-warm task relies on while it waits for the model lock.     *)
RowIsPending ==
  pc[Prewarm] \in {"lock", "recheck"} =>
    deployment[job[Prewarm].dep].status = "pending" /\ Permanent(job[Prewarm].dep)

RowIsUnknown ==
  pc[Prewarm] = "lock" => loop = Prewarm /\ \A c \in Clients : job[c].dep # job[Prewarm].dep

AheadOfOthers(q) ==
  \E i \in DOMAIN q :
    /\ q[i] = Prewarm
    /\ \A k \in DOMAIN q : k < i => job[q[k]].dep # job[Prewarm].dep

PrewarmIsFirst == pc[Prewarm] = "recheck" => AheadOfOthers(modelLock[job[Prewarm].model])

FirstInv == FailedIsNotBooted /\ RowIsPending /\ RowIsUnknown /\ PrewarmIsFirst

(* Two coroutines under the model lock do not work on one row.             *)
LEMMA OneStarts ==
  ASSUME IInv, TableInv, NEW c \in Coroutines, NEW e \in Coroutines,
         pc[c] \in HoldsModelLock, pc[e] \in HoldsModelLock,
         job[c].dep = job[e].dep, job[c].dep # NoDep
  PROVE  c = e
<1>1. job[c].model = job[e].model
  BY DEF TableInv, JobsFit, JobFits, ColdStarting, HoldsModelLock, HoldsBootLock
<1> QED BY <1>1 DEF IInv, LocksAreHeld, Holds

(* No request works on the row the pre-warm task waits for.                *)
LEMMA OnlyPrewarmWaits ==
  ASSUME IInv, TableInv, FirstInv, pc[Prewarm] \in {"lock", "recheck"},
         NEW c \in Clients, pc[c] \in HoldsModelLock
  PROVE  job[c].dep # job[Prewarm].dep
<1> c \in Coroutines /\ Prewarm \in Coroutines /\ c # Prewarm
  BY CoroutinesAssumption DEF Coroutines
<1> SUFFICES ASSUME pc[Prewarm] = "recheck", job[c].dep = job[Prewarm].dep PROVE FALSE
  BY DEF FirstInv, RowIsUnknown
<1> DEFINE q == modelLock[job[Prewarm].model]
<1>1. job[c].model = job[Prewarm].model /\ job[Prewarm].model \in Models
  BY DEF TableInv, JobsFit, JobFits, ColdStarting, HoldsModelLock, HoldsBootLock, IInv, JobsAreTyped, HasModel
<1>2. q \in Seq(Coroutines) /\ q # <<>> /\ Head(q) = c
  BY <1>1 DEF IInv, TypeOK, LocksAreHeld, Holds
<1>3. q[1] = c /\ 1 \in DOMAIN q
  BY <1>2, QueueFacts
<1>4. PICK i \in DOMAIN q : q[i] = Prewarm /\ \A k \in DOMAIN q : k < i => job[q[k]].dep # job[Prewarm].dep
  BY DEF FirstInv, PrewarmIsFirst, AheadOfOthers
<1>5. i \in 1 .. Len(q) /\ i # 1
  BY <1>2, <1>3, <1>4
<1> QED BY <1>3, <1>4, <1>5

(* A request comes to a PENDING row by routing only.                       *)
LEMMA RoutedToPending ==
  ASSUME IInv, TableInv, NEW c \in Clients, Receive(c) \/ RequestStep(c),
         job'[c].dep # NoDep, job'[c].dep # job[c].dep, deployment[job'[c].dep].status = "pending"
  PROVE  Route(c)
<1> /\ c \in Coroutines /\ c # Prewarm
    /\ job \in [Coroutines -> Job] /\ job[c] \in Job
    /\ deployment \in [Deps -> DeploymentRecord]
    /\ pc \in [Coroutines -> Labels]
  BY CoroutinesAssumption DEF Coroutines, IInv, TypeOK
<1> SUFFICES ASSUME ~Route(c) PROVE FALSE
  OBVIOUS
<1>a. NoJob.dep = NoDep
  BY DEF NoJob
<1>b. ASSUME job'[c] = NoJob PROVE FALSE
  BY <1>a, <1>b
<1>c. ASSUME NEW table, FallBack(c, table), \A f \in Deps : table[f].status = "ready" => deployment[f].status = "ready"
      PROVE  FALSE
  <2>1. ASSUME NEW f \in Deps, job'[c] = [job[c] EXCEPT !.dep = f], table[f].status = "ready" PROVE FALSE
    BY <1>c, <2>1, JobFields
  <2>2. \/ pc'[c] = "idle" /\ job'[c] = NoJob
        \/ /\ pc'[c] = "touch"
           /\ \E f \in Deps : /\ job'[c] = [job[c] EXCEPT !.dep = f]
                              /\ table[f].status = "ready"
                              /\ job[c].cap \in CapsOf[table[f].model]
    BY <1>c, FallBackFits
  <2> QED BY <1>b, <2>1, <2>2
<1>1. CASE Receive(c)
  <2>1. PICK q : SetJob(c, [NoJob EXCEPT !.cap = q.cap]) \/ \E m : SetJob(c, [NoJob EXCEPT !.cap = q.cap, !.model = m])
    BY <1>1 DEF Receive
  <2> QED BY <2>1 DEF SetJob, NoJob
<1>2. CASE OnboardFails(c) \/ RouteFails(c) \/ EvictFails(c) \/ Finish(c)
  BY <1>2, <1>b DEF OnboardFails, RouteFails, EvictFails, Finish, SetJob
<1>3. CASE Onboard(c) \/ Evict(c) \/ LockModel(c) \/ RunDockerFails(c) \/ PollTimeout(c) \/ Cleanup(c) \/ BootNoPort(c)
  BY <1>3 DEF Onboard, Evict, LockModel, RunDockerFails, PollTimeout, Cleanup, BootNoPort
<1>4. CASE Recheck(c)
  BY <1>4, <1>c DEF Recheck
<1>5. CASE Boot(c)
  <2>1. CASE AlreadyBooted(c)
    BY <2>1 DEF AlreadyBooted, SetJob
  <2>2. CASE ReservePort(c)
    <3>1. PICK p : SetJob(c, [job[c] EXCEPT !.port = p])
      BY <2>2 DEF ReservePort
    <3> QED BY <3>1, JobFields DEF SetJob
  <2> QED BY <1>5, <2>1, <2>2 DEF Boot
<1>6. CASE RunDocker(c)
  <2>1. PICK p : SetJob(c, [job[c] EXCEPT !.port = p])
    BY <1>6 DEF RunDocker
  <2> QED BY <2>1, JobFields DEF SetJob
<1>7. CASE Booted(c)
  <2>1. PICK d \in Deps : /\ IF job[c].dep = NoDep THEN IsNewDeployment(d) ELSE d = job[c].dep
                          /\ SetJob(c, [job[c] EXCEPT !.dep = d])
    BY <1>7 DEF Booted
  <2>2. job'[c].dep = d
    BY <2>1, JobFields DEF SetJob
  <2> QED BY <2>1, <2>2 DEF IsNewDeployment, Exists
<1>8. CASE ColdStartFails(c)
  <2>1. deployment' = deployment \/ SetStatus(job[c].dep, "failed")
    BY <1>8 DEF ColdStartFails
  <2>2. \A f \in Deps : deployment'[f].status = "ready" => deployment[f].status = "ready"
    BY <2>1, StatusRow DEF IInv, DeploymentStatus
  <2> QED BY <1>8, <1>c, <2>2 DEF ColdStartFails
<1>9. CASE Begin(c)
  BY <1>9 DEF Begin, SetJob, NoJob
<1> QED BY <1>1, <1>2, <1>3, <1>4, <1>5, <1>6, <1>7, <1>8, <1>9 DEF RequestStep, ColdStartStep, PrewarmLocked

(* A request goes to the boot lock only for a row that has not failed.     *)
LEMMA ClientBootsUnfailed ==
  ASSUME IInv, FailedIsNotBooted, NEW c \in Clients, Receive(c) \/ RequestStep(c),
         pc'[c] \in HoldsModelLock, job'[c].dep # NoDep
  PROVE  deployment'[job'[c].dep].status # "failed"
<1> /\ c \in Coroutines /\ c # Prewarm
    /\ job \in [Coroutines -> Job] /\ job[c] \in Job
    /\ pc \in [Coroutines -> Labels]
  BY CoroutinesAssumption DEF Coroutines, IInv, TypeOK
<1> USE DEF At, Go, HoldsModelLock, HoldsBootLock
<1>1. CASE \/ Receive(c) \/ Onboard(c) \/ OnboardFails(c) \/ Route(c) \/ RouteFails(c) \/ Evict(c)
           \/ EvictFails(c) \/ Begin(c) \/ Finish(c) \/ LockModel(c) \/ Booted(c) \/ ColdStartFails(c)
  BY <1>1 DEF Receive, Onboard, OnboardFails, Route, RouteFails, Evict, EvictFails, Begin, Finish, LockModel, Booted,
     ColdStartFails, FallBack
<1>2. CASE Recheck(c)
  <2>1. deployment' = deployment
    BY <1>2 DEF Recheck, registryVars
  <2>2. job' = job /\ StatusOf(job[c].dep) # "failed"
    BY <1>2 DEF Recheck, FallBack
  <2> QED BY <2>1, <2>2 DEF StatusOf
<1>3. ASSUME pc[c] \in HoldsModelLock, deployment' = deployment, job'[c].dep = job[c].dep
      PROVE  deployment'[job'[c].dep].status # "failed"
  BY <1>3 DEF FailedIsNotBooted
<1>4. CASE Boot(c)
  <2>1. ReservePort(c)
    BY <1>4 DEF Boot, AlreadyBooted
  <2>2. PICK p : SetJob(c, [job[c] EXCEPT !.port = p])
    BY <2>1 DEF ReservePort
  <2>3. job'[c].dep = job[c].dep
    BY <2>2, JobFields DEF SetJob
  <2> QED BY <1>3, <1>4, <2>3 DEF Boot, registryVars
<1>5. CASE BootNoPort(c) \/ RunDockerFails(c) \/ PollTimeout(c) \/ Cleanup(c)
  BY <1>3, <1>5 DEF BootNoPort, RunDockerFails, PollTimeout, Cleanup, registryVars
<1>6. CASE RunDocker(c)
  <2>1. PICK p : SetJob(c, [job[c] EXCEPT !.port = p])
    BY <1>6 DEF RunDocker
  <2>2. job'[c].dep = job[c].dep
    BY <2>1, JobFields DEF SetJob
  <2> QED BY <1>3, <1>6, <2>2 DEF RunDocker, registryVars
<1> QED BY <1>1, <1>2, <1>4, <1>5, <1>6 DEF RequestStep, ColdStartStep, PrewarmLocked

(* A step of a request leaves the pre-warm task's row and its place in the *)
(* queue alone.                                                            *)
LEMMA ClientKeepsFirst ==
  ASSUME IInv, TableInv, QueuesAreSane, Chosen, FirstInv, NEW c \in Clients, Receive(c) \/ RequestStep(c)
  PROVE  FirstInv'
<1> /\ c \in Coroutines /\ Prewarm \in Coroutines /\ c # Prewarm /\ Prewarm # Nobody
    /\ pc'[Prewarm] = pc[Prewarm] /\ job'[Prewarm] = job[Prewarm]
    /\ modelLock \in [Models -> Seq(Coroutines)]
    /\ deployment \in [Deps -> DeploymentRecord]
  BY CoroutinesAssumption, ClientMoves DEF Coroutines, IInv, TypeOK
<1> DEFINE d == job[Prewarm].dep
           m == job[Prewarm].model
<1>1. \A e \in Coroutines : e # c => pc'[e] = pc[e] /\ job'[e] = job[e]
  BY ClientMoves
<1>2. \A x \in Deps : deployment'[x] = deployment[x] \/ ClientWrites(c, x)
  BY ClientRow
<1>3. FailedIsNotBooted'
  <2>1. ASSUME NEW e \in Coroutines, e # c, pc[e] \in HoldsModelLock, job[e].dep # NoDep
        PROVE  deployment'[job[e].dep].status # "failed"
    <3> DEFINE x == job[e].dep
    <3>1. x \in Deps /\ deployment[x].status # "failed"
      BY <2>1 DEF FirstInv, FailedIsNotBooted, IInv, TypeOK, Job
    <3>2. ~(ColdStartFails(c) /\ x = job[c].dep)
      BY <2>1, OneStarts DEF ColdStartFails, At, HoldsModelLock, HoldsBootLock
    <3>3. CASE deployment'[x] = deployment[x]
      BY <3>1, <3>3
    <3>4. CASE deployment'[x] = [deployment[x] EXCEPT !.status = "unloaded"]
      BY <3>1, <3>4, StatusField
    <3>5. CASE deployment'[x] = ReadyRecord(job[c].model, job[c].port, Permanent(x))
      BY <3>5 DEF ReadyRecord
    <3>6. CASE deployment'[x] = PendingDeployment(job[c].model, FALSE)
      BY <3>6 DEF PendingDeployment
    <3> QED BY <1>2, <3>1, <3>2, <3>3, <3>4, <3>5, <3>6 DEF ClientWrites
  <2> QED BY <1>1, <2>1, ClientBootsUnfailed DEF FailedIsNotBooted, FirstInv
<1>4. CASE pc[Prewarm] \notin {"lock", "recheck"}
  BY <1>3, <1>4 DEF FirstInv, RowIsPending, RowIsUnknown, PrewarmIsFirst
<1>5. CASE pc[Prewarm] \in {"lock", "recheck"}
  <2>1. d \in Deps /\ d # NoDep /\ deployment[d].status = "pending"
    <3>1. d # NoDep
      BY <1>5 DEF TableInv, JobsFit, ColdStarting
    <3> QED BY <1>5, <3>1 DEF FirstInv, RowIsPending, IInv, TypeOK, Job
  <2>2. deployment'[d] = deployment[d]
    <3>1. ~(Evict(c) /\ d = job[c].victim)
      BY <2>1 DEF Evict, At, Chosen, EvictionCandidate, Ready
    <3>2. ~((ColdStartFails(c) \/ Booted(c)) /\ d = job[c].dep)
      BY <1>5, OnlyPrewarmWaits DEF ColdStartFails, Booted, At, HoldsModelLock, HoldsBootLock
    <3>3. ~IsNewDeployment(d)
      BY <2>1 DEF IsNewDeployment, Exists
    <3> QED BY <1>2, <2>1, <3>1, <3>2, <3>3 DEF ClientWrites
  <2>3. RowIsPending'
    BY <1>5, <2>2 DEF FirstInv, RowIsPending, Permanent
  <2>4. \A e \in Clients : e # c => job'[e].dep = job[e].dep
    BY <1>1 DEF Coroutines
  <2>5. job'[c].dep = d => job[c].dep = d \/ Route(c)
    BY <2>1, RoutedToPending
  <2>6. RowIsUnknown'
    <3> SUFFICES ASSUME pc[Prewarm] = "lock" PROVE loop' = Prewarm /\ \A e \in Clients : job'[e].dep # d
      BY DEF RowIsUnknown
    <3>1. loop = Prewarm /\ \A e \in Clients : job[e].dep # d
      BY DEF FirstInv, RowIsUnknown
    <3>2. loop' = Prewarm
      BY <3>1, OffTheLoop
    <3>3. ~Route(c)
      BY <3>1 DEF Route
    <3> QED BY <2>4, <2>5, <3>1, <3>2, <3>3
  <2>7. ASSUME pc[Prewarm] = "recheck" PROVE AheadOfOthers(modelLock[m])'
    <3> DEFINE q == modelLock[m]
    <3>1. m \in Models /\ q \in Seq(Coroutines) /\ \A k \in DOMAIN q : q[k] \in Coroutines
      BY <2>7 DEF IInv, TypeOK, JobsAreTyped, HasModel
    <3>2. PICK i \in DOMAIN q : q[i] = Prewarm /\ \A k \in DOMAIN q : k < i => job[q[k]].dep # d
      BY <2>7 DEF FirstInv, PrewarmIsFirst, AheadOfOthers
    <3>3. \A k \in DOMAIN q : q[k] = c => pc[c] \in Queueing /\ job[c].model = m
      BY <3>1 DEF QueuesAreSane
    <3>4. \A k \in DOMAIN q : k < i => job'[q[k]].dep # d
      <4>1. \A k \in DOMAIN q : q[k] # c => job'[q[k]].dep = job[q[k]].dep
        BY <1>1, <3>1
      <4>2. pc[c] \in Queueing => ~Route(c)
        BY DEF Route, At, Queueing, HoldsModelLock, HoldsBootLock
      <4> QED BY <2>5, <3>2, <3>3, <4>1, <4>2
    <3>5. CASE modelLock'[m] = q
      BY <3>2, <3>4, <3>5 DEF AheadOfOthers
    <3>6. CASE modelLock'[m] = Append(q, c)
      <4>1. i \in DOMAIN Append(q, c) /\ Append(q, c)[i] = Prewarm
        BY <3>1, <3>2, QueueFacts
      <4>2. \A k \in DOMAIN Append(q, c) : k < i => k \in DOMAIN q /\ Append(q, c)[k] = q[k]
        BY <3>1, <3>2, QueueFacts
      <4> QED BY <3>4, <3>6, <4>1, <4>2 DEF AheadOfOthers
    <3>7. CASE q # <<>> /\ Head(q) = c /\ modelLock'[m] = Tail(q)
      <4>1. q[1] = c /\ i # 1 /\ i \in Nat
        BY <3>1, <3>2, <3>7, QueueFacts
      <4>2. i - 1 \in DOMAIN Tail(q) /\ Tail(q)[i - 1] = Prewarm
        <5>1. i - 1 \in DOMAIN Tail(q)
          BY <3>1, <3>7, <4>1, QueueFacts
        <5>2. Tail(q)[i - 1] = q[(i - 1) + 1] /\ (i - 1) + 1 = i
          BY <3>1, <3>7, <4>1, <5>1, QueueFacts
        <5> QED BY <3>2, <5>1, <5>2
      <4>3. ASSUME NEW k \in DOMAIN Tail(q), k < i - 1 PROVE job'[Tail(q)[k]].dep # d
        <5>1. k \in Nat /\ k + 1 \in DOMAIN q /\ Tail(q)[k] = q[k + 1]
          BY <3>1, <3>7, QueueFacts
        <5>2. k + 1 < i
          BY <4>1, <4>3, <5>1
        <5> QED BY <3>4, <5>1, <5>2
      <4> QED BY <3>7, <4>2, <4>3 DEF AheadOfOthers
    <3>8. modelLock'[m] = q \/ modelLock'[m] = Append(q, c) \/ (q # <<>> /\ Head(q) = c /\ modelLock'[m] = Tail(q))
      <4>1. LockModel(c) => modelLock'[m] = q \/ modelLock'[m] = Append(q, c)
        BY <3>1 DEF LockModel
      <4>2. Holds(c, modelLock[job[c].model]) /\ UnlockModel(c) =>
              modelLock'[m] = q \/ (q # <<>> /\ Head(q) = c /\ modelLock'[m] = Tail(q))
        BY <3>1 DEF UnlockModel, Holds
      <4> QED BY <4>1, <4>2, EachStepQueues DEF QueueMove, CoroutineStep
    <3> QED BY <3>5, <3>6, <3>7, <3>8
  <2> QED BY <1>3, <2>3, <2>6, <2>7 DEF FirstInv, PrewarmIsFirst
<1> QED BY <1>4, <1>5

(* Neither does a step of the pre-warm task itself spoil what it relies on.*)
LEMMA PrewarmKeepsFirst ==
  ASSUME IInv, TableInv, QueuesAreSane, FirstInv, PrewarmStep
  PROVE  FirstInv'
<1> /\ Prewarm \in Coroutines
    /\ \A e \in Clients : e \in Coroutines /\ e # Prewarm
    /\ \A e \in Coroutines : e = Prewarm \/ e \in Clients
    /\ \A e \in Clients : pc'[e] = pc[e] /\ job'[e] = job[e]
    /\ pc \in [Coroutines -> Labels]
    /\ job \in [Coroutines -> Job] /\ job[Prewarm] \in Job
    /\ modelLock \in [Models -> Seq(Coroutines)]
  BY CoroutinesAssumption, PrewarmMoves DEF Coroutines, IInv, TypeOK
<1>1. ASSUME NEW e \in Clients, pc[e] \in HoldsModelLock, job[e].dep # NoDep
      PROVE  deployment'[job[e].dep].status # "failed"
  <2> DEFINE x == job[e].dep
  <2>1. x \in Deps /\ deployment[x].status # "failed"
    BY <1>1 DEF FirstInv, FailedIsNotBooted, IInv, TypeOK, Job
  <2>2. ~(PrewarmFails /\ x = job[Prewarm].dep)
    BY <1>1, OneStarts DEF PrewarmFails, At, HoldsModelLock, HoldsBootLock
  <2>3. CASE deployment'[x] = deployment[x]
    BY <2>1, <2>3
  <2>4. CASE PrewarmWrites(x)
    BY <2>2, <2>4 DEF PrewarmWrites, AbsentDeployment, ReadyRecord, PendingDeployment
  <2> QED BY <2>1, <2>3, <2>4, PrewarmRow
<1>2. ASSUME FailedIsNotBooted', pc'[Prewarm] \notin {"lock", "recheck"} PROVE FirstInv'
  BY <1>2 DEF FirstInv, RowIsPending, RowIsUnknown, PrewarmIsFirst
<1>3. ASSUME pc'[Prewarm] \notin HoldsModelLock PROVE FailedIsNotBooted'
  BY <1>1, <1>3 DEF FailedIsNotBooted
<1>4. ASSUME pc[Prewarm] \in HoldsModelLock, deployment' = deployment, job'[Prewarm].dep = job[Prewarm].dep
      PROVE  FailedIsNotBooted'
  BY <1>1, <1>4 DEF FirstInv, FailedIsNotBooted
<1> USE DEF At, Go
<1>5. CASE \/ PrewarmStart \/ PrewarmPick \/ PrewarmEnd \/ PrewarmBooted \/ PrewarmFails
           \/ Onboard(Prewarm) \/ OnboardFails(Prewarm)
  <2>1. pc'[Prewarm] \in {"next", "create", "download", "done"}
    BY <1>5 DEF PrewarmStart, PrewarmPick, PrewarmEnd, PrewarmBooted, PrewarmFails, Onboard, OnboardFails
  <2> QED BY <1>2, <1>3, <2>1 DEF HoldsModelLock, HoldsBootLock
<1>6. CASE PrewarmCreate
  <2>1. PICK n \in Deps :
          /\ IsNewDeployment(n)
          /\ SaveDeployment(n, PendingDeployment(job[Prewarm].model, TRUE))
          /\ SetJob(Prewarm, [job[Prewarm] EXCEPT !.dep = n])
    BY <1>6 DEF PrewarmCreate
  <2>2. job'[Prewarm].dep = n
    BY <2>1, JobFields DEF SetJob
  <2>3. deployment'[n].status = "pending" /\ deployment'[n].permanent = TRUE
    BY <2>1 DEF SaveDeployment, PendingDeployment, IInv, TypeOK
  <2>4. \A e \in Clients : job'[e].dep # n
    BY <2>1 DEF IsNewDeployment, TableInv, JobsFit, JobFits, Deps, NoDep
  <2>5. pc'[Prewarm] = "lock" /\ loop' = Prewarm
    BY <1>6 DEF PrewarmCreate, Keeps
  <2> QED BY <1>3, <2>2, <2>3, <2>4, <2>5
          DEF FirstInv, RowIsPending, RowIsUnknown, PrewarmIsFirst, Permanent, HoldsModelLock, HoldsBootLock
<1>7. CASE LockModel(Prewarm)
  <2> DEFINE m == job[Prewarm].model
             q == modelLock[m]
  <2>1. /\ pc[Prewarm] = "lock" /\ pc'[Prewarm] = "recheck"
        /\ job' = job /\ deployment' = deployment
    BY <1>7 DEF LockModel, registryVars
  <2>2. m \in Models /\ q \in Seq(Coroutines) /\ modelLock'[m] = Append(q, Prewarm)
    BY <1>7, <2>1 DEF LockModel, IInv, JobsAreTyped, HasModel
  <2>3. \A e \in Clients : job[e].dep # job[Prewarm].dep
    BY <2>1 DEF FirstInv, RowIsUnknown
  <2>4. \A k \in DOMAIN q : q[k] \in Coroutines /\ q[k] # Prewarm
    <3>1. \A k \in DOMAIN q : pc[q[k]] \in Queueing
      BY <2>2 DEF QueuesAreSane
    <3>2. pc[Prewarm] \notin Queueing
      BY <2>1 DEF Queueing, HoldsModelLock, HoldsBootLock
    <3> QED BY <2>2, <3>1, <3>2
  <2>5. Len(q) + 1 \in DOMAIN Append(q, Prewarm) /\ Append(q, Prewarm)[Len(q) + 1] = Prewarm
    BY <2>2, AppendProperties, QueueFacts
  <2>6. ASSUME NEW k \in DOMAIN Append(q, Prewarm), k < Len(q) + 1
        PROVE  job[Append(q, Prewarm)[k]].dep # job[Prewarm].dep
    <3>1. Len(q) \in Nat
      BY <2>2
    <3>2. k \in DOMAIN q /\ Append(q, Prewarm)[k] = q[k]
      BY <2>2, <2>6, <3>1, QueueFacts
    <3> QED BY <2>3, <2>4, <3>2
  <2>7. AheadOfOthers(modelLock[m])'
    BY <2>1, <2>2, <2>5, <2>6 DEF AheadOfOthers
  <2>8. RowIsPending'
    BY <2>1 DEF FirstInv, RowIsPending, Permanent
  <2> QED BY <1>3, <2>1, <2>7, <2>8 DEF FirstInv, RowIsUnknown, PrewarmIsFirst, HoldsModelLock, HoldsBootLock
<1>8. CASE PrewarmLocked(Prewarm)
  <2>1. pc[Prewarm] = "recheck" /\ pc'[Prewarm] = "boot" /\ job' = job /\ deployment' = deployment
    BY <1>8 DEF PrewarmLocked, WaitForBoot, registryVars
  <2>2. deployment[job[Prewarm].dep].status # "failed"
    BY <2>1 DEF FirstInv, RowIsPending
  <2>3. FailedIsNotBooted'
    BY <1>1, <2>1, <2>2 DEF FailedIsNotBooted
  <2> QED BY <1>2, <2>1, <2>3
<1>9. CASE Boot(Prewarm)
  <2>1. CASE AlreadyBooted(Prewarm)
    <3>1. pc'[Prewarm] = "next"
      BY <2>1 DEF AlreadyBooted
    <3> QED BY <1>2, <1>3, <3>1 DEF HoldsModelLock, HoldsBootLock
  <2>2. CASE ReservePort(Prewarm)
    <3>1. PICK p : SetJob(Prewarm, [job[Prewarm] EXCEPT !.port = p])
      BY <2>2 DEF ReservePort
    <3>2. job'[Prewarm].dep = job[Prewarm].dep
      BY <3>1, JobFields DEF SetJob
    <3>3. pc[Prewarm] = "boot" /\ deployment' = deployment /\ pc'[Prewarm] = "docker"
      BY <1>9, <2>2 DEF Boot, ReservePort, registryVars
    <3> QED BY <1>2, <1>4, <3>2, <3>3 DEF HoldsModelLock
  <2> QED BY <1>9, <2>1, <2>2 DEF Boot
<1>10. CASE BootNoPort(Prewarm) \/ RunDockerFails(Prewarm) \/ PollTimeout(Prewarm) \/ Cleanup(Prewarm)
  <2>1. /\ pc[Prewarm] \in HoldsModelLock /\ pc'[Prewarm] \in HoldsBootLock
        /\ job' = job /\ deployment' = deployment
    BY <1>10 DEF BootNoPort, RunDockerFails, PollTimeout, Cleanup, registryVars, HoldsModelLock, HoldsBootLock
  <2> QED BY <1>2, <1>4, <2>1 DEF HoldsBootLock
<1>11. CASE RunDocker(Prewarm)
  <2>1. PICK p : SetJob(Prewarm, [job[Prewarm] EXCEPT !.port = p])
    BY <1>11 DEF RunDocker
  <2>2. job'[Prewarm].dep = job[Prewarm].dep
    BY <2>1, JobFields DEF SetJob
  <2>3. pc[Prewarm] = "docker" /\ deployment' = deployment /\ pc'[Prewarm] = "poll"
    BY <1>11 DEF RunDocker, registryVars
  <2> QED BY <1>2, <1>4, <2>2, <2>3 DEF HoldsModelLock, HoldsBootLock
<1> QED BY <1>5, <1>6, <1>7, <1>8, <1>9, <1>10, <1>11 DEF PrewarmStep, ColdStartStep, Recheck, Booted, ColdStartFails

(* The worker unloads READY rows only; without operators nobody else       *)
(* writes.                                                                 *)
LEMMA NextFirst ==
  ASSUME Operators = {}
  PROVE  IInv /\ TableInv /\ QueuesAreSane /\ Chosen /\ FirstInv /\ [Next]_vars => FirstInv'
<1> SUFFICES ASSUME IInv, TableInv, QueuesAreSane, Chosen, FirstInv, [Next]_vars PROVE FirstInv'
  OBVIOUS
<1>1. CASE Restart
  BY <1>1 DEF Restart, FirstInv, FailedIsNotBooted, RowIsPending, RowIsUnknown, PrewarmIsFirst, HoldsModelLock,
     HoldsBootLock, Coroutines
<1>2. CASE Tick
  <2>1. UNCHANGED <<pc, job, loop, modelLock>>
    BY <1>2 DEF Tick, coroutineVars
  <2>2. ASSUME NEW x \in Deps, ~Ready(x) PROVE deployment'[x] = deployment[x]
    <3>1. PICK stop : TickUpTo(stop)
      BY <1>2 DEF Tick
    <3> QED BY <2>2, <3>1 DEF TickUpTo, Expires, Due
  <2>3. ASSUME NEW x \in Deps, Ready(x) PROVE deployment'[x].status # "failed"
    <3>1. PICK stop : TickUpTo(stop)
      BY <1>2 DEF Tick
    <3>2. deployment'[x] = deployment[x] \/ deployment'[x] = [deployment[x] EXCEPT !.status = "unloaded"]
      BY <3>1 DEF TickUpTo
    <3>3. deployment[x] \in DeploymentRecord
      BY DEF IInv, TypeOK
    <3> QED BY <2>3, <3>2, <3>3, StatusField DEF Ready
  <2>4. FailedIsNotBooted'
    BY <2>1, <2>2, <2>3 DEF FirstInv, FailedIsNotBooted, Ready, IInv, TypeOK, Job
  <2>5. RowIsPending'
    <3> SUFFICES ASSUME pc[Prewarm] \in {"lock", "recheck"}
                 PROVE  deployment'[job[Prewarm].dep] = deployment[job[Prewarm].dep]
      BY <2>1 DEF FirstInv, RowIsPending, Permanent
    <3>1. job[Prewarm].dep \in Deps /\ ~Ready(job[Prewarm].dep)
      BY DEF FirstInv, RowIsPending, Ready, TableInv, JobsFit, ColdStarting, IInv, TypeOK, Job, Coroutines
    <3> QED BY <2>2, <3>1
  <2> QED BY <2>1, <2>4, <2>5 DEF FirstInv, RowIsUnknown, PrewarmIsFirst, AheadOfOthers
<1>3. CASE UNCHANGED <<deployment, pc, job, loop, modelLock>>
  BY <1>3 DEF FirstInv, FailedIsNotBooted, RowIsPending, RowIsUnknown, PrewarmIsFirst, AheadOfOthers, Permanent
<1>4. EnvironmentStep \/ UNCHANGED vars => Restart \/ UNCHANGED <<deployment, pc, job, loop, modelLock>>
  BY DEF EnvironmentStep, EngineStarts, EngineCrashes, registryVars, coroutineVars, vars
<1> QED BY <1>1, <1>2, <1>3, <1>4, ClientKeepsFirst, PrewarmKeepsFirst DEF Next, ServiceStep


(* Everything that holds as long as nobody deploys or unloads by hand.     *)
HandsOff == IInv /\ ActiveCounts /\ HotInv /\ LeaseInv /\ TableInv /\ QueuesAreSane /\ FirstInv

LEMMA HandsOffInductive ==
  ASSUME Operators = {}
  PROVE  Spec => []HandsOff
<1>1. Init => QueuesAreSane /\ FirstInv
  <2>1. Init => QueuesAreSane
    BY DEF Init, QueuesAreSane
  <2>2. Init => FirstInv
    BY CoroutinesAssumption
       DEF Init, FirstInv, FailedIsNotBooted, RowIsPending, RowIsUnknown, PrewarmIsFirst, HoldsModelLock,
           HoldsBootLock, Coroutines
  <2> QED BY <2>1, <2>2
<1>2. IInv /\ QueuesAreSane /\ [Next]_vars => QueuesAreSane'
  BY NextQueues
<1>3. IInv /\ TableInv /\ QueuesAreSane /\ LeaseInv /\ FirstInv /\ [Next]_vars => FirstInv'
  BY NextFirst DEF LeaseInv
<1> QED BY <1>1, <1>2, <1>3, LeaseInductive, CountsAreExact, TableInductive, PTL DEF Spec, HandsOff

(* What each step may do to the status of a row that exists.               *)
StatusMove(d) ==
  \/ deployment'[d] = deployment[d]
  \/ Ready(d) /\ ~Permanent(d) /\ active[d] = 0 /\ deployment'[d] = [deployment[d] EXCEPT !.status = "unloaded"]
  \/ deployment[d].status \in {"pending", "unloaded"} /\ deployment'[d].status \in {"ready", "failed"}
  \/ ~Exists(d) /\ deployment'[d].status \in {"pending", "ready"}
  \/ Forgotten(d)

(* A deployment chosen for eviction or due for the worker is not in use.   *)
LEMMA EvictedIsIdle ==
  ASSUME HandsOff, NEW d \in Deps, EvictionCandidate(d)
  PROVE  active[d] = 0
<1>1. lifecycle[d].state # "HOT"
  BY DEF EvictionCandidate
<1>2. active[d] \in Nat /\ ~(active[d] > 0)
  BY <1>1 DEF HandsOff, HotInv, BusyIsHot, IInv, TypeOK
<1> QED BY <1>2

LEMMA ExpiredIsIdle ==
  ASSUME HandsOff, NEW d \in Deps, Expires(d)
  PROVE  active[d] = 0
BY AdvanceKeepsBusyHot DEF HandsOff, Expires, Advanced, IInv, TypeOK

(* A row being booted is PENDING or UNLOADED.                              *)
LEMMA BootedRow ==
  ASSUME HandsOff, NEW c \in Coroutines, pc[c] \in HoldsBootLock, job[c].dep # NoDep
  PROVE  job[c].dep \in Deps /\ deployment[job[c].dep].status \in {"pending", "unloaded"}
<1>1. job[c].dep \in Deps
  BY DEF HandsOff, IInv, TypeOK, Job
<1>2. Exists(job[c].dep)
  BY DEF HandsOff, TableInv, JobsFit, JobFits
<1>3. ~Ready(job[c].dep)
  BY DEF HandsOff, LeaseInv, BootsAreNeeded
<1>4. deployment[job[c].dep].status # "failed"
  BY DEF HandsOff, FirstInv, FailedIsNotBooted, HoldsModelLock
<1>5. deployment[job[c].dep].status \in DeploymentStatus
  BY <1>1 DEF HandsOff, IInv, TypeOK, DeploymentRecord
<1> QED BY <1>1, <1>2, <1>3, <1>4, <1>5 DEF Exists, Ready, DeploymentStatus

LEMMA StatusMoves ==
  ASSUME Operators = {}, HandsOff, [Next]_vars, NEW d \in Deps
  PROVE  StatusMove(d)
<1> Prewarm \in Coroutines /\ (\A c \in Clients : c \in Coroutines /\ c # Prewarm)
    /\ deployment[d] \in DeploymentRecord
  BY CoroutinesAssumption DEF Coroutines, HandsOff, IInv, TypeOK
<1> USE DEF StatusMove
<1>0. CASE deployment'[d] = deployment[d]
  BY <1>0
<1>1. ASSUME NEW c \in Clients, ClientWrites(c, d) PROVE StatusMove(d)
  <2>1. CASE Evict(c) /\ d = job[c].victim /\ deployment'[d] = [deployment[d] EXCEPT !.status = "unloaded"]
    <3>1. EvictionCandidate(d)
      BY <2>1 DEF Evict, At, HandsOff, LeaseInv, Chosen
    <3> QED BY <2>1, <3>1, EvictedIsIdle DEF EvictionCandidate
  <2>2. CASE ColdStartFails(c) /\ d = job[c].dep /\ deployment'[d] = [deployment[d] EXCEPT !.status = "failed"]
    <3>1. pc[c] \in HoldsBootLock /\ d # NoDep
      BY <2>2 DEF ColdStartFails, At, HoldsBootLock, Deps, NoDep
    <3> QED BY <2>2, <3>1, BootedRow, StatusField
  <2>3. CASE /\ Booted(c)
             /\ IF job[c].dep = NoDep THEN IsNewDeployment(d) ELSE d = job[c].dep
             /\ deployment'[d] = ReadyRecord(job[c].model, job[c].port, Permanent(d))
    <3>1. pc[c] \in HoldsBootLock /\ deployment'[d].status = "ready"
      BY <2>3 DEF Booted, At, HoldsBootLock, ReadyRecord
    <3> QED BY <2>3, <3>1, BootedRow DEF IsNewDeployment
  <2>4. CASE Onboard(c) /\ IsNewDeployment(d) /\ deployment'[d] = PendingDeployment(job[c].model, FALSE)
    BY <2>4 DEF IsNewDeployment, PendingDeployment
  <2> QED BY <1>1, <2>1, <2>2, <2>3, <2>4 DEF ClientWrites
<1>2. CASE PrewarmWrites(d)
  <2>1. CASE PrewarmStart /\ deployment'[d] = AbsentDeployment
    BY <2>1 DEF PrewarmStart, At, Forgotten, Exists, AbsentDeployment
  <2>2. CASE IsNewDeployment(d) /\ \E b \in BOOLEAN : deployment'[d] = PendingDeployment(job[Prewarm].model, b)
    BY <2>2 DEF IsNewDeployment, PendingDeployment
  <2>3. CASE PrewarmBooted /\ d = job[Prewarm].dep
             /\ deployment'[d] = ReadyRecord(job[Prewarm].model, job[Prewarm].port, TRUE)
    <3>1. pc[Prewarm] \in HoldsBootLock /\ d # NoDep /\ deployment'[d].status = "ready"
      BY <2>3 DEF PrewarmBooted, At, HoldsBootLock, ReadyRecord, Deps, NoDep
    <3> QED BY <2>3, <3>1, BootedRow
  <2>4. CASE PrewarmFails /\ d = job[Prewarm].dep /\ deployment'[d] = [deployment[d] EXCEPT !.status = "failed"]
    <3>1. pc[Prewarm] \in HoldsBootLock /\ d # NoDep
      BY <2>4 DEF PrewarmFails, At, HoldsBootLock, Deps, NoDep
    <3> QED BY <2>4, <3>1, BootedRow, StatusField
  <2> QED BY <1>2, <2>1, <2>2, <2>3, <2>4 DEF PrewarmWrites
<1>3. ASSUME Tick, Expires(d), deployment'[d] = [deployment[d] EXCEPT !.status = "unloaded"]
      PROVE  StatusMove(d)
  BY <1>3, ExpiredIsIdle DEF Expires, Due
<1> QED BY <1>0, <1>1, <1>2, <1>3, ClientRow, PrewarmRow, OtherRow DEF Next, ServiceStep, OtherWrites, HandsOff


(* A FAILED deployment is never used or started again: who waited for its  *)
(* locks meanwhile falls back, the worker and evictions pass it by.        *)
THEOREM FailedStaysFailed ==
  ASSUME Operators = {}
  PROVE  Spec => FailedIsForever
<1>1. HandsOff /\ [Next]_vars =>
        [\A d \in Deps : deployment[d].status = "failed" =>
           deployment'[d].status = "failed" \/ Forgotten(d)]_vars
  BY StatusMoves DEF StatusMove, Ready, Exists
<1> QED BY <1>1, HandsOffInductive, PTL DEF Spec, FailedIsForever

(* A permanent deployment, once READY, stays READY.                        *)
THEOREM PermanentStays ==
  ASSUME Operators = {}
  PROVE  Spec => PermanentStaysReady
<1>1. HandsOff /\ [Next]_vars =>
        [\A d \in Deps : Ready(d) /\ Permanent(d) =>
           deployment'[d].status = "ready" \/ Forgotten(d)]_vars
  BY StatusMoves DEF StatusMove, Ready, Exists
<1> QED BY <1>1, HandsOffInductive, PTL DEF Spec, PermanentStaysReady

-----------------------------------------------------------------------------
(* The core implements DeploymentLease.                                    *)

Status == [d \in Deps |-> deployment[d].status]

(* Saving a record, or a status, sets one status of the lease.             *)
LEMMA RowIsSaved ==
  ASSUME TypeOK, NEW x \in Deps, NEW r, SaveDeployment(x, r)
  PROVE  Status' = [Status EXCEPT ![x] = r.status]
BY DEF SaveDeployment, Status, TypeOK

LEMMA StatusIsWritten ==
  ASSUME TypeOK, NEW x \in Deps, NEW s \in DeploymentStatus, SetStatus(x, s)
  PROVE  Status' = [Status EXCEPT ![x] = s]
<1>1. ASSUME NEW d \in Deps
      PROVE  deployment'[d].status = IF d = x THEN s ELSE deployment[d].status
  <2>1. deployment'[d] = IF d = x THEN [deployment[d] EXCEPT !.status = s] ELSE deployment[d]
    BY DEF SetStatus, TypeOK
  <2>2. deployment[d] \in DeploymentRecord
    BY DEF TypeOK
  <2> QED BY <2>1, <2>2, StatusField
<1> QED BY <1>1 DEF Status

(* The steps of the lease, in terms of the deployment table.               *)
LEMMA LeaseMoves ==
  ASSUME active' = active, NEW x \in Deps
  PROVE  /\ ~Exists(x) /\ (\E s \in {"pending", "ready"} : Status' = [Status EXCEPT ![x] = s]) => Lease!LeaseNext
         /\ deployment[x].status \in {"pending", "unloaded"}
            /\ (\E s \in {"ready", "failed"} : Status' = [Status EXCEPT ![x] = s]) => Lease!LeaseNext
         /\ Ready(x) /\ active[x] = 0 /\ Status' = [Status EXCEPT ![x] = "unloaded"] => Lease!LeaseNext
<1>1. Status[x] = deployment[x].status
  BY DEF Status
<1>2. ASSUME ~Exists(x), NEW s \in {"pending", "ready"}, Status' = [Status EXCEPT ![x] = s] PROVE Lease!LeaseNext
  <2>1. Lease!Publish(x)
    BY <1>1, <1>2 DEF Lease!Publish, Status, Exists
  <2> QED BY <2>1 DEF Lease!LeaseNext
<1>3. ASSUME deployment[x].status \in {"pending", "unloaded"}, Status' = [Status EXCEPT ![x] = "ready"]
      PROVE  Lease!LeaseNext
  <2>1. Lease!GoLive(x)
    BY <1>1, <1>3 DEF Lease!GoLive, Status
  <2> QED BY <2>1 DEF Lease!LeaseNext
<1>4. ASSUME deployment[x].status \in {"pending", "unloaded"}, Status' = [Status EXCEPT ![x] = "failed"]
      PROVE  Lease!LeaseNext
  <2>1. Lease!GiveUp(x)
    BY <1>1, <1>4 DEF Lease!GiveUp, Status
  <2> QED BY <2>1 DEF Lease!LeaseNext
<1>5. ASSUME Ready(x), active[x] = 0, Status' = [Status EXCEPT ![x] = "unloaded"]
      PROVE  Lease!LeaseNext
  <2>1. Lease!TakeDown({x})
    BY <1>1, <1>5 DEF Lease!TakeDown, Status, Ready
  <2> QED BY <2>1 DEF Lease!LeaseNext
<1> QED BY <1>2, <1>3, <1>4, <1>5

(* A request's step uses the lease as agreed, or does not touch it.        *)
LEMMA ClientRefines ==
  ASSUME HandsOff, NEW c \in Clients, Receive(c) \/ RequestStep(c)
  PROVE  Lease!LeaseNext \/ UNCHANGED <<deployment, active>>
<1> c \in Coroutines /\ c # Prewarm /\ TypeOK /\ IInv
  BY CoroutinesAssumption DEF Coroutines, HandsOff, IInv
<1>1. CASE \/ Receive(c) \/ OnboardFails(c) \/ Route(c) \/ RouteFails(c) \/ EvictFails(c)
           \/ LockModel(c) \/ Recheck(c) \/ PrewarmLocked(c) \/ Boot(c) \/ BootNoPort(c) \/ RunDocker(c)
           \/ RunDockerFails(c) \/ PollTimeout(c) \/ Cleanup(c)
  BY <1>1 DEF Receive, OnboardFails, Route, RouteFails, EvictFails, LockModel, Recheck, PrewarmLocked, Boot,
     BootNoPort, RunDocker, RunDockerFails, PollTimeout, Cleanup, registryVars
<1>2. CASE Onboard(c)
  <2>1. PICK n \in Deps : IsNewDeployment(n) /\ SaveDeployment(n, PendingDeployment(job[c].model, FALSE))
    BY <1>2 DEF Onboard
  <2>2. Status' = [Status EXCEPT ![n] = "pending"] /\ active' = active
    BY <1>2, <2>1, RowIsSaved DEF PendingDeployment, Onboard
  <2> QED BY <2>1, <2>2, LeaseMoves DEF IsNewDeployment
<1>3. CASE Evict(c)
  <2> DEFINE v == job[c].victim
  <2>1. SetStatus(v, "unloaded") /\ active' = active
    BY <1>3 DEF Evict
  <2>2. EvictionCandidate(v)
    BY <1>3 DEF Evict, At, HandsOff, LeaseInv, Chosen
  <2>3. CASE v \in Deps
    <3>1. Status' = [Status EXCEPT ![v] = "unloaded"]
      BY <2>1, <2>3, StatusIsWritten DEF DeploymentStatus
    <3>2. Ready(v) /\ active[v] = 0
      BY <2>2, <2>3, EvictedIsIdle DEF EvictionCandidate
    <3> QED BY <2>1, <2>3, <3>1, <3>2, LeaseMoves
  <2>4. CASE v \notin Deps
    <3>1. deployment' = deployment
      BY <2>1, <2>4 DEF SetStatus, TypeOK
    <3> QED BY <2>1, <3>1
  <2> QED BY <2>3, <2>4
<1>4. CASE Booted(c)
  <2>1. PICK n \in Deps :
          /\ IF job[c].dep = NoDep THEN IsNewDeployment(n) ELSE n = job[c].dep
          /\ SaveDeployment(n, ReadyRecord(job[c].model, job[c].port, Permanent(n)))
    BY <1>4 DEF Booted
  <2>2. Status' = [Status EXCEPT ![n] = "ready"] /\ active' = active /\ pc[c] \in HoldsBootLock
    BY <1>4, <2>1, RowIsSaved DEF ReadyRecord, Booted, At, HoldsBootLock
  <2>3. ~Exists(n) \/ deployment[n].status \in {"pending", "unloaded"}
    BY <2>1, <2>2, BootedRow DEF IsNewDeployment
  <2> QED BY <2>1, <2>2, <2>3, LeaseMoves
<1>5. CASE ColdStartFails(c)
  <2>1. active' = active /\ pc[c] \in HoldsBootLock
    BY <1>5 DEF ColdStartFails, At, HoldsBootLock
  <2>2. CASE job[c].dep = NoDep
    BY <1>5, <2>1, <2>2 DEF ColdStartFails
  <2>3. CASE job[c].dep # NoDep
    <3>1. SetStatus(job[c].dep, "failed")
      BY <1>5, <2>3 DEF ColdStartFails
    <3>2. Status' = [Status EXCEPT ![job[c].dep] = "failed"]
      BY <2>1, <2>3, <3>1, BootedRow, StatusIsWritten DEF DeploymentStatus
    <3> QED BY <2>1, <2>3, <3>2, BootedRow, LeaseMoves
  <2> QED BY <2>2, <2>3
<1>6. CASE Begin(c)
  <2> DEFINE d == job[c].dep
  <2>1. deployment' = deployment /\ active' = [active EXCEPT ![d] = @ + 1] /\ pc[c] = "touch"
    BY <1>6 DEF Begin, Increment, At
  <2>2. d \in Deps /\ Ready(d)
    BY <2>1 DEF HandsOff, TableInv, JobsFit, RequestFits, LeaseInv, Chosen, TypeOK, Job
  <2>3. Lease!BeginUse(d)
    BY <2>1, <2>2 DEF Lease!BeginUse, Ready
  <2> QED BY <2>2, <2>3 DEF Lease!LeaseNext
<1>7. CASE Finish(c)
  <2> DEFINE d == job[c].dep
  <2>1. deployment' = deployment /\ pc[c] = "generate"
        /\ active' = [active EXCEPT ![d] = IF @ > 0 THEN @ - 1 ELSE 0]
    BY <1>7 DEF Finish, Decrement, At, registryVars
  <2>2. d \in Deps
    BY <2>1 DEF HandsOff, TableInv, JobsFit, RequestFits, TypeOK, Job
  <2>3. active[d] \in Nat /\ active[d] # 0
    BY <2>1, <2>2, IdleHasNoUsers DEF Serving, HandsOff, TypeOK
  <2>4. active[d] > 0 /\ active' = [active EXCEPT ![d] = @ - 1]
    <3>1. active[d] > 0
      BY <2>3
    <3>2. (IF active[d] > 0 THEN active[d] - 1 ELSE 0) = active[d] - 1
      BY <3>1
    <3> QED BY <2>1, <3>1, <3>2
  <2>5. Lease!EndUse(d)
    BY <2>1, <2>4 DEF Lease!EndUse
  <2> QED BY <2>2, <2>5 DEF Lease!LeaseNext
<1> QED BY <1>1, <1>2, <1>3, <1>4, <1>5, <1>6, <1>7 DEF RequestStep, ColdStartStep

(* So does a step of the pre-warm task.                                    *)
LEMMA PrewarmRefines ==
  ASSUME HandsOff, PrewarmStep
  PROVE  Lease!LeaseNext \/ UNCHANGED <<deployment, active>>
<1> Prewarm \in Coroutines /\ TypeOK /\ IInv /\ active' = active
  BY PrewarmMoves DEF Coroutines, HandsOff, IInv
<1>1. CASE PrewarmStart
  <2>1. CASE deployment' = [d \in Deps |-> AbsentDeployment]
    <3>1. \A d \in Deps : active[d] = 0
      BY <1>1 DEF PrewarmStart, At, HandsOff, HotInv, QuietAtStart
    <3>2. [d \in Deps |-> deployment'[d].status] = [d \in Deps |-> "absent"]
      BY <2>1 DEF AbsentDeployment
    <3>3. Lease!Forget
      BY <3>1, <3>2 DEF Lease!Forget
    <3> QED BY <3>3 DEF Lease!LeaseNext
  <2> QED BY <1>1, <2>1 DEF PrewarmStart
<1>2. CASE Onboard(Prewarm) \/ PrewarmCreate
  <2>1. PICK n \in Deps, b \in BOOLEAN : IsNewDeployment(n) /\ SaveDeployment(n, PendingDeployment(job[Prewarm].model, b))
    BY <1>2 DEF Onboard, PrewarmCreate
  <2>2. Status' = [Status EXCEPT ![n] = "pending"]
    BY <2>1, RowIsSaved DEF PendingDeployment
  <2> QED BY <2>1, <2>2, LeaseMoves DEF IsNewDeployment
<1>3. CASE PrewarmBooted \/ PrewarmFails
  <2> DEFINE d == job[Prewarm].dep
  <2>1. pc[Prewarm] \in HoldsBootLock /\ d # NoDep
    BY <1>3 DEF PrewarmBooted, PrewarmFails, At, HoldsBootLock, HandsOff, TableInv, JobsFit, ColdStarting
  <2>2. d \in Deps /\ deployment[d].status \in {"pending", "unloaded"}
    BY <2>1, BootedRow
  <2>3. \/ SaveDeployment(d, ReadyRecord(job[Prewarm].model, job[Prewarm].port, TRUE))
        \/ SetStatus(d, "failed")
    BY <1>3 DEF PrewarmBooted, PrewarmFails
  <2>4. Status' = [Status EXCEPT ![d] = "ready"] \/ Status' = [Status EXCEPT ![d] = "failed"]
    BY <2>2, <2>3, RowIsSaved, StatusIsWritten DEF ReadyRecord, DeploymentStatus
  <2> QED BY <2>2, <2>4, LeaseMoves
<1>4. CASE PrewarmPick \/ PrewarmEnd \/ OnboardFails(Prewarm) \/ ColdStartStep(Prewarm)
  BY <1>4, CoroutinesAssumption DEF PrewarmPick, PrewarmEnd, OnboardFails, ColdStartStep, LockModel, Recheck,
     PrewarmLocked, Boot, BootNoPort, RunDocker, RunDockerFails, Booted, PollTimeout, Cleanup, ColdStartFails, registryVars
<1> QED BY <1>1, <1>2, <1>3, <1>4 DEF PrewarmStep

(* The worker takes down what nobody uses; a restart ends all use.         *)
LEMMA OthersRefine ==
  ASSUME Operators = {}, HandsOff, Tick \/ EnvironmentStep \/ UNCHANGED vars
  PROVE  Lease!LeaseNext \/ UNCHANGED <<deployment, active>>
<1> TypeOK
  BY DEF HandsOff, IInv
<1>1. CASE Tick
  <2>1. PICK stop : TickUpTo(stop)
    BY <1>1 DEF Tick
  <2>2. PICK S \in SUBSET Deps : S = {d \in Deps : Expires(d) /\ d < stop}
    OBVIOUS
  <2>3. \A d \in S : Ready(d) /\ active[d] = 0
    BY <2>2, ExpiredIsIdle DEF Expires, Due
  <2>4. ASSUME NEW d \in Deps
        PROVE  deployment'[d].status = IF d \in S THEN "unloaded" ELSE deployment[d].status
    <3>1. deployment'[d] = IF d \in S THEN [deployment[d] EXCEPT !.status = "unloaded"] ELSE deployment[d]
      BY <2>1, <2>2 DEF TickUpTo
    <3> QED BY <3>1, StatusField DEF TypeOK
  <2>5. active' = active
    BY <1>1 DEF Tick
  <2>6. Lease!TakeDown(S)
    BY <2>3, <2>4, <2>5 DEF Lease!TakeDown, Ready
  <2> QED BY <2>6 DEF Lease!LeaseNext
<1>2. CASE Restart
  <2>1. Lease!Stop
    BY <1>2 DEF Restart, Lease!Stop, registryVars
  <2> QED BY <2>1 DEF Lease!LeaseNext
<1>3. EnvironmentStep \/ UNCHANGED vars => Restart \/ UNCHANGED <<deployment, active>>
  BY DEF EnvironmentStep, EngineStarts, EngineCrashes, registryVars, vars
<1> QED BY <1>1, <1>2, <1>3

(* The deployment table and the active counters are leases: whatever       *)
(* requests, pre-warm task, worker, failures and restarts do to them is a  *)
(* step of DeploymentLease, or none.                                       *)
THEOREM CoreImplementsLease ==
  ASSUME Operators = {}
  PROVE  Spec => LeaseRefinement
<1>1. Init => Lease!LeaseInit
  <2> SUFFICES ASSUME Init PROVE Lease!LeaseInit
    OBVIOUS
  <2>1. \A d \in Deps : deployment[d].status \in {"absent", "pending"}
    BY DEF Init, PendingDeployment, AbsentDeployment
  <2> QED BY <2>1 DEF Init, Lease!LeaseInit
<1>2. HandsOff /\ [Next]_vars => [Lease!LeaseNext]_(Lease!leaseVars)
  <2>1. UNCHANGED <<deployment, active>> => UNCHANGED Lease!leaseVars
    BY DEF Lease!leaseVars
  <2> QED BY <2>1, ClientRefines, PrewarmRefines, OthersRefine DEF Next, ServiceStep
<1> QED BY <1>1, <1>2, HandsOffInductive, PTL DEF Spec, LeaseRefinement, Lease!LeaseSpec
=============================================================================
