------------------------- MODULE ServingCoreProofs -------------------------
(***************************************************************************)
(* What holds of the serving core for every catalogue, any number of       *)
(* clients and operators, any set of faults and any bounds: its types, the *)
(* exclusion of container starts, the exactness of the active counters and *)
(* that a deployment in use is HOT; and, as long as no operator deploys or *)
(* unloads by hand, that a deployment in use is READY.                     *)
(***************************************************************************)
EXTENDS ServingProperties, SequenceTheorems, FiniteSetTheorems, TLAPS

(* The type invariant is not inductive: releasing a lock keeps its type    *)
(* only when somebody holds it, and a reserved port is one only when the   *)
(* engine or the coroutine it comes from has one.                          *)

(* The labels at which a coroutine's job names a model, and a port.        *)
HasModel == {"download", "evict", "lock", "recheck", "boot", "docker", "poll", "cleanup",
             "failed", "touch", "generate", "create"}

HasPort == {"docker", "poll", "cleanup"}

JobsAreTyped ==
  \A c \in Coroutines : /\ pc[c] \in HasModel => job[c].model \in Models
                        /\ pc[c] \in HasPort => job[c].port \in Ports

EnginesHavePorts == \A n \in Names : Running(n) => container[n].port \in Ports

(* The labels at which a coroutine holds the boot lock, and its model lock *)
(* as well.                                                                *)
HoldsBootLock == {"docker", "poll", "cleanup", "failed"}
HoldsModelLock == HoldsBootLock \cup {"boot"}

LocksAreHeld ==
  \A c \in Coroutines : /\ pc[c] \in HoldsBootLock => Holds(c, bootLock)
                        /\ pc[c] \in HoldsModelLock => Holds(c, modelLock[job[c].model])

IInv == TypeOK /\ JobsAreTyped /\ EnginesHavePorts /\ LocksAreHeld

(* What route() returns names a model and existing deployments.            *)
LEMMA RouteTypes ==
  ASSUME TypeOK, NEW cap, NEW preferred, NEW r \in Routes(cap, preferred)
  PROVE  r.model \in Models /\ r.dep \in Deps \cup {NoDep} /\ r.victim \in Deps \cup {NoDep}
<1>1. \A d \in CapableDeployments(cap) : d \in Deps /\ deployment[d].model \in Models
  BY DEF CapableDeployments, Capable
<1>2. CASE r \in ServePreferred(cap, preferred)
  BY <1>1, <1>2 DEF ServePreferred, PreferredReady, Decision
<1>3. CASE r \in ServeIdle(cap)
  BY <1>1, <1>3 DEF ServeIdle, ReadyIdle, Decision
<1>4. CASE r \in ScaleOut(cap, preferred)
  <2>1. \A x \in OnDisk(cap) : x.model \in Models /\ x.dep \in Deps \cup {NoDep}
    BY <1>1 DEF OnDisk, Capable
  <2>2. \A v \in LongestIdle : v \in Deps
    BY DEF LongestIdle
  <2>3. PICK x \in OnDisk(cap), v \in LongestIdle \cup {NoDep} :
             r.model = x.model /\ r.dep = x.dep /\ r.victim \in {v, NoDep}
    BY <1>4 DEF ScaleOut, Decision
  <2> QED BY <2>1, <2>2, <2>3
<1>5. CASE r \in QueueOnActive(cap)
  <2>1. PICK d \in ReadyBusy(cap) \cup Booting(cap) : r = Decision(deployment[d].model, d, NoDep, Startable(d))
    BY <1>5, Zenon DEF QueueOnActive
  <2>2. d \in CapableDeployments(cap)
    BY <2>1 DEF ReadyBusy, Booting
  <2> QED BY <1>1, <2>1, <2>2 DEF Decision
<1> QED BY <1>2, <1>3, <1>4, <1>5 DEF Routes

(* The first state is typed and nobody holds a lock.                       *)
LEMMA InitIInv == Init => IInv
BY CoroutinesAssumption, ModelsAssumption, BoundsAssumption, ThresholdsAssumption
   DEF Init, IInv, TypeOK, JobsAreTyped, EnginesHavePorts, LocksAreHeld, HasModel, HasPort,
       HoldsBootLock, HoldsModelLock, Running, NoContainer, NoJob, Job, NoSnapshot, Snapshot,
       Container, DeploymentRecord, AbsentDeployment, PendingDeployment, DeploymentStatus,
       NoLifecycle, LifecycleRecord, Coroutines, Labels, NoPort, NoDep

(* The jobs that coroutines start with.                                    *)
LEMMA NewJobs ==
  ASSUME NEW x \in Capabilities \cup {NoName}, NEW m \in Models \cup {NoModel}
  PROVE  /\ NoJob \in Job
         /\ [NoJob EXCEPT !.cap = x] \in Job
         /\ [NoJob EXCEPT !.cap = x, !.model = m] \in Job
         /\ [NoJob EXCEPT !.cap = x, !.model = m].model = m
BY DEF NoJob, Job

(* Receive keeps the invariant.                                            *)
LEMMA ReceiveStep ==
  ASSUME IInv, NEW c \in Clients, Receive(c)
  PROVE  IInv'
<1> USE DEF IInv
<1> c \in Coroutines BY DEF Coroutines
<1>1. /\ job' \in [Coroutines -> Job]
      /\ pc' \in [Coroutines -> Labels]
      /\ loop' \in Coroutines \cup {Nobody}
      /\ \A e \in Coroutines : e # c => pc'[e] = pc[e] /\ job'[e] = job[e]
      /\ pc'[c] = "download" => job'[c].model \in Models
      /\ pc'[c] \in {"route", "download"}
  <2>1. PICK q \in Queries :
       \/ /\ q.name = NoName
          /\ Go(c, "route") /\ Keeps(c)
          /\ SetJob(c, [NoJob EXCEPT !.cap = q.cap])
       \/ /\ q.name # NoName
          /\ \E m \in Named(q.name) :
               /\ Go(c, "route") /\ Keeps(c)
               /\ SetJob(c, [NoJob EXCEPT !.cap = q.cap, !.model = m])
       \/ /\ \E m \in Unused(q.name) :
               /\ Go(c, "download") /\ Yields
               /\ SetJob(c, [NoJob EXCEPT !.cap = q.cap, !.model = m])
    BY DEF Receive
  <2>2. q.cap \in Capabilities BY CoroutinesAssumption
  <2>3. \A m \in Named(q.name) \cup Unused(q.name) : m \in Models BY DEF Named, Unused
  <2>4. PICK l \in {"route", "download"}, j \in Job :
             /\ Go(c, l) /\ SetJob(c, j)
             /\ l = "download" => j.model \in Models
             /\ Keeps(c) \/ Yields
    <3>1. /\ [NoJob EXCEPT !.cap = q.cap] \in Job
          /\ \A m \in Models : /\ [NoJob EXCEPT !.cap = q.cap, !.model = m] \in Job
                              /\ [NoJob EXCEPT !.cap = q.cap, !.model = m].model = m
      BY <2>2, NewJobs
    <3> QED BY <2>1, <2>3, <3>1
  <2> QED BY <2>4 DEF TypeOK, Go, SetJob, Keeps, Yields, Labels
<1>2. TypeOK'
  BY <1>1 DEF Receive, TypeOK, registryVars, taskVars
<1>3. JobsAreTyped' /\ LocksAreHeld'
  BY <1>1 DEF Receive, JobsAreTyped, HasModel, HasPort, LocksAreHeld, HoldsBootLock, HoldsModelLock, Holds
<1>4. EnginesHavePorts'
  BY DEF Receive, EnginesHavePorts, Running
<1> QED BY <1>2, <1>3, <1>4

(* A move of one coroutine's program counter.                              *)
LEMMA Moved ==
  ASSUME TypeOK, NEW c \in Coroutines, NEW l \in Labels, Go(c, l)
  PROVE  /\ pc' \in [Coroutines -> Labels]
         /\ pc'[c] = l
         /\ \A e \in Coroutines : e # c => pc'[e] = pc[e]
BY DEF TypeOK, Go

(* Joining the queue of an asyncio.Lock takes the lock from nobody.        *)
LEMMA Queued ==
  ASSUME NEW q \in Seq(Coroutines), NEW c \in Coroutines
  PROVE  /\ Append(q, c) \in Seq(Coroutines)
         /\ q = <<>> => Holds(c, Append(q, c))
         /\ \A e \in Coroutines : Holds(e, q) => Holds(e, Append(q, c))
         /\ Holds(c, q) => Tail(q) \in Seq(Coroutines)
<1>1. /\ Append(q, c) \in Seq(Coroutines)
      /\ Append(q, c) # <<>>
      /\ q # <<>> => Append(q, c)[1] = q[1]
      /\ q = <<>> => Append(q, c)[1] = c
  BY AppendProperties, EmptySeq
<1>2. Head(Append(q, c)) = Append(q, c)[1] /\ (q # <<>> => Head(q) = q[1])
  BY <1>1
<1>3. q # <<>> => Tail(q) \in Seq(Coroutines)
  BY HeadTailProperties
<1> QED BY <1>1, <1>2, <1>3 DEF Holds

(* Two updates that several actions share.                                 *)
LEMMA StatusIsSet ==
  ASSUME TypeOK, NEW d, NEW s \in DeploymentStatus, SetStatus(d, s)
  PROVE  deployment' \in [Deps -> DeploymentRecord]
<1>1. \A r \in DeploymentRecord : [r EXCEPT !.status = s] \in DeploymentRecord
  BY DEF DeploymentRecord
<1>2. deployment' = [e \in Deps |-> IF e = d THEN [deployment[e] EXCEPT !.status = s] ELSE deployment[e]]
  BY DEF SetStatus, TypeOK
<1> QED BY <1>1, <1>2 DEF TypeOK

(* Removing a container leaves the ports of the others alone.              *)
LEMMA EngineIsRemoved ==
  ASSUME IInv, NEW n, container' = [container EXCEPT ![n] = NoContainer]
  PROVE  container' \in [Names -> Container] /\ EnginesHavePorts'
<1>1. NoContainer \in Container
  BY DEF NoContainer, Container, NoPort
<1>2. container' = [k \in Names |-> IF k = n THEN NoContainer ELSE container[k]]
  BY DEF IInv, TypeOK
<1>3. container' \in [Names -> Container]
  BY <1>1, <1>2 DEF IInv, TypeOK
<1>4. ASSUME NEW k \in Names, Running(k)'
      PROVE  container'[k].port \in Ports
  <2>1. k # n
    BY <1>2, <1>4 DEF Running, NoContainer
  <2>2. container'[k] = container[k]
    BY <1>2, <2>1
  <2> QED BY <1>4, <2>2 DEF IInv, EnginesHavePorts, Running
<1> QED BY <1>3, <1>4 DEF EnginesHavePorts

(* Onboarding registers a model and a row of the right type.               *)
LEMMA OnboardStep ==
  ASSUME IInv, NEW c \in Coroutines, Onboard(c)
  PROVE  IInv'
<1> USE DEF IInv
<1>1. /\ pc' \in [Coroutines -> Labels]
      /\ pc'[c] \in {"create", "route"}
      /\ \A e \in Coroutines : e # c => pc'[e] = pc[e]
  BY Moved DEF Onboard, Labels
<1>2. job[c].model \in Models
  BY DEF Onboard, At, JobsAreTyped, HasModel
<1>3. registered' \in Seq(Models) /\ known' \in Seq(Models)
  BY <1>2 DEF Onboard, TypeOK
<1>4. deployment' \in [Deps -> DeploymentRecord]
  BY <1>2 DEF Onboard, TypeOK, SaveDeployment, PendingDeployment, DeploymentRecord, DeploymentStatus, NoPort
<1>5. TypeOK'
  BY <1>1, <1>3, <1>4 DEF Onboard, TypeOK, Keeps
<1>6. JobsAreTyped' /\ LocksAreHeld'
  BY <1>1, <1>2 DEF Onboard, JobsAreTyped, HasPort, LocksAreHeld, HoldsBootLock, HoldsModelLock, Holds
<1>7. EnginesHavePorts'
  BY DEF Onboard, EnginesHavePorts, Running
<1> QED BY <1>5, <1>6, <1>7

(* OnboardFails, RouteFails and EvictFails only end the request.           *)
LEMMA GivingUpStep ==
  ASSUME IInv, NEW c \in Coroutines, OnboardFails(c) \/ RouteFails(c) \/ EvictFails(c)
  PROVE  IInv'
<1> USE DEF IInv
<1>1. /\ Go(c, "next") \/ Go(c, "idle")
      /\ Yields
      /\ SetJob(c, NoJob)
      /\ UNCHANGED <<registryVars, allocated, active, container, reserved, modelLock, bootLock, taskVars>>
  BY DEF OnboardFails, RouteFails, EvictFails
<1>2. /\ pc' \in [Coroutines -> Labels]
      /\ pc'[c] \in {"next", "idle"}
      /\ \A e \in Coroutines : e # c => pc'[e] = pc[e]
  BY <1>1, Moved DEF Labels
<1>3. TypeOK'
  BY <1>1, <1>2, NewJobs DEF TypeOK, registryVars, taskVars, Yields, SetJob
<1>4. JobsAreTyped' /\ LocksAreHeld'
  BY <1>1, <1>2 DEF TypeOK, SetJob, JobsAreTyped, HasModel, HasPort, LocksAreHeld, HoldsBootLock, HoldsModelLock, Holds
<1>5. EnginesHavePorts'
  BY <1>1 DEF EnginesHavePorts, Running
<1> QED BY <1>3, <1>4, <1>5

(* Routing keeps the invariant.                                            *)
LEMMA RouteStep ==
  ASSUME IInv, NEW c \in Coroutines, Route(c)
  PROVE  IInv'
<1> USE DEF IInv
<1>1. PICK r \in Routes(job[c].cap, job[c].model) :
       /\ SetJob(c, [job[c] EXCEPT !.model = r.model, !.dep = r.dep, !.victim = r.victim])
       /\ IF r.cold /\ r.dep # NoDep THEN Allocate(r.dep, MemOf[r.model]) ELSE UNCHANGED allocated
       /\ Go(c, IF r.victim # NoDep THEN "evict" ELSE IF r.cold THEN "lock" ELSE "touch")
  BY DEF Route
<1>2. r.model \in Models /\ r.dep \in Deps \cup {NoDep} /\ r.victim \in Deps \cup {NoDep}
  BY RouteTypes
<1>3. /\ pc' \in [Coroutines -> Labels]
      /\ pc'[c] \in {"evict", "lock", "touch"}
      /\ \A e \in Coroutines : e # c => pc'[e] = pc[e]
  BY <1>1, Moved DEF Labels
<1>4. job' \in [Coroutines -> Job] /\ job'[c].model \in Models
  BY <1>1, <1>2 DEF SetJob, TypeOK, Job
<1>5. allocated' \in [Deps -> Nat]
  BY <1>1, <1>2, ModelsAssumption DEF Allocate, TypeOK
<1>6. TypeOK'
  BY <1>3, <1>4, <1>5 DEF Route, TypeOK, Keeps, registryVars, taskVars
<1>7. JobsAreTyped' /\ LocksAreHeld'
  BY <1>1, <1>3, <1>4 DEF Route, SetJob, TypeOK, JobsAreTyped, HasPort, LocksAreHeld, HoldsBootLock, HoldsModelLock, Holds
<1>8. EnginesHavePorts'
  BY DEF Route, EnginesHavePorts, Running
<1> QED BY <1>6, <1>7, <1>8

(* Eviction keeps the invariant.                                           *)
LEMMA EvictStep ==
  ASSUME IInv, NEW c \in Coroutines, Evict(c)
  PROVE  IInv'
<1> USE DEF IInv
<1>1. /\ pc' \in [Coroutines -> Labels]
      /\ pc'[c] = "lock"
      /\ \A e \in Coroutines : e # c => pc'[e] = pc[e]
  BY Moved DEF Evict, Labels
<1>2. deployment' \in [Deps -> DeploymentRecord]
  BY StatusIsSet DEF Evict, DeploymentStatus
<1>3. container' \in [Names -> Container] /\ EnginesHavePorts'
  BY EngineIsRemoved DEF Evict, TypeOK, EnginesHavePorts, Running
<1>4. allocated' \in [Deps -> Nat]
  BY DEF Evict, Release, TypeOK
<1>5. TypeOK'
  BY <1>1, <1>2, <1>3, <1>4 DEF Evict, TypeOK, Keeps, taskVars
<1>6. JobsAreTyped' /\ LocksAreHeld'
  BY <1>1 DEF Evict, At, JobsAreTyped, HasModel, HasPort, LocksAreHeld, HoldsBootLock, HoldsModelLock, Holds
<1> QED BY <1>3, <1>5, <1>6

(* Releasing a lock takes it from nobody else.                             *)
LEMMA ModelUnlocked ==
  ASSUME IInv, NEW c \in Coroutines, job[c].model \in Models,
         Holds(c, modelLock[job[c].model]), UnlockModel(c)
  PROVE  /\ modelLock' \in [Models -> Seq(Coroutines)]
         /\ \A e \in Coroutines \ {c} :
              Holds(e, modelLock[job[e].model]) => Holds(e, modelLock'[job[e].model])
<1>1. modelLock[job[c].model] \in Seq(Coroutines)
  BY DEF IInv, TypeOK
<1>2. Tail(modelLock[job[c].model]) \in Seq(Coroutines)
  BY <1>1, Queued
<1>3. modelLock' \in [Models -> Seq(Coroutines)]
  BY <1>2 DEF UnlockModel, IInv, TypeOK
<1>4. ASSUME NEW e \in Coroutines \ {c}, Holds(e, modelLock[job[e].model])
      PROVE  Holds(e, modelLock'[job[e].model])
  <2>1. job[e].model # job[c].model
    BY <1>4 DEF Holds
  <2> QED BY <1>4, <2>1 DEF UnlockModel, IInv, TypeOK
<1> QED BY <1>3, <1>4

(* Nobody else is in a boot whose lock is released.                        *)
LEMMA BootUnlocked ==
  ASSUME IInv, NEW c \in Coroutines, Holds(c, bootLock)
  PROVE  /\ Tail(bootLock) \in Seq(Coroutines)
         /\ \A e \in Coroutines \ {c} : pc[e] \notin HoldsBootLock
BY Queued DEF IInv, TypeOK, LocksAreHeld, Holds

(* Asking for the model lock keeps the invariant.                          *)
LEMMA LockModelStep ==
  ASSUME IInv, NEW c \in Coroutines, LockModel(c)
  PROVE  IInv'
<1> USE DEF IInv
<1>1. /\ pc' \in [Coroutines -> Labels]
      /\ pc'[c] = "recheck"
      /\ \A e \in Coroutines : e # c => pc'[e] = pc[e]
  BY Moved DEF LockModel, Labels
<1>2. job[c].model \in Models
  BY DEF LockModel, At, JobsAreTyped, HasModel
<1>3. /\ modelLock' \in [Models -> Seq(Coroutines)]
      /\ \A e \in Coroutines, m \in Models : Holds(e, modelLock[m]) => Holds(e, modelLock'[m])
  BY <1>2, Queued DEF LockModel, TypeOK
<1>4. TypeOK'
  BY <1>1, <1>3 DEF LockModel, TypeOK, Keeps, Yields, registryVars, taskVars
<1>5. JobsAreTyped'
  BY <1>1, <1>2 DEF LockModel, JobsAreTyped, HasPort
<1>6. LocksAreHeld'
  BY <1>1, <1>3 DEF LockModel, JobsAreTyped, LocksAreHeld, HasModel, HoldsBootLock, HoldsModelLock, Holds
<1>7. EnginesHavePorts'
  BY DEF LockModel, EnginesHavePorts, Running
<1> QED BY <1>4, <1>5, <1>6, <1>7

(* A fallback moves one coroutine, to serve or to give up.                 *)
LEMMA FallBackMoves ==
  ASSUME IInv, NEW c \in Coroutines, job[c].model \in Models, NEW table, FallBack(c, table)
  PROVE  /\ pc' \in [Coroutines -> Labels]
         /\ job' \in [Coroutines -> Job]
         /\ loop' \in Coroutines \cup {Nobody}
         /\ pc'[c] \in {"touch", "idle"}
         /\ pc'[c] = "touch" => job'[c].model \in Models
         /\ \A e \in Coroutines : e # c => pc'[e] = pc[e] /\ job'[e] = job[e]
<1> USE DEF IInv, TypeOK
<1>1. CASE \E f \in Fallback(table, job[c].cap) :
              /\ SetJob(c, [job[c] EXCEPT !.dep = f])
              /\ Go(c, "touch") /\ Keeps(c)
  <2>1. PICK f \in Deps : SetJob(c, [job[c] EXCEPT !.dep = f]) /\ Go(c, "touch") /\ Keeps(c)
    BY <1>1 DEF Fallback
  <2>2. [job[c] EXCEPT !.dep = f] \in Job /\ [job[c] EXCEPT !.dep = f].model = job[c].model
    BY DEF Job
  <2> QED BY <2>1, <2>2, Moved DEF SetJob, Keeps, Labels
<1>2. CASE SetJob(c, NoJob) /\ Go(c, "idle") /\ Yields
  BY <1>2, Moved, NewJobs DEF SetJob, Yields, Labels
<1> QED BY <1>1, <1>2 DEF FallBack

(* Asking for the boot lock moves one coroutine.                           *)
LEMMA WaitForBootMoves ==
  ASSUME IInv, NEW c \in Coroutines, WaitForBoot(c)
  PROVE  /\ pc' \in [Coroutines -> Labels]
         /\ pc'[c] = "boot"
         /\ \A e \in Coroutines : e # c => pc'[e] = pc[e]
         /\ loop' \in Coroutines \cup {Nobody}
         /\ bootLock' \in Seq(Coroutines)
         /\ \A e \in Coroutines : Holds(e, bootLock) => Holds(e, bootLock')
BY Moved, Queued DEF WaitForBoot, IInv, TypeOK, Keeps, Yields, Labels

(* The check under the model lock keeps the invariant.                     *)
LEMMA RecheckStep ==
  ASSUME IInv, NEW c \in Coroutines, Recheck(c) \/ PrewarmLocked(c)
  PROVE  IInv'
<1> USE DEF IInv
<1>1. /\ At(c, "recheck") /\ Holds(c, modelLock[job[c].model])
      /\ UNCHANGED <<registryVars, allocated, active, container, reserved, taskVars>>
  BY DEF Recheck, PrewarmLocked
<1>2. job[c].model \in Models
  BY <1>1 DEF At, JobsAreTyped, HasModel
<1>3. EnginesHavePorts'
  BY <1>1 DEF EnginesHavePorts, Running
<1>4. CASE Go(c, "touch") /\ Keeps(c) /\ UnlockModel(c) /\ UNCHANGED <<bootLock, job>>
  <2>1. /\ pc' \in [Coroutines -> Labels]
        /\ pc'[c] = "touch"
        /\ \A e \in Coroutines : e # c => pc'[e] = pc[e]
    BY <1>4, Moved DEF Labels
  <2>2. TypeOK'
    BY <1>1, <1>2, <1>4, <2>1, ModelUnlocked DEF TypeOK, registryVars, taskVars, Keeps
  <2>3. JobsAreTyped' /\ LocksAreHeld'
    BY <1>1, <1>2, <1>4, <2>1, ModelUnlocked DEF JobsAreTyped, HasModel, HasPort, LocksAreHeld, HoldsBootLock, HoldsModelLock, Holds
  <2> QED BY <1>3, <2>2, <2>3
<1>5. CASE FallBack(c, deployment) /\ UnlockModel(c) /\ UNCHANGED bootLock
  <2>1. TypeOK'
    BY <1>1, <1>2, <1>5, FallBackMoves, ModelUnlocked DEF TypeOK, registryVars, taskVars
  <2>2. JobsAreTyped' /\ LocksAreHeld'
    BY <1>1, <1>2, <1>5, FallBackMoves, ModelUnlocked DEF JobsAreTyped, HasModel, HasPort, LocksAreHeld, HoldsBootLock, HoldsModelLock, Holds
  <2> QED BY <1>3, <2>1, <2>2
<1>6. CASE WaitForBoot(c) /\ UNCHANGED <<modelLock, job>>
  <2>1. TypeOK'
    BY <1>1, <1>6, WaitForBootMoves DEF TypeOK, registryVars, taskVars
  <2>2. JobsAreTyped' /\ LocksAreHeld'
    BY <1>1, <1>2, <1>6, WaitForBootMoves DEF JobsAreTyped, HasModel, HasPort, LocksAreHeld, HoldsBootLock, HoldsModelLock, Holds
  <2> QED BY <1>3, <2>1, <2>2
<1> QED BY <1>4, <1>5, <1>6 DEF Recheck, PrewarmLocked

(* The check under the boot lock keeps the invariant.                      *)
LEMMA BootStep ==
  ASSUME IInv, NEW c \in Coroutines, Boot(c)
  PROVE  IInv'
<1> USE DEF IInv
<1>1. /\ Holds(c, bootLock)
      /\ pc[c] = "boot"
      /\ job[c].model \in Models
      /\ Holds(c, modelLock[job[c].model])
      /\ UNCHANGED <<registryVars, allocated, active, container, taskVars>>
  BY DEF Boot, At, JobsAreTyped, HasModel, LocksAreHeld, HoldsModelLock
<1>2. EnginesHavePorts'
  BY <1>1 DEF EnginesHavePorts, Running
<1>3. CASE AlreadyBooted(c)
  <2>1. /\ pc' \in [Coroutines -> Labels]
        /\ pc'[c] \in {"next", "touch"}
        /\ pc'[c] = "touch" => job'[c] = job[c]
        /\ \A e \in Coroutines : e # c => pc'[e] = pc[e] /\ job'[e] = job[e]
        /\ job' \in [Coroutines -> Job]
    BY <1>3, Moved, NewJobs DEF AlreadyBooted, Labels, SetJob, TypeOK
  <2>2. TypeOK'
    BY <1>1, <1>3, <2>1, ModelUnlocked, BootUnlocked
       DEF AlreadyBooted, TypeOK, registryVars, taskVars, Keeps
  <2>3. JobsAreTyped' /\ LocksAreHeld'
    BY <1>1, <1>3, <2>1, ModelUnlocked, BootUnlocked
       DEF AlreadyBooted, JobsAreTyped, HasModel, HasPort, LocksAreHeld, HoldsBootLock, HoldsModelLock
  <2> QED BY <1>2, <2>2, <2>3
<1>4. CASE ReservePort(c)
  <2>1. PICK p \in FreePorts : reserved' = reserved \cup {p} /\ SetJob(c, [job[c] EXCEPT !.port = p])
    BY <1>4 DEF ReservePort
  <2>2. p \in Ports
    BY DEF FreePorts
  <2>3. [job[c] EXCEPT !.port = p] \in Job /\ [job[c] EXCEPT !.port = p].model = job[c].model
        /\ [job[c] EXCEPT !.port = p].port = p
    BY <2>2 DEF TypeOK, Job
  <2>4. /\ job' \in [Coroutines -> Job] /\ job'[c].model = job[c].model /\ job'[c].port = p
        /\ \A e \in Coroutines : e # c => job'[e] = job[e]
    BY <2>1, <2>3 DEF TypeOK, SetJob
  <2>5. /\ pc' \in [Coroutines -> Labels]
        /\ pc'[c] = "docker"
        /\ \A e \in Coroutines : e # c => pc'[e] = pc[e]
    BY <1>4, Moved DEF ReservePort, Labels
  <2>6. TypeOK'
    BY <1>1, <1>4, <2>1, <2>2, <2>4, <2>5 DEF ReservePort, TypeOK, registryVars, taskVars, Yields
  <2>7. JobsAreTyped' /\ LocksAreHeld'
    BY <1>1, <1>4, <2>2, <2>4, <2>5
       DEF ReservePort, JobsAreTyped, HasModel, HasPort, LocksAreHeld, HoldsBootLock, HoldsModelLock, Holds
  <2> QED BY <1>2, <2>6, <2>7
<1> QED BY <1>3, <1>4 DEF Boot

(* Steps inside the boot that leave every lock as it is.                   *)
LEMMA InsideBootStep ==
  ASSUME IInv, NEW c \in Coroutines,
         BootNoPort(c) \/ RunDocker(c) \/ RunDockerFails(c) \/ PollTimeout(c) \/ Cleanup(c)
  PROVE  IInv'
<1> USE DEF IInv
<1>1. /\ pc[c] \in {"boot", "docker", "poll", "cleanup"}
      /\ Holds(c, bootLock)
      /\ job[c].model \in Models
      /\ Holds(c, modelLock[job[c].model])
      /\ pc[c] # "boot" => job[c].port \in Ports
      /\ UNCHANGED <<registryVars, allocated, active, modelLock, bootLock, taskVars>>
  BY DEF BootNoPort, RunDocker, RunDockerFails, PollTimeout, Cleanup, At, JobsAreTyped, HasModel,
         HasPort, LocksAreHeld, HoldsBootLock, HoldsModelLock
<1>2. /\ pc' \in [Coroutines -> Labels]
      /\ pc'[c] \in {"failed", "poll", "cleanup"}
      /\ \A e \in Coroutines : e # c => pc'[e] = pc[e]
      /\ loop' \in Coroutines \cup {Nobody}
  BY Moved DEF BootNoPort, RunDocker, RunDockerFails, PollTimeout, Cleanup, Labels, TypeOK, Keeps
<1>3. CASE RunDocker(c)
  <2> DEFINE n == NameOf[job[c].model]
             p == IF Running(n) THEN container[n].port ELSE job[c].port
  <2>1. n \in Names
    BY <1>1, ModelsAssumption
  <2>2. p \in Ports
    BY <1>1, <1>3, <2>1 DEF RunDocker, At, EnginesHavePorts
  <2>3. /\ container' = IF Running(n) THEN container
                        ELSE [container EXCEPT ![n] = [status |-> "starting", port |-> p]]
        /\ reserved' = (reserved \ {job[c].port}) \cup {p}
        /\ SetJob(c, [job[c] EXCEPT !.port = p])
        /\ pc'[c] = "poll"
    BY <1>3, Moved DEF RunDocker, Labels
  <2> HIDE DEF n, p
  <2>4. container' \in [Names -> Container] /\ EnginesHavePorts'
    <3>1. [status |-> "starting", port |-> p] \in Container
      BY <2>2 DEF Container
    <3>2. /\ container' \in [Names -> Container]
          /\ \A k \in Names : container'[k] = container[k] \/ container'[k] = [status |-> "starting", port |-> p]
      BY <2>3, <3>1 DEF TypeOK
    <3>3. EnginesHavePorts'
      BY <2>2, <3>2 DEF EnginesHavePorts, Running
    <3> QED BY <3>2, <3>3
  <2>5. [job[c] EXCEPT !.port = p] \in Job /\ [job[c] EXCEPT !.port = p].model = job[c].model
        /\ [job[c] EXCEPT !.port = p].port = p
    BY <2>2 DEF TypeOK, Job
  <2>6. /\ job' \in [Coroutines -> Job] /\ job'[c].model = job[c].model /\ job'[c].port = p
        /\ \A e \in Coroutines : e # c => job'[e] = job[e]
    BY <2>3, <2>5 DEF TypeOK, SetJob
  <2>7. TypeOK'
    BY <1>1, <1>2, <2>2, <2>3, <2>4, <2>6 DEF TypeOK, registryVars, taskVars
  <2>8. JobsAreTyped' /\ LocksAreHeld'
    BY <1>1, <1>2, <2>2, <2>3, <2>6
       DEF JobsAreTyped, HasModel, HasPort, LocksAreHeld, HoldsBootLock, HoldsModelLock
  <2> QED BY <2>4, <2>7, <2>8
<1>4. CASE ~RunDocker(c)
  <2>1. /\ UNCHANGED <<job, reserved>>
        /\ pc'[c] \in {"failed", "cleanup"}
        /\ pc'[c] = "cleanup" => pc[c] = "poll"
        /\ \/ container' = container
           \/ container' = [container EXCEPT ![NameOf[job[c].model]] = NoContainer]
    BY <1>4, Moved DEF BootNoPort, RunDockerFails, PollTimeout, Cleanup, Labels, At
  <2>2. container' \in [Names -> Container] /\ EnginesHavePorts'
    BY <2>1, EngineIsRemoved DEF TypeOK, EnginesHavePorts, Running
  <2>3. TypeOK'
    BY <1>1, <1>2, <2>1, <2>2 DEF TypeOK, registryVars, taskVars
  <2>4. JobsAreTyped' /\ LocksAreHeld'
    BY <1>1, <1>2, <2>1
       DEF JobsAreTyped, HasModel, HasPort, LocksAreHeld, HoldsBootLock, HoldsModelLock
  <2> QED BY <2>2, <2>3, <2>4
<1> QED BY <1>3, <1>4

(* The two ways in which a cold start that got as far as Docker ends well. *)
LEMMA BootedStep ==
  ASSUME IInv, NEW c \in Coroutines, Booted(c) \/ (c = Prewarm /\ PrewarmBooted)
  PROVE  IInv'
<1> USE DEF IInv
<1>1. /\ Holds(c, bootLock)
      /\ job[c].model \in Models
      /\ job[c].port \in Ports
      /\ Holds(c, modelLock[job[c].model])
      /\ bootLock' = Tail(bootLock) /\ UnlockModel(c) /\ Keeps(c)
      /\ UNCHANGED <<registered, lifecycle, allocated, active, container, reserved, taskVars>>
  BY DEF Booted, PrewarmBooted, At, JobsAreTyped, HasModel, HasPort, LocksAreHeld, HoldsBootLock, HoldsModelLock
<1>2. /\ pc' \in [Coroutines -> Labels]
      /\ pc'[c] \in {"next", "touch"}
      /\ pc'[c] = "touch" => Booted(c)
      /\ \A e \in Coroutines : e # c => pc'[e] = pc[e]
  BY Moved DEF Booted, PrewarmBooted, Labels
<1>3. /\ job' \in [Coroutines -> Job]
      /\ pc'[c] = "touch" => job'[c].model \in Models
      /\ \A e \in Coroutines : e # c => job'[e] = job[e]
  <2>1. CASE Booted(c)
    <3>1. PICK d \in Deps : SetJob(c, [job[c] EXCEPT !.dep = d])
      BY <2>1 DEF Booted
    <3>2. [job[c] EXCEPT !.dep = d] \in Job /\ [job[c] EXCEPT !.dep = d].model = job[c].model
      BY DEF TypeOK, Job
    <3> QED BY <1>1, <3>1, <3>2 DEF SetJob, TypeOK
  <2>2. CASE c = Prewarm /\ PrewarmBooted
    <3>1. pc'[c] = "next"
      BY <2>2, Moved DEF PrewarmBooted, Labels
    <3> QED BY <2>2, <3>1, NewJobs DEF PrewarmBooted, SetJob, TypeOK
  <2> QED BY <2>1, <2>2
<1>4. deployment' \in [Deps -> DeploymentRecord]
  <2>1. PICK d \in Deps \cup {NoDep}, b \in BOOLEAN :
           SaveDeployment(d, ReadyRecord(job[c].model, job[c].port, b))
    <3>1. CASE Booted(c)
      <4>1. \A d \in Deps : Permanent(d) \in BOOLEAN
        BY DEF TypeOK, DeploymentRecord, Permanent
      <4> QED BY <3>1, <4>1 DEF Booted
    <3>2. CASE c = Prewarm /\ PrewarmBooted
      <4>1. job[c].dep \in Deps \cup {NoDep}
        BY DEF TypeOK, Job
      <4> QED BY <3>2, <4>1 DEF PrewarmBooted
    <3> QED BY <3>1, <3>2
  <2>2. ReadyRecord(job[c].model, job[c].port, b) \in DeploymentRecord
    BY <1>1 DEF ReadyRecord, DeploymentRecord, DeploymentStatus
  <2> QED BY <2>1, <2>2 DEF SaveDeployment, TypeOK
<1>5. TypeOK'
  BY <1>1, <1>2, <1>3, <1>4, ModelUnlocked, BootUnlocked DEF TypeOK, taskVars, Keeps
<1>6. JobsAreTyped' /\ LocksAreHeld'
  BY <1>1, <1>2, <1>3, ModelUnlocked, BootUnlocked
     DEF JobsAreTyped, HasModel, HasPort, LocksAreHeld, HoldsBootLock, HoldsModelLock
<1>7. EnginesHavePorts'
  BY <1>1 DEF EnginesHavePorts, Running
<1> QED BY <1>5, <1>6, <1>7

(* ... and the two ways in which a failed one does.                        *)
LEMMA ColdStartFailsStep ==
  ASSUME IInv, NEW c \in Coroutines, ColdStartFails(c) \/ (c = Prewarm /\ PrewarmFails)
  PROVE  IInv'
<1> USE DEF IInv
<1>1. /\ Holds(c, bootLock)
      /\ job[c].model \in Models
      /\ Holds(c, modelLock[job[c].model])
      /\ bootLock' = Tail(bootLock) /\ UnlockModel(c)
      /\ reserved' = reserved \ {job[c].port}
      /\ UNCHANGED <<registered, lifecycle, active, container, taskVars>>
  BY DEF ColdStartFails, PrewarmFails, At, JobsAreTyped, HasModel, LocksAreHeld, HoldsBootLock, HoldsModelLock
<1>2. /\ pc' \in [Coroutines -> Labels]
      /\ job' \in [Coroutines -> Job]
      /\ loop' \in Coroutines \cup {Nobody}
      /\ pc'[c] \in {"touch", "idle", "next"}
      /\ pc'[c] = "touch" => job'[c].model \in Models
      /\ \A e \in Coroutines : e # c => pc'[e] = pc[e] /\ job'[e] = job[e]
  <2>1. CASE ColdStartFails(c)
    BY <1>1, <2>1, FallBackMoves DEF ColdStartFails
  <2>2. CASE c = Prewarm /\ PrewarmFails
    BY <2>2, Moved, NewJobs DEF PrewarmFails, Labels, SetJob, Keeps, TypeOK
  <2> QED BY <2>1, <2>2
<1>3. deployment' \in [Deps -> DeploymentRecord] /\ allocated' \in [Deps -> Nat]
  <2>1. /\ UNCHANGED deployment \/ SetStatus(job[c].dep, "failed")
        /\ UNCHANGED allocated \/ Release(job[c].dep)
    BY DEF ColdStartFails, PrewarmFails
  <2>2. deployment' \in [Deps -> DeploymentRecord]
    BY <2>1, StatusIsSet DEF TypeOK, DeploymentStatus
  <2>3. allocated' \in [Deps -> Nat]
    BY <2>1 DEF Release, TypeOK
  <2> QED BY <2>2, <2>3
<1>4. TypeOK'
  BY <1>1, <1>2, <1>3, ModelUnlocked, BootUnlocked DEF TypeOK, taskVars
<1>5. JobsAreTyped' /\ LocksAreHeld'
  BY <1>1, <1>2, ModelUnlocked, BootUnlocked
     DEF JobsAreTyped, HasModel, HasPort, LocksAreHeld, HoldsBootLock, HoldsModelLock
<1>6. EnginesHavePorts'
  BY <1>1 DEF EnginesHavePorts, Running
<1> QED BY <1>4, <1>5, <1>6

(* SimpleLifecycleManager returns lifecycle records.                       *)
LEMMA LifecycleTypes ==
  /\ Initialize \in LifecycleRecord /\ NoLifecycle \in LifecycleRecord
  /\ \A r \in LifecycleRecord : Touch(r) \in LifecycleRecord
  /\ \A r \in LifecycleRecord, n \in Nat : Advance(r, n) \in LifecycleRecord
<1>1. /\ Initialize \in LifecycleRecord /\ NoLifecycle \in LifecycleRecord
      /\ \A r \in LifecycleRecord : Touch(r) \in LifecycleRecord
  <2>1. 0 \in 0 .. IdleBound
    BY ThresholdsAssumption
  <2>2. Initialize \in LifecycleRecord /\ NoLifecycle \in LifecycleRecord
    BY <2>1 DEF Initialize, NoLifecycle, LifecycleRecord
  <2>3. \A r \in LifecycleRecord : Touch(r) \in LifecycleRecord
    BY <2>1 DEF Touch, LifecycleRecord
  <2> QED BY <2>2, <2>3
<1>2. \A r \in LifecycleRecord : Reconcile(r) \in LifecycleRecord
  BY DEF Reconcile, LifecycleRecord
<1>3. ASSUME NEW r \in LifecycleRecord, NEW n \in Nat
      PROVE  Advance(r, n) \in LifecycleRecord
  <2> DEFINE i == IF n > 0 THEN 0 ELSE IF r.idle < IdleBound THEN r.idle + 1 ELSE IdleBound
  <2>1. r.idle \in 0 .. IdleBound
    BY DEF LifecycleRecord
  <2>2. i \in 0 .. IdleBound
    BY <2>1, ThresholdsAssumption
  <2> HIDE DEF i
  <2>3. [r EXCEPT !.idle = i] \in LifecycleRecord
    BY <2>2 DEF LifecycleRecord
  <2> QED BY <1>2, <2>3 DEF Advance, i
<1> QED BY <1>1, <1>2, <1>3

(* Serving keeps the invariant.                                            *)
LEMMA ServeStep ==
  ASSUME IInv, NEW c \in Coroutines, Begin(c) \/ Finish(c)
  PROVE  IInv'
<1> USE DEF IInv
<1>1. /\ pc' \in [Coroutines -> Labels]
      /\ pc'[c] \in {"generate", "idle"}
      /\ \A e \in Coroutines : e # c => pc'[e] = pc[e]
  BY Moved DEF Begin, Finish, Labels
<1>2. /\ job' \in [Coroutines -> Job]
      /\ pc'[c] = "generate" => job'[c].model \in Models
      /\ \A e \in Coroutines : e # c => job'[e] = job[e]
  <2>1. CASE Begin(c)
    <3>1. job[c].model \in Models
      BY <2>1 DEF Begin, At, JobsAreTyped, HasModel
    <3>2. [NoJob EXCEPT !.cap = job[c].cap, !.model = job[c].model, !.dep = job[c].dep] \in Job
      BY DEF TypeOK, NoJob, Job
    <3>3. [NoJob EXCEPT !.cap = job[c].cap, !.model = job[c].model, !.dep = job[c].dep].model = job[c].model
      BY DEF NoJob
    <3> QED BY <2>1, <3>1, <3>2, <3>3 DEF Begin, SetJob, TypeOK
  <2>2. CASE Finish(c)
    BY <2>2, Moved, NewJobs DEF Finish, SetJob, TypeOK, Labels
  <2> QED BY <2>1, <2>2
<1>3. active' \in [Deps -> Nat]
  <2>1. CASE Begin(c)
    <3>1. active' = [d \in Deps |-> IF d = job[c].dep THEN active[d] + 1 ELSE active[d]]
      BY <2>1 DEF Begin, Increment, TypeOK
    <3>2. \A d \in Deps : active[d] \in Nat /\ active[d] + 1 \in Nat
      BY DEF TypeOK
    <3> QED BY <3>1, <3>2
  <2>2. CASE Finish(c)
    <3>1. active' = [d \in Deps |-> IF d = job[c].dep THEN IF active[d] > 0 THEN active[d] - 1 ELSE 0
                                     ELSE active[d]]
      BY <2>2 DEF Finish, Decrement, TypeOK
    <3>2. \A d \in Deps : active[d] \in Nat /\ (active[d] > 0 => active[d] - 1 \in Nat)
      BY DEF TypeOK
    <3> QED BY <3>1, <3>2
  <2> QED BY <2>1, <2>2
<1>4. lifecycle' \in [Deps -> LifecycleRecord]
  <2>1. CASE Begin(c)
    <3>1. \A d \in Deps : \/ lifecycle'[d] = lifecycle[d]
                         \/ lifecycle'[d] \in {Initialize, Touch(lifecycle[d])}
      BY <2>1 DEF Begin, TypeOK
    <3>2. lifecycle' = [d \in Deps |-> lifecycle'[d]]
      BY <2>1 DEF Begin, TypeOK
    <3> QED BY <3>1, <3>2, LifecycleTypes DEF TypeOK
  <2>2. CASE Finish(c)
    BY <2>2 DEF Finish, TypeOK, registryVars
  <2> QED BY <2>1, <2>2
<1>5. TypeOK'
  BY <1>1, <1>2, <1>3, <1>4 DEF Begin, Finish, TypeOK, Yields, registryVars, taskVars
<1>6. JobsAreTyped' /\ LocksAreHeld'
  BY <1>1, <1>2 DEF Begin, Finish, JobsAreTyped, HasPort, LocksAreHeld, HoldsBootLock, HoldsModelLock, HasModel
<1>7. EnginesHavePorts'
  BY DEF Begin, Finish, EnginesHavePorts, Running
<1> QED BY <1>5, <1>6, <1>7

(* The start of the pre-warm task keeps the invariant.                     *)
LEMMA PrewarmStartStep ==
  ASSUME IInv, PrewarmStart
  PROVE  IInv'
<1> USE DEF IInv
<1> Prewarm \in Coroutines BY DEF Coroutines
<1>1. /\ pc' \in [Coroutines -> Labels]
      /\ pc'[Prewarm] = "next"
      /\ \A e \in Coroutines : e # Prewarm => pc'[e] = pc[e]
  BY Moved DEF PrewarmStart, Labels
<1>2. deployment' \in [Deps -> DeploymentRecord] /\ lifecycle' \in [Deps -> LifecycleRecord]
  <2>1. AbsentDeployment \in DeploymentRecord
    BY DEF AbsentDeployment, DeploymentRecord, DeploymentStatus, NoPort
  <2> QED BY <2>1, LifecycleTypes DEF PrewarmStart, TypeOK
<1>3. TypeOK'
  BY <1>1, <1>2 DEF PrewarmStart, TypeOK, Keeps
<1>4. JobsAreTyped' /\ LocksAreHeld' /\ EnginesHavePorts'
  BY <1>1 DEF PrewarmStart, JobsAreTyped, HasModel, HasPort, LocksAreHeld, HoldsBootLock, HoldsModelLock,
     EnginesHavePorts, Running
<1> QED BY <1>3, <1>4

(* Choosing a model to pre-warm keeps the invariant.                       *)
LEMMA PrewarmPickStep ==
  ASSUME IInv, PrewarmPick
  PROVE  IInv'
<1> USE DEF IInv
<1> Prewarm \in Coroutines BY DEF Coroutines
<1>1. /\ At(Prewarm, "next")
      /\ pending # <<>> /\ pending' = Tail(pending)
      /\ UNCHANGED <<registryVars, allocated, active, container, reserved, modelLock, bootLock,
                     known, snapshot, restarts, ghosts>>
  BY DEF PrewarmPick
<1>2. pending' \in Seq(Capabilities) /\ Head(pending) \in Capabilities
  BY <1>1, HeadTailProperties DEF TypeOK
<1>3. \A m \in BestKnown(Head(pending)) : m \in Models
  BY DEF BestKnown, TypeOK
<1>4. \A m \in Unused(DefaultOf[Head(pending)]) : m \in Models
  BY DEF Unused
<1>5. /\ pc' \in [Coroutines -> Labels]
      /\ job' \in [Coroutines -> Job]
      /\ loop' \in Coroutines \cup {Nobody}
      /\ pc'[Prewarm] \in {"create", "download", "next"}
      /\ pc'[Prewarm] # "next" => job'[Prewarm].model \in Models
      /\ \A e \in Coroutines : e # Prewarm => pc'[e] = pc[e] /\ job'[e] = job[e]
  <2>1. CASE UNCHANGED <<job, pc>> /\ Keeps(Prewarm)
    BY <1>1, <2>1 DEF TypeOK, At, Keeps
  <2>2. CASE \E m \in Models, l \in {"create", "download"} :
               /\ SetJob(Prewarm, [NoJob EXCEPT !.cap = Head(pending), !.model = m])
               /\ Go(Prewarm, l) /\ (Keeps(Prewarm) \/ Yields)
    <3>1. PICK m \in Models, l \in {"create", "download"} :
               /\ SetJob(Prewarm, [NoJob EXCEPT !.cap = Head(pending), !.model = m])
               /\ Go(Prewarm, l) /\ (Keeps(Prewarm) \/ Yields)
      BY <2>2
    <3>2. /\ [NoJob EXCEPT !.cap = Head(pending), !.model = m] \in Job
          /\ [NoJob EXCEPT !.cap = Head(pending), !.model = m].model = m
      BY <1>2, NewJobs
    <3> QED BY <3>1, <3>2, Moved DEF SetJob, TypeOK, Labels, Keeps, Yields
  <2> QED BY <1>3, <1>4, <2>1, <2>2 DEF PrewarmPick
<1>6. TypeOK'
  BY <1>1, <1>2, <1>5 DEF TypeOK, registryVars
<1>7. JobsAreTyped' /\ LocksAreHeld' /\ EnginesHavePorts'
  BY <1>1, <1>5 DEF JobsAreTyped, HasModel, HasPort, LocksAreHeld, HoldsBootLock, HoldsModelLock,
     EnginesHavePorts, Running
<1> QED BY <1>6, <1>7

(* The end of the pre-warm task keeps the invariant.                       *)
LEMMA PrewarmEndStep ==
  ASSUME IInv, PrewarmEnd
  PROVE  IInv'
<1> USE DEF IInv
<1> Prewarm \in Coroutines BY DEF Coroutines
<1>1. /\ pc' \in [Coroutines -> Labels]
      /\ pc'[Prewarm] = "done"
      /\ \A e \in Coroutines : e # Prewarm => pc'[e] = pc[e]
  BY Moved DEF PrewarmEnd, Labels
<1>2. TypeOK'
  BY <1>1 DEF PrewarmEnd, TypeOK, Yields, registryVars, taskVars
<1>3. JobsAreTyped' /\ LocksAreHeld' /\ EnginesHavePorts'
  BY <1>1 DEF PrewarmEnd, JobsAreTyped, HasModel, HasPort, LocksAreHeld, HoldsBootLock, HoldsModelLock,
     EnginesHavePorts, Running
<1> QED BY <1>2, <1>3

(* A permanent deployment is created with the right types.                 *)
LEMMA PrewarmCreateStep ==
  ASSUME IInv, PrewarmCreate
  PROVE  IInv'
<1> USE DEF IInv
<1> Prewarm \in Coroutines BY DEF Coroutines
<1>1. /\ pc' \in [Coroutines -> Labels]
      /\ pc'[Prewarm] = "lock"
      /\ \A e \in Coroutines : e # Prewarm => pc'[e] = pc[e]
  BY Moved DEF PrewarmCreate, Labels
<1>2. job[Prewarm].model \in Models
  BY DEF PrewarmCreate, At, JobsAreTyped, HasModel
<1>3. PICK d \in Deps :
       /\ SaveDeployment(d, PendingDeployment(job[Prewarm].model, TRUE))
       /\ Allocate(d, MemOf[job[Prewarm].model])
       /\ lifecycle' = [lifecycle EXCEPT ![d] = Initialize]
       /\ SetJob(Prewarm, [job[Prewarm] EXCEPT !.dep = d])
  BY DEF PrewarmCreate
<1>4. deployment' \in [Deps -> DeploymentRecord]
  <2>1. PendingDeployment(job[Prewarm].model, TRUE) \in DeploymentRecord
    BY <1>2 DEF PendingDeployment, DeploymentRecord, DeploymentStatus, NoPort
  <2> QED BY <1>3, <2>1 DEF SaveDeployment, TypeOK
<1>5. allocated' \in [Deps -> Nat] /\ lifecycle' \in [Deps -> LifecycleRecord]
  BY <1>2, <1>3, ModelsAssumption, LifecycleTypes DEF Allocate, TypeOK
<1>6. /\ job' \in [Coroutines -> Job]
      /\ job'[Prewarm].model = job[Prewarm].model
      /\ \A e \in Coroutines : e # Prewarm => job'[e] = job[e]
  <2>1. [job[Prewarm] EXCEPT !.dep = d] \in Job /\ [job[Prewarm] EXCEPT !.dep = d].model = job[Prewarm].model
    BY DEF TypeOK, Job
  <2> QED BY <1>3, <2>1 DEF SetJob, TypeOK
<1>7. TypeOK'
  BY <1>1, <1>4, <1>5, <1>6 DEF PrewarmCreate, TypeOK, Keeps, taskVars
<1>8. JobsAreTyped' /\ LocksAreHeld' /\ EnginesHavePorts'
  BY <1>1, <1>2, <1>6 DEF PrewarmCreate, JobsAreTyped, HasModel, HasPort, LocksAreHeld, HoldsBootLock,
     HoldsModelLock, EnginesHavePorts, Running
<1> QED BY <1>7, <1>8

(* The lifecycle worker keeps the invariant.                               *)
LEMMA TickStep ==
  ASSUME IInv, Tick
  PROVE  IInv'
<1> USE DEF IInv
<1>1. PICK stop \in Int : TickUpTo(stop)
  BY BoundsAssumption DEF Tick, Deps
<1>2. /\ UNCHANGED <<registered, active, reserved, coroutineVars, taskVars>>
      /\ loop = Nobody
  BY DEF Tick
<1>3. lifecycle' \in [Deps -> LifecycleRecord]
  <2>1. \A d \in Deps : lifecycle[d] \in LifecycleRecord /\ Advanced(d) \in LifecycleRecord
    BY LifecycleTypes DEF TypeOK, Advanced
  <2>2. lifecycle' = [d \in Deps |-> IF Due(d) /\ d <= stop THEN Advanced(d) ELSE lifecycle[d]]
    BY <1>1 DEF TickUpTo
  <2> QED BY <2>1, <2>2
<1>4. deployment' \in [Deps -> DeploymentRecord]
  <2>1. \A r \in DeploymentRecord : [r EXCEPT !.status = "unloaded"] \in DeploymentRecord
    BY DEF DeploymentRecord, DeploymentStatus
  <2>2. deployment' = [d \in Deps |-> IF Expires(d) /\ d < stop THEN [deployment[d] EXCEPT !.status = "unloaded"]
                                     ELSE deployment[d]]
    BY <1>1 DEF TickUpTo
  <2>3. \A d \in Deps : deployment[d] \in DeploymentRecord
    BY DEF TypeOK
  <2> QED BY <2>1, <2>2, <2>3
<1>5. allocated' \in [Deps -> Nat]
  BY <1>1 DEF TickUpTo, TypeOK
<1>6. /\ \A n \in Names : container'[n] = container[n] \/ container'[n] = NoContainer
      /\ container' = [n \in Names |-> container'[n]]
  BY <1>1 DEF TickUpTo
<1>7. container' \in [Names -> Container] /\ EnginesHavePorts'
  <2>1. NoContainer \in Container /\ NoContainer.status = "none"
    BY DEF NoContainer, Container, NoPort
  <2>2. container' \in [Names -> Container]
    BY <1>6, <2>1 DEF TypeOK
  <2>3. ASSUME NEW n \in Names, Running(n)'
        PROVE  container'[n].port \in Ports
    <3>1. container'[n] = container[n]
      BY <1>6, <2>1, <2>3 DEF Running
    <3> QED BY <2>3, <3>1 DEF EnginesHavePorts, Running
  <2> QED BY <2>2, <2>3 DEF EnginesHavePorts
<1>8. TypeOK'
  BY <1>2, <1>3, <1>4, <1>5, <1>7 DEF TypeOK, coroutineVars, taskVars
<1>9. JobsAreTyped' /\ LocksAreHeld'
  BY <1>2 DEF coroutineVars, JobsAreTyped, LocksAreHeld
<1> QED BY <1>7, <1>8, <1>9

(* Engines keep the invariant.                                             *)
LEMMA EngineStep ==
  ASSUME IInv, NEW n \in Names, EngineStarts(n) \/ EngineCrashes(n)
  PROVE  IInv'
<1> USE DEF IInv
<1>1. UNCHANGED <<registryVars, allocated, active, reserved, coroutineVars, taskVars>>
  BY DEF EngineStarts, EngineCrashes
<1>2. container' \in [Names -> Container] /\ EnginesHavePorts'
  <2>1. CASE container' = [container EXCEPT ![n] = NoContainer]
    BY <2>1, EngineIsRemoved
  <2>2. CASE /\ container[n].status = "starting"
             /\ container' = [container EXCEPT ![n].status = "healthy"]
    <3>1. /\ [container[n] EXCEPT !.status = "healthy"] \in Container
          /\ [container[n] EXCEPT !.status = "healthy"].port = container[n].port
      BY DEF TypeOK, Container
    <3>2. /\ container' \in [Names -> Container]
          /\ \A k \in Names : k # n => container'[k] = container[k]
          /\ container'[n].port = container[n].port
      BY <2>2, <3>1 DEF TypeOK
    <3>3. Running(n)
      BY <2>2 DEF Running
    <3> QED BY <3>2, <3>3 DEF EnginesHavePorts, Running
  <2> QED BY <2>1, <2>2 DEF EngineStarts, EngineCrashes
<1>3. TypeOK'
  BY <1>1, <1>2 DEF TypeOK, registryVars, coroutineVars, taskVars
<1>4. JobsAreTyped' /\ LocksAreHeld'
  BY <1>1 DEF coroutineVars, JobsAreTyped, LocksAreHeld
<1> QED BY <1>2, <1>3, <1>4

(* Operators keep the invariant.                                           *)
LEMMA OperatorStep ==
  ASSUME IInv, NEW o \in Operators, OperatorDeploy(o) \/ OperatorReads(o) \/ OperatorUnloads(o)
  PROVE  IInv'
<1> USE DEF IInv
<1>1. /\ UNCHANGED <<registered, allocated, active, container, reserved, coroutineVars, pending, known, restarts,
                  ghosts>>
  BY DEF OperatorDeploy, OperatorReads, OperatorUnloads, taskVars, registryVars
<1>2. /\ deployment' \in [Deps -> DeploymentRecord]
      /\ lifecycle' \in [Deps -> LifecycleRecord]
      /\ snapshot' \in [Operators -> Snapshot]
  <2>1. CASE OperatorDeploy(o)
    <3>1. PICK m \in Models, d \in Deps :
               SaveDeployment(d, ReadyRecord(m, NoPort, FALSE)) /\ lifecycle' = [lifecycle EXCEPT ![d] = Initialize]
      BY <2>1 DEF OperatorDeploy
    <3>2. ReadyRecord(m, NoPort, FALSE) \in DeploymentRecord
      BY DEF ReadyRecord, DeploymentRecord, DeploymentStatus
    <3> QED BY <2>1, <3>1, <3>2, LifecycleTypes DEF OperatorDeploy, SaveDeployment, TypeOK, taskVars
  <2>2. CASE OperatorReads(o)
    <3>1. PICK d \in Deps : snapshot' = [snapshot EXCEPT ![o] = [dep |-> d, record |-> deployment[d]]]
      BY <2>2 DEF OperatorReads
    <3>2. [dep |-> d, record |-> deployment[d]] \in Snapshot
      BY DEF TypeOK, Snapshot
    <3> QED BY <2>2, <3>1, <3>2 DEF OperatorReads, TypeOK, registryVars
  <2>3. CASE OperatorUnloads(o)
    <3>1. \A r \in DeploymentRecord : [r EXCEPT !.status = "unloaded"] \in DeploymentRecord
      BY DEF DeploymentRecord, DeploymentStatus
    <3>2. snapshot[o].record \in DeploymentRecord
      BY DEF TypeOK, Snapshot
    <3>3. deployment' \in [Deps -> DeploymentRecord]
      BY <2>3, <3>1, <3>2 DEF OperatorUnloads, SaveDeployment, TypeOK
    <3>4. NoSnapshot \in Snapshot
      BY DEF NoSnapshot, Snapshot, AbsentDeployment, DeploymentRecord, DeploymentStatus, NoPort, NoDep
    <3> QED BY <2>3, <3>3, <3>4 DEF OperatorUnloads, TypeOK
  <2> QED BY <2>1, <2>2, <2>3
<1>3. TypeOK'
  BY <1>1, <1>2 DEF TypeOK, coroutineVars
<1>4. JobsAreTyped' /\ LocksAreHeld' /\ EnginesHavePorts'
  BY <1>1 DEF coroutineVars, JobsAreTyped, LocksAreHeld, EnginesHavePorts, Running
<1> QED BY <1>3, <1>4

(* A restart keeps the invariant.                                          *)
LEMMA RestartStep ==
  ASSUME IInv, Restart
  PROVE  IInv'
<1> USE DEF IInv
<1>1. \A c \in Coroutines : pc'[c] \in {"start", "idle"}
  BY DEF Restart
<1>2. NoSnapshot \in Snapshot
  BY DEF NoSnapshot, Snapshot, AbsentDeployment, DeploymentRecord, DeploymentStatus, NoPort, NoDep
<1>3. TypeOK'
  <2>1. NoJob \in Job
    BY DEF NoJob, Job
  <2>2. /\ registered' \in Seq(Models) /\ deployment' \in [Deps -> DeploymentRecord]
        /\ lifecycle' \in [Deps -> LifecycleRecord]
        /\ container' \in [Names -> Container]
        /\ restarts' \in Nat /\ ghosts' \subseteq Deps
    BY DEF Restart, TypeOK, registryVars
  <2>3. /\ pc' \in [Coroutines -> Labels]
        /\ job' \in [Coroutines -> Job]
        /\ snapshot' \in [Operators -> Snapshot]
    BY <1>2, <2>1 DEF Restart, Labels
  <2>4. /\ modelLock' \in [Models -> Seq(Coroutines)] /\ bootLock' \in Seq(Coroutines)
        /\ loop' \in Coroutines \cup {Nobody}
        /\ pending' \in Seq(Capabilities) /\ known' \in Seq(Models)
    BY CoroutinesAssumption DEF Restart
  <2>5. /\ allocated' \in [Deps -> Nat] /\ active' \in [Deps -> Nat] /\ reserved' \subseteq Ports
    BY DEF Restart
  <2> QED BY <2>2, <2>3, <2>4, <2>5 DEF TypeOK
<1>4. JobsAreTyped' /\ LocksAreHeld' /\ EnginesHavePorts'
  BY <1>1 DEF Restart, JobsAreTyped, HasModel, HasPort, LocksAreHeld, HoldsBootLock, HoldsModelLock,
     EnginesHavePorts, Running
<1> QED BY <1>3, <1>4

(* The invariant is inductive.                                             *)
LEMMA NextIInv == IInv /\ [Next]_vars => IInv'
<1> SUFFICES ASSUME IInv, [Next]_vars PROVE IInv'
  OBVIOUS
<1>1. CASE ServiceStep
  <2>1. ASSUME NEW c \in Coroutines, ColdStartStep(c) PROVE IInv'
    BY <2>1, LockModelStep, RecheckStep, BootStep, InsideBootStep, BootedStep, ColdStartFailsStep
       DEF ColdStartStep
  <2>2. CASE PrewarmStep
    <3> Prewarm \in Coroutines
      BY DEF Coroutines
    <3> QED BY <2>1, <2>2, PrewarmStartStep, PrewarmPickStep, PrewarmEndStep, PrewarmCreateStep, BootedStep,
               ColdStartFailsStep, OnboardStep, GivingUpStep DEF PrewarmStep
  <2>3. ASSUME NEW c \in Clients, Receive(c) \/ RequestStep(c) PROVE IInv'
    <3> c \in Coroutines
      BY DEF Coroutines
    <3> QED BY <2>1, <2>3, ReceiveStep, OnboardStep, GivingUpStep, RouteStep, EvictStep, ServeStep DEF RequestStep
  <2> QED BY <1>1, <2>2, <2>3 DEF ServiceStep
<1>2. CASE Tick
  BY <1>2, TickStep
<1>3. CASE EnvironmentStep
  BY <1>3, EngineStep, OperatorStep, RestartStep DEF EnvironmentStep
<1>4. CASE UNCHANGED vars
  BY <1>4 DEF vars, registryVars, coroutineVars, taskVars, IInv, TypeOK, JobsAreTyped, EnginesHavePorts, Running, LocksAreHeld
<1> QED BY <1>1, <1>2, <1>3, <1>4 DEF Next

(* The strengthened invariant holds in every reachable state.              *)
THEOREM Inductive == Spec => []IInv
BY InitIInv, NextIInv, PTL DEF Spec

(* Every variable keeps its type.                                          *)
THEOREM TypeCorrect == Spec => []TypeOK
<1>1. IInv => TypeOK
  BY DEF IInv
<1> QED BY Inductive, <1>1, PTL

(* The boot lock excludes: one container start at a time.                  *)
THEOREM OneBootAtATime == Spec => []BootIsExclusive
<1>1. IInv => BootIsExclusive
  BY DEF IInv, LocksAreHeld, HoldsBootLock, BootIsExclusive, InBoot, Holds
<1> QED BY Inductive, <1>1, PTL

-----------------------------------------------------------------------------

(* How a step of a client changes counters, clocks and other coroutines.   *)
LEMMA ClientMoves ==
  ASSUME IInv, NEW c \in Clients, Receive(c) \/ RequestStep(c)
  PROVE  /\ \A e \in Coroutines : e # c => pc'[e] = pc[e] /\ job'[e] = job[e]
         /\ pc[c] # "idle" \/ pc[Prewarm] # "start"
         /\ \/ Begin(c) \/ Finish(c)
            \/ UNCHANGED <<active, lifecycle>> /\ pc[c] # "generate" /\ pc'[c] # "generate"
<1> USE DEF At, Go, SetJob
<1> pc \in [Coroutines -> Labels] /\ job \in [Coroutines -> Job]
  BY DEF IInv, TypeOK
<1> c \in Coroutines
  BY DEF Coroutines
<1>1. \A table : FallBack(c, table) =>
          /\ \A e \in Coroutines : e # c => pc'[e] = pc[e] /\ job'[e] = job[e]
          /\ pc'[c] \in {"touch", "idle"}
  BY DEF FallBack
<1>2. CASE Receive(c)
  BY <1>2 DEF Receive, registryVars
<1>3. CASE Onboard(c) \/ OnboardFails(c) \/ Route(c) \/ RouteFails(c) \/ Evict(c) \/ EvictFails(c)
  BY <1>3 DEF Onboard, OnboardFails, Route, RouteFails, Evict, EvictFails, registryVars
<1>4. CASE LockModel(c) \/ Boot(c) \/ BootNoPort(c) \/ RunDocker(c) \/ RunDockerFails(c)
  BY <1>4 DEF LockModel, Boot, AlreadyBooted, ReservePort, BootNoPort, RunDocker, RunDockerFails, registryVars
<1>5. CASE Booted(c) \/ PollTimeout(c) \/ Cleanup(c)
  BY <1>5 DEF Booted, PollTimeout, Cleanup, registryVars
<1>6. CASE Recheck(c) \/ PrewarmLocked(c) \/ ColdStartFails(c)
  BY <1>1, <1>6 DEF Recheck, PrewarmLocked, WaitForBoot, ColdStartFails, registryVars
<1>7. CASE Begin(c) \/ Finish(c)
  BY <1>7 DEF Begin, Finish
<1> QED BY <1>2, <1>3, <1>4, <1>5, <1>6, <1>7 DEF RequestStep, ColdStartStep

(* How a step of the pre-warm task does.                                   *)
LEMMA PrewarmMoves ==
  ASSUME IInv, PrewarmStep
  PROVE  /\ \A e \in Clients : pc'[e] = pc[e] /\ job'[e] = job[e]
         /\ pc'[Prewarm] # "start"
         /\ active' = active
         /\ lifecycle' = lifecycle \/ PrewarmStart \/ PrewarmCreate
<1> USE DEF At, Go, SetJob
<1> pc \in [Coroutines -> Labels] /\ job \in [Coroutines -> Job]
  BY DEF IInv, TypeOK
<1> Prewarm \in Coroutines /\ Prewarm \notin Clients /\ \A e \in Clients : e \in Coroutines /\ e # Prewarm
  BY CoroutinesAssumption DEF Coroutines
<1>1. CASE PrewarmStart \/ PrewarmPick \/ PrewarmEnd \/ PrewarmCreate
  BY <1>1 DEF PrewarmStart, PrewarmPick, PrewarmEnd, PrewarmCreate, registryVars
<1>2. CASE PrewarmBooted \/ PrewarmFails \/ Onboard(Prewarm) \/ OnboardFails(Prewarm)
  BY <1>2 DEF PrewarmBooted, PrewarmFails, Onboard, OnboardFails, registryVars
<1>3. CASE ColdStartStep(Prewarm)
  BY <1>3 DEF ColdStartStep, LockModel, Recheck, PrewarmLocked, WaitForBoot, Boot, AlreadyBooted,
     ReservePort, BootNoPort, RunDocker, RunDockerFails, Booted, PollTimeout, Cleanup, ColdStartFails, registryVars
<1> QED BY <1>1, <1>2, <1>3 DEF PrewarmStep

(* The other steps move no coroutine, except a restart, which moves all.   *)
LEMMA OtherMoves ==
  ASSUME Tick \/ EnvironmentStep \/ UNCHANGED vars
  PROVE  \/ Restart
         \/ UNCHANGED <<pc, job, active>>
BY DEF Tick, EnvironmentStep, EngineStarts, EngineCrashes, OperatorDeploy, OperatorReads, OperatorUnloads,
       coroutineVars, vars

-----------------------------------------------------------------------------
(* Counting.                                                               *)

Users(d) == {c \in Clients : Serving(c, d)}

(* A deployment has finitely many users.                                   *)
LEMMA UsersAreFinite == \A d : IsFiniteSet(Users(d)) /\ Cardinality(Users(d)) \in Nat
BY CoroutinesAssumption, FS_Subset, FS_CardinalityType DEF Users

(* Each step counts its request on and off once.                           *)
LEMMA NextCounts == IInv /\ ActiveCounts /\ [Next]_vars => ActiveCounts'
<1> SUFFICES ASSUME IInv, ActiveCounts, [Next]_vars, NEW d \in Deps
             PROVE  active'[d] = Cardinality(Users(d)')
  BY DEF ActiveCounts, Users
<1>0. active[d] = Cardinality(Users(d))
  BY DEF ActiveCounts, Users
<1>1. ASSUME UNCHANGED active, Users(d)' = Users(d)
      PROVE  active'[d] = Cardinality(Users(d)')
  BY <1>0, <1>1
<1>2. ASSUME NEW c \in Clients, Receive(c) \/ RequestStep(c)
      PROVE  active'[d] = Cardinality(Users(d)')
  <2> c \in Coroutines /\ \A e \in Clients : e \in Coroutines
    BY DEF Coroutines
  <2>1. \A e \in Clients : e # c => (Serving(e, d)' <=> Serving(e, d))
    BY <1>2, ClientMoves DEF Serving
  <2>2. CASE Begin(c)
    <3>1. /\ pc[c] = "touch" /\ pc'[c] = "generate"
          /\ job'[c].dep = job[c].dep
          /\ active' = [e \in Deps |-> IF e = job[c].dep THEN active[e] + 1 ELSE active[e]]
      BY <2>2 DEF Begin, At, Go, SetJob, NoJob, Increment, IInv, TypeOK
    <3>2. CASE job[c].dep = d
      <4>1. Users(d)' = Users(d) \cup {c} /\ c \notin Users(d)
        BY <2>1, <3>1, <3>2 DEF Users, Serving
      <4>2. Cardinality(Users(d) \cup {c}) = Cardinality(Users(d)) + 1
        BY <4>1, UsersAreFinite, FS_AddElement
      <4> QED BY <1>0, <3>1, <3>2, <4>1, <4>2
    <3>3. CASE job[c].dep # d
      <4>1. Users(d)' = Users(d)
        BY <2>1, <3>1, <3>3 DEF Users, Serving
      <4> QED BY <1>0, <3>1, <3>3, <4>1
    <3> QED BY <3>2, <3>3
  <2>3. CASE Finish(c)
    <3>1. /\ pc[c] = "generate" /\ pc'[c] = "idle"
          /\ active' = [e \in Deps |-> IF e = job[c].dep THEN IF active[e] > 0 THEN active[e] - 1 ELSE 0
                                       ELSE active[e]]
      BY <2>3 DEF Finish, At, Go, Decrement, IInv, TypeOK
    <3>2. CASE job[c].dep = d
      <4>1. Users(d)' = Users(d) \ {c} /\ c \in Users(d)
        BY <2>1, <3>1, <3>2 DEF Users, Serving
      <4>2. Cardinality(Users(d) \ {c}) = Cardinality(Users(d)) - 1 /\ Cardinality(Users(d) \ {c}) \in Nat
        BY <4>1, UsersAreFinite, FS_RemoveElement, FS_CardinalityType
      <4>3. active[d] > 0
        BY <1>0, <4>2, UsersAreFinite
      <4> QED BY <1>0, <3>1, <3>2, <4>1, <4>2, <4>3
    <3>3. CASE job[c].dep # d
      <4>1. Users(d)' = Users(d)
        BY <2>1, <3>1, <3>3 DEF Users, Serving
      <4> QED BY <1>0, <3>1, <3>3, <4>1
    <3> QED BY <3>2, <3>3
  <2>4. CASE UNCHANGED <<active, lifecycle>> /\ pc[c] # "generate" /\ pc'[c] # "generate"
    <3>1. Users(d)' = Users(d)
      BY <2>1, <2>4 DEF Users, Serving
    <3> QED BY <1>1, <2>4, <3>1
  <2> QED BY <1>2, <2>2, <2>3, <2>4, ClientMoves
<1>3. CASE PrewarmStep
  <2>1. active' = active /\ \A e \in Clients : Serving(e, d)' <=> Serving(e, d)
    BY <1>3, PrewarmMoves DEF Serving
  <2>2. Users(d)' = Users(d)
    BY <2>1 DEF Users
  <2> QED BY <1>1, <2>1, <2>2
<1>4. CASE Restart
  <2>1. Users(d)' = {}
    BY <1>4, CoroutinesAssumption DEF Restart, Users, Serving, Coroutines
  <2> QED BY <1>4, <2>1, FS_EmptySet DEF Restart
<1>5. CASE UNCHANGED <<pc, job, active>>
  <2>1. Users(d)' = Users(d)
    BY <1>5 DEF Users, Serving
  <2> QED BY <1>1, <1>5, <2>1
<1> QED BY <1>2, <1>3, <1>4, <1>5, OtherMoves DEF Next, ServiceStep

(* The active counter of a deployment is the number of requests it serves. *)
THEOREM CountsAreExact == Spec => []ActiveCounts
<1>1. Init => ActiveCounts
  <2> SUFFICES ASSUME Init, NEW d \in Deps PROVE active[d] = Cardinality(Users(d))
    BY DEF ActiveCounts, Users
  <2>1. Users(d) = {}
    BY CoroutinesAssumption DEF Init, Users, Serving, Coroutines
  <2> QED BY <2>1, FS_EmptySet DEF Init
<1> QED BY <1>1, Inductive, NextCounts, PTL DEF Spec

-----------------------------------------------------------------------------
(* Heat.  The pre-warm task may delete lifecycle records only because no   *)
(* request has been let in before it starts.                               *)

QuietAtStart ==
  pc[Prewarm] = "start" =>
    /\ \A c \in Clients : pc[c] = "idle"
    /\ \A d \in Deps : active[d] = 0

HotInv == QuietAtStart /\ BusyIsHot

(* A worker tick leaves a deployment in use HOT.                           *)
LEMMA AdvanceKeepsBusyHot ==
  ASSUME NEW r \in LifecycleRecord, NEW n \in Nat, n > 0
  PROVE  Advance(r, n).state = "HOT"
<1>1. [r EXCEPT !.idle = 0] \in LifecycleRecord /\ [r EXCEPT !.idle = 0].idle = 0
  BY ThresholdsAssumption DEF LifecycleRecord
<1>2. Advance(r, n) = Reconcile([r EXCEPT !.idle = 0])
  BY DEF Advance
<1>3. \A x \in LifecycleRecord : x.idle = 0 => Reconcile(x).state = "HOT"
  BY ThresholdsAssumption DEF Reconcile, LifecycleRecord
<1> QED BY <1>1, <1>2, <1>3

(* Each step keeps deployments in use HOT.                                 *)
LEMMA NextHot == IInv /\ HotInv /\ [Next]_vars => HotInv'
<1> SUFFICES ASSUME IInv, HotInv, [Next]_vars PROVE HotInv'
  OBVIOUS
<1> USE DEF HotInv
<1> Prewarm \in Coroutines /\ \A c \in Clients : c \in Coroutines /\ c # Prewarm
  BY CoroutinesAssumption DEF Coroutines
<1>1. ASSUME NEW c \in Clients, Receive(c) \/ RequestStep(c) PROVE HotInv'
  <2>1. QuietAtStart'
    BY <1>1, ClientMoves DEF QuietAtStart
  <2>2. CASE Begin(c)
    <3>1. \A d \in Deps : IF d = job[c].dep
                          THEN lifecycle'[d].state = "HOT"
                          ELSE lifecycle'[d] = lifecycle[d] /\ active'[d] = active[d]
      <4>1. \A d \in Deps : d = job[c].dep => lifecycle'[d] \in {Initialize, Touch(lifecycle[d])}
        BY <2>2 DEF Begin, IInv, TypeOK
      <4>2. \A d \in Deps : d # job[c].dep => lifecycle'[d] = lifecycle[d] /\ active'[d] = active[d]
        BY <2>2 DEF Begin, Increment, IInv, TypeOK
      <4>3. Initialize.state = "HOT" /\ \A r \in LifecycleRecord : Touch(r).state = "HOT"
        BY DEF Initialize, Touch, LifecycleRecord
      <4> QED BY <4>1, <4>2, <4>3 DEF IInv, TypeOK
    <3> QED BY <2>1, <3>1 DEF BusyIsHot
  <2>3. CASE Finish(c)
    <3>1. \A d \in Deps : lifecycle'[d] = lifecycle[d] /\ (active'[d] > 0 => active[d] > 0)
      BY <2>3 DEF Finish, Decrement, registryVars, IInv, TypeOK
    <3> QED BY <2>1, <3>1 DEF BusyIsHot
  <2> QED BY <1>1, <2>1, <2>2, <2>3, ClientMoves DEF BusyIsHot
<1>2. CASE PrewarmStep
  <2>1. QuietAtStart' /\ active' = active
    BY <1>2, PrewarmMoves DEF QuietAtStart
  <2>2. CASE PrewarmStart
    BY <2>1, <2>2 DEF PrewarmStart, At, QuietAtStart, BusyIsHot
  <2>3. CASE PrewarmCreate
    BY <2>1, <2>3 DEF PrewarmCreate, IInv, TypeOK, BusyIsHot, Initialize
  <2> QED BY <1>2, <2>1, <2>2, <2>3, PrewarmMoves DEF BusyIsHot
<1>3. CASE Tick
  <2>1. \A d \in Deps : lifecycle'[d] \in {lifecycle[d], Advance(lifecycle[d], active[d])}
    BY <1>3 DEF Tick, TickUpTo, Advanced
  <2>2. active' = active /\ pc' = pc
    BY <1>3 DEF Tick, coroutineVars
  <2>3. \A d \in Deps : active[d] > 0 => Advance(lifecycle[d], active[d]).state = "HOT"
    BY AdvanceKeepsBusyHot DEF IInv, TypeOK
  <2>4. BusyIsHot'
    BY <2>1, <2>2, <2>3 DEF BusyIsHot
  <2> QED BY <2>2, <2>4 DEF QuietAtStart
<1>4. CASE Restart
  BY <1>4 DEF Restart, QuietAtStart, BusyIsHot
<1>5. CASE EnvironmentStep /\ ~Restart
  <2>1. active' = active /\ pc' = pc
    BY <1>5, OtherMoves
  <2>2. \A d \in Deps : lifecycle'[d] \in {lifecycle[d], Initialize}
    BY <1>5 DEF EnvironmentStep, EngineStarts, EngineCrashes, OperatorDeploy, OperatorReads, OperatorUnloads,
                registryVars, IInv, TypeOK
  <2>3. Initialize.state = "HOT"
    BY DEF Initialize
  <2> QED BY <2>1, <2>2, <2>3 DEF BusyIsHot, QuietAtStart
<1>6. CASE UNCHANGED vars
  BY <1>6 DEF vars, registryVars, coroutineVars, BusyIsHot, QuietAtStart
<1> QED BY <1>1, <1>2, <1>3, <1>4, <1>5, <1>6 DEF Next, ServiceStep

(* No deployment with requests in flight is open to eviction or unloading. *)
THEOREM BusyStaysHot == Spec => []BusyIsHot
<1>1. Init => HotInv
  BY CoroutinesAssumption DEF Init, HotInv, QuietAtStart, BusyIsHot, Coroutines
<1>2. HotInv => BusyIsHot
  BY DEF HotInv
<1> QED BY <1>1, <1>2, Inductive, NextHot, PTL DEF Spec

-----------------------------------------------------------------------------
(* Requests and the table.                                                 *)

(* What a request relies on between two awaits: a chosen victim may still  *)
(* be evicted, and a deployment it is about to use is READY.               *)
Chosen ==
  \A c \in Clients :
    /\ pc[c] = "evict" => loop = c /\ EvictionCandidate(job[c].victim)
    /\ pc[c] = "touch" => loop = c /\ Ready(job[c].dep)

(* Under the boot lock the deployment to start is not READY.               *)
BootsAreNeeded ==
  \A c \in Coroutines : pc[c] \in HoldsBootLock /\ job[c].dep # NoDep => ~Ready(job[c].dep)

LeaseInv == Chosen /\ BootsAreNeeded /\ ServingReady

(* The conditions of the decisions of route().                             *)
LEMMA RouteChoice ==
  ASSUME TypeOK, NEW cap, NEW preferred, NEW r \in Routes(cap, preferred)
  PROVE  /\ ~r.cold => Ready(r.dep)
         /\ r.victim # NoDep => EvictionCandidate(r.victim)
         /\ r.cold /\ r.dep # NoDep => ~Ready(r.dep)
<1>1. CASE r \in ServePreferred(cap, preferred)
  BY <1>1 DEF ServePreferred, PreferredReady, Decision
<1>2. CASE r \in ServeIdle(cap)
  BY <1>2 DEF ServeIdle, ReadyIdle, Decision
<1>3. CASE r \in ScaleOut(cap, preferred)
  <2>1. \A x \in OnDisk(cap) : x.dep # NoDep => ~Ready(x.dep)
    BY DEF OnDisk, Startable, Ready
  <2>2. \A v \in LongestIdle : EvictionCandidate(v)
    BY DEF LongestIdle
  <2>3. PICK x \in OnDisk(cap), v \in LongestIdle \cup {NoDep} :
             r.model = x.model /\ r.dep = x.dep /\ r.victim \in {v, NoDep} /\ r.cold = TRUE
    BY <1>3 DEF ScaleOut, Decision
  <2> QED BY <2>1, <2>2, <2>3
<1>4. CASE r \in QueueOnActive(cap)
  <2>1. PICK d \in ReadyBusy(cap) \cup Booting(cap) : r = Decision(deployment[d].model, d, NoDep, Startable(d))
    BY <1>4, Zenon DEF QueueOnActive
  <2>2. Ready(d) \/ Startable(d)
    BY <2>1 DEF ReadyBusy, Booting
  <2>3. Startable(d) => ~Ready(d)
    BY DEF Startable, Ready
  <2> QED BY <2>1, <2>2, <2>3 DEF Decision
<1> QED BY <1>1, <1>2, <1>3, <1>4 DEF Routes

(* A deployment that may be evicted or unloaded has no users.              *)
LEMMA IdleHasNoUsers ==
  ASSUME IInv, ActiveCounts, NEW d \in Deps, active[d] = 0
  PROVE  \A c \in Clients : ~Serving(c, d)
<1> SUFFICES ASSUME NEW c \in Clients, Serving(c, d) PROVE FALSE
  OBVIOUS
<1>1. Users(d) # {}
  BY DEF Users
<1> QED BY <1>1, UsersAreFinite, FS_EmptySet DEF ActiveCounts, Users

(* So no request runs on the victim of an eviction.                        *)
LEMMA CandidateHasNoUsers ==
  ASSUME IInv, ActiveCounts, BusyIsHot, NEW d \in Deps, EvictionCandidate(d)
  PROVE  \A c \in Clients : ~Serving(c, d)
<1>1. lifecycle[d].state # "HOT"
  BY DEF EvictionCandidate
<1>2. active[d] \in Nat /\ ~(active[d] > 0)
  BY <1>1 DEF BusyIsHot, IInv, TypeOK
<1>3. active[d] = 0
  BY <1>2
<1> QED BY <1>3, IdleHasNoUsers

(* While one coroutine runs the others only advance on threads, where they *)
(* change neither the tables nor the ledger.                               *)
LEMMA OffTheLoop ==
  ASSUME NEW c \in Coroutines, loop \notin {c, Nobody},
         Receive(c) \/ RequestStep(c) \/ (c = Prewarm /\ PrewarmStep)
  PROVE  UNCHANGED <<registryVars, allocated, active, loop>>
<1> USE DEF Runs
<1>1. CASE RunDocker(c) \/ RunDockerFails(c) \/ Cleanup(c)
  BY <1>1 DEF RunDocker, RunDockerFails, Cleanup
<1>2. CASE Receive(c) \/ Onboard(c) \/ OnboardFails(c) \/ Route(c) \/ RouteFails(c) \/ Evict(c) \/ EvictFails(c)
  BY <1>2 DEF Receive, Onboard, OnboardFails, Route, RouteFails, Evict, EvictFails
<1>3. CASE LockModel(c) \/ Recheck(c) \/ PrewarmLocked(c) \/ Boot(c) \/ BootNoPort(c) \/ Booted(c) \/ PollTimeout(c)
           \/ ColdStartFails(c) \/ Begin(c) \/ Finish(c)
  BY <1>3 DEF LockModel, Recheck, PrewarmLocked, Boot, BootNoPort, Booted, PollTimeout, ColdStartFails, Begin, Finish
<1>4. CASE c = Prewarm /\ (PrewarmStart \/ PrewarmPick \/ PrewarmEnd \/ PrewarmCreate \/ PrewarmBooted \/ PrewarmFails)
  BY <1>4 DEF PrewarmStart, PrewarmPick, PrewarmEnd, PrewarmCreate, PrewarmBooted, PrewarmFails
<1> QED BY <1>1, <1>2, <1>3, <1>4 DEF RequestStep, ColdStartStep, PrewarmStep

(* Only an eviction takes a deployment out of service, only a boot that    *)
(* ends well puts one into it.                                             *)
LEMMA ClientTable ==
  ASSUME IInv, BootsAreNeeded, NEW c \in Clients, Receive(c) \/ RequestStep(c), NEW d \in Deps
  PROVE  /\ Ready(d) /\ ~Ready(d)' => Evict(c) /\ d = job[c].victim
         /\ Ready(d)' => Ready(d) \/ Booted(c)
<1> c \in Coroutines /\ deployment \in [Deps -> DeploymentRecord]
  BY DEF Coroutines, IInv, TypeOK
<1>1. CASE UNCHANGED deployment
  BY <1>1 DEF Ready
<1>2. CASE Evict(c)
  <2>1. ~Ready(d)' \/ (d # job[c].victim /\ deployment'[d] = deployment[d])
    BY <1>2 DEF Evict, SetStatus, Ready
  <2> QED BY <1>2, <2>1 DEF Ready, Evict, SetStatus
<1>3. CASE Onboard(c)
  <2>1. PICK n \in Deps : IsNewDeployment(n) /\ SaveDeployment(n, PendingDeployment(job[c].model, FALSE))
    BY <1>3 DEF Onboard
  <2>2. ~Ready(n) /\ ~Ready(n)'
    BY <2>1 DEF IsNewDeployment, Exists, Ready, SaveDeployment, PendingDeployment
  <2>3. d # n => deployment'[d] = deployment[d]
    BY <2>1 DEF SaveDeployment
  <2> QED BY <2>2, <2>3 DEF Ready
<1>4. CASE ColdStartFails(c)
  <2>1. job[c].dep # NoDep => ~Ready(job[c].dep)
    BY <1>4 DEF ColdStartFails, At, BootsAreNeeded, HoldsBootLock
  <2>2. \/ deployment' = deployment
        \/ job[c].dep # NoDep /\ SetStatus(job[c].dep, "failed")
    BY <1>4 DEF ColdStartFails
  <2>3. CASE deployment' = deployment
    BY <2>3 DEF Ready
  <2>4. CASE job[c].dep # NoDep /\ SetStatus(job[c].dep, "failed")
    <3>1. deployment'[d] = deployment[d] \/ (~Ready(d) /\ ~Ready(d)')
      BY <2>1, <2>4 DEF SetStatus, Ready
    <3> QED BY <3>1 DEF Ready
  <2> QED BY <2>2, <2>3, <2>4
<1>5. CASE Booted(c)
  <2>1. PICK n \in Deps : SaveDeployment(n, ReadyRecord(job[c].model, job[c].port, Permanent(n)))
    BY <1>5 DEF Booted
  <2>2. deployment'[d] = deployment[d] \/ Ready(d)'
    BY <2>1 DEF SaveDeployment, ReadyRecord, Ready
  <2> QED BY <1>5, <2>2 DEF Ready
<1>6. UNCHANGED deployment \/ Evict(c) \/ Onboard(c) \/ ColdStartFails(c) \/ Booted(c)
  <2>1. CASE Receive(c) \/ OnboardFails(c) \/ Route(c) \/ RouteFails(c) \/ EvictFails(c) \/ Begin(c) \/ Finish(c)
    BY <2>1 DEF Receive, OnboardFails, Route, RouteFails, EvictFails, Begin, Finish, registryVars
  <2>2. CASE LockModel(c) \/ Recheck(c) \/ PrewarmLocked(c) \/ Boot(c) \/ BootNoPort(c) \/ RunDocker(c)
             \/ RunDockerFails(c) \/ PollTimeout(c) \/ Cleanup(c)
    BY <2>2 DEF LockModel, Recheck, PrewarmLocked, Boot, BootNoPort, RunDocker, RunDockerFails,
       PollTimeout, Cleanup, registryVars
  <2> QED BY <2>1, <2>2 DEF RequestStep, ColdStartStep
<1> QED BY <1>1, <1>2, <1>3, <1>4, <1>5, <1>6

(* The pre-warm task: only its start takes a deployment out of service.    *)
LEMMA PrewarmTable ==
  ASSUME IInv, BootsAreNeeded, PrewarmStep, NEW d \in Deps
  PROVE  /\ Ready(d) /\ ~Ready(d)' => PrewarmStart
         /\ Ready(d)' => Ready(d) \/ PrewarmBooted
<1> Prewarm \in Coroutines /\ deployment \in [Deps -> DeploymentRecord]
  BY DEF Coroutines, IInv, TypeOK
<1>1. CASE UNCHANGED deployment
  BY <1>1 DEF Ready
<1>2. CASE PrewarmStart
  BY <1>2 DEF PrewarmStart, Ready, AbsentDeployment
<1>3. CASE Onboard(Prewarm) \/ PrewarmCreate
  <2>1. PICK n \in Deps, b \in BOOLEAN : IsNewDeployment(n) /\ SaveDeployment(n, PendingDeployment(job[Prewarm].model, b))
    BY <1>3 DEF Onboard, PrewarmCreate
  <2>2. ~Ready(n) /\ ~Ready(n)'
    BY <2>1 DEF IsNewDeployment, Exists, Ready, SaveDeployment, PendingDeployment
  <2>3. d # n => deployment'[d] = deployment[d]
    BY <2>1 DEF SaveDeployment
  <2> QED BY <2>2, <2>3 DEF Ready
<1>4. CASE PrewarmFails
  <2>1. job[Prewarm].dep # NoDep => ~Ready(job[Prewarm].dep)
    BY <1>4 DEF PrewarmFails, At, BootsAreNeeded, HoldsBootLock
  <2>2. SetStatus(job[Prewarm].dep, "failed")
    BY <1>4 DEF PrewarmFails
  <2>3. d # NoDep
    BY DEF Deps, NoDep
  <2>4. deployment'[d] = deployment[d] \/ (~Ready(d) /\ ~Ready(d)')
    BY <2>1, <2>2, <2>3 DEF SetStatus, Ready
  <2> QED BY <2>4 DEF Ready
<1>5. CASE PrewarmBooted
  <2>1. deployment'[d] = deployment[d] \/ Ready(d)'
    BY <1>5 DEF PrewarmBooted, SaveDeployment, ReadyRecord, Ready
  <2> QED BY <1>5, <2>1 DEF Ready
<1>6. UNCHANGED deployment \/ PrewarmStart \/ PrewarmCreate \/ PrewarmFails \/ PrewarmBooted \/ Onboard(Prewarm)
  <2>1. CASE PrewarmPick \/ PrewarmEnd \/ OnboardFails(Prewarm)
    BY <2>1 DEF PrewarmPick, PrewarmEnd, OnboardFails, registryVars
  <2>2. CASE ColdStartStep(Prewarm)
    BY <2>2, CoroutinesAssumption DEF ColdStartStep, LockModel, Recheck, PrewarmLocked, Boot, BootNoPort, RunDocker,
       RunDockerFails, Booted, PollTimeout, Cleanup, ColdStartFails, registryVars
  <2> QED BY <2>1, <2>2 DEF PrewarmStep
<1> QED BY <1>1, <1>2, <1>3, <1>4, <1>5, <1>6

(* What a request relies on when it moves on.                              *)
Relies(c) ==
  /\ pc[c] = "evict" => loop = c /\ EvictionCandidate(job[c].victim)
  /\ pc[c] = "touch" => loop = c /\ Ready(job[c].dep)
  /\ pc[c] \in HoldsBootLock /\ job[c].dep # NoDep => ~Ready(job[c].dep)
  /\ pc[c] = "generate" => Ready(job[c].dep)

(* A fallback ends on a READY deployment.                                  *)
LEMMA FallBackIsReady ==
  ASSUME IInv, NEW c \in Clients, NEW table, FallBack(c, table)
  PROVE  /\ pc'[c] \in {"touch", "idle"}
         /\ pc'[c] = "touch" => loop' = c /\ table[job'[c].dep].status = "ready"
<1> c \in Coroutines
  BY DEF Coroutines
<1> USE DEF IInv, TypeOK, SetJob, Go, Keeps
<1>1. CASE \E f \in Fallback(table, job[c].cap) :
              /\ SetJob(c, [job[c] EXCEPT !.dep = f])
              /\ Go(c, "touch") /\ Keeps(c)
  <2>1. PICK f \in Fallback(table, job[c].cap) :
              /\ SetJob(c, [job[c] EXCEPT !.dep = f])
              /\ Go(c, "touch") /\ Keeps(c)
    BY <1>1
  <2>2. job'[c].dep = f
    BY <2>1 DEF Job
  <2> QED BY <2>1, <2>2 DEF Fallback
<1>2. CASE Go(c, "idle")
  BY <1>2
<1> QED BY <1>1, <1>2 DEF FallBack

(* Routing, eviction and serving.                                          *)
LEMMA ServingRelies ==
  ASSUME IInv, LeaseInv, NEW c \in Clients,
         Receive(c) \/ Onboard(c) \/ OnboardFails(c) \/ Route(c) \/ RouteFails(c) \/ Evict(c)
         \/ EvictFails(c) \/ Begin(c) \/ Finish(c)
  PROVE  Relies(c)'
<1> c \in Coroutines /\ c # Prewarm
  BY CoroutinesAssumption DEF Coroutines
<1> USE DEF IInv, TypeOK, At, Go
<1>1. CASE Route(c)
  <2>1. PICK r \in Routes(job[c].cap, job[c].model) :
         /\ SetJob(c, [job[c] EXCEPT !.model = r.model, !.dep = r.dep, !.victim = r.victim])
         /\ IF r.cold /\ r.dep # NoDep THEN Allocate(r.dep, MemOf[r.model]) ELSE UNCHANGED allocated
         /\ Go(c, IF r.victim # NoDep THEN "evict" ELSE IF r.cold THEN "lock" ELSE "touch")
    BY <1>1 DEF Route
  <2>2. job'[c].dep = r.dep /\ job'[c].victim = r.victim
    BY <2>1 DEF SetJob, Job
  <2>3. UNCHANGED <<deployment, lifecycle>> /\ loop' = c
    BY <1>1 DEF Route, Keeps, registryVars
  <2>4. CASE r.victim # NoDep
    <3>1. EvictionCandidate(r.victim) /\ r.victim \in Deps
      BY <2>4, RouteChoice, RouteTypes
    <3>2. allocated'[r.victim] = allocated[r.victim]
      BY <2>1, <3>1, RouteChoice DEF Allocate, EvictionCandidate
    <3>3. (EvictionCandidate(job[c].victim))'
      BY <2>2, <2>3, <3>1, <3>2 DEF EvictionCandidate, IsAllocated, Ready, Permanent
    <3>4. pc'[c] = "evict"
      BY <2>1, <2>4
    <3> QED BY <2>3, <3>3, <3>4 DEF Relies, HoldsBootLock
  <2>5. CASE r.victim = NoDep /\ ~r.cold
    <3>1. Ready(r.dep) /\ pc'[c] = "touch"
      BY <2>1, <2>5, RouteChoice
    <3> QED BY <2>2, <2>3, <3>1 DEF Relies, HoldsBootLock, Ready
  <2>6. CASE r.victim = NoDep /\ r.cold
    <3>1. pc'[c] = "lock"
      BY <2>1, <2>6
    <3> QED BY <3>1 DEF Relies, HoldsBootLock
  <2> QED BY <2>4, <2>5, <2>6
<1>2. CASE Begin(c)
  <2>1. pc'[c] = "generate" /\ job'[c].dep = job[c].dep /\ pc[c] = "touch"
    BY <1>2 DEF Begin, SetJob, NoJob
  <2>2. Ready(job[c].dep) /\ deployment' = deployment
    BY <1>2, <2>1 DEF Begin, LeaseInv, Chosen
  <2> QED BY <2>1, <2>2 DEF Relies, HoldsBootLock, Ready
<1>3. CASE Receive(c) \/ Onboard(c) \/ OnboardFails(c) \/ RouteFails(c) \/ Evict(c) \/ EvictFails(c) \/ Finish(c)
  <2>1. pc'[c] \in {"idle", "download", "route", "lock"}
    BY <1>3 DEF Receive, Onboard, OnboardFails, RouteFails, Evict, EvictFails, Finish
  <2> QED BY <2>1 DEF Relies, HoldsBootLock
<1> QED BY <1>1, <1>2, <1>3

(* The cold start of a request.                                            *)
LEMMA ColdStartRelies ==
  ASSUME IInv, LeaseInv, NEW c \in Clients, ColdStartStep(c)
  PROVE  Relies(c)'
<1> c \in Coroutines /\ c # Prewarm
  BY CoroutinesAssumption DEF Coroutines
<1> USE DEF IInv, TypeOK, At, Go, Keeps
<1>1. CASE LockModel(c)
  <2>1. pc'[c] = "recheck"
    BY <1>1 DEF LockModel
  <2> QED BY <2>1 DEF Relies, HoldsBootLock
<1>2. CASE Recheck(c)
  <2>1. deployment' = deployment
    BY <1>2 DEF Recheck, registryVars
  <2>2. CASE StatusOf(job[c].dep) = "ready" /\ Go(c, "touch") /\ Keeps(c) /\ job' = job
    <3>1. Ready(job[c].dep)
      BY <2>2 DEF StatusOf, Ready
    <3>2. pc'[c] = "touch" /\ loop' = c
      BY <2>2
    <3> QED BY <2>1, <2>2, <3>1, <3>2 DEF Relies, HoldsBootLock, Ready
  <2>3. CASE FallBack(c, deployment)
    BY <2>1, <2>3, FallBackIsReady DEF Relies, HoldsBootLock, Ready
  <2>4. CASE WaitForBoot(c)
    BY <2>4 DEF WaitForBoot, Relies, HoldsBootLock
  <2> QED BY <1>2, <2>2, <2>3, <2>4 DEF Recheck
<1>3. CASE Boot(c) \/ BootNoPort(c)
  <2>1. deployment' = deployment
    BY <1>3 DEF Boot, BootNoPort, registryVars
  <2>2. CASE Boot(c) /\ StatusOf(job[c].dep) = "ready"
    <3>1. pc'[c] = "touch" /\ loop' = c /\ job'[c] = job[c]
      BY <2>2 DEF Boot, AlreadyBooted, SetJob
    <3>2. Ready(job[c].dep)
      BY <2>2 DEF StatusOf, Ready
    <3> QED BY <2>1, <3>1, <3>2 DEF Relies, HoldsBootLock, Ready
  <2>3. CASE StatusOf(job[c].dep) # "ready"
    <3>1. job'[c].dep = job[c].dep /\ pc'[c] \in {"docker", "failed"}
      BY <1>3, <2>3 DEF Boot, ReservePort, BootNoPort, SetJob, Job
    <3>2. job[c].dep # NoDep => ~Ready(job[c].dep)
      BY <2>3 DEF StatusOf, Ready
    <3> QED BY <2>1, <3>1, <3>2 DEF Relies, HoldsBootLock, Ready
  <2> QED BY <1>3, <2>2, <2>3 DEF BootNoPort
<1>4. CASE RunDocker(c) \/ RunDockerFails(c) \/ PollTimeout(c) \/ Cleanup(c)
  <2>1. /\ pc[c] \in HoldsBootLock /\ pc'[c] \in HoldsBootLock
        /\ job'[c].dep = job[c].dep
        /\ deployment' = deployment
    BY <1>4 DEF RunDocker, RunDockerFails, PollTimeout, Cleanup, SetJob, Job, registryVars, HoldsBootLock
  <2> QED BY <2>1 DEF LeaseInv, BootsAreNeeded, Relies, HoldsBootLock, Ready
<1>5. CASE Booted(c)
  <2>1. PICK d \in Deps : /\ SaveDeployment(d, ReadyRecord(job[c].model, job[c].port, Permanent(d)))
                          /\ SetJob(c, [job[c] EXCEPT !.dep = d])
    BY <1>5 DEF Booted
  <2>2. job'[c].dep = d /\ Ready(d)'
    BY <2>1 DEF SetJob, Job, SaveDeployment, ReadyRecord, Ready
  <2>3. pc'[c] = "touch" /\ loop' = c
    BY <1>5 DEF Booted
  <2> QED BY <2>2, <2>3 DEF Relies, HoldsBootLock, Ready
<1>6. CASE ColdStartFails(c)
  <2>1. FallBack(c, deployment')
    BY <1>6 DEF ColdStartFails
  <2> QED BY <2>1, FallBackIsReady DEF Relies, HoldsBootLock, Ready
<1> QED BY <1>1, <1>2, <1>3, <1>4, <1>5, <1>6 DEF ColdStartStep, PrewarmLocked

(* The boots of the pre-warm task.                                         *)
LEMMA PrewarmRelies ==
  ASSUME IInv, BootsAreNeeded, PrewarmStep, pc'[Prewarm] \in HoldsBootLock, job'[Prewarm].dep # NoDep
  PROVE  ~Ready(job[Prewarm].dep)'
<1> Prewarm \in Coroutines /\ Prewarm \notin Clients
  BY CoroutinesAssumption DEF Coroutines
<1> USE DEF IInv, TypeOK, At, Go
<1>1. CASE \/ PrewarmStart \/ PrewarmPick \/ PrewarmEnd \/ PrewarmCreate \/ PrewarmBooted \/ PrewarmFails
           \/ Onboard(Prewarm) \/ OnboardFails(Prewarm) \/ LockModel(Prewarm) \/ PrewarmLocked(Prewarm)
  BY <1>1 DEF PrewarmStart, PrewarmPick, PrewarmEnd, PrewarmCreate, PrewarmBooted, PrewarmFails,
     Onboard, OnboardFails, LockModel, PrewarmLocked, WaitForBoot, HoldsBootLock
<1>2. CASE Boot(Prewarm) \/ BootNoPort(Prewarm)
  <2>1. deployment' = deployment
    BY <1>2 DEF Boot, BootNoPort, registryVars
  <2>2. StatusOf(job[Prewarm].dep) # "ready"
    BY <1>2 DEF Boot, AlreadyBooted, BootNoPort, HoldsBootLock
  <2>3. job'[Prewarm].dep = job[Prewarm].dep
    BY <1>2, <2>2 DEF Boot, ReservePort, BootNoPort, SetJob, Job
  <2> QED BY <2>1, <2>2, <2>3 DEF StatusOf, Ready
<1>3. CASE RunDocker(Prewarm) \/ RunDockerFails(Prewarm) \/ PollTimeout(Prewarm) \/ Cleanup(Prewarm)
  <2>1. /\ pc[Prewarm] \in HoldsBootLock
        /\ job'[Prewarm].dep = job[Prewarm].dep
        /\ deployment' = deployment
    BY <1>3 DEF RunDocker, RunDockerFails, PollTimeout, Cleanup, SetJob, Job, registryVars, HoldsBootLock
  <2> QED BY <2>1 DEF BootsAreNeeded, Ready
<1> QED BY <1>1, <1>2, <1>3 DEF PrewarmStep, ColdStartStep, Recheck, Booted, ColdStartFails

(* Two coroutines do not boot at the same time.                            *)
LEMMA OneBoots ==
  ASSUME IInv, NEW c \in Coroutines, NEW e \in Coroutines,
         pc[c] \in HoldsBootLock, pc[e] \in HoldsBootLock
  PROVE  c = e
BY DEF IInv, LocksAreHeld, Holds

(* A client's step: nobody's choice or boot is invalidated by another's.   *)
LEMMA ClientKeepsLease ==
  ASSUME IInv, ActiveCounts, BusyIsHot, LeaseInv, NEW c \in Clients, Receive(c) \/ RequestStep(c)
  PROVE  LeaseInv'
<1> USE DEF LeaseInv
<1> c \in Coroutines /\ c # Nobody /\ \A e \in Clients : e \in Coroutines /\ e # Nobody
  BY CoroutinesAssumption DEF Coroutines
<1>1. Relies(c)'
  BY ServingRelies, ColdStartRelies DEF RequestStep
<1>2. \A e \in Coroutines : e # c => pc'[e] = pc[e] /\ job'[e] = job[e]
  BY ClientMoves
<1>3. ASSUME NEW e \in Clients, e # c, loop = e
      PROVE  UNCHANGED <<registryVars, allocated, active, loop>>
  BY <1>3, OffTheLoop
<1>4. Chosen'
  <2>1. ASSUME NEW e \in Clients, e # c, pc[e] = "evict"
        PROVE  (loop = e /\ EvictionCandidate(job[e].victim))'
    <3>1. loop = e /\ EvictionCandidate(job[e].victim)
      BY <2>1 DEF Chosen
    <3> QED BY <1>2, <1>3, <2>1, <3>1 DEF EvictionCandidate, IsAllocated, Ready, Permanent, registryVars
  <2>2. ASSUME NEW e \in Clients, e # c, pc[e] = "touch"
        PROVE  (loop = e /\ Ready(job[e].dep))'
    <3>1. loop = e /\ Ready(job[e].dep)
      BY <2>2 DEF Chosen
    <3> QED BY <1>2, <1>3, <2>2, <3>1 DEF Ready, registryVars
  <2> QED BY <1>1, <1>2, <2>1, <2>2 DEF Chosen, Relies
<1>5. BootsAreNeeded'
  <2>1. ASSUME NEW e \in Coroutines, e # c, pc[e] \in HoldsBootLock, job[e].dep # NoDep
        PROVE  ~Ready(job[e].dep)'
    <3>1. job[e].dep \in Deps /\ job'[e] = job[e]
      BY <1>2, <2>1 DEF IInv, TypeOK, Job
    <3>2. ~Ready(job[e].dep)
      BY <2>1 DEF BootsAreNeeded
    <3>3. ~Booted(c)
      BY <2>1, OneBoots DEF Booted, At, HoldsBootLock
    <3>4. ~deployment'[job[e].dep].status = "ready"
      BY <3>1, <3>2, <3>3, ClientTable DEF Ready
    <3> QED BY <3>1, <3>4 DEF Ready
  <2> QED BY <1>1, <1>2, <2>1 DEF BootsAreNeeded, Relies
<1>6. ServingReady'
  <2>1. ASSUME NEW e \in Clients, e # c, NEW d \in Deps, Serving(e, d) PROVE Ready(d)'
    <3>1. Ready(d)
      BY <2>1 DEF ServingReady
    <3>2. ~(Evict(c) /\ d = job[c].victim)
      BY <2>1, CandidateHasNoUsers DEF Evict, At, Chosen
    <3> QED BY <3>1, <3>2, ClientTable
  <2> QED BY <1>1, <1>2, <2>1 DEF ServingReady, Serving, Relies
<1> QED BY <1>4, <1>5, <1>6

(* A step of the pre-warm task: it starts when no request is in flight.    *)
LEMMA PrewarmKeepsLease ==
  ASSUME IInv, QuietAtStart, LeaseInv, PrewarmStep
  PROVE  LeaseInv'
<1> USE DEF LeaseInv
<1> /\ Prewarm \in Coroutines
    /\ \A e \in Clients : e \in Coroutines /\ e # Nobody /\ e # Prewarm
    /\ \A e \in Coroutines : e = Prewarm \/ e \in Clients
  BY CoroutinesAssumption DEF Coroutines
<1>1. \A e \in Clients : pc'[e] = pc[e] /\ job'[e] = job[e]
  BY PrewarmMoves
<1>2. ASSUME NEW e \in Clients, loop = e
      PROVE  UNCHANGED <<registryVars, allocated, active, loop>>
  BY <1>2, OffTheLoop
<1>3. Chosen'
  <2>1. ASSUME NEW e \in Clients, pc[e] = "evict"
        PROVE  (loop = e /\ EvictionCandidate(job[e].victim))'
    <3>1. loop = e /\ EvictionCandidate(job[e].victim)
      BY <2>1 DEF Chosen
    <3> QED BY <1>1, <1>2, <3>1 DEF EvictionCandidate, IsAllocated, Ready, Permanent, registryVars
  <2>2. ASSUME NEW e \in Clients, pc[e] = "touch"
        PROVE  (loop = e /\ Ready(job[e].dep))'
    <3>1. loop = e /\ Ready(job[e].dep)
      BY <2>2 DEF Chosen
    <3> QED BY <1>1, <1>2, <3>1 DEF Ready, registryVars
  <2> QED BY <1>1, <2>1, <2>2 DEF Chosen
<1>4. BootsAreNeeded'
  <2>1. ASSUME NEW e \in Clients, pc[e] \in HoldsBootLock, job[e].dep # NoDep
        PROVE  ~Ready(job[e].dep)'
    <3>1. job[e].dep \in Deps /\ job'[e] = job[e]
      BY <1>1, <2>1 DEF IInv, TypeOK, Job
    <3>2. ~Ready(job[e].dep)
      BY <2>1 DEF BootsAreNeeded
    <3>3. ~PrewarmBooted
      BY <2>1, OneBoots DEF PrewarmBooted, At, HoldsBootLock
    <3>4. ~deployment'[job[e].dep].status = "ready"
      BY <3>1, <3>2, <3>3, PrewarmTable DEF Ready
    <3> QED BY <3>1, <3>4 DEF Ready
  <2> QED BY <1>1, <2>1, PrewarmRelies DEF BootsAreNeeded
<1>5. ServingReady'
  <2>1. ASSUME NEW e \in Clients, NEW d \in Deps, Serving(e, d) PROVE Ready(d)'
    <3>1. Ready(d)
      BY <2>1 DEF ServingReady
    <3>2. ~PrewarmStart
      BY <2>1 DEF PrewarmStart, At, QuietAtStart, Serving
    <3> QED BY <3>1, <3>2, PrewarmTable
  <2> QED BY <1>1, <2>1 DEF ServingReady, Serving
<1> QED BY <1>3, <1>4, <1>5

(* A worker tick unloads idle deployments only.                            *)
LEMMA TickKeepsLease ==
  ASSUME IInv, ActiveCounts, LeaseInv, Tick
  PROVE  LeaseInv'
<1> USE DEF LeaseInv
<1> \A e \in Clients : e \in Coroutines /\ e # Nobody
  BY CoroutinesAssumption DEF Coroutines
<1>1. pc' = pc /\ job' = job /\ loop = Nobody
  BY DEF Tick, coroutineVars
<1>2. Chosen'
  BY <1>1 DEF Chosen
<1>3. ASSUME NEW d \in Deps
      PROVE  /\ Ready(d)' => Ready(d)
             /\ Ready(d) /\ ~Ready(d)' => Expires(d)
  <2>1. PICK stop : TickUpTo(stop)
    BY DEF Tick
  <2>2. deployment'[d] = IF Expires(d) /\ d < stop THEN [deployment[d] EXCEPT !.status = "unloaded"]
                         ELSE deployment[d]
    BY <2>1 DEF TickUpTo
  <2> QED BY <2>2 DEF Ready, Expires, Due
<1>4. BootsAreNeeded'
  <2>1. ASSUME NEW e \in Coroutines, pc[e] \in HoldsBootLock, job[e].dep # NoDep
        PROVE  ~Ready(job[e].dep)'
    <3>1. job[e].dep \in Deps
      BY <2>1 DEF IInv, TypeOK, Job
    <3>2. ~Ready(job[e].dep)
      BY <2>1 DEF BootsAreNeeded
    <3> QED BY <1>1, <1>3, <3>1, <3>2 DEF Ready
  <2> QED BY <1>1, <2>1 DEF BootsAreNeeded
<1>5. ServingReady'
  <2>1. ASSUME NEW e \in Clients, NEW d \in Deps, Serving(e, d) PROVE Ready(d)'
    <3>1. Ready(d)
      BY <2>1 DEF ServingReady
    <3>2. active[d] \in Nat /\ active[d] # 0
      BY <2>1, IdleHasNoUsers DEF IInv, TypeOK
    <3>3. ~Expires(d)
      BY <3>2, AdvanceKeepsBusyHot DEF Expires, Advanced, IInv, TypeOK
    <3> QED BY <1>3, <3>1, <3>3
  <2> QED BY <1>1, <2>1 DEF ServingReady, Serving
<1> QED BY <1>2, <1>4, <1>5

(* Engines touch no table; a restart ends every request.                   *)
LEMMA EnvironmentKeepsLease ==
  ASSUME IInv, LeaseInv, Operators = {}, EnvironmentStep \/ UNCHANGED vars
  PROVE  LeaseInv'
<1> USE DEF LeaseInv
<1>1. CASE UNCHANGED <<registryVars, allocated, pc, job, loop>>
  BY <1>1 DEF Chosen, BootsAreNeeded, ServingReady, Serving, EvictionCandidate, IsAllocated, Ready, Permanent,
     registryVars
<1>2. CASE Restart
  <2>1. \A e \in Coroutines : pc'[e] \in {"start", "idle"}
    BY <1>2 DEF Restart
  <2>2. \A e \in Clients : e \in Coroutines
    BY DEF Coroutines
  <2> QED BY <2>1, <2>2 DEF Chosen, BootsAreNeeded, ServingReady, Serving, HoldsBootLock
<1> QED BY <1>1, <1>2 DEF EnvironmentStep, EngineStarts, EngineCrashes, coroutineVars, vars

(* The lease invariant is inductive together with those of the core.       *)
LEMMA NextLease ==
  Operators = {} /\ IInv /\ ActiveCounts /\ HotInv /\ LeaseInv /\ [Next]_vars => LeaseInv'
BY ClientKeepsLease, PrewarmKeepsLease, TickKeepsLease, EnvironmentKeepsLease
   DEF HotInv, Next, ServiceStep

(* Without hand-made deployments the invariants hold together.             *)
LEMMA LeaseInductive ==
  ASSUME Operators = {}
  PROVE  Spec => [](IInv /\ LeaseInv)
<1> DEFINE Inv == IInv /\ ActiveCounts /\ HotInv /\ LeaseInv
<1>1. Init => HotInv /\ LeaseInv
  BY CoroutinesAssumption
     DEF Init, HotInv, QuietAtStart, BusyIsHot, Coroutines, LeaseInv, Chosen, BootsAreNeeded, ServingReady,
         Serving, HoldsBootLock
<1>2. IInv /\ ActiveCounts /\ HotInv /\ LeaseInv /\ [Next]_vars => HotInv' /\ LeaseInv'
  BY NextHot, NextLease
<1> QED BY <1>1, <1>2, Inductive, CountsAreExact, PTL DEF Spec

(* No request is generated on a deployment that left service: eviction,    *)
(* worker and cold start never take it away under the request.             *)
THEOREM NothingUnloadedInUse ==
  ASSUME Operators = {}
  PROVE  Spec => []ServingReady
<1>1. LeaseInv => ServingReady
  BY DEF LeaseInv
<1> QED BY <1>1, LeaseInductive, PTL

(* Which rows are of an earlier run changes at a start only.               *)
LEMMA GhostsStay ==
  ASSUME ServiceStep \/ Tick, ~PrewarmStart
  PROVE  ghosts' = ghosts
<1>1. \A c : Receive(c) \/ Onboard(c) \/ OnboardFails(c) \/ Route(c) \/ RouteFails(c) \/ Evict(c) \/ EvictFails(c)
             \/ Begin(c) \/ Finish(c) => ghosts' = ghosts
  BY DEF Receive, Onboard, OnboardFails, Route, RouteFails, Evict, EvictFails, Begin, Finish, taskVars
<1>2. \A c : ColdStartStep(c) => ghosts' = ghosts
  BY DEF ColdStartStep, LockModel, Recheck, PrewarmLocked, Boot, BootNoPort, RunDocker, RunDockerFails, Booted,
     PollTimeout, Cleanup, ColdStartFails, taskVars
<1>3. PrewarmPick \/ PrewarmEnd \/ PrewarmCreate \/ PrewarmBooted \/ PrewarmFails => ghosts' = ghosts
  BY DEF PrewarmPick, PrewarmEnd, PrewarmCreate, PrewarmBooted, PrewarmFails, taskVars
<1>4. Tick => ghosts' = ghosts
  BY DEF Tick, taskVars
<1> QED BY <1>1, <1>2, <1>3, <1>4 DEF ServiceStep, PrewarmStep, RequestStep
=============================================================================
