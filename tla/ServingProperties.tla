------------------------- MODULE ServingProperties -------------------------
(***************************************************************************)
(* What the serving core guarantees, and what its documentation says of it *)
(* that it does not guarantee.                                             *)
(***************************************************************************)
EXTENDS ServingCore

(* Every variable has its type.                                            *)
TypeOK ==
  /\ registered \in Seq(Models)
  /\ deployment \in [Deps -> DeploymentRecord]
  /\ lifecycle \in [Deps -> LifecycleRecord]
  /\ allocated \in [Deps -> Nat]
  /\ active \in [Deps -> Nat]
  /\ container \in [Names -> Container]
  /\ reserved \subseteq Ports
  /\ modelLock \in [Models -> Seq(Coroutines)]
  /\ bootLock \in Seq(Coroutines)
  /\ loop \in Coroutines \cup {Nobody}
  /\ pc \in [Coroutines -> Labels]
  /\ job \in [Coroutines -> Job]
  /\ pending \in Seq(Capabilities)
  /\ known \in Seq(Models)
  /\ snapshot \in [Operators -> Snapshot]
  /\ restarts \in Nat
  /\ ghosts \subseteq Deps

Serving(c, d) == pc[c] = "generate" /\ job[c].dep = d

(* The coroutine works on the cold start of the deployment in its job.     *)
ColdStarting(c) == pc[c] \in {"evict", "lock", "recheck", "boot", "docker", "poll", "cleanup", "failed"}

InBoot(c) == pc[c] \in {"docker", "poll", "cleanup"}

-----------------------------------------------------------------------------
(* The active counter of a deployment, from which the router, the worker   *)
(* and the fallback decide, is the number of requests being generated on   *)
(* it: no request is counted twice, lost, or counted off when another one  *)
(* ended.                                                                  *)
ActiveCounts ==
  \A d \in Deps : active[d] = Cardinality({c \in Clients : Serving(c, d)})

(* A deployment with requests in flight is HOT: neither eviction nor the   *)
(* worker, which only look at the lifecycle state, can choose it.          *)
BusyIsHot == \A d \in Deps : active[d] > 0 => lifecycle[d].state = "HOT"

(* Requests are generated on READY deployments only, from beginning to     *)
(* end: no eviction, worker tick or failed cold start takes a deployment   *)
(* out of service under a request.                                         *)
ServingReady == \A c \in Clients, d \in Deps : Serving(c, d) => Ready(d)

(* A request is only ever served by a model that has the capability asked  *)
(* for, also when it was queued on a deployment that failed and fell back  *)
(* to another one.                                                         *)
ServedCapably ==
  \A c \in Clients, d \in Deps : Serving(c, d) => job[c].cap \in CapsOf[deployment[d].model]

(* The two locks: one container start at a time in the whole service, and  *)
(* never one for a deployment that is READY, so a request that waited for  *)
(* another one's cold start does not repeat it.                            *)
BootIsExclusive ==
  \A c, e \in Coroutines : InBoot(c) /\ InBoot(e) => c = e

BootNotReady ==
  \A c \in Coroutines : InBoot(c) /\ job[c].dep # NoDep => ~Ready(job[c].dep)

(* The ledger does not leak: VRAM is reserved for deployments that are     *)
(* READY or that some request is starting, whatever order cold starts fail,*)
(* fall back, are evicted or expire in.                                    *)
LedgerJustified ==
  \A d \in Deps : IsAllocated(d) =>
    Ready(d) \/ \E c \in Coroutines : ColdStarting(c) /\ job[c].dep = d

(* Two engines never run on one port: ports of unloaded, failed and        *)
(* crashed containers are not handed out while a container uses them.      *)
PortsAreUnique ==
  \A n, k \in Names : n # k /\ Running(n) /\ Running(k) => container[n].port # container[k].port

(* The endpoint of a READY deployment never reaches another model's engine.*)
EndpointsAreOwn ==
  \A d \in Deps, n \in Names :
    Ready(d) /\ Managed(d) /\ Running(n) /\ container[n].port = deployment[d].port => n = ContainerOf(d)

(* A cold start fails on a port that a READY deployment has as well: they  *)
(* share a container, which died while the cold start was polling it.      *)
NoStrandedFailure ==
  \A c \in Coroutines, d \in Deps :
    pc[c] = "failed" /\ Ready(d) /\ Managed(d) => deployment[d].port # job[c].port

(* That failure gives the shared port back (chat.py:560), and another      *)
(* model can be started on it.  Nothing else ever makes an endpoint reach  *)
(* another model's engine.                                                 *)
EndpointsKept == []NoStrandedFailure => []EndpointsAreOwn

-----------------------------------------------------------------------------
(* An eviction leaves the ledger within the GPU's memory: the victim frees *)
(* enough for the deployment it was evicted for, reserved before.          *)
EvictionMakesRoom ==
  [][\A c \in Clients : pc[c] = "evict" /\ pc'[c] = "lock" => AllocatedVram(allocated') <= TotalVram]_vars

(* The next start of the service forgets the deployment.                   *)
Forgotten(d) == pc[Prewarm] = "start" /\ ~Exists(d)'

(* A FAILED deployment is never used or started again (chat.py:172).       *)
FailedIsForever ==
  [][\A d \in Deps : deployment[d].status = "failed" =>
       deployment'[d].status = "failed" \/ Forgotten(d)]_vars

(* A permanent deployment, once READY, stays READY (chat.py:599-600).      *)
PermanentStaysReady ==
  [][\A d \in Deps : Ready(d) /\ Permanent(d) =>
       deployment'[d].status = "ready" \/ Forgotten(d)]_vars

(* Every permanent deployment that is READY holds its reservation: the     *)
(* router never counts a pre-warmed model's memory as free, after a        *)
(* restart either, whose ledger is empty.  (A ghost is a row that the      *)
(* failing deletion of chat.py:610-620 has left.)                          *)
PermanentIsReserved ==
  pc[Prewarm] # "start" =>
    \A d \in Deps : Ready(d) /\ Permanent(d) =>
      allocated[d] = MemOf[deployment[d].model] \/ d \in ghosts

(* When the pre-warm task is through, none of its deployments is left      *)
(* PENDING: each is READY or FAILED, whatever failed on the way.  Those of *)
(* an earlier run's task are not PENDING either, unless the deletion of    *)
(* the old rows failed.                                                    *)
PrewarmSettles ==
  pc[Prewarm] = "done" =>
    \A d \in Deps : Permanent(d) => deployment[d].status \in {"ready", "failed"} \/ d \in ghosts

(* The serving core implements DeploymentLease: its deployment table and   *)
(* its active counters behave like leases.                                 *)
Lease == INSTANCE DeploymentLease
           WITH status <- [d \in Deps |-> deployment[d].status], users <- active

LeaseRefinement == Lease!LeaseSpec

-----------------------------------------------------------------------------
(* Every request that is received is answered: waiting for the two locks,  *)
(* cold starts that fail or time out and fallbacks all end.                *)
RequestsAreAnswered == \A c \in Clients : pc[c] # "idle" ~> pc[c] = "idle"

(* Scale to zero: no deployment that may be unloaded stays READY and       *)
(* unused for ever, one whose clock has not been started included.         *)
Lingers(d) == Ready(d) /\ ~Permanent(d) /\ active[d] = 0
ScaleToZero == \A d \in Deps : []<>~Lingers(d)

-----------------------------------------------------------------------------
(* Statements of the documentation that the code does not keep.            *)

(* chat.py:117 "Immediately reserve GPU to prevent subsequent concurrent   *)
(* requests from over-subscribing it": a running engine is accounted for.  *)
RunningIsReserved ==
  \A n \in Names : Running(n) => \E d \in Deps : IsAllocated(d) /\ ContainerOf(d) = n

(* lifecycle_worker.py:36-38: the idle clock is reset for a deployment     *)
(* with active requests, without which "the worker unloads the model while *)
(* it is still serving requests": the engine under a request keeps running.*)
ServingEngineStays ==
  [][\A c \in Clients, d \in Deps :
       Serving(c, d) /\ Managed(d) /\ Running(ContainerOf(d)) =>
         container'[ContainerOf(d)].status # "none"]_vars
=============================================================================
