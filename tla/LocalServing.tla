---------------------------- MODULE LocalServing ----------------------------
(***************************************************************************)
(* The serving core on a host without Docker, with the in-process backend  *)
(* HuggingFaceModelServer (serving/huggingface_model_server.py): operators *)
(* load models into the process and take them out again                    *)
(* (services/model_management.py), requests are generated from what is     *)
(* loaded, and every cold start fails at the Docker call.                  *)
(*                                                                         *)
(* deploy() inserts the weights under a new deployment_id before the row   *)
(* of that id exists.  A deployment is numbered when its row is saved, so  *)
(* until then the weights are those of the operator's task.                *)
(***************************************************************************)
EXTENDS ServingProperties

CONSTANTS
  LocalFaults,   \* "save": the registry cannot write
  Accelerators,  \* what PyTorch finds on this host
  Placements,    \* the preferences deploy requests come with, best first
  Lower          \* Lower[s]: the spelling s of a placement in lower case

ASSUME LocalAssumption ==
  /\ LocalFaults \subseteq {"save"}
  /\ Accelerators \subseteq {"cuda", "mps"}
  /\ \A s \in DOMAIN Lower : Lower[s] \in STRING
  /\ "cpu" \in DOMAIN Lower /\ Lower["cpu"] = "cpu"
  /\ \A p \in Placements : p \in Seq(DOMAIN Lower)

VARIABLES
  loaded,        \* _loaded_deployments: the placement of each deployment's weights
  task,          \* what each operator's thread is doing
  view,          \* the deployment whose weights a generation holds
  popped,        \* history: deployments whose weights an unload took out
  stranded       \* history: those of them whose row could not be written

localOnly == <<loaded, task, view, popped, stranded>>
localVars == <<vars, localOnly>>

NoDevice == "none"
(* A task is idle, or has loaded ("save"), saved ("init") or popped        *)
(* ("mark") what it works on.                                              *)
NoTask == [at |-> "idle", model |-> NoModel, device |-> NoDevice, dep |-> NoDep]

IsLoaded(d) == loaded[d] # NoDevice
OperatorIdle(o) == task[o].at = "idle" /\ snapshot[o] = NoSnapshot
SetTask(o, t) == task' = [task EXCEPT ![o] = t]

(* discover_placement_availability: a CPU there always is.                 *)
Available == Accelerators \cup {"cpu"}

(* resolve_placement: the first wanted placement that the host has, however *)
(* it is spelled; cpu is always wanted last.                               *)
ResolvePlacement(wanted) ==
  LET candidates == Append(wanted, "cpu")
      normalized == [i \in DOMAIN candidates |-> Lower[candidates[i]]]
      usable == {i \in DOMAIN candidates : normalized[i] \in Available}
  IN  normalized[CHOOSE i \in usable : \A j \in usable : i <= j]

LocalInit ==
  /\ Init
  /\ loaded = [d \in Deps |-> NoDevice]
  /\ task = [o \in Operators |-> NoTask]
  /\ view = [c \in Clients |-> NoDep]
  /\ popped = {}
  /\ stranded = {}

-----------------------------------------------------------------------------
(* ModelManagementService.deploy_model.                                    *)

(* The model is found, the request suits it, and its weights are loaded:   *)
(* they are in _loaded_deployments, and no row names them yet.  (A request *)
(* for another engine is refused, and a load that fails changes nothing.)  *)
DeployLoads(o) ==
  /\ OperatorIdle(o) /\ pc[Prewarm] # "start"
  /\ \E m \in Models, wanted \in Placements :
       /\ IsRegistered(m)
       /\ SetTask(o, [NoTask EXCEPT !.at = "save", !.model = m, !.device = ResolvePlacement(wanted)])
  /\ UNCHANGED <<vars, loaded, view, popped, stranded>>

(* Wrong variant: the row and the weights get different ids.               *)
DeploySavesOtherId(o) ==
  /\ task[o].at = "save"
  /\ \E d \in Deps :
       /\ IsNewDeployment(d)
       /\ SaveDeployment(d, ReadyRecord(task[o].model, NoPort, FALSE))
       /\ SetTask(o, [task[o] EXCEPT !.at = "init", !.dep = d])
  /\ UNCHANGED <<registered, lifecycle, allocated, active, container, reserved, coroutineVars,
                 taskVars, loaded, view, popped, stranded>>

(* The row is saved as READY ...                                           *)
DeploySaves(o) ==
  /\ task[o].at = "save"
  /\ \E d \in Deps :
       /\ IsNewDeployment(d)
       /\ SaveDeployment(d, ReadyRecord(task[o].model, NoPort, FALSE))
       /\ loaded' = [loaded EXCEPT ![d] = task[o].device]
       /\ SetTask(o, [task[o] EXCEPT !.at = "init", !.dep = d])
  /\ UNCHANGED <<registered, lifecycle, allocated, active, container, reserved, coroutineVars,
                 taskVars, view, popped, stranded>>

(* ... or cannot be: nobody ever learns the id of what stays loaded.       *)
DeploySaveFails(o) ==
  /\ "save" \in LocalFaults
  /\ task[o].at = "save"
  /\ SetTask(o, NoTask)
  /\ UNCHANGED <<vars, loaded, view, popped, stranded>>

(* The lifecycle record follows, and the model's status.                   *)
DeployInits(o) ==
  /\ task[o].at = "init"
  /\ \/ lifecycle' = [lifecycle EXCEPT ![task[o].dep] = Initialize]
     \/ "save" \in LocalFaults /\ UNCHANGED lifecycle
  /\ SetTask(o, NoTask)
  /\ UNCHANGED <<registered, deployment, allocated, active, container, reserved, coroutineVars,
                 taskVars, loaded, view, popped, stranded>>

-----------------------------------------------------------------------------
(* ModelManagementService.unload_model: the row is read (OperatorReads),   *)
(* the weights are taken out, the row is written (OperatorUnloads).        *)

UnloadReads(o) == task[o].at = "idle" /\ OperatorReads(o) /\ UNCHANGED localOnly

(* Wrong variant: whether they are still there is not asked again.         *)
UnloadPopsUnchecked(o) ==
  LET d == snapshot[o].dep IN
  /\ task[o].at = "idle" /\ snapshot[o] # NoSnapshot
  /\ loaded' = [loaded EXCEPT ![d] = NoDevice]
  /\ popped' = popped \cup {d}
  /\ SetTask(o, [NoTask EXCEPT !.at = "mark", !.dep = d])
  /\ UNCHANGED <<vars, view, stranded>>

UnloadPops(o) ==
  LET d == snapshot[o].dep IN
  /\ task[o].at = "idle" /\ snapshot[o] # NoSnapshot
  /\ IsLoaded(d)
  /\ loaded' = [loaded EXCEPT ![d] = NoDevice]
  /\ popped' = popped \cup {d}
  /\ SetTask(o, [NoTask EXCEPT !.at = "mark", !.dep = d])
  /\ UNCHANGED <<vars, view, stranded>>

(* NotFoundError: they are not loaded, or another unload was faster.       *)
UnloadMisses(o) ==
  /\ task[o].at = "idle" /\ snapshot[o] # NoSnapshot
  /\ ~IsLoaded(snapshot[o].dep)
  /\ snapshot' = [snapshot EXCEPT ![o] = NoSnapshot]
  /\ UNCHANGED <<registryVars, allocated, active, container, reserved, coroutineVars,
                 pending, known, restarts, ghosts, localOnly>>

(* Wrong variants: the row is not written; the record that was read is     *)
(* written back as it was.                                                 *)
UnloadForgetsRow(o) ==
  /\ task[o].at = "mark"
  /\ snapshot' = [snapshot EXCEPT ![o] = NoSnapshot]
  /\ SetTask(o, NoTask)
  /\ UNCHANGED <<registryVars, allocated, active, container, reserved, coroutineVars,
                 pending, known, restarts, ghosts, loaded, view, popped, stranded>>

UnloadWritesBack(o) ==
  /\ task[o].at = "mark"
  /\ SaveDeployment(snapshot[o].dep, snapshot[o].record)
  /\ snapshot' = [snapshot EXCEPT ![o] = NoSnapshot]
  /\ SetTask(o, NoTask)
  /\ UNCHANGED <<registered, lifecycle, allocated, active, container, reserved, coroutineVars,
                 pending, known, restarts, ghosts, loaded, view, popped, stranded>>

UnloadMarks(o) ==
  /\ task[o].at = "mark"
  /\ OperatorUnloads(o)
  /\ SetTask(o, NoTask)
  /\ UNCHANGED <<loaded, view, popped, stranded>>

(* The row cannot be written: it stays READY, and a second try does not    *)
(* get past UnloadMisses.                                                  *)
UnloadMarkFails(o) ==
  /\ "save" \in LocalFaults
  /\ task[o].at = "mark"
  /\ snapshot' = [snapshot EXCEPT ![o] = NoSnapshot]
  /\ SetTask(o, NoTask)
  /\ stranded' = stranded \cup {task[o].dep}
  /\ UNCHANGED <<registryVars, allocated, active, container, reserved, coroutineVars,
                 pending, known, restarts, ghosts, loaded, view, popped>>

-----------------------------------------------------------------------------
(* HuggingFaceModelServer.generate, on a thread of the pool.               *)

(* The weights are looked up under the lock and held from there on.        *)
Lookup(c) ==
  LET d == job[c].dep IN
  /\ At(c, "generate") /\ view[c] = NoDep /\ IsLoaded(d)
  /\ view' = [view EXCEPT ![c] = d]
  /\ UNCHANGED <<vars, loaded, task, popped, stranded>>

(* NotFoundError: the request is answered with 404.                        *)
LookupMisses(c) ==
  /\ At(c, "generate") /\ view[c] = NoDep /\ ~IsLoaded(job[c].dep)
  /\ Finish(c)
  /\ UNCHANGED localOnly

Generated(c) ==
  /\ view[c] # NoDep
  /\ Finish(c)
  /\ view' = [view EXCEPT ![c] = NoDep]
  /\ UNCHANGED <<loaded, task, popped, stranded>>

-----------------------------------------------------------------------------
(* The process ends, and with it everything it had loaded.                 *)
LocalRestart ==
  /\ Restart
  /\ loaded' = [d \in Deps |-> NoDevice]
  /\ task' = [o \in Operators |-> NoTask]
  /\ view' = [c \in Clients |-> NoDep]
  /\ popped' = {}
  /\ stranded' = {}

(* The steps of the serving core that a host without Docker takes.         *)
CoreRequestStep(c) ==
  \/ Onboard(c) \/ OnboardFails(c)
  \/ Route(c) \/ RouteFails(c)
  \/ LockModel(c) \/ Recheck(c) \/ Boot(c) \/ RunDockerFails(c) \/ ColdStartFails(c)
  \/ Begin(c)

CorePrewarmStep ==
  \/ PrewarmStart \/ PrewarmPick \/ PrewarmEnd \/ PrewarmCreate
  \/ Onboard(Prewarm) \/ OnboardFails(Prewarm)
  \/ LockModel(Prewarm) \/ PrewarmLocked(Prewarm) \/ Boot(Prewarm) \/ RunDockerFails(Prewarm)
  \/ PrewarmFails

CoreStep ==
  /\ \/ CorePrewarmStep \/ Tick
     \/ \E c \in Clients : Receive(c) \/ CoreRequestStep(c)
  /\ UNCHANGED localOnly

GenerateStep(c) == Lookup(c) \/ LookupMisses(c) \/ Generated(c)

ManagementStep(o) ==
  \/ DeploySaves(o) \/ DeploySaveFails(o) \/ DeployInits(o)
  \/ UnloadPops(o) \/ UnloadMisses(o) \/ UnloadMarks(o) \/ UnloadMarkFails(o)

LocalNext ==
  \/ CoreStep
  \/ \E c \in Clients : GenerateStep(c)
  \/ \E o \in Operators : DeployLoads(o) \/ UnloadReads(o) \/ ManagementStep(o)
  \/ LocalRestart

LocalSpec == LocalInit /\ [][LocalNext]_localVars

-----------------------------------------------------------------------------
(* What the router believes and what the backend holds: a READY deployment *)
(* is loaded, unless an unload has just taken its weights out and is about *)
(* to say so, or could not say so, or the row is one that the failing      *)
(* deletion at this start has left of an earlier process (chat.py:610-620).*)
ReadyIsLoaded ==
  pc[Prewarm] # "start" =>
    \A d \in Deps : Ready(d) =>
      \/ IsLoaded(d)
      \/ d \in stranded \/ \E o \in Operators : task[o].at = "mark" /\ task[o].dep = d
      \/ d \in ghosts

(* A request is answered "Deployment not loaded" only because an operator  *)
(* unloaded its deployment after it was routed, or because it was routed   *)
(* to such a row of an earlier process: never for a deployment that is     *)
(* still being deployed, that the worker retired, or that a cold start     *)
(* failed on.                                                              *)
MissIsAnUnload ==
  \A c \in Clients, d \in Deps : Serving(c, d) => IsLoaded(d) \/ d \in popped \cup ghosts

(* Two unloads of one deployment never both get its weights.               *)
OneUnloadWins ==
  \A o, p \in Operators :
    task[o].at = "mark" /\ task[p].at = "mark" /\ task[o].dep = task[p].dep => o = p

(* A deployment that was taken out of service is never READY again on such *)
(* a host, whatever stale record an unload writes back and however often   *)
(* requests try to start it (until the next start of the service, which    *)
(* forgets it).                                                            *)
RetiredStaysRetired ==
  [][\A d \in Deps :
       deployment[d].status \in {"unloaded", "failed"} => deployment'[d].status # "ready"]_localVars
=============================================================================
