------------------------------ MODULE Registry ------------------------------
(***************************************************************************)
(* The registry: the model catalogue, the deployment table and the         *)
(* lifecycle table that every other component reads and writes             *)
(* (registry/service.py over database/repositories.py).                    *)
(*                                                                         *)
(* A deployment is a number: repositories list rows by creation time, so   *)
(* the n-th deployment ever created is deployment n and the numeric order  *)
(* is the order of list_deployments.  A row that does not exist has status *)
(* "absent"; a deployment without a lifecycle row has state "NONE".        *)
(***************************************************************************)
EXTENDS Integers, Sequences, FiniteSets

CONSTANTS
  Models,        \* every model record that can be in the catalogue
  Names,         \* Hugging Face repository names; containers are named after them
  NameOf,        \* NameOf[m]: the name of model record m
  Capabilities,
  CapsOf,        \* CapsOf[m]: the capabilities model m declares
  MemOf,         \* MemOf[m]: memory_requirement_gb of model m
  MaxDeps,       \* bound: how many deployment rows one run of the service creates
  MaxPort,       \* ports FirstPort .. 65535 of the code are 1 .. MaxPort here
  NoModel        \* the absence of a model

ASSUME ModelsAssumption ==
  /\ NameOf \in [Models -> Names]
  /\ CapsOf \in [Models -> SUBSET Capabilities]
  /\ MemOf \in [Models -> Nat \ {0}]
  /\ NoModel \notin Models

ASSUME BoundsAssumption == MaxDeps \in Nat \ {0} /\ MaxPort \in Nat \ {0}

VARIABLES
  registered,    \* list_models(): the registered models, oldest first
  deployment,    \* the deployment table
  lifecycle      \* the lifecycle table

registryVars == <<registered, deployment, lifecycle>>

Deps == 1 .. MaxDeps
NoDep == 0
Ports == 1 .. MaxPort
NoPort == 0

DeploymentStatus == {"absent", "pending", "ready", "unloaded", "failed"}

(* port stands for endpoint, base_url, port and container_name, which the   *)
(* code always sets together; NoPort: the service never started a container *)
(* for this row.                                                            *)
DeploymentRecord ==
  [status : DeploymentStatus, model : Models \cup {NoModel},
   permanent : BOOLEAN, port : Ports \cup {NoPort}]

AbsentDeployment ==
  [status |-> "absent", model |-> NoModel, permanent |-> FALSE, port |-> NoPort]

PendingDeployment(m, permanent) ==
  [status |-> "pending", model |-> m, permanent |-> permanent, port |-> NoPort]

Exists(d) == deployment[d].status # "absent"
Ready(d) == deployment[d].status = "ready"
Permanent(d) == deployment[d].permanent

IsRegistered(m) == \E i \in DOMAIN registered : registered[i] = m

DeploymentsOf(m) == {d \in Deps : Exists(d) /\ deployment[d].model = m}

(* The row the next save of a new record creates.                          *)
IsNewDeployment(d) ==
  /\ d \in Deps
  /\ ~Exists(d)
  /\ \A e \in Deps : e < d => Exists(e)

SaveDeployment(d, record) == deployment' = [deployment EXCEPT ![d] = record]

SetStatus(d, status) == deployment' = [deployment EXCEPT ![d].status = status]

=============================================================================
