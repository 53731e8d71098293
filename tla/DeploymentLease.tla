-------------------------- MODULE DeploymentLease --------------------------
(***************************************************************************)
(* What the serving core promises about one deployment table, without      *)
(* locks, ports, containers or a GPU: a deployment is used only while it   *)
(* is ready, is taken down only when nobody uses it, is started again only *)
(* from a stopped state, and is never used again once it has failed.       *)
(***************************************************************************)
EXTENDS Integers

CONSTANT Deps

VARIABLES
  status,     \* status[d]: the state of deployment d
  users       \* users[d]: how many requests use it

leaseVars == <<status, users>>

LeaseTypeOK ==
  /\ status \in [Deps -> {"absent", "pending", "ready", "unloaded", "failed"}]
  /\ users \in [Deps -> Nat]

LeaseInit ==
  /\ status \in [Deps -> {"absent", "pending"}]
  /\ users = [d \in Deps |-> 0]

Publish(d) ==
  /\ status[d] = "absent"
  /\ \E s \in {"pending", "ready"} : status' = [status EXCEPT ![d] = s]
  /\ UNCHANGED users

GoLive(d) ==
  /\ status[d] \in {"pending", "unloaded"}
  /\ status' = [status EXCEPT ![d] = "ready"]
  /\ UNCHANGED users

GiveUp(d) ==
  /\ status[d] \in {"pending", "unloaded"}
  /\ status' = [status EXCEPT ![d] = "failed"]
  /\ UNCHANGED users

TakeDown(S) ==
  /\ \A d \in S : status[d] = "ready" /\ users[d] = 0
  /\ status' = [d \in Deps |-> IF d \in S THEN "unloaded" ELSE status[d]]
  /\ UNCHANGED users

BeginUse(d) ==
  /\ status[d] = "ready"
  /\ users' = [users EXCEPT ![d] = @ + 1]
  /\ UNCHANGED status

EndUse(d) ==
  /\ users[d] > 0
  /\ users' = [users EXCEPT ![d] = @ - 1]
  /\ UNCHANGED status

(* The service stops: whoever used a deployment is gone.                   *)
Stop ==
  /\ users' = [d \in Deps |-> 0]
  /\ UNCHANGED status

(* A start of the service forgets the deployments of the run before.       *)
Forget ==
  /\ \A d \in Deps : users[d] = 0
  /\ status' = [d \in Deps |-> "absent"]
  /\ UNCHANGED users

LeaseNext ==
  \/ \E d \in Deps : Publish(d) \/ GoLive(d) \/ GiveUp(d) \/ BeginUse(d) \/ EndUse(d)
  \/ \E S \in SUBSET Deps : TakeDown(S)
  \/ Stop \/ Forget

LeaseSpec == LeaseInit /\ [][LeaseNext]_leaseVars
=============================================================================
