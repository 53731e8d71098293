------------------------------- MODULE Router -------------------------------
(***************************************************************************)
(* CapabilityRouter.route (routing/router.py): which deployment serves a   *)
(* request, whether it must be started first, and which idle deployment    *)
(* is evicted for it.  The code's random choices are sets of decisions.    *)
(***************************************************************************)
EXTENDS GpuTracker, ConcurrencyTracker

Decision(m, d, victim, cold) == [model |-> m, dep |-> d, victim |-> victim, cold |-> cold]

Capable(cap) == {m \in Models : IsRegistered(m) /\ cap \in CapsOf[m]}

Breadth(m) == Cardinality(CapsOf[m])

Position(m) == CHOOSE i \in DOMAIN registered : registered[i] = m

(* The stable sort by capability breadth of the capable models.            *)
Broader(m, n) ==
  \/ Breadth(m) > Breadth(n)
  \/ Breadth(m) = Breadth(n) /\ Position(m) < Position(n)

CapableDeployments(cap) == {d \in Deps : Exists(d) /\ deployment[d].model \in Capable(cap)}

Busy(d) == lifecycle[d].state \in {"HOT", "WARM"} /\ active[d] > 0

ReadyIdle(cap) == {d \in CapableDeployments(cap) : Ready(d) /\ ~Busy(d)}
ReadyBusy(cap) == {d \in CapableDeployments(cap) : Ready(d) /\ Busy(d)}

Startable(d) == deployment[d].status \in {"unloaded", "pending"}
Booting(cap) == {d \in CapableDeployments(cap) : Startable(d) /\ IsAllocated(d)}

(* What can be started: a stopped deployment nobody has reserved, or a     *)
(* model without any deployment.                                           *)
OnDisk(cap) ==
  {[model |-> deployment[d].model, dep |-> d] :
     d \in {e \in CapableDeployments(cap) : Startable(e) /\ ~IsAllocated(e)}}
  \cup {[model |-> m, dep |-> NoDep] : m \in {n \in Capable(cap) : DeploymentsOf(n) = {}}}

OnDiskBefore(x, y, preferred) ==
  IF (x.model = preferred) # (y.model = preferred) THEN x.model = preferred
  ELSE IF x.model = y.model THEN x.dep < y.dep ELSE Broader(x.model, y.model)

PreferredReady(cap, preferred) ==
  {d \in CapableDeployments(cap) : Ready(d) /\ deployment[d].model = preferred}

(* A ready deployment of the preferred model wins over everything.         *)
ServePreferred(cap, preferred) ==
  {Decision(preferred, d, NoDep, FALSE) :
     d \in {e \in PreferredReady(cap, preferred) : \A f \in PreferredReady(cap, preferred) : e <= f}}

ServeIdle(cap) ==
  {Decision(deployment[d].model, d, NoDep, FALSE) : d \in ReadyIdle(cap)}

(* All capable deployments are busy: start one more.  victim is the        *)
(* eviction candidate of this call, NoDep if there is none.  When nothing  *)
(* fits and nothing can be evicted, a cold start is queued all the same.   *)
ScaleOut(cap, preferred) ==
  LET victims == IF LongestIdle = {} THEN {NoDep} ELSE LongestIdle
      Fits(x) == CanFit(MemOf[x.model])
      Viable(x, v) == Fits(x) \/ (v # NoDep /\ MakesRoom(v, MemOf[x.model]))
      Pool(v) == IF \E x \in OnDisk(cap) : Viable(x, v)
                 THEN {x \in OnDisk(cap) : Viable(x, v)} ELSE OnDisk(cap)
      First(v) == {x \in Pool(v) : \A y \in Pool(v) \ {x} : OnDiskBefore(x, y, preferred)}
      Evicts(x, v) == ~Fits(x) /\ Viable(x, v)
  IN  UNION {{Decision(x.model, x.dep, IF Evicts(x, v) THEN v ELSE NoDep, TRUE) : x \in First(v)} :
               v \in victims}

(* Power of two choices over the busy and the booting deployments: any but *)
(* the single most loaded one can win.                                     *)
QueueOnActive(cap) ==
  LET pool == ReadyBusy(cap) \cup Booting(cap)
      winners == IF Cardinality(pool) = 1 THEN pool
                 ELSE {d \in pool : \E e \in pool \ {d} : active[d] <= active[e]}
  IN  {Decision(deployment[d].model, d, NoDep, Startable(d)) : d \in winners}

(* The decisions route() can return; none when it raises RoutingError.     *)
Routes(cap, preferred) ==
  IF ServePreferred(cap, preferred) # {} THEN ServePreferred(cap, preferred)
  ELSE IF ReadyIdle(cap) # {} THEN ServeIdle(cap)
  ELSE IF OnDisk(cap) # {} THEN ScaleOut(cap, preferred)
  ELSE QueueOnActive(cap)

=============================================================================
