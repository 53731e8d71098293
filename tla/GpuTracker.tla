----------------------------- MODULE GpuTracker -----------------------------
(***************************************************************************)
(* GPUResourceTracker (services/gpu_tracker.py): the VRAM ledger.  It is   *)
(* bookkeeping only; nothing measures the GPU.                             *)
(***************************************************************************)
EXTENDS Registry, FiniteSetsExt

CONSTANT TotalVram

ASSUME VramAssumption == TotalVram \in Nat

VARIABLE allocated   \* _allocated, 0 for a deployment that is not a key

IsAllocated(d) == allocated[d] > 0

AllocatedVram(ledger) == MapThenSumSet(LAMBDA d : ledger[d], Deps)

AvailableVram == TotalVram - AllocatedVram(allocated)

CanFit(gb) == AvailableVram >= gb

Allocate(d, gb) == allocated' = [allocated EXCEPT ![d] = gb]

Release(d) == allocated' = [allocated EXCEPT ![d] = 0]

(* Wrong variant: a deployment in use is a candidate too.                  *)
EvictionCandidateHot(d) == IsAllocated(d) /\ Ready(d) /\ ~Permanent(d)

(* An allocated, ready, non-permanent deployment that has gone idle.       *)
EvictionCandidate(d) ==
  /\ IsAllocated(d)
  /\ Ready(d)
  /\ ~Permanent(d)
  /\ lifecycle[d].state \in {"WARM", "COLD"}

(* The candidates with the longest idle clock: find_evictable takes the    *)
(* one reserved first, and which that is is left open here.                *)
LongestIdle ==
  {d \in Deps : /\ EvictionCandidate(d)
                /\ \A e \in Deps : EvictionCandidate(e) => lifecycle[e].idle <= lifecycle[d].idle}

(* Wrong variant: the candidate is returned whether or not it is enough.   *)
MakesRoomUnchecked(d, gb) == IsAllocated(d) /\ gb <= TotalVram

(* find_evictable returns its candidate only when evicting it is enough.   *)
MakesRoom(d, gb) == AvailableVram + allocated[d] >= gb

=============================================================================
