-------------------------- MODULE LifecycleManager --------------------------
(***************************************************************************)
(* SimpleLifecycleManager (lifecycle/manager.py): the HOT / WARM / COLD    *)
(* automaton driven by the idle clock.  Idle time is counted in worker     *)
(* ticks (the code adds 10 seconds per tick).                              *)
(***************************************************************************)
EXTENDS Integers

CONSTANTS
  WarmAfter,     \* warm_after_seconds, in ticks
  ColdAfter,     \* cold_after_seconds, in ticks
  IdleBound      \* bound: an idle clock that reaches it stays there

ASSUME ThresholdsAssumption ==
  /\ WarmAfter \in Nat \ {0}
  /\ ColdAfter \in Nat
  /\ WarmAfter < ColdAfter
  /\ IdleBound \in Nat
  /\ ColdAfter < IdleBound

LifecycleRecord ==
  [state : {"NONE", "HOT", "WARM", "COLD"}, idle : 0 .. IdleBound]

NoLifecycle == [state |-> "NONE", idle |-> 0]

Initialize == [state |-> "HOT", idle |-> 0]

Touch(record) == [record EXCEPT !.state = "HOT", !.idle = 0]

(* Wrong variant: the last threshold is never looked at.                   *)
ReconcileToWarm(record) ==
  [record EXCEPT !.state =
     IF record.idle >= WarmAfter THEN "WARM"
     ELSE IF record.idle = 0 THEN "HOT"
     ELSE record.state]

Reconcile(record) ==
  [record EXCEPT !.state =
     IF record.idle >= ColdAfter THEN "COLD"
     ELSE IF record.idle >= WarmAfter THEN "WARM"
     ELSE IF record.idle = 0 THEN "HOT"
     ELSE record.state]

(* Wrong variant: requests in flight do not stop the idle clock.           *)
AdvanceAlways(record, active) ==
  Reconcile([record EXCEPT !.idle = IF record.idle < IdleBound THEN record.idle + 1 ELSE IdleBound])

(* What one worker tick does to a record whose deployment has active       *)
(* requests in flight.                                                     *)
Advance(record, active) ==
  Reconcile([record EXCEPT !.idle =
    IF active > 0 THEN 0
    ELSE IF record.idle < IdleBound THEN record.idle + 1 ELSE IdleBound])

=============================================================================
