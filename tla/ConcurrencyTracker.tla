------------------------- MODULE ConcurrencyTracker -------------------------
(***************************************************************************)
(* ConcurrencyTracker (services/concurrency.py): how many requests are     *)
(* being generated on each deployment.  Every method runs under one        *)
(* threading.Lock, so each is one step.                                    *)
(***************************************************************************)
EXTENDS Integers

VARIABLE active    \* _active, 0 for a missing key

Increment(d) == active' = [active EXCEPT ![d] = @ + 1]

Decrement(d) == active' = [active EXCEPT ![d] = IF @ > 0 THEN @ - 1 ELSE 0]

=============================================================================
