---------------------------- MODULE MCTelemetry ----------------------------
(***************************************************************************)
(* An instance of the telemetry for TLC.                                   *)
(***************************************************************************)
EXTENDS Telemetry, TLC

CONSTANTS k1, k2,     \* requests in flight
          id1, id2

(* The ids are exchangeable, and so are the requests.                      *)
TelemetrySymmetry == Permutations(Chats) \cup Permutations(Ids)

AnyLimit == {-1, 0, 1, 2}
=============================================================================
