--------------------------- MODULE MCServingCore ---------------------------
(***************************************************************************)
(* Instances of the serving core for TLC.                                  *)
(***************************************************************************)
EXTENDS ServingProperties, TLC

CONSTANTS big, small, tiny,   \* models and the repositories they come from
          again,              \* a second record of big, from a second onboarding
          common, rare,       \* two capabilities
          c1, c2, c3,         \* clients
          o1                  \* an operator

ClientSymmetry == Permutations(Clients)

(* big has both capabilities and fills a GPU of 2 GB alone; the others     *)
(* have the common one only, and fit together.  Where the pre-warm task    *)
(* has work to do, common and rare are "chat" and "math"; elsewhere they   *)
(* are capabilities it does not visit.                                     *)
OneModel == {small}
TwoModels == {big, small}
ThreeModels == {big, small, tiny}
Duplicates == {big, small, again}
NameOfModel == [m \in Models |-> IF m = again THEN big ELSE m]
BothCapabilities == {common, rare}
CapsOfModel == [m \in Models |-> IF m \in {big, again} THEN BothCapabilities ELSE {common}]
MemOfModel == [m \in Models |-> IF m \in {big, again} THEN 2 ELSE 1]

None == <<>>
SmallOnly == <<small>>
SmallThenBig == <<small, big>>
TinySmallBig == <<tiny, small, big>>

AnyCommon == [cap |-> common, name |-> NoName]
AnyRare == [cap |-> rare, name |-> NoName]
SmallForCommon == [cap |-> common, name |-> small]
BigForRare == [cap |-> rare, name |-> big]
CommonOnly == {AnyCommon}
ByCapability == {AnyCommon, AnyRare}
ByName == {SmallForCommon, BigForRare}
Mixed == {AnyCommon, SmallForCommon, BigForRare}

CommonThenRare == <<common, rare>>
BigDefault == [cap \in Capabilities |-> IF cap = rare THEN big ELSE NoName]
NoDefaults == [cap \in Capabilities |-> NoName]
=============================================================================
