--------------------------- MODULE MCLocalServing ---------------------------
(***************************************************************************)
(* Instances of the serving core with the in-process backend for TLC.      *)
(***************************************************************************)
EXTENDS LocalServing, TLC

CONSTANTS small, c1, c2, o1, o2

Symmetry == Permutations(Clients) \cup Permutations(Operators)

OneModel == {small}
NameOfModel == [m \in Models |-> m]
OneCapability == {"coding"}
CapsOfModel == [m \in Models |-> Capabilities]
MemOfModel == [m \in Models |-> 1]

None == <<>>
WithOrWithoutName == {[cap |-> cap, name |-> name] : cap \in Capabilities, name \in {NoName, small}}
NoDefaults == [cap \in Capabilities |-> NoName]

AppleSilicon == {"mps"}
OnePreference == {<<"cuda", "MPS">>}
LowerCase == [s \in {"cuda", "MPS", "mps", "cpu"} |-> IF s = "MPS" THEN "mps" ELSE s]
=============================================================================
