-------------------------- MODULE MCCatalogueSync --------------------------
(***************************************************************************)
(* An instance of the catalogue for TLC.                                   *)
(***************************************************************************)
EXTENDS CatalogueSync, TLC

CONSTANTS small,      \* one file, no index; its weights are 3000 MB
          split,      \* two files and an index; 14000 MB
          draft,      \* the EAGLE head of small
          r1, r2      \* clients

AllRepos == {small, split, draft}
ClientSymmetry == Permutations(Clients)

Shards == [n \in AllRepos |-> CASE n = small -> <<3000>>
                                [] n = split -> <<5000, 9000>>
                                [] n = draft -> <<900>>]
Indexed == [n \in AllRepos |-> n = split]
Hint == [n \in AllRepos |-> IF n = split THEN 7 ELSE 0]
Params == [n \in AllRepos |-> CASE n = small -> 2 [] n = split -> 7 [] n = draft -> 0]
HeadOfModel == [n \in AllRepos |-> IF n = small THEN draft ELSE Nothing]
Architecture == [n \in AllRepos |-> IF n = draft THEN "none" ELSE "vllm_native"]
=============================================================================
