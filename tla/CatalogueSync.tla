--------------------------- MODULE CatalogueSync ---------------------------
(***************************************************************************)
(* How models get into the catalogue: onboarding downloads a repository    *)
(* into the model cache and registers it (services/chat.py), operators     *)
(* register models by hand (services/model_management.py), and every start *)
(* of the process registers what it finds in the cache (bootstrap.py).     *)
(*                                                                         *)
(* The cache is a directory per repository on the SSD.  It survives the    *)
(* process, and a download that is cut off leaves the files that were      *)
(* complete by then.  The vLLM containers have it mounted: they fetch what *)
(* they miss, also while the process is down or starts.                    *)
(***************************************************************************)
EXTENDS Integers, Sequences, FiniteSets, FiniteSetsExt

CONSTANTS
  Repos,         \* the Hugging Face repositories
  ShardsOf,      \* ShardsOf[n]: the size in MB of each of its weight files
  IndexedOf,     \* IndexedOf[n]: it has a *.index.json with the total size
  HintOf,        \* HintOf[n]: the first key of SizeTable that is part of its name, or 0
  ParamsOf,      \* ParamsOf[n]: safetensors.total of the hub's model_info, in units of 2^30
  HeadOf,        \* HeadOf[n]: the EAGLE head operators register it with, or Nothing
  ArchitectureOf, \* ArchitectureOf[n]: the rules its architecture is listed under
  Memories,      \* memory_requirement_gb of the models operators register
  Clients,       \* the requests that can onboard at one time
  Nothing,       \* no repository
  Databases,     \* the values of database.engine that are tried
  Faults,        \* "save": a save fails, "download": a download is cut off
  MaxRecords,    \* bound: no more are registered when there are so many models
  MaxCrashes     \* bound: how often the process ends

ASSUME CatalogueAssumption ==
  /\ IsFiniteSet(Repos)
  /\ Nothing \notin Repos
  /\ ShardsOf \in [Repos -> Seq(Nat \ {0})]
  /\ IndexedOf \in [Repos -> BOOLEAN]
  /\ HintOf \in [Repos -> 0 .. 15]
  /\ HeadOf \in [Repos -> Repos \cup {Nothing}]
  /\ ParamsOf \in [Repos -> Nat]
  /\ ArchitectureOf \in [Repos -> {"vllm_native", "tgi", "other", "none"}]
  /\ Memories \subseteq Nat
  /\ Databases \subseteq {"sqlite", "memory"}
  /\ Faults \subseteq {"save", "download"}
  /\ MaxRecords \in Nat
  /\ MaxCrashes \in Nat

VARIABLES
  database,      \* database.engine
  cache,         \* the files of each repository that are complete on the SSD
  catalogue,     \* list_models(), oldest first
  rows,          \* the models that have a deployment row
  phase,         \* where the start of the process is
  existing,      \* the names the sync found in the catalogue when it began
  todo,          \* the directories the sync is not through with
  picked,        \* the one it is about to register
  synced,        \* history: the sync of this start was not cut short
  whole,         \* history: the directories that were complete when it began
  fetching,      \* the repositories the vLLM containers were started for
  onboarding,    \* the repository each client is downloading
  crashes

tableVars == <<catalogue, rows>>
syncVars == <<phase, existing, todo, picked, synced, whole>>
diskVars == <<cache, onboarding, fetching>>
catalogueVars == <<database, tableVars, syncVars, diskVars, crashes>>

Index == 0
Files(n) == (DOMAIN ShardsOf[n]) \cup (IF IndexedOf[n] THEN {Index} ELSE {})

(* The directory is there, with refs/main, as soon as a download begins.   *)
Directory == [made : BOOLEAN, files : SUBSET Nat]
NoDirectory == [made |-> FALSE, files |-> {}]

Record == [name : Repos, memory : Nat, by : {"sync", "onboard", "register"}, complete : BOOLEAN]

NamesIn(list) == {list[i].name : i \in DOMAIN list}
Complete(n) == cache[n].files = Files(n)

-----------------------------------------------------------------------------
(* _read_model_vram_from_cache.                                            *)

(* The size of a set of weight files, in MB.                               *)
Weight(n, files) == MapThenSumSet(LAMBDA i : ShardsOf[n][i], files \ {Index})
FullWeight(n) == Weight(n, DOMAIN ShardsOf[n])

(* _estimate_vram_gb_from_name, in GB; the keys are 70b, 72b, 34b, 32b,    *)
(* 13b, 14b, 7b, 8b, 3b, 2.5b, 1.8b, 1.5b, 1.1b, 0.5b and 0.5.             *)
SizeTable == <<140, 144, 70, 65, 26, 29, 15, 16, 7, 6, 4, 4, 3, 2, 2>>

Guess(n) == IF HintOf[n] = 0 THEN 8 ELSE SizeTable[HintOf[n]]

InGB(megabytes) == (megabytes + 1023) \div 1024

(* Wrong variant: the overhead is forgotten.                               *)
RequirementBare(megabytes) == IF InGB(megabytes) < 3 THEN 3 ELSE InGB(megabytes)

(* max(ceil(GB) + 2, 3)                                                    *)
Requirement(megabytes) == IF InGB(megabytes) + 2 < 3 THEN 3 ELSE InGB(megabytes) + 2

(* The index names the size of all weights, also of those not there yet;   *)
(* without it the files are added up, and without files the name is taken  *)
(* for it.                                                                 *)
Estimate(n) ==
  LET files == cache[n].files
      size == IF Index \in files THEN FullWeight(n) ELSE Weight(n, files)
  IN IF size = 0 THEN Guess(n) ELSE Requirement(size)

Large(n) == Estimate(n) > 10

-----------------------------------------------------------------------------
Init ==
  /\ database \in Databases
  /\ cache = [n \in Repos |-> NoDirectory]
  /\ catalogue = <<>>
  /\ rows = {}
  /\ phase = "down"
  /\ existing = {}
  /\ todo = {}
  /\ picked = Nothing
  /\ synced = FALSE
  /\ whole = {}
  /\ fetching = {}
  /\ onboarding = [c \in Clients |-> Nothing]
  /\ crashes = 0

Room == Len(catalogue) < MaxRecords
Newest == Len(catalogue) + 1

Register(n, memory, by) ==
  catalogue' = Append(catalogue, [name |-> n, memory |-> memory, by |-> by,
                                  complete |-> Complete(n)])

-----------------------------------------------------------------------------
(* build_from_config: the sync of the cache with the catalogue.            *)

(* Wrong variant: only the models with a deployment are listed.            *)
BuildFromRows ==
  /\ phase = "down"
  /\ phase' = "sync"
  /\ existing' = {catalogue[i].name : i \in rows}
  /\ todo' = {n \in Repos : cache[n].made}
  /\ whole' = {n \in Repos : cache[n].made /\ Complete(n)}
  /\ UNCHANGED <<database, tableVars, picked, synced, diskVars, crashes>>

(* The catalogue and the cache directory are listed once.  The id read off *)
(* a directory is the repository's: the hub library writes models--, and   *)
(* -- for each /, the two replacements of bootstrap.py:284 undo that, and  *)
(* the library refuses ids that have a -- themselves.                      *)
Build ==
  /\ phase = "down"
  /\ phase' = "sync"
  /\ existing' = NamesIn(catalogue)
  /\ todo' = {n \in Repos : cache[n].made}
  /\ whole' = {n \in Repos : cache[n].made /\ Complete(n)}
  /\ UNCHANGED <<database, tableVars, picked, synced, diskVars, crashes>>

(* A model that is too large, or registered, is passed over ...            *)
SyncSkips(n) ==
  /\ phase = "sync" /\ n \in todo
  /\ Large(n) \/ n \in existing
  /\ todo' = todo \ {n}
  /\ UNCHANGED <<database, tableVars, phase, existing, picked, synced, whole, diskVars, crashes>>

(* ... any other one is picked: the size is read again for the record ...  *)
SyncPicks(n) ==
  /\ phase = "sync" /\ n \in todo
  /\ ~Large(n) /\ n \notin existing
  /\ todo' = todo \ {n}
  /\ phase' = "save" /\ picked' = n
  /\ UNCHANGED <<database, tableVars, existing, synced, whole, diskVars, crashes>>

SyncSaves ==
  /\ phase = "save"
  /\ Register(picked, Estimate(picked), "sync")
  /\ phase' = "row"
  /\ UNCHANGED <<database, rows, existing, todo, picked, synced, whole, diskVars, crashes>>

(* Wrong variant: the row names the next model.                            *)
SyncSavesRowAhead ==
  /\ phase = "row"
  /\ rows' = rows \cup {Newest}
  /\ phase' = "sync" /\ picked' = Nothing
  /\ UNCHANGED <<database, catalogue, existing, todo, synced, whole, diskVars, crashes>>

(* ... and a PENDING deployment of it is saved.                            *)
SyncSavesRow ==
  /\ phase = "row"
  /\ rows' = rows \cup {Len(catalogue)}
  /\ phase' = "sync" /\ picked' = Nothing
  /\ UNCHANGED <<database, catalogue, existing, todo, synced, whole, diskVars, crashes>>

(* Wrong variant: the sync ends with the first model it registers.         *)
SyncEndsEarly ==
  /\ phase = "sync"
  /\ todo = {} \/ \E i \in DOMAIN catalogue : catalogue[i].by = "sync"
  /\ phase' = "start" /\ synced' = TRUE
  /\ UNCHANGED <<database, tableVars, existing, todo, picked, whole, diskVars, crashes>>

SyncEnds ==
  /\ phase = "sync"
  /\ todo = {}
  /\ phase' = "start" /\ synced' = TRUE
  /\ UNCHANGED <<database, tableVars, existing, todo, picked, whole, diskVars, crashes>>

(* An exception ends the sync ("Seeding issue"), and the process starts    *)
(* all the same.                                                           *)
SyncFails ==
  /\ "save" \in Faults
  /\ phase \in {"sync", "save", "row"}
  /\ phase' = "start" /\ picked' = Nothing
  /\ UNCHANGED <<database, tableVars, existing, todo, synced, whole, diskVars, crashes>>

(* The sync's lists are gone when it is over.                              *)
ForgetSync == existing' = {} /\ todo' = {} /\ picked' = Nothing /\ synced' = FALSE /\ whole' = {}

(* prewarm_capabilities begins with deleting the deployments of a SQL      *)
(* registry; a failure to is logged.                                       *)
Wipe ==
  /\ phase = "start"
  /\ phase' = "serving"
  /\ \/ rows' = IF database = "memory" THEN rows ELSE {}
     \/ "save" \in Faults /\ UNCHANGED rows
  /\ ForgetSync
  /\ UNCHANGED <<database, catalogue, diskVars, crashes>>

-----------------------------------------------------------------------------
(* Onboarding and registration while the platform serves.                  *)

(* _choose_backend                                                         *)
Recommended(n) ==
  CASE ArchitectureOf[n] = "vllm_native" -> "vllm"
    [] ArchitectureOf[n] = "tgi" -> "tgi"
    [] ArchitectureOf[n] = "other" -> "huggingface-transformers"
    [] ArchitectureOf[n] = "none" -> "manual_review"

(* chat(): a model the catalogue does not have is onboarded if the         *)
(* inspector recommends vLLM or Transformers.                              *)
OnboardBegins(c, n) ==
  /\ phase = "serving" /\ onboarding[c] = Nothing
  /\ n \notin NamesIn(catalogue)
  /\ Recommended(n) \in {"vllm", "huggingface-transformers"}
  /\ onboarding' = [onboarding EXCEPT ![c] = n]
  /\ cache' = [cache EXCEPT ![n].made = TRUE]
  /\ UNCHANGED <<database, tableVars, syncVars, fetching, crashes>>

(* A container is started for a registered model: it fetches the weights   *)
(* that are not there, and its EAGLE head.                                 *)
EngineStarts(i) ==
  LET n == catalogue[i].name
      head == IF catalogue[i].by = "register" THEN HeadOf[n] ELSE Nothing
      wanted == {n, head} \ {Nothing}
  IN /\ phase = "serving"
     /\ ~ wanted \subseteq fetching
     /\ fetching' = fetching \cup wanted
     /\ cache' = [m \in Repos |-> IF m \in wanted THEN [cache[m] EXCEPT !.made = TRUE]
                                  ELSE cache[m]]
     /\ UNCHANGED <<database, tableVars, syncVars, onboarding, crashes>>

(* Files arrive in any order.                                              *)
FileArrives(n) ==
  /\ n \in fetching \/ \E c \in Clients : onboarding[c] = n
  /\ \E file \in Files(n) \ cache[n].files : cache' = [cache EXCEPT ![n].files = @ \cup {file}]
  /\ UNCHANGED <<database, tableVars, syncVars, onboarding, fetching, crashes>>

(* math.ceil(estimated_gpu_memory_gb or 16)                                *)
OnboardMemory(n) == IF ParamsOf[n] = 0 THEN 16 ELSE ParamsOf[n]

(* The weights are there: the model is registered, and then its PENDING    *)
(* deployment, unless that save fails.  Two clients may both do so.        *)
OnboardRegisters(c) ==
  LET n == onboarding[c] IN
  /\ n # Nothing /\ Complete(n) /\ Room
  /\ Register(n, OnboardMemory(n), "onboard")
  /\ \/ rows' = rows \cup {Newest}
     \/ "save" \in Faults /\ UNCHANGED rows
  /\ onboarding' = [onboarding EXCEPT ![c] = Nothing]
  /\ UNCHANGED <<database, cache, fetching, syncVars, crashes>>

(* The download, or the save of the model, fails: the client gets an error.*)
OnboardFails(c) ==
  /\ onboarding[c] # Nothing
  /\ \/ "download" \in Faults
     \/ "save" \in Faults /\ Complete(onboarding[c])
  /\ onboarding' = [onboarding EXCEPT ![c] = Nothing]
  /\ UNCHANGED <<database, tableVars, cache, fetching, syncVars, crashes>>

(* POST /models/register: any name, whether or not it is taken.            *)
OperatorRegisters(n) ==
  /\ phase = "serving" /\ Room
  /\ \E memory \in Memories : Register(n, memory, "register")
  /\ UNCHANGED <<database, rows, diskVars, syncVars, crashes>>

(* The process ends, wherever it is; the containers live on.               *)
Crash ==
  /\ phase # "down" /\ crashes < MaxCrashes
  /\ crashes' = crashes + 1
  /\ phase' = "down"
  /\ onboarding' = [c \in Clients |-> Nothing]
  /\ IF database = "memory" THEN catalogue' = <<>> /\ rows' = {} ELSE UNCHANGED <<catalogue, rows>>
  /\ ForgetSync
  /\ UNCHANGED <<database, cache, fetching>>

Next ==
  \/ Build \/ SyncSaves \/ SyncSavesRow \/ SyncEnds \/ SyncFails \/ Wipe \/ Crash
  \/ \E n \in Repos : SyncSkips(n) \/ SyncPicks(n) \/ FileArrives(n) \/ OperatorRegisters(n)
  \/ \E i \in DOMAIN catalogue : EngineStarts(i)
  \/ \E c \in Clients : \/ \E n \in Repos : OnboardBegins(c, n)
                        \/ OnboardRegisters(c) \/ OnboardFails(c)

Spec == Init /\ [][Next]_catalogueVars

-----------------------------------------------------------------------------
CatalogueTypeOK ==
  /\ database \in Databases
  /\ cache \in [Repos -> Directory]
  /\ catalogue \in Seq(Record)
  /\ rows \in SUBSET (1 .. Len(catalogue))
  /\ phase \in {"down", "sync", "save", "row", "start", "serving"}
  /\ existing \in SUBSET Repos
  /\ todo \in SUBSET Repos
  /\ picked \in Repos \cup {Nothing}
  /\ synced \in BOOLEAN
  /\ whole \in SUBSET Repos
  /\ fetching \in SUBSET Repos
  /\ onboarding \in [Clients -> Repos \cup {Nothing}]
  /\ crashes \in 0 .. MaxCrashes

(* The sync never registers a name that is taken, whatever earlier starts, *)
(* cut off in the middle, onboardings and operators have registered.       *)
SyncAddsNoDuplicate ==
  \A i, j \in DOMAIN catalogue :
    i < j /\ catalogue[j].by = "sync" => catalogue[i].name # catalogue[j].name

Small(n) == DOMAIN ShardsOf[n] # {} /\ Requirement(FullWeight(n)) <= 10

(* A start whose sync went through leaves no small model out of the        *)
(* catalogue that was complete on the SSD: a crash between a download and  *)
(* its registration is made good.                                          *)
CachedIsRegistered ==
  phase = "start" /\ synced =>
    \A n \in whole : Small(n) => n \in NamesIn(catalogue)

(* A model the sync registered with all its files there is charged at      *)
(* least its weights, and 20 % more (bootstrap.py:65) while it is charged  *)
(* at most the 10 GB above which models are passed over.                   *)
SyncedCoversWeights ==
  \A i \in DOMAIN catalogue :
    LET model == catalogue[i]
        weight == FullWeight(model.name)
    IN model.by = "sync" /\ model.complete =>
         /\ weight <= 1024 * model.memory
         /\ model.memory <= 10 => 12 * weight <= 10 * 1024 * model.memory

-----------------------------------------------------------------------------
(* Statements of the comments that the code does not keep.                 *)

(* bootstrap.py:286 "Skip large models (7B+) that would starve smaller     *)
(* models on a single GPU".                                                *)
LargeIsSkipped ==
  \A i \in DOMAIN catalogue :
    catalogue[i].by = "sync" => Requirement(FullWeight(catalogue[i].name)) <= 10
=============================================================================
