------------------------ MODULE CatalogueSyncProofs ------------------------
(***************************************************************************)
(* Proofs about the catalogue: its types, the sync's uniqueness and the    *)
(* memory it charges, for every cache, every repository and any number of  *)
(* clients and restarts.                                                   *)
(***************************************************************************)
EXTENDS CatalogueSync, FiniteInduction

(* The requirement of a set of weights covers it, and by 20 % up to the    *)
(* limit of 10 GB.                                                         *)
LEMMA RequirementCovers ==
  ASSUME NEW size \in Nat
  PROVE  /\ Requirement(size) \in Nat
         /\ size <= 1024 * Requirement(size)
         /\ Requirement(size) <= 10 => 12 * size <= 10 * 1024 * Requirement(size)
<1> DEFINE gb == (size + 1023) \div 1024
<1>1. gb \in Nat /\ size <= 1024 * gb
  BY SMT
<1> HIDE DEF gb
<1>2. Requirement(size) = IF gb + 2 < 3 THEN 3 ELSE gb + 2
  BY DEF Requirement, InGB, gb
<1>3. Requirement(size) \in Nat /\ Requirement(size) >= gb + 2
  BY <1>1, <1>2
<1>4. size <= 1024 * Requirement(size)
  BY <1>1, <1>3
<1>5. ASSUME Requirement(size) <= 10
      PROVE  12 * size <= 10 * 1024 * Requirement(size)
  BY <1>1, <1>3, <1>5
<1>6. QED
  BY <1>3, <1>4, <1>5

(* A guess from the name is an amount.                                     *)
LEMMA GuessIsSize == ASSUME NEW n \in Repos PROVE Guess(n) \in Nat
<1>1. HintOf[n] \in 0 .. 15
  BY CatalogueAssumption
<1>2. QED
  BY <1>1 DEF Guess, SizeTable

-----------------------------------------------------------------------------
(* The invariant.                                                          *)

(* Only a serving process onboards; nothing else registers while the       *)
(* cache is synced.                                                        *)
OnboardsServing == phase # "serving" => \A c \in Clients : onboarding[c] = Nothing

InSync == phase \in {"sync", "save", "row"}

(* A directory that is still to come is registered only if it was when the *)
(* sync began.                                                             *)
TodoIsKnown ==
  /\ InSync => todo \cap NamesIn(catalogue) \subseteq existing
  /\ phase = "save" => picked \in Repos /\ picked \notin NamesIn(catalogue) /\ picked \notin todo
  /\ phase = "row" => Len(catalogue) >= 1

FilesExist == \A n \in Repos : cache[n].files \subseteq Files(n)

CatalogueInv ==
  /\ CatalogueTypeOK
  /\ FilesExist
  /\ OnboardsServing
  /\ TodoIsKnown
  /\ SyncAddsNoDuplicate
  /\ SyncedCoversWeights

(* Sums of sizes are sizes, and only that of no file is 0.                 *)
LEMMA WeightIsNatural ==
  ASSUME NEW n \in Repos, NEW files \in SUBSET (DOMAIN ShardsOf[n])
  PROVE  Weight(n, files) \in Nat /\ (files # {} => Weight(n, files) > 0)
<1> DEFINE SumOf(S) == CHOOSE s : IsSum(s, ShardsOf[n], S)
<1>1. PICK shards \in Seq(Nat \ {0}) : shards = ShardsOf[n]
  BY CatalogueAssumption
<1>2. /\ DOMAIN ShardsOf[n] = 1 .. Len(shards) /\ Len(shards) \in Nat
      /\ \A i \in DOMAIN ShardsOf[n] : ShardsOf[n][i] \in Nat \ {0}
  BY <1>1
<1>3. IsFiniteSet(files) /\ Index \notin files /\ \A i \in files : ShardsOf[n][i] \in Nat \ {0}
  <2>1. IsFiniteSet(1 .. Len(shards))
    BY <1>2, FS_Interval
  <2>2. QED
    BY <1>2, <2>1, FS_Subset DEF Index
<1>4. ASSUME NEW S PROVE MapThenSumSet(LAMBDA i : ShardsOf[n][i], S) = SumOf(S)[S]
  BY DEF MapThenSumSet, MapThenFoldSet, IsSum, Pick
<1>5. files \ {Index} = files
  BY <1>3
<1>6. Weight(n, files) = SumOf(files)[files]
  BY <1>4, <1>5 DEF Weight
<1>7. IsSum(SumOf(files), ShardsOf[n], files)
  BY <1>3, SumExists
<1> HIDE DEF SumOf
<1>8. SumOf(files)[files] \in Nat
  BY <1>3, <1>7, SumIsNatural
<1>9. files # {} => SumOf(files)[files] > 0
  BY <1>3, <1>7, SumIsPositive
<1>10. QED
  BY <1>6, <1>8, <1>9

(* What the sync charges for a repository: an amount, and one that covers  *)
(* the weights when they are all there.                                    *)
LEMMA EstimateCovers ==
  ASSUME NEW n \in Repos, cache[n].files \subseteq Files(n)
  PROVE  /\ Estimate(n) \in Nat
         /\ Complete(n) =>
              /\ FullWeight(n) <= 1024 * Estimate(n)
              /\ Estimate(n) <= 10 => 12 * FullWeight(n) <= 10 * 1024 * Estimate(n)
<1> DEFINE files == cache[n].files
           size == IF Index \in files THEN FullWeight(n) ELSE Weight(n, files)
<1>1. FullWeight(n) \in Nat
  BY WeightIsNatural DEF FullWeight
<1>2. Index \notin files => files \subseteq DOMAIN ShardsOf[n]
  BY DEF Files
<1>3. size \in Nat
  BY <1>1, <1>2, WeightIsNatural
<1>4. Complete(n) => size = FullWeight(n)
  <2>1. CASE Index \in files
    BY <2>1
  <2>2. CASE Index \notin files
    <3>1. Complete(n) => files = DOMAIN ShardsOf[n]
      BY <2>2 DEF Complete, Files
    <3>2. QED
      BY <2>2, <3>1 DEF FullWeight
  <2>3. QED
    BY <2>1, <2>2
<1>5. Estimate(n) = IF size = 0 THEN Guess(n) ELSE Requirement(size)
  BY DEF Estimate
<1>6. Guess(n) \in Nat
  BY GuessIsSize
<1> HIDE DEF size, files
<1>7. /\ Requirement(size) \in Nat
      /\ size <= 1024 * Requirement(size)
      /\ Requirement(size) <= 10 => 12 * size <= 10 * 1024 * Requirement(size)
  BY <1>3, RequirementCovers
<1>8. CASE size = 0
  <2>1. Estimate(n) = Guess(n)
    BY <1>5, <1>8
  <2>2. Complete(n) => FullWeight(n) = 0
    BY <1>4, <1>8
  <2>3. QED
    BY <1>6, <2>1, <2>2
<1>9. CASE size # 0
  <2>1. Estimate(n) = Requirement(size)
    BY <1>5, <1>9
  <2>2. QED
    BY <1>4, <1>7, <2>1
<1>10. QED
  BY <1>8, <1>9

-----------------------------------------------------------------------------
(* A registration keeps what holds of the catalogue if the new record does.*)
LEMMA RegisterKeeps ==
  ASSUME CatalogueTypeOK, SyncAddsNoDuplicate, SyncedCoversWeights,
         NEW n \in Repos, NEW memory \in Nat, NEW by \in {"sync", "onboard", "register"},
         Register(n, memory, by),
         by = "sync" => n \notin NamesIn(catalogue),
         by = "sync" /\ Complete(n) =>
              /\ FullWeight(n) <= 1024 * memory
              /\ memory <= 10 => 12 * FullWeight(n) <= 10 * 1024 * memory
  PROVE  /\ catalogue' \in Seq(Record)
         /\ Len(catalogue') = Len(catalogue) + 1
         /\ NamesIn(catalogue') = NamesIn(catalogue) \cup {n}
         /\ SyncAddsNoDuplicate'
         /\ SyncedCoversWeights'
<1> DEFINE record == [name |-> n, memory |-> memory, by |-> by, complete |-> Complete(n)]
<1>1. catalogue \in Seq(Record)
  BY DEF CatalogueTypeOK
<1>2. record \in Record
  BY DEF Record, Complete
<1>3. catalogue' = Append(catalogue, record)
  BY DEF Register
<1> HIDE DEF record
<1>4. /\ catalogue' \in Seq(Record)
      /\ Len(catalogue') = Len(catalogue) + 1
      /\ Len(catalogue) \in Nat
      /\ DOMAIN catalogue = 1 .. Len(catalogue)
      /\ DOMAIN catalogue' = 1 .. Len(catalogue) + 1
      /\ \A i \in 1 .. Len(catalogue) : catalogue'[i] = catalogue[i]
      /\ catalogue'[Len(catalogue) + 1] = record
  BY <1>1, <1>2, <1>3
<1>5. /\ record.name = n /\ record.memory = memory
      /\ record.by = by /\ record.complete = Complete(n)
  BY DEF record
<1>6. NamesIn(catalogue') = NamesIn(catalogue) \cup {n}
  BY <1>4, <1>5 DEF NamesIn
<1>7. SyncAddsNoDuplicate'
  <2> SUFFICES ASSUME NEW i \in 1 .. Len(catalogue) + 1, NEW j \in 1 .. Len(catalogue) + 1,
                      i < j, catalogue'[j].by = "sync"
               PROVE  catalogue'[i].name # catalogue'[j].name
    BY <1>4 DEF SyncAddsNoDuplicate
  <2>1. i \in 1 .. Len(catalogue)
    BY <1>4
  <2>2. CASE j = Len(catalogue) + 1
    <3>1. catalogue[i].name \in NamesIn(catalogue)
      BY <1>4, <2>1 DEF NamesIn
    <3>2. by = "sync" /\ catalogue'[j].name = n
      BY <1>4, <1>5, <2>2
    <3>3. QED
      BY <1>4, <2>1, <3>1, <3>2
  <2>3. CASE j \in 1 .. Len(catalogue)
    BY <1>4, <2>1, <2>3 DEF SyncAddsNoDuplicate
  <2>4. QED
    BY <1>4, <2>2, <2>3
<1>8. SyncedCoversWeights'
  <2> SUFFICES ASSUME NEW i \in 1 .. Len(catalogue) + 1,
                      catalogue'[i].by = "sync", catalogue'[i].complete
               PROVE  /\ FullWeight(catalogue'[i].name) <= 1024 * catalogue'[i].memory
                      /\ catalogue'[i].memory <= 10 =>
                           12 * FullWeight(catalogue'[i].name) <= 10 * 1024 * catalogue'[i].memory
    BY <1>4 DEF SyncedCoversWeights
  <2>1. CASE i = Len(catalogue) + 1
    BY <1>4, <1>5, <2>1
  <2>2. CASE i \in 1 .. Len(catalogue)
    BY <1>4, <2>2 DEF SyncedCoversWeights
  <2>3. QED
    BY <1>4, <2>1, <2>2
<1>9. QED
  BY <1>4, <1>6, <1>7, <1>8

(* The process starts with an empty catalogue.                             *)
LEMMA CatalogueInit == Init => CatalogueInv
<1> SUFFICES ASSUME Init PROVE CatalogueInv
  OBVIOUS
<1>1. catalogue = <<>> /\ catalogue \in Seq(Record) /\ Len(catalogue) = 0 /\ DOMAIN catalogue = {}
  BY DEF Init
<1>2. NoDirectory \in Directory
  BY DEF NoDirectory, Directory
<1>3. CatalogueTypeOK
  <2>1. 0 \in 0 .. MaxCrashes
    BY CatalogueAssumption
  <2>2. cache \in [Repos -> Directory]
    BY <1>2 DEF Init
  <2>3. QED
    BY <1>1, <2>1, <2>2 DEF Init, CatalogueTypeOK
<1>4. FilesExist
  BY DEF Init, FilesExist, NoDirectory
<1>5. OnboardsServing /\ TodoIsKnown
  BY DEF Init, OnboardsServing, TodoIsKnown, InSync
<1>6. SyncAddsNoDuplicate /\ SyncedCoversWeights
  BY <1>1 DEF SyncAddsNoDuplicate, SyncedCoversWeights
<1>7. QED
  BY <1>3, <1>4, <1>5, <1>6 DEF CatalogueInv

-----------------------------------------------------------------------------
(* The steps of the sync.                                                  *)

(* A step that leaves the catalogue and the cache alone keeps what is said *)
(* of them.                                                                *)
LEMMA CatalogueKept ==
  ASSUME CatalogueInv, catalogue' = catalogue, cache' = cache
  PROVE  /\ FilesExist' /\ SyncAddsNoDuplicate' /\ SyncedCoversWeights'
         /\ NamesIn(catalogue') = NamesIn(catalogue)
<1>1. FilesExist'
  BY DEF CatalogueInv, FilesExist, Files
<1>2. SyncAddsNoDuplicate'
  BY DEF CatalogueInv, SyncAddsNoDuplicate
<1>3. SyncedCoversWeights'
  BY DEF CatalogueInv, SyncedCoversWeights
<1>4. QED
  BY <1>1, <1>2, <1>3 DEF NamesIn

(* The lists are made: what is registered is among the existing names.     *)
LEMMA BuildStep == CatalogueInv /\ Build => CatalogueInv'
<1> SUFFICES ASSUME CatalogueInv, Build PROVE CatalogueInv'
  OBVIOUS
<1>1. FilesExist' /\ SyncAddsNoDuplicate' /\ SyncedCoversWeights' /\ NamesIn(catalogue') = NamesIn(catalogue)
  BY CatalogueKept DEF Build, tableVars, diskVars
<1>2. NamesIn(catalogue) \subseteq Repos
  <2>1. \A i \in DOMAIN catalogue : catalogue[i] \in Record
    BY DEF CatalogueInv, CatalogueTypeOK
  <2>2. QED
    BY <2>1 DEF NamesIn, Record
<1>3. CatalogueTypeOK'
  BY <1>2 DEF CatalogueInv, CatalogueTypeOK, Build, tableVars, diskVars
<1>4. OnboardsServing'
  BY DEF CatalogueInv, OnboardsServing, Build, diskVars
<1>5. TodoIsKnown'
  BY <1>1 DEF TodoIsKnown, InSync, Build
<1>6. QED
  BY <1>1, <1>3, <1>4, <1>5 DEF CatalogueInv

(* Passing over, picking, saving the row and ending the sync.              *)
LEMMA SyncStep ==
  CatalogueInv /\ (SyncSavesRow \/ SyncEnds \/ SyncFails \/ \E n \in Repos : SyncSkips(n) \/ SyncPicks(n))
    => CatalogueInv'
<1> SUFFICES ASSUME CatalogueInv,
                    SyncSavesRow \/ SyncEnds \/ SyncFails \/ \E n \in Repos : SyncSkips(n) \/ SyncPicks(n)
             PROVE  CatalogueInv'
  OBVIOUS
<1> USE DEF tableVars, diskVars
<1>1. FilesExist' /\ SyncAddsNoDuplicate' /\ SyncedCoversWeights' /\ NamesIn(catalogue') = NamesIn(catalogue)
  BY CatalogueKept DEF SyncSavesRow, SyncEnds, SyncFails, SyncSkips, SyncPicks
<1>2. OnboardsServing'
  BY DEF CatalogueInv, OnboardsServing, SyncSavesRow, SyncEnds, SyncFails, SyncSkips, SyncPicks
<1>3. CatalogueTypeOK' /\ TodoIsKnown'
  <2>1. CASE SyncSavesRow
    <3>1. Len(catalogue) \in 1 .. Len(catalogue)
      BY <2>1 DEF CatalogueInv, CatalogueTypeOK, TodoIsKnown, SyncSavesRow
    <3>2. CatalogueTypeOK'
      BY <2>1, <3>1 DEF CatalogueInv, CatalogueTypeOK, SyncSavesRow
    <3>3. TodoIsKnown'
      BY <1>1, <2>1 DEF CatalogueInv, TodoIsKnown, InSync, SyncSavesRow
    <3>4. QED
      BY <3>2, <3>3
  <2>2. CASE SyncEnds
    BY <2>2 DEF CatalogueInv, CatalogueTypeOK, TodoIsKnown, InSync, SyncEnds
  <2>3. CASE SyncFails
    BY <2>3 DEF CatalogueInv, CatalogueTypeOK, TodoIsKnown, InSync, SyncFails
  <2>4. ASSUME NEW n \in Repos, SyncSkips(n)
        PROVE  CatalogueTypeOK' /\ TodoIsKnown'
    BY <1>1, <2>4 DEF CatalogueInv, CatalogueTypeOK, TodoIsKnown, InSync, SyncSkips
  <2>5. ASSUME NEW n \in Repos, SyncPicks(n)
        PROVE  CatalogueTypeOK' /\ TodoIsKnown'
    BY <1>1, <2>5 DEF CatalogueInv, CatalogueTypeOK, TodoIsKnown, InSync, SyncPicks
  <2>6. QED
    BY <2>1, <2>2, <2>3, <2>4, <2>5
<1>4. QED
  BY <1>1, <1>2, <1>3 DEF CatalogueInv

(* The record is of a name that is not registered, and covers its weights. *)
LEMMA SaveStep == CatalogueInv /\ SyncSaves => CatalogueInv'
<1> SUFFICES ASSUME CatalogueInv, SyncSaves PROVE CatalogueInv'
  OBVIOUS
<1> USE DEF diskVars
<1>1. picked \in Repos /\ picked \notin NamesIn(catalogue) /\ picked \notin todo
  BY DEF CatalogueInv, TodoIsKnown, SyncSaves
<1>2. /\ Estimate(picked) \in Nat
      /\ Complete(picked) =>
           /\ FullWeight(picked) <= 1024 * Estimate(picked)
           /\ Estimate(picked) <= 10 => 12 * FullWeight(picked) <= 10 * 1024 * Estimate(picked)
  BY <1>1, EstimateCovers DEF CatalogueInv, FilesExist
<1>3. /\ catalogue' \in Seq(Record)
      /\ Len(catalogue') = Len(catalogue) + 1
      /\ NamesIn(catalogue') = NamesIn(catalogue) \cup {picked}
      /\ SyncAddsNoDuplicate' /\ SyncedCoversWeights'
  BY <1>1, <1>2, RegisterKeeps DEF CatalogueInv, SyncSaves
<1>4. CatalogueTypeOK'
  <2>1. rows' \in SUBSET (1 .. Len(catalogue'))
    BY <1>3 DEF CatalogueInv, CatalogueTypeOK, SyncSaves
  <2>2. QED
    BY <1>3, <2>1 DEF CatalogueInv, CatalogueTypeOK, SyncSaves
<1>5. FilesExist' /\ OnboardsServing'
  BY DEF CatalogueInv, FilesExist, Files, OnboardsServing, SyncSaves
<1>6. TodoIsKnown'
  BY <1>1, <1>3 DEF CatalogueInv, CatalogueTypeOK, TodoIsKnown, InSync, SyncSaves
<1>7. QED
  BY <1>3, <1>4, <1>5, <1>6 DEF CatalogueInv

-----------------------------------------------------------------------------
(* The steps of a serving process, and its end.                            *)

(* The wipe leaves a part of the rows, and the lists of the sync are gone. *)
LEMMA WipeStep == CatalogueInv /\ Wipe => CatalogueInv'
<1> SUFFICES ASSUME CatalogueInv, Wipe PROVE CatalogueInv'
  OBVIOUS
<1> USE DEF diskVars, ForgetSync
<1>1. FilesExist' /\ SyncAddsNoDuplicate' /\ SyncedCoversWeights'
  BY CatalogueKept DEF Wipe
<1>2. rows' \subseteq rows
  BY DEF Wipe
<1>3. CatalogueTypeOK'
  BY <1>2 DEF CatalogueInv, CatalogueTypeOK, Wipe
<1>4. OnboardsServing' /\ TodoIsKnown'
  BY DEF CatalogueInv, OnboardsServing, TodoIsKnown, InSync, Wipe
<1>5. QED
  BY <1>1, <1>3, <1>4 DEF CatalogueInv

(* The process is down: no client is served, and a catalogue that lived in *)
(* memory is empty.                                                        *)
LEMMA CrashStep == CatalogueInv /\ Crash => CatalogueInv'
<1> SUFFICES ASSUME CatalogueInv, Crash PROVE CatalogueInv'
  OBVIOUS
<1> USE DEF ForgetSync
<1>0. crashes' \in 0 .. MaxCrashes
  <2>1. MaxCrashes \in Nat
    BY CatalogueAssumption
  <2>2. QED
    BY <2>1 DEF CatalogueInv, CatalogueTypeOK, Crash
<1>1. CASE database = "memory"
  <2>1. catalogue' = <<>> /\ rows' = {} /\ catalogue' \in Seq(Record) /\ DOMAIN catalogue' = {}
    BY <1>1 DEF Crash
  <2>2. CatalogueTypeOK'
    BY <1>0, <2>1 DEF CatalogueInv, CatalogueTypeOK, Crash
  <2>3. SyncAddsNoDuplicate' /\ SyncedCoversWeights'
    BY <2>1 DEF SyncAddsNoDuplicate, SyncedCoversWeights
  <2>4. FilesExist' /\ OnboardsServing' /\ TodoIsKnown'
    BY DEF CatalogueInv, FilesExist, Files, OnboardsServing, TodoIsKnown, InSync, Crash
  <2>5. QED
    BY <2>2, <2>3, <2>4 DEF CatalogueInv
<1>2. CASE database # "memory"
  <2>1. catalogue' = catalogue /\ rows' = rows /\ cache' = cache
    BY <1>2 DEF Crash
  <2>2. FilesExist' /\ SyncAddsNoDuplicate' /\ SyncedCoversWeights'
    BY <2>1, CatalogueKept
  <2>3. CatalogueTypeOK'
    BY <1>0, <2>1 DEF CatalogueInv, CatalogueTypeOK, Crash
  <2>4. OnboardsServing' /\ TodoIsKnown'
    BY DEF OnboardsServing, TodoIsKnown, InSync, Crash
  <2>5. QED
    BY <2>2, <2>3, <2>4 DEF CatalogueInv
<1>3. QED
  BY <1>1, <1>2

(* Downloads only add files that exist.                                    *)
LEMMA DownloadStep ==
  CatalogueInv /\ ((\E i \in DOMAIN catalogue : EngineStarts(i)) \/ \E n \in Repos : FileArrives(n))
    => CatalogueInv'
<1> SUFFICES ASSUME CatalogueInv,
                    (\E i \in DOMAIN catalogue : EngineStarts(i)) \/ \E n \in Repos : FileArrives(n)
             PROVE  CatalogueInv'
  OBVIOUS
<1> USE DEF tableVars, syncVars
<1>1. /\ catalogue' = catalogue /\ rows' = rows /\ database' = database /\ crashes' = crashes
      /\ onboarding' = onboarding /\ phase' = phase /\ existing' = existing /\ todo' = todo
      /\ picked' = picked /\ synced' = synced /\ whole' = whole
  BY DEF EngineStarts, FileArrives
<1>2. cache' \in [Repos -> Directory] /\ fetching' \in SUBSET Repos /\ FilesExist'
  <2>1. ASSUME NEW i \in DOMAIN catalogue, EngineStarts(i)
        PROVE  cache' \in [Repos -> Directory] /\ fetching' \in SUBSET Repos /\ FilesExist'
    <3> DEFINE n == catalogue[i].name
               head == IF catalogue[i].by = "register" THEN HeadOf[n] ELSE Nothing
               wanted == {n, head} \ {Nothing}
    <3>1. catalogue[i] \in Record
      BY DEF CatalogueInv, CatalogueTypeOK
    <3>2. wanted \subseteq Repos
      BY <3>1, CatalogueAssumption DEF Record
    <3>3. /\ fetching' = fetching \cup wanted
          /\ cache' = [m \in Repos |-> IF m \in wanted THEN [cache[m] EXCEPT !.made = TRUE] ELSE cache[m]]
      BY <2>1 DEF EngineStarts
    <3> HIDE DEF wanted
    <3>4. \A m \in Repos : cache'[m] \in Directory /\ cache'[m].files = cache[m].files
      BY <3>3 DEF CatalogueInv, CatalogueTypeOK, Directory
    <3>5. cache' \in [Repos -> Directory]
      BY <3>3, <3>4
    <3>6. FilesExist'
      BY <3>4 DEF CatalogueInv, FilesExist, Files
    <3>7. QED
      BY <3>2, <3>3, <3>5, <3>6 DEF CatalogueInv, CatalogueTypeOK
  <2>2. ASSUME NEW n \in Repos, FileArrives(n)
        PROVE  cache' \in [Repos -> Directory] /\ fetching' \in SUBSET Repos /\ FilesExist'
    <3>1. PICK file \in Files(n) \ cache[n].files :
            cache' = [cache EXCEPT ![n].files = @ \cup {file}]
      BY <2>2 DEF FileArrives
    <3>2. Files(n) \subseteq Nat
      <4>1. ShardsOf[n] \in Seq(Nat \ {0})
        BY CatalogueAssumption
      <4>2. DOMAIN ShardsOf[n] \subseteq Nat
        BY <4>1
      <4>3. QED
        BY <4>2 DEF Files, Index
    <3>3. cache \in [Repos -> Directory]
      BY DEF CatalogueInv, CatalogueTypeOK
    <3>4. cache[n] \in Directory /\ cache[n].files \cup {file} \in SUBSET Nat
      BY <3>2, <3>3 DEF Directory
    <3>5. cache' = [cache EXCEPT ![n] = [cache[n] EXCEPT !.files = cache[n].files \cup {file}]]
      BY <3>1
    <3>6. [cache[n] EXCEPT !.files = cache[n].files \cup {file}] \in Directory
      BY <3>4 DEF Directory
    <3>7. cache' \in [Repos -> Directory]
      BY <3>3, <3>5, <3>6
    <3>8. FilesExist'
      <4> SUFFICES ASSUME NEW m \in Repos PROVE cache'[m].files \subseteq Files(m)
        BY DEF FilesExist, Files
      <4>1. CASE m = n
        <5>1. cache'[m].files = cache[n].files \cup {file}
          BY <3>3, <3>4, <3>5, <4>1 DEF Directory
        <5>2. QED
          BY <4>1, <5>1 DEF CatalogueInv, FilesExist
      <4>2. CASE m # n
        BY <3>3, <3>5, <4>2 DEF CatalogueInv, FilesExist
      <4>3. QED
        BY <4>1, <4>2
    <3>9. fetching' \in SUBSET Repos
      BY <2>2 DEF FileArrives, CatalogueInv, CatalogueTypeOK
    <3>10. QED
      BY <3>7, <3>8, <3>9
  <2>3. QED
    BY <2>1, <2>2
<1>3. CatalogueTypeOK'
  BY <1>1, <1>2 DEF CatalogueInv, CatalogueTypeOK
<1>4. SyncAddsNoDuplicate' /\ SyncedCoversWeights'
  BY <1>1 DEF CatalogueInv, SyncAddsNoDuplicate, SyncedCoversWeights
<1>5. OnboardsServing' /\ TodoIsKnown'
  BY <1>1 DEF CatalogueInv, OnboardsServing, TodoIsKnown, InSync, NamesIn
<1>6. QED
  BY <1>2, <1>3, <1>4, <1>5 DEF CatalogueInv

(* An onboarding that begins or fails registers nothing.                   *)
LEMMA OnboardStep ==
  CatalogueInv /\ (\E c \in Clients : OnboardFails(c) \/ \E n \in Repos : OnboardBegins(c, n))
    => CatalogueInv'
<1> SUFFICES ASSUME CatalogueInv,
                    NEW c \in Clients, OnboardFails(c) \/ \E n \in Repos : OnboardBegins(c, n)
             PROVE  CatalogueInv'
  OBVIOUS
<1> USE DEF tableVars, syncVars
<1>1. /\ catalogue' = catalogue /\ rows' = rows /\ database' = database /\ crashes' = crashes
      /\ fetching' = fetching /\ phase' = phase /\ existing' = existing /\ todo' = todo
      /\ picked' = picked /\ synced' = synced /\ whole' = whole
  BY DEF OnboardFails, OnboardBegins
<1>2. OnboardsServing' /\ onboarding' \in [Clients -> Repos \cup {Nothing}]
  BY <1>1 DEF CatalogueInv, CatalogueTypeOK, OnboardsServing, OnboardFails, OnboardBegins
<1>3. cache' \in [Repos -> Directory] /\ \A m \in Repos : cache'[m].files = cache[m].files
  <2>1. cache \in [Repos -> Directory]
    BY DEF CatalogueInv, CatalogueTypeOK
  <2>2. CASE OnboardFails(c)
    BY <2>1, <2>2 DEF OnboardFails
  <2>3. ASSUME NEW n \in Repos, OnboardBegins(c, n)
        PROVE  cache' \in [Repos -> Directory] /\ \A m \in Repos : cache'[m].files = cache[m].files
    <3>1. cache' = [cache EXCEPT ![n] = [cache[n] EXCEPT !.made = TRUE]]
      BY <2>3 DEF OnboardBegins
    <3>2. /\ [cache[n] EXCEPT !.made = TRUE] \in Directory
          /\ [cache[n] EXCEPT !.made = TRUE].files = cache[n].files
      BY <2>1 DEF Directory
    <3>3. QED
      BY <2>1, <3>1, <3>2
  <2>4. QED
    BY <2>2, <2>3
<1>4. CatalogueTypeOK'
  BY <1>1, <1>2, <1>3 DEF CatalogueInv, CatalogueTypeOK
<1>5. FilesExist'
  BY <1>3 DEF CatalogueInv, FilesExist, Files
<1>6. SyncAddsNoDuplicate' /\ SyncedCoversWeights' /\ TodoIsKnown'
  BY <1>1 DEF CatalogueInv, SyncAddsNoDuplicate, SyncedCoversWeights, TodoIsKnown, InSync, NamesIn
<1>7. QED
  BY <1>2, <1>4, <1>5, <1>6 DEF CatalogueInv

(* Onboarding and operators register while the process serves.             *)
LEMMA ServingStep ==
  CatalogueInv /\ ((\E c \in Clients : OnboardRegisters(c)) \/ \E n \in Repos : OperatorRegisters(n))
    => CatalogueInv'
<1> SUFFICES ASSUME CatalogueInv,
                    (\E c \in Clients : OnboardRegisters(c)) \/ \E n \in Repos : OperatorRegisters(n)
             PROVE  CatalogueInv'
  OBVIOUS
<1> USE DEF syncVars
<1>1. phase = "serving" /\ phase' = phase
  BY DEF CatalogueInv, OnboardsServing, OnboardRegisters, OperatorRegisters
<1>2. \E n \in Repos, memory \in Nat, by \in {"onboard", "register"} : Register(n, memory, by)
  <2>1. ASSUME NEW c \in Clients, OnboardRegisters(c)
        PROVE  onboarding[c] \in Repos /\ Register(onboarding[c], OnboardMemory(onboarding[c]), "onboard")
    BY <2>1 DEF CatalogueInv, CatalogueTypeOK, OnboardRegisters
  <2>2. \A n \in Repos : OnboardMemory(n) \in Nat
    BY CatalogueAssumption DEF OnboardMemory
  <2>3. ASSUME NEW n \in Repos, OperatorRegisters(n)
        PROVE  \E memory \in Nat : Register(n, memory, "register")
    BY <2>3, CatalogueAssumption DEF OperatorRegisters
  <2>4. QED
    BY <2>1, <2>2, <2>3
<1>3. PICK n \in Repos, memory \in Nat, by \in {"onboard", "register"} : Register(n, memory, by)
  BY <1>2
<1>4. /\ catalogue' \in Seq(Record)
      /\ Len(catalogue') = Len(catalogue) + 1
      /\ SyncAddsNoDuplicate' /\ SyncedCoversWeights'
  BY <1>3, RegisterKeeps DEF CatalogueInv
<1>5. /\ database' = database /\ cache' = cache /\ fetching' = fetching /\ crashes' = crashes
      /\ existing' = existing /\ todo' = todo /\ picked' = picked /\ synced' = synced /\ whole' = whole
  BY DEF OnboardRegisters, OperatorRegisters, diskVars
<1>6. rows' \in SUBSET (1 .. Len(catalogue'))
  <2>1. rows' \subseteq rows \cup {Newest}
    BY DEF OnboardRegisters, OperatorRegisters
  <2>2. rows \subseteq 1 .. Len(catalogue) /\ Len(catalogue) \in Nat
    BY DEF CatalogueInv, CatalogueTypeOK
  <2>3. QED
    BY <1>4, <2>1, <2>2 DEF Newest
<1>7. onboarding' \in [Clients -> Repos \cup {Nothing}]
  BY DEF CatalogueInv, CatalogueTypeOK, OnboardRegisters, OperatorRegisters, diskVars
<1>8. CatalogueTypeOK'
  BY <1>1, <1>4, <1>5, <1>6, <1>7 DEF CatalogueInv, CatalogueTypeOK
<1>9. FilesExist' /\ OnboardsServing' /\ TodoIsKnown'
  BY <1>1, <1>5 DEF CatalogueInv, FilesExist, Files, OnboardsServing, TodoIsKnown, InSync
<1>10. QED
  BY <1>4, <1>8, <1>9 DEF CatalogueInv

-----------------------------------------------------------------------------
(* The invariant holds in every reachable state.                           *)
THEOREM CatalogueInvariant == Spec => []CatalogueInv
<1>1. Init => CatalogueInv
  BY CatalogueInit
<1>2. CatalogueInv /\ [Next]_catalogueVars => CatalogueInv'
  <2> SUFFICES ASSUME CatalogueInv, [Next]_catalogueVars PROVE CatalogueInv'
    OBVIOUS
  <2>1. CASE Build
    BY <2>1, BuildStep
  <2>2. CASE SyncSavesRow \/ SyncEnds \/ SyncFails \/ \E n \in Repos : SyncSkips(n) \/ SyncPicks(n)
    BY <2>2, SyncStep
  <2>3. CASE SyncSaves
    BY <2>3, SaveStep
  <2>4. CASE Wipe
    BY <2>4, WipeStep
  <2>5. CASE Crash
    BY <2>5, CrashStep
  <2>6. CASE (\E i \in DOMAIN catalogue : EngineStarts(i)) \/ \E n \in Repos : FileArrives(n)
    BY <2>6, DownloadStep
  <2>7. CASE \E c \in Clients : OnboardFails(c) \/ \E n \in Repos : OnboardBegins(c, n)
    BY <2>7, OnboardStep
  <2>8. CASE (\E c \in Clients : OnboardRegisters(c)) \/ \E n \in Repos : OperatorRegisters(n)
    BY <2>8, ServingStep
  <2>9. CASE UNCHANGED catalogueVars
    <3> USE DEF catalogueVars, tableVars, syncVars, diskVars
    <3>1. FilesExist' /\ SyncAddsNoDuplicate' /\ SyncedCoversWeights'
      BY <2>9, CatalogueKept
    <3>2. CatalogueTypeOK' /\ OnboardsServing' /\ TodoIsKnown'
      BY <2>9 DEF CatalogueInv, CatalogueTypeOK, OnboardsServing, TodoIsKnown, InSync, NamesIn
    <3>3. QED
      BY <3>1, <3>2 DEF CatalogueInv
  <2>10. QED
    BY <2>1, <2>2, <2>3, <2>4, <2>5, <2>6, <2>7, <2>8, <2>9 DEF Next
<1>3. QED
  BY <1>1, <1>2, PTL DEF Spec

(* Every variable keeps its type.                                          *)
THEOREM CatalogueTypeCorrect == Spec => []CatalogueTypeOK
<1>1. CatalogueInv => CatalogueTypeOK
  BY DEF CatalogueInv
<1>2. QED
  BY <1>1, CatalogueInvariant, PTL

(* However often the process is started, cut off in the middle of a sync   *)
(* and started again, the sync never registers a name that is taken.       *)
THEOREM SyncNeverDuplicates == Spec => []SyncAddsNoDuplicate
<1>1. CatalogueInv => SyncAddsNoDuplicate
  BY DEF CatalogueInv
<1>2. QED
  BY <1>1, CatalogueInvariant, PTL

(* Whatever the sizes of the weight files, the sync charges a complete     *)
(* model at least its weights, and 20 % more up to the limit of 10 GB.     *)
THEOREM SyncCoversTheWeights == Spec => []SyncedCoversWeights
<1>1. CatalogueInv => SyncedCoversWeights
  BY DEF CatalogueInv
<1>2. QED
  BY <1>1, CatalogueInvariant, PTL

-----------------------------------------------------------------------------
(* What a whole sync leaves out.                                           *)

(* A complete small model is still to come, about to be saved, or          *)
(* registered; and complete it stays.                                      *)
WholeIsCovered ==
  /\ synced => phase = "start"
  /\ InSync =>
       /\ existing \subseteq NamesIn(catalogue)
       /\ \A n \in whole : Complete(n)
       /\ \A n \in whole : Small(n) =>
            n \in todo \/ n \in NamesIn(catalogue) \/ (phase = "save" /\ n = picked)

CachedInv == WholeIsCovered /\ CachedIsRegistered

(* A complete small model is never passed over as too large.               *)
LEMMA SmallIsNotLarge ==
  ASSUME NEW n \in Repos, Complete(n), Small(n)
  PROVE  ~Large(n)
<1> DEFINE files == cache[n].files
           size == IF Index \in files THEN FullWeight(n) ELSE Weight(n, files)
<1>1. FullWeight(n) \in Nat /\ FullWeight(n) > 0
  BY WeightIsNatural DEF FullWeight, Small
<1>2. size = FullWeight(n)
  <2>1. CASE Index \in files
    BY <2>1
  <2>2. CASE Index \notin files
    <3>1. files = DOMAIN ShardsOf[n]
      BY <2>2 DEF Complete, Files
    <3>2. QED
      BY <2>2, <3>1 DEF FullWeight
  <2>3. QED
    BY <2>1, <2>2
<1>3. Estimate(n) = IF size = 0 THEN Guess(n) ELSE Requirement(size)
  BY DEF Estimate
<1> HIDE DEF size, files
<1>4. Estimate(n) = Requirement(FullWeight(n))
  BY <1>1, <1>2, <1>3
<1>5. Requirement(FullWeight(n)) \in Nat
  BY <1>1, RequirementCovers
<1>6. QED
  BY <1>4, <1>5 DEF Large, Small

(* Registering leaves every name registered.                               *)
LEMMA NamesGrow ==
  ASSUME CatalogueTypeOK, NEW n, NEW memory, NEW by, Register(n, memory, by)
  PROVE  NamesIn(catalogue') = NamesIn(catalogue) \cup {n}
<1> DEFINE record == [name |-> n, memory |-> memory, by |-> by, complete |-> Complete(n)]
<1>1. catalogue \in Seq(Record) /\ catalogue' = Append(catalogue, record)
  BY DEF CatalogueTypeOK, Register
<1>2. record.name = n
  OBVIOUS
<1> HIDE DEF record
<1>3. /\ DOMAIN catalogue = 1 .. Len(catalogue) /\ Len(catalogue) \in Nat
      /\ DOMAIN catalogue' = 1 .. Len(catalogue) + 1
      /\ \A i \in 1 .. Len(catalogue) : catalogue'[i] = catalogue[i]
      /\ catalogue'[Len(catalogue) + 1] = record
  BY <1>1
<1>4. QED
  BY <1>2, <1>3 DEF NamesIn

(* The steps of the sync move a complete small model from the list to the  *)
(* catalogue.                                                              *)
LEMMA CachedSync ==
  CatalogueInv /\ CachedInv
    /\ (Build \/ SyncSaves \/ SyncSavesRow \/ SyncEnds \/ SyncFails
        \/ \E n \in Repos : SyncSkips(n) \/ SyncPicks(n))
    => CachedInv'
<1> SUFFICES ASSUME CatalogueInv, CachedInv,
                    Build \/ SyncSaves \/ SyncSavesRow \/ SyncEnds \/ SyncFails
                      \/ \E n \in Repos : SyncSkips(n) \/ SyncPicks(n)
             PROVE  CachedInv'
  OBVIOUS
<1> USE DEF tableVars, diskVars, CachedInv, WholeIsCovered, CachedIsRegistered, InSync
<1>1. cache' = cache /\ \A n : Complete(n)' = Complete(n)
  BY DEF Build, SyncSaves, SyncSavesRow, SyncEnds, SyncFails, SyncSkips, SyncPicks, Complete, Files
<1>2. \A n : Small(n)' = Small(n)
  BY DEF Small
<1>3. CASE Build
  <2>1. NamesIn(catalogue)' = NamesIn(catalogue)
    BY <1>3 DEF Build, NamesIn
  <2>2. QED
    BY <1>1, <1>2, <1>3, <2>1 DEF Build
<1>4. CASE SyncSaves
  <2>1. NamesIn(catalogue') = NamesIn(catalogue) \cup {picked}
    BY <1>4, NamesGrow DEF CatalogueInv, SyncSaves
  <2>2. NamesIn(catalogue)' = NamesIn(catalogue')
    BY DEF NamesIn
  <2>3. QED
    BY <1>1, <1>2, <1>4, <2>1, <2>2 DEF SyncSaves
<1>5. CASE SyncSavesRow \/ SyncEnds \/ SyncFails
  <2>1. NamesIn(catalogue)' = NamesIn(catalogue)
    BY <1>5 DEF SyncSavesRow, SyncEnds, SyncFails, NamesIn
  <2>2. QED
    BY <1>1, <1>2, <1>5, <2>1 DEF SyncSavesRow, SyncEnds, SyncFails
<1>6. ASSUME NEW n \in Repos, SyncSkips(n)
      PROVE  CachedInv'
  <2>1. NamesIn(catalogue)' = NamesIn(catalogue)
    BY <1>6 DEF SyncSkips, NamesIn
  <2>2. n \in whole /\ Small(n) => n \in NamesIn(catalogue)
    BY <1>6, SmallIsNotLarge DEF SyncSkips
  <2>3. QED
    BY <1>1, <1>2, <1>6, <2>1, <2>2 DEF SyncSkips
<1>7. ASSUME NEW n \in Repos, SyncPicks(n)
      PROVE  CachedInv'
  <2>1. NamesIn(catalogue)' = NamesIn(catalogue)
    BY <1>7 DEF SyncPicks, NamesIn
  <2>2. QED
    BY <1>1, <1>2, <1>7, <2>1 DEF SyncPicks
<1>8. QED
  BY <1>3, <1>4, <1>5, <1>6, <1>7

(* Files that arrive during the sync complete directories, and never spoil *)
(* one.                                                                    *)
LEMMA CachedDownload ==
  CatalogueInv /\ CachedInv /\ (\E n \in Repos : FileArrives(n)) => CachedInv'
<1> SUFFICES ASSUME CatalogueInv, CachedInv, NEW n \in Repos, FileArrives(n)
             PROVE  CachedInv'
  OBVIOUS
<1> USE DEF tableVars, syncVars, CachedInv, WholeIsCovered, CachedIsRegistered, InSync
<1>1. ~Complete(n) /\ \A m \in Repos : m # n => cache'[m] = cache[m]
  BY DEF CatalogueInv, CatalogueTypeOK, FileArrives, Complete
<1>2. \A m \in Repos : Complete(m) => Complete(m)'
  BY <1>1 DEF Complete, Files
<1>3. NamesIn(catalogue)' = NamesIn(catalogue) /\ whole \subseteq Repos
  BY DEF FileArrives, NamesIn, CatalogueInv, CatalogueTypeOK
<1>4. \A m : Small(m)' = Small(m)
  BY DEF Small
<1>5. QED
  BY <1>2, <1>3, <1>4 DEF FileArrives

(* The other steps are not of a sync, or end it.                           *)
LEMMA CachedServing ==
  CatalogueInv /\ CachedInv
    /\ (Wipe \/ Crash \/ (\E i \in DOMAIN catalogue : EngineStarts(i))
        \/ (\E n \in Repos : OperatorRegisters(n))
        \/ \E c \in Clients : \/ \E n \in Repos : OnboardBegins(c, n)
                              \/ OnboardRegisters(c) \/ OnboardFails(c))
    => CachedInv'
<1> SUFFICES ASSUME CatalogueInv, CachedInv,
                    Wipe \/ Crash \/ (\E i \in DOMAIN catalogue : EngineStarts(i))
                      \/ (\E n \in Repos : OperatorRegisters(n))
                      \/ \E c \in Clients : \/ \E n \in Repos : OnboardBegins(c, n)
                                            \/ OnboardRegisters(c) \/ OnboardFails(c)
             PROVE  CachedInv'
  OBVIOUS
<1> USE DEF CachedInv, WholeIsCovered, CachedIsRegistered, InSync, ForgetSync
<1>1. CASE Wipe
  BY <1>1 DEF Wipe
<1>2. CASE Crash
  BY <1>2 DEF Crash
<1>3. CASE \E c \in Clients : OnboardFails(c)
  <2>1. PICK c \in Clients : OnboardFails(c)
    BY <1>3
  <2>2. phase = "serving"
    BY <2>1 DEF CatalogueInv, OnboardsServing, OnboardFails
  <2>3. QED
    BY <2>1, <2>2 DEF OnboardFails, syncVars
<1>4. CASE \E c \in Clients : OnboardRegisters(c)
  <2>1. PICK c \in Clients : OnboardRegisters(c)
    BY <1>4
  <2>2. phase = "serving"
    BY <2>1 DEF CatalogueInv, OnboardsServing, OnboardRegisters
  <2>3. QED
    BY <2>1, <2>2 DEF OnboardRegisters, syncVars
<1>5. CASE (\E i \in DOMAIN catalogue : EngineStarts(i)) \/ (\E n \in Repos : OperatorRegisters(n))
             \/ \E c \in Clients, n \in Repos : OnboardBegins(c, n)
  BY <1>5 DEF EngineStarts, OperatorRegisters, OnboardBegins, syncVars
<1>6. QED
  BY <1>1, <1>2, <1>3, <1>4, <1>5

(* A start whose sync went through leaves no complete small model out of   *)
(* the catalogue, whatever the containers fetch meanwhile and wherever the *)
(* starts before it were cut off.                                          *)
THEOREM CachedModelsAreRegistered == Spec => []CachedIsRegistered
<1>1. Init => CachedInv
  BY DEF Init, CachedInv, WholeIsCovered, CachedIsRegistered, InSync
<1>2. CatalogueInv /\ CachedInv /\ [Next]_catalogueVars => CachedInv'
  <2> SUFFICES ASSUME CatalogueInv, CachedInv, [Next]_catalogueVars PROVE CachedInv'
    OBVIOUS
  <2>1. CASE UNCHANGED catalogueVars
    BY <2>1 DEF catalogueVars, tableVars, syncVars, diskVars, CachedInv, WholeIsCovered,
                CachedIsRegistered, InSync, NamesIn, Complete, Files, Small
  <2>2. CASE Build \/ SyncSaves \/ SyncSavesRow \/ SyncEnds \/ SyncFails
               \/ \E n \in Repos : SyncSkips(n) \/ SyncPicks(n)
    BY <2>2, CachedSync
  <2>3. CASE \E n \in Repos : FileArrives(n)
    BY <2>3, CachedDownload
  <2>4. CASE Wipe \/ Crash \/ (\E i \in DOMAIN catalogue : EngineStarts(i))
               \/ (\E n \in Repos : OperatorRegisters(n))
               \/ \E c \in Clients : \/ \E n \in Repos : OnboardBegins(c, n)
                                     \/ OnboardRegisters(c) \/ OnboardFails(c)
    BY <2>4, CachedServing
  <2>5. QED
    BY <2>1, <2>2, <2>3, <2>4 DEF Next
<1>3. CachedInv => CachedIsRegistered
  BY DEF CachedInv
<1>4. QED
  BY <1>1, <1>2, <1>3, CatalogueInvariant, PTL DEF Spec
=============================================================================
