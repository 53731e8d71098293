-------------------------- MODULE TelemetryProofs --------------------------
(***************************************************************************)
(* Proofs about the telemetry: for any number of requests, readers, ids    *)
(* and restarts.                                                           *)
(***************************************************************************)
EXTENDS Telemetry, FiniteInduction, SequenceTheorems

(* The indices snapshot() computes are within the list, in order, and      *)
(* cover 95 % and 99 % of it, however long it is.                          *)
THEOREM PercentilesCover == \A n \in Nat \ {0} : PercentileIndices(n)
<1> SUFFICES ASSUME NEW n \in Nat, n # 0 PROVE PercentileIndices(n)
  OBVIOUS
<1> DEFINE low == (95 * n) \div 100
           high == (99 * n) \div 100
<1>1. /\ low \in Nat /\ 100 * low <= 95 * n /\ 95 * n < 100 * (low + 1)
      /\ high \in Nat /\ 100 * high <= 99 * n /\ 99 * n < 100 * (high + 1)
  BY SMT
<1> HIDE DEF low, high
<1>2. P95Index(n) = low /\ P99Index(n) = IF high < n - 1 THEN high ELSE n - 1
  BY DEF P95Index, P99Index, low, high
<1>3. low <= high /\ low <= n - 1
  BY <1>1
<1>4. QED
  BY <1>1, <1>2, <1>3 DEF PercentileIndices

-----------------------------------------------------------------------------
(* What snapshot() and list() make of a table.                             *)
Row == [place : Nat, latency : Latencies \cup {0}, speculative : BOOLEAN]

(* A table whose rows have places of their own.                            *)
Orderly(table) ==
  /\ table \in [Ids -> Row]
  /\ \A i, j \in Recorded(table) : table[i].place = table[j].place => i = j

(* Its rows are finitely many, and their fields are numbers.               *)
LEMMA RowsAreFinite ==
  ASSUME NEW table \in [Ids -> Row]
  PROVE  /\ Recorded(table) \in SUBSET Ids /\ IsFiniteSet(Recorded(table))
         /\ Total(table) \in Nat /\ (Total(table) = 0 <=> Recorded(table) = {})
         /\ \A id \in Recorded(table) : table[id].place \in Nat /\ table[id].latency \in Nat
<1>1. Recorded(table) \in SUBSET Ids
  BY DEF Recorded
<1>2. IsFiniteSet(Recorded(table))
  BY <1>1, TelemetryAssumption, FS_Subset
<1>3. Total(table) \in Nat /\ (Total(table) = 0 <=> Recorded(table) = {})
  BY <1>2, FS_CardinalityType, FS_EmptySet DEF Total
<1>4. ASSUME NEW id \in Recorded(table) PROVE table[id].place \in Nat /\ table[id].latency \in Nat
  <2>1. table[id] \in Row
    BY <1>1
  <2>2. table[id].place \in Nat /\ table[id].latency \in Latencies \cup {0}
    BY <2>1 DEF Row
  <2>3. Latencies \cup {0} \subseteq Nat
    BY TelemetryAssumption
  <2>4. QED
    BY <2>2, <2>3, Zenon
<1>5. QED
  BY <1>1, <1>2, <1>3, <1>4

(* The average is a number, whatever the latencies.                        *)
LEMMA MeanIsNatural ==
  ASSUME NEW table \in [Ids -> Row]
  PROVE  MeanLatency(table) \in Nat
<1> DEFINE rows == Recorded(table)
           latency == [id \in rows |-> table[id].latency]
           Step(f) == [s \in SUBSET rows |->
                         IF s = {} THEN 0 ELSE table[Pick(s)].latency + f[s \ {Pick(s)}]]
           sum == CHOOSE f : f = Step(f)
<1>1. MapThenSumSet(LAMBDA id : table[id].latency, rows) = sum[rows]
  BY DEF MapThenSumSet, MapThenFoldSet, Pick
<1>2. \A f : Step(f) = [s \in SUBSET rows |-> IF s = {} THEN 0 ELSE latency[Pick(s)] + f[s \ {Pick(s)}]]
  BY DEF Pick
<1>3. \A f : f = Step(f) <=> IsSum(f, latency, rows)
  BY <1>2 DEF IsSum
<1>4. IsFiniteSet(rows) /\ (\A id \in rows : latency[id] \in Nat) /\ Total(table) \in Nat
  BY RowsAreFinite
<1> HIDE DEF rows, latency, Step
<1>5. \E f : f = Step(f)
  BY <1>3, <1>4, SumExists
<1>6. sum = Step(sum)
  BY <1>5
<1> HIDE DEF sum
<1>7. sum[rows] \in Nat
  BY <1>3, <1>4, <1>6, SumIsNatural
<1>8. MeanLatency(table) = IF Total(table) = 0 THEN 0 ELSE sum[rows] \div Total(table)
  BY <1>1 DEF MeanLatency, rows
<1>9. \A p, q \in Nat : q # 0 => p \div q \in Nat
  OBVIOUS
<1>10. QED
  BY <1>4, <1>7, <1>8, <1>9

(* The figure at an index within the list is one of the latencies.         *)
LEMMA PercentileIsNatural ==
  ASSUME NEW table \in [Ids -> Row], NEW index \in Int, Total(table) # 0 => index < Total(table)
  PROVE  Percentile(table, index) \in Nat
<1> DEFINE AtMost(l) == {id \in Recorded(table) : table[id].latency <= l}
           figures == {l \in {table[id].latency : id \in Recorded(table)} : index < Cardinality(AtMost(l))}
<1>1. CASE Total(table) = 0
  BY <1>1 DEF Percentile
<1>2. CASE Total(table) # 0
  <2>1. figures \subseteq Nat
    BY RowsAreFinite
  <2> DEFINE latency == [id \in Recorded(table) |-> table[id].latency]
  <2>2. /\ IsFiniteSet(Recorded(table)) /\ Recorded(table) # {}
        /\ \A id \in Recorded(table) : latency[id] \in Nat
    BY <1>2, RowsAreFinite
  <2> HIDE DEF latency
  <2>3. PICK m \in Recorded(table) : \A id \in Recorded(table) : latency[id] <= latency[m]
    BY <2>2, Maximum
  <2>4. AtMost(table[m].latency) = Recorded(table)
    BY <2>3 DEF latency
  <2>5. table[m].latency \in figures
    BY <1>2, <2>3, <2>4 DEF Total
  <2> HIDE DEF figures
  <2>6. PICK l \in figures : \A k \in figures : ~ (<<k, l>> \in OpToRel(<, Nat))
    BY <2>1, <2>5, NatLessThanWellFounded, WFMin
  <2>7. ASSUME NEW k \in figures PROVE l <= k
    <3>1. k \in Nat /\ l \in Nat
      BY <2>1
    <3>2. ~ (k < l)
      BY <2>6, <3>1 DEF OpToRel
    <3>3. QED
      BY <3>1, <3>2
  <2>8. Min(figures) \in figures
    BY <2>7 DEF Min
  <2>9. Percentile(table, index) = Min(figures)
    BY <1>2 DEF Percentile, figures
  <2>10. QED
    BY <2>1, <2>8, <2>9
<1>3. QED
  BY <1>1, <1>2

(* The summary of a table.                                                 *)
LEMMA SummaryIsTyped ==
  ASSUME NEW table \in [Ids -> Row]
  PROVE  /\ Summary(table) \in Figures
         /\ Total(table) \in Nat /\ MeanLatency(table) \in Nat /\ Speculative(table) \in Nat
<1>1. Total(table) \in Nat /\ MeanLatency(table) \in Nat
  BY RowsAreFinite, MeanIsNatural
<1>2. Speculative(table) \in Nat
  <2>1. {id \in Recorded(table) : table[id].speculative} \in SUBSET Recorded(table)
    OBVIOUS
  <2>2. IsFiniteSet({id \in Recorded(table) : table[id].speculative})
    BY <2>1, RowsAreFinite, FS_Subset
  <2>3. QED
    BY <2>2, FS_CardinalityType DEF Speculative
<1>3. ASSUME NEW n \in Nat PROVE P95Index(n) \in Int /\ P99Index(n) \in Int
  BY DEF P95Index, P99Index
<1>4. Total(table) # 0 => P95Index(Total(table)) < Total(table) /\ P99Index(Total(table)) < Total(table)
  <2> SUFFICES ASSUME Total(table) # 0
               PROVE  P95Index(Total(table)) < Total(table) /\ P99Index(Total(table)) < Total(table)
    OBVIOUS
  <2>1. PercentileIndices(Total(table))
    BY <1>1, PercentilesCover
  <2>2. P95Index(Total(table)) \in Int /\ P99Index(Total(table)) \in Int
    BY <1>1, <1>3
  <2>3. QED
    BY <1>1, <2>1, <2>2 DEF PercentileIndices
<1>5. /\ Percentile(table, P95Index(Total(table))) \in Nat
      /\ Percentile(table, P99Index(Total(table))) \in Nat
  BY <1>1, <1>3, <1>4, PercentileIsNatural
<1>6. QED
  BY <1>1, <1>2, <1>5 DEF Summary, Figures

(* list() gives every row once, in the order of the places.                *)
LEMMA ListedIsOrdered ==
  ASSUME NEW table, Orderly(table)
  PROVE  /\ Listed(table) \in [1 .. Total(table) -> Recorded(table)]
         /\ \A i, j \in 1 .. Total(table) :
              i < j => table[Listed(table)[i]].place < table[Listed(table)[j]].place
         /\ \A id \in Recorded(table) : \E i \in 1 .. Total(table) : Listed(table)[i] = id
<1> DEFINE rows == Recorded(table)
           place == [id \in rows |-> table[id].place]
           InOrder(list) == \A i, j \in 1 .. Total(table) : i < j => table[list[i]].place < table[list[j]].place
<1>1. /\ IsFiniteSet(rows) /\ (\A id \in rows : place[id] \in Nat)
      /\ \A i, j \in rows : place[i] = place[j] => i = j
      /\ Total(table) = Cardinality(rows)
  BY RowsAreFinite DEF Orderly, Total
<1>2. ASSUME NEW list \in [1 .. Total(table) -> rows]
      PROVE  InOrder(list) <=> \A i, j \in 1 .. Total(table) : i < j => place[list[i]] < place[list[j]]
  OBVIOUS
<1>3. \E list \in [1 .. Total(table) -> rows] :
        \A i, j \in 1 .. Total(table) : i < j => place[list[i]] < place[list[j]]
  <2> HIDE DEF rows, place
  <2>1. QED
    BY <1>1, ListExists
<1>4. \E list \in [1 .. Total(table) -> rows] : InOrder(list)
  BY <1>2, <1>3
<1>5. Listed(table) = CHOOSE list \in [1 .. Total(table) -> rows] : InOrder(list)
  BY DEF Listed
<1> HIDE DEF rows, place, InOrder
<1>6. Listed(table) \in [1 .. Total(table) -> rows] /\ InOrder(Listed(table))
  BY <1>4, <1>5
<1>7. \A id \in rows : \E i \in 1 .. Total(table) : Listed(table)[i] = id
  <2>1. PICK list \in [1 .. Cardinality(rows) -> rows] : list = Listed(table)
    BY <1>1, <1>6
  <2>2. \A i, j \in 1 .. Cardinality(rows) : i < j => place[list[i]] < place[list[j]]
    BY <1>1, <1>2, <1>6, <2>1
  <2>3. \A id \in rows : \E i \in 1 .. Cardinality(rows) : list[i] = id
    BY <1>1, <2>2, ListIsWhole
  <2>4. QED
    BY <1>1, <2>1, <2>3
<1>8. QED
  BY <1>6, <1>7 DEF rows, InOrder

(* What a page of a table shows: with a positive limit that many of the    *)
(* rows, and always the last ones.                                         *)
Shows(shown, limit, table) ==
  /\ limit > 0 => Cardinality(shown) = IF limit < Total(table) THEN limit ELSE Total(table)
  /\ shown \subseteq Recorded(table)
  /\ \A i \in shown, j \in Recorded(table) \ shown : table[j].place < table[i].place

LEMMA PageShowsTheLast ==
  ASSUME NEW table, Orderly(table), NEW limit \in Int
  PROVE  Shows(Range(Page(Listed(table), limit)), limit, table)
<1> DEFINE rows == Listed(table)
           n == Total(table)
           first == IF limit > 0 THEN n - limit ELSE -limit
           from == IF first < 0 THEN 0 ELSE first
           page == Page(rows, limit)
           shown == Range(page)
<1>1. /\ n \in Nat /\ rows \in [1 .. n -> Recorded(table)]
      /\ \A i, j \in 1 .. n : i < j => table[rows[i]].place < table[rows[j]].place
      /\ \A id \in Recorded(table) : \E i \in 1 .. n : rows[i] = id
      /\ \A id \in Recorded(table) : table[id].place \in Nat
  BY ListedIsOrdered, RowsAreFinite DEF Orderly
<1> HIDE DEF n, rows
<1>2. Len(rows) = n
  <2>1. rows \in Seq(Recorded(table))
    BY <1>1, SeqDef
  <2>2. QED
    BY <1>1, <2>1, LenProperties
<1>3. page = SubSeq(rows, from + 1, n)
  BY <1>2 DEF Page
<1>4. from \in Nat
  BY <1>1
<1> HIDE DEF from, page
<1>5. /\ page \in Seq(Recorded(table))
      /\ Len(page) = IF from + 1 <= n THEN n - (from + 1) + 1 ELSE 0
      /\ \A i \in 1 .. n - (from + 1) + 1 : page[i] = rows[from + 1 + i - 1]
  <2>1. \A i \in from + 1 .. n : rows[i] \in Recorded(table)
    BY <1>1, <1>4
  <2>2. from + 1 \in Int /\ n \in Int
    BY <1>1, <1>4
  <2>3. QED
    BY <1>3, <2>1, <2>2, SubSeqProperties
<1>6. DOMAIN page = 1 .. Len(page)
  BY <1>5, LenProperties
<1>7. shown = {rows[i] : i \in from + 1 .. n}
  <2>1. ASSUME NEW i \in DOMAIN page PROVE \E k \in from + 1 .. n : page[i] = rows[k]
    <3>1. i \in 1 .. n - (from + 1) + 1 /\ from + 1 + i - 1 \in from + 1 .. n
      BY <1>1, <1>4, <1>5, <1>6
    <3>2. QED
      BY <1>5, <3>1
  <2>2. ASSUME NEW k \in from + 1 .. n PROVE \E i \in DOMAIN page : page[i] = rows[k]
    <3>1. /\ k - from \in 1 .. n - (from + 1) + 1 /\ k - from \in DOMAIN page
          /\ from + 1 + (k - from) - 1 = k
      BY <1>1, <1>4, <1>5, <1>6
    <3>2. QED
      BY <1>5, <3>1
  <2>3. QED
    BY <2>1, <2>2 DEF Range
<1> HIDE DEF shown
<1>8. shown \subseteq Recorded(table)
  BY <1>1, <1>4, <1>7
<1>9. ASSUME NEW i \in shown, NEW j \in Recorded(table) \ shown
      PROVE  table[j].place < table[i].place
  <2>1. PICK a \in from + 1 .. n : i = rows[a]
    BY <1>7
  <2>2. PICK b \in 1 .. n : j = rows[b]
    BY <1>1
  <2>3. b \notin from + 1 .. n
    BY <1>7, <2>2
  <2>4. b < a /\ a \in 1 .. n
    BY <1>1, <1>4, <2>3
  <2>5. QED
    BY <1>1, <2>1, <2>2, <2>4
<1>10. Cardinality(shown) = IF from + 1 > n THEN 0 ELSE n - from
  <2> DEFINE places == from + 1 .. n
             part == [i \in places |-> rows[i]]
  <2>1. \A i, j \in places : rows[i] = rows[j] => i = j
    <3> SUFFICES ASSUME NEW i \in places, NEW j \in places, rows[i] = rows[j] PROVE i = j
      OBVIOUS
    <3>1. i \in 1 .. n /\ j \in 1 .. n /\ table[rows[i]].place \in Nat
      BY <1>1, <1>4
    <3>2. ~ (i < j) /\ ~ (j < i)
      BY <1>1, <3>1
    <3>3. QED
      BY <3>1, <3>2
  <2>2. part \in Bijection(places, shown)
    BY <1>7, <2>1 DEF Bijection, Injection, Surjection, IsInjective
  <2>3. IsFiniteSet(places) /\ Cardinality(places) = IF from + 1 > n THEN 0 ELSE n - (from + 1) + 1
    BY <1>1, <1>4, FS_Interval
  <2>4. Cardinality(shown) = Cardinality(places)
    BY <2>2, <2>3, FS_Bijection DEF ExistsBijection
  <2>5. QED
    BY <1>1, <1>4, <2>3, <2>4
<1>11. limit > 0 => Cardinality(shown) = IF limit < n THEN limit ELSE n
  BY <1>1, <1>10 DEF from
<1>12. QED
  BY <1>8, <1>9, <1>11 DEF Shows, shown, page, rows, n

-----------------------------------------------------------------------------
(* The records.                                                            *)

(* A row's place is a tick of the clock that has passed, and no two rows   *)
(* have the same; without a provider there are none.                       *)
RecordsInv ==
  /\ event \in [Ids -> Row]
  /\ provider \in Providers
  /\ emits \in 0 .. MaxEmits
  /\ restarts \in 0 .. MaxRestarts
  /\ answered \subseteq Ids
  /\ provider = "none" => Recorded(event) = {}
  /\ chat \in [Chats -> Chat]
  /\ \A c \in Chats : Generating(c) => chat[c].id \in Ids
  /\ \A id \in Ids : event[id].place <= emits
  /\ AnsweredIsRecorded

(* The bounds of the clock and of the places.                              *)
LEMMA RecordTypes ==
  ASSUME RecordsInv
  PROVE  /\ emits \in Nat /\ emits <= MaxEmits /\ MaxEmits \in Nat
         /\ \A id \in Ids : event[id].place \in Nat /\ event[id].place <= emits
         /\ Orderly(event)
<1>1. MaxEmits \in Nat
  BY TelemetryAssumption
<1>2. emits \in Nat /\ emits <= MaxEmits
  BY <1>1 DEF RecordsInv
<1>3. ASSUME NEW id \in Ids PROVE event[id].place \in Nat
  <2>1. event[id] \in Row
    BY DEF RecordsInv
  <2>2. QED
    BY <2>1 DEF Row
<1>4. Orderly(event)
  BY DEF RecordsInv, Orderly, AnsweredIsRecorded
<1>5. QED
  BY <1>1, <1>2, <1>3, <1>4 DEF RecordsInv

(* Saving an event keeps what is said of the records, and records it.      *)
LEMMA SavingKeeps ==
  ASSUME RecordsInv, NEW c \in Chats, Answer(c)
  PROVE  RecordsInv' /\ Recorded(event) \subseteq Recorded(event')
<1>0. /\ emits \in Nat /\ emits <= MaxEmits /\ MaxEmits \in Nat
      /\ \A id \in Ids : event[id].place \in Nat /\ event[id].place <= emits
  BY RecordTypes
<1>1. PICK latency \in Latencies : event' = Saved(c, latency)
  BY DEF Answer
<1>2. /\ Generating(c) /\ emits < MaxEmits /\ emits' = emits + 1
      /\ provider' = provider /\ restarts' = restarts
      /\ chat' = [chat EXCEPT ![c] = NoChat]
      /\ answered' = answered \cup {chat[c].id}
  BY DEF Answer
<1> DEFINE id == chat[c].id
           row == [place |-> Place(id), latency |-> latency, speculative |-> chat[c].speculative]
<1>3. id \in Ids /\ chat[c].speculative \in BOOLEAN
  BY <1>2 DEF RecordsInv, Chat
<1>4. /\ Place(id) \in Nat /\ Place(id) <= emits + 1 /\ Place(id) > 0
      /\ Place(id) = event[id].place \/ Place(id) = emits + 1
  BY <1>0, <1>3 DEF RecordsInv, Place, Recorded
<1> HIDE DEF id
<1>5. row \in Row
  BY <1>3, <1>4 DEF id, Row
<1>6. row.place = Place(id)
  OBVIOUS
<1> HIDE DEF row
<1>7. event' = IF provider = "none" THEN event ELSE [event EXCEPT ![id] = row]
  BY <1>1 DEF Saved, id, row
<1>8. chat' \in [Chats -> Chat] /\ \A d \in Chats : Generating(d)' => chat'[d].id \in Ids
  BY <1>2 DEF RecordsInv, NoChat, Chat, Generating
<1>9. /\ event' \in [Ids -> Row]
      /\ \A i \in Ids : event'[i].place <= emits'
      /\ AnsweredIsRecorded'
      /\ Recorded(event) \subseteq Recorded(event')
      /\ provider = "none" => Recorded(event') = {}
  <2>1. CASE provider = "none"
    <3>1. event' = event
      BY <1>7, <2>1
    <3>2. \A i \in Ids : event'[i].place <= emits'
      BY <1>0, <1>2, <3>1
    <3>3. QED
      BY <1>2, <2>1, <3>1, <3>2 DEF RecordsInv, AnsweredIsRecorded
  <2>2. CASE provider # "none"
    <3>1. event' = [event EXCEPT ![id] = row]
      BY <1>7, <2>2
    <3>2. event'[id] = row /\ \A i \in Ids : i # id => event'[i] = event[i]
      BY <1>3, <3>1 DEF RecordsInv, id
    <3>3. event' \in [Ids -> Row]
      BY <1>5, <3>1 DEF RecordsInv
    <3>4. ASSUME NEW i \in Ids PROVE event'[i].place <= emits'
      <4>1. event[i].place \in Nat /\ event[i].place <= emits
        BY <1>0
      <4>2. event'[i].place = event[i].place \/ event'[i].place = Place(id)
        BY <1>6, <3>2
      <4>3. QED
        BY <1>0, <1>2, <1>4, <4>1, <4>2
    <3>5. id \in Ids
      BY <1>3 DEF id
    <3>6. Recorded(event') = Recorded(event) \cup {id}
      BY <1>4, <1>6, <3>2, <3>3, <3>5 DEF RecordsInv, Recorded
    <3>7. answered' \subseteq Recorded(event')
      BY <1>2, <2>2, <3>6 DEF RecordsInv, AnsweredIsRecorded, id
    <3>8. ASSUME NEW i \in Recorded(event'), NEW j \in Recorded(event'),
                 event'[i].place = event'[j].place
          PROVE  i = j
      <4>1. i \in Ids /\ j \in Ids
        BY <3>3, <3>5, <3>6 DEF RecordsInv, Recorded
      <4>2. CASE i # id /\ j # id
        BY <2>2, <3>2, <3>6, <3>8, <4>1, <4>2 DEF RecordsInv, AnsweredIsRecorded
      <4>3. CASE i = id /\ j # id
        <5>1. j \in Recorded(event) /\ event[j].place = Place(id) /\ event[j].place <= emits
          BY <1>6, <3>2, <3>6, <3>8, <4>1, <4>3 DEF RecordsInv
        <5>2. Place(id) = event[id].place /\ id \in Recorded(event)
          BY <1>4, <3>5, <5>1 DEF RecordsInv, Recorded
        <5>3. QED
          BY <2>2, <4>3, <5>1, <5>2 DEF RecordsInv, AnsweredIsRecorded
      <4>4. CASE i # id /\ j = id
        <5>1. i \in Recorded(event) /\ event[i].place = Place(id) /\ event[i].place <= emits
          BY <1>6, <3>2, <3>6, <3>8, <4>1, <4>4 DEF RecordsInv
        <5>2. Place(id) = event[id].place /\ id \in Recorded(event)
          BY <1>4, <3>5, <5>1 DEF RecordsInv, Recorded
        <5>3. QED
          BY <2>2, <4>4, <5>1, <5>2 DEF RecordsInv, AnsweredIsRecorded
      <4>5. QED
        BY <4>2, <4>3, <4>4
    <3>9. Recorded(event)' = Recorded(event')
      BY DEF Recorded
    <3>10. AnsweredIsRecorded'
      BY <3>7, <3>8, <3>9 DEF AnsweredIsRecorded
    <3>11. QED
      BY <2>2, <3>3, <3>4, <3>6, <3>10
  <2>3. QED
    BY <2>1, <2>2
<1>10. emits' \in 0 .. MaxEmits /\ answered' \subseteq Ids
  BY <1>0, <1>2, <1>3 DEF RecordsInv, id
<1>11. (provider = "none" => Recorded(event) = {})'
  BY <1>2, <1>9 DEF Recorded
<1>12. RecordsInv'
  BY <1>2, <1>8, <1>9, <1>10, <1>11 DEF RecordsInv
<1>13. QED
  BY <1>9, <1>12

(* Whatever is answered, fails or restarts, and in whatever order.         *)
LEMMA RecordsHold == Spec => []RecordsInv
<1>1. Init => RecordsInv
  <2> SUFFICES ASSUME Init PROVE RecordsInv
    OBVIOUS
  <2>1. /\ event \in [Ids -> Row] /\ Recorded(event) = {}
        /\ \A id \in Ids : event[id].place <= 0
    BY DEF Init, NoEvents, NoEvent, Row, Recorded
  <2>2. emits \in 0 .. MaxEmits /\ restarts \in 0 .. MaxRestarts
    BY TelemetryAssumption DEF Init
  <2>3. QED
    BY <2>1, <2>2 DEF Init, RecordsInv, AnsweredIsRecorded, NoChat, Chat, Generating
<1>2. RecordsInv /\ [Next]_telemetryVars => RecordsInv'
  <2> SUFFICES ASSUME RecordsInv, [Next]_telemetryVars PROVE RecordsInv'
    OBVIOUS
  <2>1. CASE \E c \in Chats : Answer(c)
    BY <2>1, SavingKeeps
  <2>2. CASE \/ \E c \in Chats : Generate(c) \/ Fails(c)
             \/ \E r \in Readers : \/ Ask(r) \/ SnapshotAtOnce(r)
                                   \/ SelectTotal(r) \/ SelectLatency(r) \/ SelectSpeculative(r)
                                   \/ ListEvents(r) \/ Respond(r)
             \/ UNCHANGED telemetryVars
    <3>1. UNCHANGED <<provider, event, emits, answered, restarts>>
      BY <2>2 DEF Generate, Fails, Ask, SnapshotAtOnce, SelectTotal, SelectLatency,
                  SelectSpeculative, ListEvents, Respond, telemetryVars
    <3>2. chat' \in [Chats -> Chat] /\ \A c \in Chats : Generating(c)' => chat'[c].id \in Ids
      <4>1. CASE \E c \in Chats : Generate(c)
        BY <4>1 DEF RecordsInv, Generate, Chat, Generating
      <4>2. CASE \E c \in Chats : Fails(c)
        BY <4>2 DEF RecordsInv, Fails, NoChat, Chat, Generating
      <4>3. CASE UNCHANGED chat
        BY <4>3 DEF RecordsInv, Generating
      <4>4. QED
        BY <2>2, <4>1, <4>2, <4>3 DEF Ask, SnapshotAtOnce, SelectTotal, SelectLatency,
              SelectSpeculative, ListEvents, Respond, telemetryVars
    <3>3. QED
      BY <3>1, <3>2 DEF RecordsInv, AnsweredIsRecorded, Recorded
  <2>3. CASE Restart
    <3>1. chat' \in [Chats -> Chat] /\ \A c \in Chats : ~Generating(c)'
      BY <2>3 DEF Restart, NoChat, Chat, Generating
    <3>2. /\ provider' = provider /\ emits' = emits
          /\ restarts' \in 0 .. MaxRestarts
      BY <2>3, TelemetryAssumption DEF Restart, RecordsInv
    <3>3. CASE provider = "memory"
      <4>1. event' = NoEvents /\ answered' = {}
        BY <2>3, <3>3 DEF Restart
      <4>2. /\ NoEvents \in [Ids -> Row]
            /\ \A id \in Ids : NoEvents[id].place = 0
            /\ Recorded(NoEvents) = {}
        BY DEF NoEvents, NoEvent, Recorded, Row
      <4>3. Recorded(event)' = Recorded(NoEvents)
        BY <4>1 DEF Recorded
      <4>4. \A id \in Ids : event'[id].place <= emits'
        BY <3>2, <4>1, <4>2, RecordTypes
      <4>5. QED
        BY <3>1, <3>2, <3>3, <4>1, <4>2, <4>3, <4>4 DEF RecordsInv, AnsweredIsRecorded
    <3>4. CASE provider # "memory"
      <4>1. UNCHANGED <<event, answered>>
        BY <2>3, <3>4 DEF Restart
      <4>2. QED
        BY <3>1, <3>2, <4>1 DEF RecordsInv, AnsweredIsRecorded, Recorded
    <3>5. QED
      BY <3>3, <3>4
  <2>4. QED
    BY <2>1, <2>2, <2>3 DEF Next
<1>3. QED
  BY <1>1, <1>2, PTL DEF Spec

-----------------------------------------------------------------------------
(* The figures.                                                            *)

(* What a reader has is a record with the fields of Read.                  *)
ReadFields(x) ==
  /\ DOMAIN x = {"at", "limit", "figures", "page", "listed", "seen"}
  /\ DOMAIN x.figures = {"total", "latency", "speculative", "p95", "p99"}

Was(x, figure) == \E table \in x.seen : x.figures[figure] = Summary(table)[figure]

(* The figures a reader has read so far, at each of its steps.             *)
FiguresFit(x) ==
  /\ x.at = "latency" => provider = "database" /\ Was(x, "total")
  /\ x.at = "speculative" => provider = "database" /\ Was(x, "total") /\ Was(x, "latency")
  /\ x.at \in {"list", "respond"} =>
       /\ Was(x, "total") /\ Was(x, "latency") /\ Was(x, "speculative")
       /\ provider # "database" => \E table \in x.seen : x.figures = Summary(table)

ReaderFits(x) == ReadFields(x) /\ FiguresFit(x) /\ (x.at # "idle" => event \in x.seen)

FiguresInv == read = [r \in Readers |-> read[r]] /\ \A r \in Readers : ReaderFits(read[r])

(* The parts of a summary.                                                 *)
LEMMA SummaryFields ==
  ASSUME NEW table
  PROVE  /\ Summary(table)["total"] = Total(table)
         /\ Summary(table)["latency"] = MeanLatency(table)
         /\ Summary(table)["speculative"] = Speculative(table)
BY DEF Summary

(* A step of one reader.                                                   *)
LEMMA ReaderKeeps ==
  ASSUME FiguresInv, NEW r \in Readers, NEW x, ReaderFits(x), Reads(r, x),
         UNCHANGED <<provider, event>>
  PROVE  FiguresInv'
<1>1. read' = [q \in Readers |-> IF q = r THEN x ELSE read[q]]
  BY DEF FiguresInv, Reads
<1>2. \A q \in Readers : ReaderFits(read'[q])
  BY <1>1 DEF FiguresInv
<1>3. \A q \in Readers : ReaderFits(read[q])'
  BY <1>2 DEF ReaderFits, FiguresFit, ReadFields, Was
<1>4. QED
  BY <1>1, <1>3 DEF FiguresInv

(* Every step of every reader.                                             *)
LEMMA ReadingKeeps ==
  ASSUME FiguresInv, NEW r \in Readers,
         \/ Ask(r) \/ SnapshotAtOnce(r) \/ SelectTotal(r) \/ SelectLatency(r)
         \/ SelectSpeculative(r) \/ ListEvents(r) \/ Respond(r)
  PROVE  FiguresInv'
<1> DEFINE x == read[r]
<1>1. ReadFields(x) /\ FiguresFit(x) /\ (x.at # "idle" => event \in x.seen)
  BY DEF FiguresInv, ReaderFits
<1>2. UNCHANGED <<provider, event>>
  BY DEF Ask, SnapshotAtOnce, SelectTotal, SelectLatency, SelectSpeculative, ListEvents, Respond
<1>3. CASE Ask(r)
  <2>1. PICK limit \in Limits :
          Reads(r, [NoRead EXCEPT !.at = "total", !.limit = limit, !.seen = {event}])
    BY <1>3 DEF Ask
  <2>2. ReaderFits([NoRead EXCEPT !.at = "total", !.limit = limit, !.seen = {event}])
    <3> DEFINE y == [NoRead EXCEPT !.at = "total", !.limit = limit, !.seen = {event}]
    <3>1. y.at = "total" /\ y.seen = {event} /\ ReadFields(y)
      BY DEF ReadFields, NoRead, NoFigures
    <3>2. QED
      BY <3>1 DEF ReaderFits, FiguresFit
  <2>3. QED
    BY <1>2, <2>1, <2>2, ReaderKeeps
<1>4. CASE SnapshotAtOnce(r)
  <2> DEFINE y == [x EXCEPT !.at = "list", !.figures = Summary(event)]
  <2>1. event \in y.seen /\ y.figures = Summary(event) /\ y.at = "list"
    BY <1>1, <1>4 DEF SnapshotAtOnce, ReadFields
  <2>2. ReadFields(y)
    BY <1>1 DEF ReadFields, Summary
  <2>3. ReaderFits(y)
    BY <2>1, <2>2 DEF ReaderFits, FiguresFit, Was
  <2>4. Reads(r, y)
    BY <1>4 DEF SnapshotAtOnce
  <2>5. QED
    BY <1>2, <2>3, <2>4, ReaderKeeps
<1>5. CASE SelectTotal(r)
  <2> DEFINE y == [x EXCEPT !.at = "latency", !.figures.total = Total(event)]
  <2>1. /\ event \in y.seen /\ y.at = "latency" /\ y.figures["total"] = Total(event)
        /\ ReadFields(y) /\ provider = "database"
    BY <1>1, <1>5 DEF SelectTotal, ReadFields
  <2>2. ReaderFits(y)
    BY <2>1, SummaryFields DEF ReaderFits, FiguresFit, Was
  <2>3. QED
    BY <1>2, <1>5, <2>2, ReaderKeeps DEF SelectTotal
<1>6. CASE SelectLatency(r)
  <2> DEFINE y == [x EXCEPT !.at = "speculative", !.figures.latency = MeanLatency(event)]
  <2>1. /\ event \in y.seen /\ y.seen = x.seen /\ y.at = "speculative"
        /\ y.figures["latency"] = MeanLatency(event) /\ y.figures["total"] = x.figures["total"]
        /\ ReadFields(y) /\ provider = "database" /\ Was(x, "total")
    BY <1>1, <1>6 DEF SelectLatency, ReadFields, FiguresFit
  <2>2. ReaderFits(y)
    BY <2>1, SummaryFields DEF ReaderFits, FiguresFit, Was
  <2>3. QED
    BY <1>2, <1>6, <2>2, ReaderKeeps DEF SelectLatency
<1>7. CASE SelectSpeculative(r)
  <2> DEFINE y == [x EXCEPT !.at = "list", !.figures.speculative = Speculative(event)]
  <2>1. /\ event \in y.seen /\ y.seen = x.seen /\ y.at = "list"
        /\ y.figures["speculative"] = Speculative(event) /\ y.figures["total"] = x.figures["total"]
        /\ y.figures["latency"] = x.figures["latency"]
        /\ ReadFields(y) /\ provider = "database" /\ Was(x, "total") /\ Was(x, "latency")
    BY <1>1, <1>7 DEF SelectSpeculative, ReadFields, FiguresFit
  <2>2. ReaderFits(y)
    BY <2>1, SummaryFields DEF ReaderFits, FiguresFit, Was
  <2>3. QED
    BY <1>2, <1>7, <2>2, ReaderKeeps DEF SelectSpeculative
<1>8. CASE ListEvents(r)
  <2> DEFINE y == [x EXCEPT !.at = "respond", !.listed = Total(event),
                            !.page = Page(Listed(event), x.limit)]
  <2>1. event \in y.seen /\ y.seen = x.seen /\ y.at = "respond" /\ y.figures = x.figures /\ ReadFields(y)
    BY <1>1, <1>8 DEF ListEvents, ReadFields
  <2>2. x.at = "list"
    BY <1>8 DEF ListEvents
  <2>3. ReaderFits(y)
    BY <1>1, <2>1, <2>2 DEF ReaderFits, FiguresFit, Was
  <2>4. QED
    BY <1>2, <1>8, <2>3, ReaderKeeps DEF ListEvents
<1>9. CASE Respond(r)
  <2>1. ReaderFits(NoRead)
    BY DEF ReaderFits, ReadFields, FiguresFit, NoRead, NoFigures
  <2>2. QED
    BY <1>2, <1>9, <2>1, ReaderKeeps DEF Respond
<1>10. QED
  BY <1>3, <1>4, <1>5, <1>6, <1>7, <1>8, <1>9

(* A save gives the readers that are under way one more table to see.      *)
LEMMA AnswerKeepsFigures == ASSUME FiguresInv, NEW c \in Chats, Answer(c) PROVE FiguresInv'
<1>1. provider' = provider
      /\ read' = [r \in Readers |-> IF Reading(r) THEN [read[r] EXCEPT !.seen = @ \cup {event'}]
                                    ELSE read[r]]
  BY DEF Answer, TableSeen
<1>2. ASSUME NEW r \in Readers
      PROVE  ReaderFits(read[r])'
  <2> DEFINE x == read[r]
             y == read'[r]
  <2>1. ReadFields(x) /\ FiguresFit(x)
    BY DEF FiguresInv, ReaderFits
  <2>2. CASE Reading(r)
    <3>1. y = [x EXCEPT !.seen = x.seen \cup {event'}]
      BY <1>1, <2>2
    <3>2. /\ ReadFields(y) /\ y.at = x.at /\ y.figures = x.figures /\ y.seen = x.seen \cup {event'}
      BY <2>1, <3>1 DEF ReadFields
    <3>3. \A figure : Was(x, figure) => Was(y, figure)
      BY <3>2 DEF Was
    <3>4. FiguresFit(y)
      BY <2>1, <3>2, <3>3 DEF FiguresFit
    <3>5. QED
      BY <1>1, <3>2, <3>4 DEF ReaderFits, FiguresFit, ReadFields, Was
  <2>3. CASE ~Reading(r)
    <3>1. y = x /\ x.at = "idle"
      BY <1>1, <2>3 DEF Reading
    <3>2. QED
      BY <1>1, <2>1, <3>1 DEF ReaderFits, FiguresFit, ReadFields
  <2>4. QED
    BY <2>2, <2>3
<1>3. QED
  BY <1>1, <1>2 DEF FiguresInv

(* What readers have read so far was true.                                 *)
LEMMA FiguresHold == Spec => []FiguresInv
<1>1. Init => FiguresInv
  BY DEF Init, FiguresInv, ReaderFits, ReadFields, FiguresFit, NoRead, NoFigures
<1>2. FiguresInv /\ [Next]_telemetryVars => FiguresInv'
  <2> SUFFICES ASSUME FiguresInv, [Next]_telemetryVars PROVE FiguresInv'
    OBVIOUS
  <2>1. CASE \E c \in Chats : Answer(c)
    BY <2>1, AnswerKeepsFigures
  <2>2. CASE \E r \in Readers : \/ Ask(r) \/ SnapshotAtOnce(r) \/ SelectTotal(r) \/ SelectLatency(r)
                                \/ SelectSpeculative(r) \/ ListEvents(r) \/ Respond(r)
    BY <2>2, ReadingKeeps
  <2>3. CASE \/ \E c \in Chats : Generate(c) \/ Fails(c)
             \/ UNCHANGED telemetryVars
    <3>1. UNCHANGED <<provider, event, read>>
      BY <2>3 DEF Generate, Fails, telemetryVars
    <3>2. QED
      BY <3>1 DEF FiguresInv, ReaderFits, ReadFields, FiguresFit, Was
  <2>4. CASE Restart
    BY <2>4 DEF Restart, FiguresInv, ReaderFits, ReadFields, FiguresFit, NoRead, NoFigures
  <2>5. QED
    BY <2>1, <2>2, <2>3, <2>4 DEF Next
<1>3. QED
  BY <1>1, <1>2, PTL DEF Spec

-----------------------------------------------------------------------------
(* The page.                                                               *)
ReaderTyped(x) ==
  /\ x.at \in {"idle", "total", "latency", "speculative", "list", "respond"}
  /\ x.limit \in Int
  /\ x.figures \in Figures
  /\ x.seen \subseteq [Ids -> Event]

(* The rows a reader has counted are there still when it lists them: a row *)
(* is never deleted, and a restart ends every reader.                      *)
PageFits(x) ==
  /\ x.at \in {"latency", "speculative", "list", "respond"} => x.figures.total <= Total(event)
  /\ x.at = "respond" =>
       /\ x.figures.total <= x.listed
       /\ \E table \in x.seen : /\ Orderly(table) /\ x.listed = Total(table)
                                /\ x.page = Page(Listed(table), x.limit)

PagesInv == \A r \in Readers : ReaderTyped(read[r]) /\ PageFits(read[r])

(* A table up to a time within the bound.                                  *)
LEMMA TableIsTyped ==
  ASSUME NEW table \in [Ids -> Row], NEW clock \in 0 .. MaxEmits, \A id \in Ids : table[id].place <= clock
  PROVE  table \in [Ids -> Event]
<1>1. ASSUME NEW id \in Ids PROVE table[id] \in Event
  <2>1. table[id] \in Row
    OBVIOUS
  <2>2. table[id].place \in Nat
    BY <2>1 DEF Row
  <2>3. MaxEmits \in Nat /\ table[id].place <= clock
    BY TelemetryAssumption
  <2>4. table[id].place \in 0 .. MaxEmits
    BY <2>2, <2>3
  <2>5. QED
    BY <2>1, <2>4 DEF Row, Event
<1>2. QED
  BY <1>1

LEMMA EventIsTyped ==
  ASSUME RecordsInv
  PROVE  event \in [Ids -> Event] /\ event \in [Ids -> Row] /\ Orderly(event)
BY TableIsTyped, RecordTypes DEF RecordsInv

(* A step of one reader.                                                   *)
LEMMA PageOfReader ==
  ASSUME FiguresInv, PagesInv, NEW r \in Readers, NEW x, ReaderTyped(x), PageFits(x), Reads(r, x),
         UNCHANGED event
  PROVE  PagesInv'
<1>1. read' = [q \in Readers |-> IF q = r THEN x ELSE read[q]]
  BY DEF FiguresInv, Reads
<1>2. \A q \in Readers : ReaderTyped(read'[q]) /\ PageFits(read'[q])
  BY <1>1 DEF PagesInv
<1>3. \A q \in Readers : ReaderTyped(read[q])' /\ PageFits(read[q])'
  BY <1>2 DEF ReaderTyped, PageFits, Total, Recorded
<1>4. QED
  BY <1>3 DEF PagesInv

(* Every step of every reader.                                             *)
LEMMA ReadingKeepsPages ==
  ASSUME RecordsInv, FiguresInv, PagesInv, NEW r \in Readers,
         \/ Ask(r) \/ SnapshotAtOnce(r) \/ SelectTotal(r) \/ SelectLatency(r)
         \/ SelectSpeculative(r) \/ ListEvents(r) \/ Respond(r)
  PROVE  PagesInv'
<1> DEFINE x == read[r]
<1>1. ReadFields(x) /\ (x.at # "idle" => event \in x.seen) /\ ReaderTyped(x) /\ PageFits(x)
  BY DEF FiguresInv, ReaderFits, PagesInv
<1>2. UNCHANGED event
  BY DEF Ask, SnapshotAtOnce, SelectTotal, SelectLatency, SelectSpeculative, ListEvents, Respond
<1>3. /\ event \in [Ids -> Event] /\ Orderly(event)
      /\ Summary(event) \in Figures /\ Summary(event).total = Total(event)
      /\ Total(event) \in Nat /\ MeanLatency(event) \in Nat /\ Speculative(event) \in Nat
  BY EventIsTyped, SummaryIsTyped DEF Summary
<1>4. ReaderTyped(NoRead) /\ PageFits(NoRead)
  BY DEF ReaderTyped, PageFits, NoRead, NoFigures, Figures
<1>5. CASE Ask(r)
  <2>1. PICK limit \in Limits :
          Reads(r, [NoRead EXCEPT !.at = "total", !.limit = limit, !.seen = {event}])
    BY <1>5 DEF Ask
  <2> DEFINE y == [NoRead EXCEPT !.at = "total", !.limit = limit, !.seen = {event}]
  <2>2. y.at = "total" /\ y.limit = limit /\ y.seen = {event} /\ y.figures = NoFigures
    BY DEF NoRead
  <2>3. limit \in Int /\ NoFigures \in Figures
    BY TelemetryAssumption DEF NoFigures, Figures
  <2>4. ReaderTyped(y) /\ PageFits(y)
    BY <1>3, <2>2, <2>3 DEF ReaderTyped, PageFits
  <2>5. QED
    BY <1>2, <2>1, <2>4, PageOfReader
<1>6. CASE SnapshotAtOnce(r)
  <2> DEFINE y == [x EXCEPT !.at = "list", !.figures = Summary(event)]
  <2>1. y.at = "list" /\ y.limit = x.limit /\ y.seen = x.seen /\ y.figures = Summary(event)
    BY <1>1 DEF ReadFields
  <2>2. ReaderTyped(y) /\ PageFits(y)
    BY <1>1, <1>3, <2>1 DEF ReaderTyped, PageFits
  <2>3. QED
    BY <1>2, <1>6, <2>2, PageOfReader DEF SnapshotAtOnce
<1>7. CASE SelectTotal(r)
  <2> DEFINE y == [x EXCEPT !.at = "latency", !.figures.total = Total(event)]
  <2>1. /\ y.at = "latency" /\ y.limit = x.limit /\ y.seen = x.seen
        /\ y.figures = [x.figures EXCEPT !.total = Total(event)]
    BY <1>1 DEF ReadFields
  <2>2. y.figures \in Figures /\ y.figures.total = Total(event)
    BY <1>1, <1>3, <2>1 DEF ReaderTyped, Figures
  <2>3. ReaderTyped(y) /\ PageFits(y)
    BY <1>1, <1>3, <2>1, <2>2 DEF ReaderTyped, PageFits
  <2>4. QED
    BY <1>2, <1>7, <2>3, PageOfReader DEF SelectTotal
<1>8. CASE SelectLatency(r)
  <2> DEFINE y == [x EXCEPT !.at = "speculative", !.figures.latency = MeanLatency(event)]
  <2>1. /\ y.at = "speculative" /\ y.limit = x.limit /\ y.seen = x.seen
        /\ y.figures = [x.figures EXCEPT !.latency = MeanLatency(event)]
    BY <1>1 DEF ReadFields
  <2>2. y.figures \in Figures /\ y.figures.total = x.figures.total
    BY <1>1, <1>3, <2>1 DEF ReaderTyped, Figures
  <2>3. ReaderTyped(y) /\ PageFits(y)
    BY <1>1, <1>8, <2>1, <2>2 DEF ReaderTyped, PageFits, SelectLatency
  <2>4. QED
    BY <1>2, <1>8, <2>3, PageOfReader DEF SelectLatency
<1>9. CASE SelectSpeculative(r)
  <2> DEFINE y == [x EXCEPT !.at = "list", !.figures.speculative = Speculative(event)]
  <2>1. /\ y.at = "list" /\ y.limit = x.limit /\ y.seen = x.seen
        /\ y.figures = [x.figures EXCEPT !.speculative = Speculative(event)]
    BY <1>1 DEF ReadFields
  <2>2. y.figures \in Figures /\ y.figures.total = x.figures.total
    BY <1>1, <1>3, <2>1 DEF ReaderTyped, Figures
  <2>3. ReaderTyped(y) /\ PageFits(y)
    BY <1>1, <1>9, <2>1, <2>2 DEF ReaderTyped, PageFits, SelectSpeculative
  <2>4. QED
    BY <1>2, <1>9, <2>3, PageOfReader DEF SelectSpeculative
<1>10. CASE ListEvents(r)
  <2> DEFINE y == [x EXCEPT !.at = "respond", !.listed = Total(event),
                            !.page = Page(Listed(event), x.limit)]
  <2>1. /\ y.at = "respond" /\ y.limit = x.limit /\ y.seen = x.seen /\ y.figures = x.figures
        /\ y.listed = Total(event) /\ y.page = Page(Listed(event), x.limit)
    BY <1>1 DEF ReadFields
  <2>2. x.at = "list" /\ event \in x.seen
    BY <1>1, <1>10 DEF ListEvents
  <2>3. ReaderTyped(y) /\ PageFits(y)
    BY <1>1, <1>3, <2>1, <2>2 DEF ReaderTyped, PageFits
  <2>4. QED
    BY <1>2, <1>10, <2>3, PageOfReader DEF ListEvents
<1>11. CASE Respond(r)
  BY <1>2, <1>4, <1>11, PageOfReader DEF Respond
<1>12. QED
  BY <1>5, <1>6, <1>7, <1>8, <1>9, <1>10, <1>11

(* A save takes no row away.                                               *)
LEMMA AnswerKeepsPages ==
  ASSUME RecordsInv, FiguresInv, PagesInv, NEW c \in Chats, Answer(c) PROVE PagesInv'
<1>1. read' = [r \in Readers |-> IF Reading(r) THEN [read[r] EXCEPT !.seen = @ \cup {event'}] ELSE read[r]]
  BY DEF Answer, TableSeen
<1>2. RecordsInv' /\ Recorded(event) \subseteq Recorded(event')
  BY SavingKeeps
<1>3. event' \in [Ids -> Event] /\ event' \in [Ids -> Row] /\ event \in [Ids -> Row]
  <2>1. /\ event' \in [Ids -> Row] /\ emits' \in 0 .. MaxEmits
        /\ \A id \in Ids : event'[id].place <= emits'
    BY <1>2 DEF RecordsInv
  <2>2. event' \in [Ids -> Event]
    BY <2>1, TableIsTyped
  <2>3. QED
    BY <2>1, <2>2, EventIsTyped
<1>4. Total(event) \in Nat /\ Total(event') \in Nat /\ Total(event) <= Total(event')
  <2>1. PICK before, after \in [Ids -> Row] : before = event /\ after = event'
    BY <1>3
  <2>2. IsFiniteSet(Recorded(after)) /\ Total(before) \in Nat /\ Total(after) \in Nat
    BY RowsAreFinite
  <2>3. Recorded(before) \in SUBSET Recorded(after)
    BY <1>2, <2>1
  <2>4. Total(before) <= Total(after)
    BY <2>2, <2>3, FS_Subset DEF Total
  <2>5. QED
    BY <2>1, <2>2, <2>4
<1>5. ASSUME NEW r \in Readers PROVE ReaderTyped(read[r])' /\ PageFits(read[r])'
  <2> DEFINE x == read[r]
             y == read'[r]
  <2>1. ReadFields(x) /\ ReaderTyped(x) /\ PageFits(x)
    BY DEF FiguresInv, ReaderFits, PagesInv
  <2>2. y = IF Reading(r) THEN [x EXCEPT !.seen = x.seen \cup {event'}] ELSE x
    BY <1>1
  <2>3. /\ y.at = x.at /\ y.limit = x.limit /\ y.figures = x.figures /\ y.listed = x.listed
        /\ y.page = x.page /\ x.seen \subseteq y.seen /\ y.seen \subseteq x.seen \cup {event'}
    BY <2>1, <2>2 DEF ReadFields
  <2>4. x.figures.total \in Nat
    BY <2>1 DEF ReaderTyped, Figures
  <2>5. /\ y.at \in {"latency", "speculative", "list", "respond"} => y.figures.total <= Total(event')
        /\ y.at = "respond" =>
             /\ y.figures.total <= y.listed
             /\ \E table \in y.seen : /\ Orderly(table) /\ y.listed = Total(table)
                                      /\ y.page = Page(Listed(table), y.limit)
    BY <1>4, <2>1, <2>3, <2>4 DEF PageFits
  <2>6. ReaderTyped(y)
    BY <1>3, <2>1, <2>3 DEF ReaderTyped
  <2>7. QED
    BY <2>5, <2>6 DEF ReaderTyped, PageFits, Total, Recorded
<1>6. QED
  BY <1>5 DEF PagesInv

(* What readers list fits what they have counted.                          *)
LEMMA PagesHold == Spec => []PagesInv
<1>1. NoRead.at = "idle" /\ ReaderTyped(NoRead) /\ PageFits(NoRead)
  BY DEF ReaderTyped, PageFits, NoRead, NoFigures, Figures
<1>2. Init => PagesInv
  BY <1>1 DEF Init, PagesInv
<1>3. RecordsInv /\ FiguresInv /\ PagesInv /\ [Next]_telemetryVars => PagesInv'
  <2> SUFFICES ASSUME RecordsInv, FiguresInv, PagesInv, [Next]_telemetryVars PROVE PagesInv'
    OBVIOUS
  <2>1. CASE \E c \in Chats : Answer(c)
    BY <2>1, AnswerKeepsPages
  <2>2. CASE \E r \in Readers : \/ Ask(r) \/ SnapshotAtOnce(r) \/ SelectTotal(r) \/ SelectLatency(r)
                                \/ SelectSpeculative(r) \/ ListEvents(r) \/ Respond(r)
    BY <2>2, ReadingKeepsPages
  <2>3. CASE \/ \E c \in Chats : Generate(c) \/ Fails(c)
             \/ UNCHANGED telemetryVars
    <3>1. UNCHANGED <<event, read>>
      BY <2>3 DEF Generate, Fails, telemetryVars
    <3>2. QED
      BY <3>1 DEF PagesInv, ReaderTyped, PageFits, Total, Recorded
  <2>4. CASE Restart
    <3>1. \A r \in Readers : read'[r] = NoRead
      BY <2>4 DEF Restart
    <3>2. \A r \in Readers : ReaderTyped(read[r])' /\ PageFits(read[r])'
      BY <1>1, <3>1 DEF ReaderTyped, PageFits
    <3>3. QED
      BY <3>2 DEF PagesInv
  <2>5. QED
    BY <2>1, <2>2, <2>3, <2>4 DEF Next
<1>4. QED
  BY <1>2, <1>3, RecordsHold, FiguresHold, PTL DEF Spec

-----------------------------------------------------------------------------
(* A response that was sent is in the records exactly once, whichever ids  *)
(* the clients send, and also after a restart if they are in the database. *)
THEOREM AnswersAreRecorded == Spec => []AnsweredIsRecorded
<1>1. RecordsInv => AnsweredIsRecorded
  BY DEF RecordsInv
<1>2. QED
  BY <1>1, RecordsHold, PTL

(* Every figure was true at some moment while its reader was reading, for  *)
(* any number of requests answered meanwhile.                              *)
THEOREM FiguresWereTrue == Spec => []EveryFigureWasTrue
<1>1. FiguresInv => EveryFigureWasTrue
  BY DEF FiguresInv, ReaderFits, FiguresFit, Was, EveryFigureWasTrue
<1>2. QED
  BY <1>1, FiguresHold, PTL

(* The figures of the in-memory provider belong to one moment.             *)
THEOREM FiguresOfOneMoment == Spec => []OneMoment
<1>1. FiguresInv => OneMoment
  BY DEF FiguresInv, ReaderFits, FiguresFit, OneMoment
<1>2. QED
  BY <1>1, FiguresHold, PTL

(* Every variable of the telemetry has its type: each figure is a natural  *)
(* number, for any latencies, and every table that was seen is one.        *)
THEOREM TelemetryTypeCorrect == Spec => []TelemetryTypeOK
<1>1. RecordsInv /\ PagesInv => TelemetryTypeOK
  <2> SUFFICES ASSUME RecordsInv, PagesInv PROVE TelemetryTypeOK
    OBVIOUS
  <2>1. event \in [Ids -> Event]
    BY EventIsTyped
  <2>2. QED
    BY <2>1 DEF RecordsInv, PagesInv, ReaderTyped, TelemetryTypeOK
<1>2. QED
  BY <1>1, RecordsHold, PagesHold, PTL

(* The page of recent events fits the summary before it, for any limit and *)
(* any number of requests answered meanwhile, and shows the last ones.     *)
THEOREM PageIsOfTheLast == Spec => []PageFollowsSummary
<1>1. PagesInv => PageFollowsSummary
  <2> SUFFICES ASSUME PagesInv, NEW r \in Readers, read[r].at = "respond"
               PROVE  LET shown == Range(read[r].page)
                      IN /\ read[r].figures.total <= read[r].listed
                         /\ read[r].limit > 0 =>
                              Cardinality(shown) = IF read[r].limit < read[r].listed
                                                   THEN read[r].limit ELSE read[r].listed
                         /\ \E table \in read[r].seen :
                              /\ Total(table) = read[r].listed /\ shown \subseteq Recorded(table)
                              /\ \A i \in shown, j \in Recorded(table) \ shown :
                                   table[j].place < table[i].place
    BY DEF PageFollowsSummary
  <2>1. /\ read[r].figures.total <= read[r].listed /\ read[r].limit \in Int
        /\ \E table \in read[r].seen : /\ Orderly(table) /\ read[r].listed = Total(table)
                                       /\ read[r].page = Page(Listed(table), read[r].limit)
    BY DEF PagesInv, PageFits, ReaderTyped
  <2>2. PICK table \in read[r].seen : /\ Orderly(table) /\ read[r].listed = Total(table)
                                      /\ read[r].page = Page(Listed(table), read[r].limit)
    BY <2>1
  <2>3. Shows(Range(read[r].page), read[r].limit, table)
    BY <2>1, <2>2, PageShowsTheLast
  <2>4. QED
    BY <2>1, <2>2, <2>3 DEF Shows
<1>2. QED
  BY <1>1, PagesHold, PTL
=============================================================================
