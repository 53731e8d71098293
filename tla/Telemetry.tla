----------------------------- MODULE Telemetry -----------------------------
(***************************************************************************)
(* Request telemetry: what ChatService.chat emits for an answered request  *)
(* (services/chat.py), the providers (telemetry/providers.py), the two     *)
(* telemetry repositories (database/repositories.py) and the endpoints     *)
(* that read the figures back (services/health.py, gateway/routes.py).     *)
(*                                                                         *)
(* Requests emit on the event loop, one after the other; the endpoints are *)
(* synchronous and read on threads of their own.  A row is keyed by the    *)
(* request id, which the client may choose (schemas/gateway.py).           *)
(***************************************************************************)
EXTENDS Integers, Sequences, FiniteSets, FiniteSetsExt, Functions

CONSTANTS
  Chats,         \* the requests that can be in flight at one time
  Readers,       \* the threads serving GET /health, /metrics, /inference/metrics
  Ids,           \* the request ids clients send
  Latencies,     \* the latencies that are told apart, in ms
  Limits,        \* the values of ?limit=
  Providers,     \* the values of telemetry.provider that are tried
  NoId,          \* no request id
  Faults,        \* "generate": the model server fails, "emit": the save fails
  MaxEmits,      \* bound: how many events are saved
  MaxRestarts    \* bound: how often the process is restarted

ASSUME TelemetryAssumption ==
  /\ IsFiniteSet(Ids)
  /\ Latencies \subseteq Nat
  /\ Limits \subseteq Int
  /\ Providers \subseteq {"memory", "database", "none"}
  /\ Faults \subseteq {"generate", "emit"}
  /\ NoId \notin Ids
  /\ MaxEmits \in Nat
  /\ MaxRestarts \in Nat

VARIABLES
  provider,      \* telemetry.provider
  event,         \* the telemetry table: a row per request id
  emits,         \* how many events were saved: the clock of the timestamps
  chat,          \* where each request is
  read,          \* where each reader is, and what it has read
  answered,      \* history: the ids a response was sent for
  restarts

telemetryVars == <<provider, event, emits, chat, read, answered, restarts>>

(* place orders list(): a dict keeps the place a key was first given, the  *)
(* SQL query orders by the timestamp of the last save.  0: no such row.    *)
Event == [place : 0 .. MaxEmits, latency : Latencies \cup {0}, speculative : BOOLEAN]
NoEvent == [place |-> 0, latency |-> 0, speculative |-> FALSE]
NoEvents == [id \in Ids |-> NoEvent]

(* What of MetricsSnapshot is told apart.  The four other averages are     *)
(* read like latency; total_errors is always 0, since no event is emitted  *)
(* for a request that fails.                                               *)
Figures == [total : Nat, latency : Nat, speculative : Nat, p95 : Nat, p99 : Nat]
NoFigures == [total |-> 0, latency |-> 0, speculative |-> 0, p95 |-> 0, p99 |-> 0]

Recorded(table) == {id \in DOMAIN table : table[id].place # 0}

Total(table) == Cardinality(Recorded(table))

(* list(): the rows by their places.                                       *)
Listed(table) ==
  CHOOSE rows \in [1 .. Total(table) -> Recorded(table)] :
    \A i, j \in 1 .. Total(table) : i < j => table[rows[i]].place < table[rows[j]].place

-----------------------------------------------------------------------------
(* snapshot()                                                              *)

(* int(n * 0.95) and int(min(n * 0.99, n - 1))                             *)
P95Index(n) == (95 * n) \div 100
P99Index(n) == LET i == (99 * n) \div 100 IN IF i < n - 1 THEN i ELSE n - 1

Speculative(table) == Cardinality({id \in Recorded(table) : table[id].speculative})

(* The average, in whole ms.                                               *)
MeanLatency(table) ==
  IF Total(table) = 0 THEN 0
  ELSE MapThenSumSet(LAMBDA id : table[id].latency, Recorded(table)) \div Total(table)

(* The figure at an index of the sorted latencies, counted from 0: the     *)
(* least one that more than that many rows do not exceed.                  *)
Percentile(table, index) ==
  LET AtMost(l) == {id \in Recorded(table) : table[id].latency <= l}
  IN IF Total(table) = 0 THEN 0
     ELSE Min({l \in {table[id].latency : id \in Recorded(table)} : index < Cardinality(AtMost(l))})

Summary(table) ==
  [total |-> Total(table), latency |-> MeanLatency(table), speculative |-> Speculative(table),
   p95 |-> Percentile(table, P95Index(Total(table))),
   p99 |-> Percentile(table, P99Index(Total(table)))]

(* Wrong variant: the page is cut from the front of the list.              *)
PageFromFront(rows, limit) ==
  SubSeq(rows, 1, IF limit > 0 /\ limit < Len(rows) THEN limit ELSE Len(rows))

(* raw_events[-limit:] of a Python list: 0 takes all of it, and a negative *)
(* limit drops as many from the front.                                     *)
Page(rows, limit) ==
  LET n == Len(rows)
      first == IF limit > 0 THEN n - limit ELSE -limit
  IN SubSeq(rows, (IF first < 0 THEN 0 ELSE first) + 1, n)

-----------------------------------------------------------------------------
Chat == [at : {"idle", "generating"}, id : Ids \cup {NoId}, speculative : BOOLEAN]
NoChat == [at |-> "idle", id |-> NoId, speculative |-> FALSE]

(* seen is a history: the tables that existed while the reader was at it.  *)
Read == [at : {"idle", "total", "latency", "speculative", "list", "respond"},
         limit : Limits \cup {0}, figures : Figures, page : Seq(Ids), listed : Nat,
         seen : SUBSET [Ids -> Event]]
NoRead == [at |-> "idle", limit |-> 0, figures |-> NoFigures, page |-> <<>>, listed |-> 0,
           seen |-> {}]

Generating(c) == chat[c].at = "generating"
Reading(r) == read[r].at # "idle"

(* The readers that are under way see the table change.                    *)
TableSeen == read' = [r \in Readers |-> IF Reading(r)
                        THEN [read[r] EXCEPT !.seen = @ \cup {event'}] ELSE read[r]]

Init ==
  /\ provider \in Providers
  /\ event = NoEvents
  /\ emits = 0
  /\ chat = [c \in Chats |-> NoChat]
  /\ read = [r \in Readers |-> NoRead]
  /\ answered = {}
  /\ restarts = 0

-----------------------------------------------------------------------------
(* Requests.                                                               *)

(* A request reaches its generation; speculative: its model has an EAGLE   *)
(* head.  A client may send an id again.                                   *)
Generate(c) ==
  /\ ~Generating(c) /\ emits < MaxEmits
  /\ \E id \in Ids, speculative \in BOOLEAN :
       chat' = [chat EXCEPT ![c] = [at |-> "generating", id |-> id, speculative |-> speculative]]
  /\ UNCHANGED <<provider, event, emits, read, answered, restarts>>

(* Wrong variant: the clock is ahead by one.                               *)
PlaceAhead(id) == emits + 2

(* The place a saved row takes in list().                                  *)
Place(id) ==
  IF provider = "memory" /\ id \in Recorded(event) THEN event[id].place ELSE emits + 1

(* save(): the row of the request id is created or overwritten.  Without a *)
(* provider the event is dropped.                                          *)
Saved(c, latency) ==
  IF provider = "none" THEN event
  ELSE [event EXCEPT ![chat[c].id] =
         [place |-> Place(chat[c].id), latency |-> latency, speculative |-> chat[c].speculative]]

(* Wrong variant: the response does not wait for the event.                *)
AnswerThenEmit(c) ==
  /\ Generating(c) /\ emits < MaxEmits
  /\ \/ /\ chat[c].id \notin answered
        /\ answered' = answered \cup {chat[c].id}
        /\ UNCHANGED <<provider, event, emits, chat, read, restarts>>
     \/ /\ \E latency \in Latencies : event' = Saved(c, latency)
        /\ emits' = emits + 1
        /\ chat' = [chat EXCEPT ![c] = NoChat]
        /\ answered' = answered \cup {chat[c].id}
        /\ TableSeen
        /\ UNCHANGED <<provider, restarts>>

(* The generation returns: the event is emitted, then the response sent.   *)
Answer(c) ==
  /\ Generating(c) /\ emits < MaxEmits
  /\ \E latency \in Latencies : event' = Saved(c, latency)
  /\ emits' = emits + 1
  /\ chat' = [chat EXCEPT ![c] = NoChat]
  /\ answered' = answered \cup {chat[c].id}
  /\ TableSeen
  /\ UNCHANGED <<provider, restarts>>

(* The generation fails, or the event cannot be saved: the client gets an  *)
(* error, in the second case for a message that was generated.  No event   *)
(* is kept of either.                                                      *)
Fails(c) ==
  /\ Generating(c)
  /\ \/ "generate" \in Faults
     \/ "emit" \in Faults /\ provider = "database"
  /\ chat' = [chat EXCEPT ![c] = NoChat]
  /\ UNCHANGED <<provider, event, emits, read, answered, restarts>>

-----------------------------------------------------------------------------
(* Readers.                                                                *)

Reads(r, step) == read' = [read EXCEPT ![r] = step]

Ask(r) ==
  /\ ~Reading(r)
  /\ \E limit \in Limits :
       Reads(r, [NoRead EXCEPT !.at = "total", !.limit = limit, !.seen = {event}])
  /\ UNCHANGED <<provider, event, emits, chat, answered, restarts>>

(* Wrong variant: the dict is gone through for every figure.               *)
SnapshotPerFigure(r) ==
  /\ read[r].at = "total" /\ provider # "database"
  /\ Reads(r, [read[r] EXCEPT !.at = "latency", !.figures.total = Total(event)])
  /\ UNCHANGED <<provider, event, emits, chat, answered, restarts>>

(* snapshot() of the dict works on one copy of its values; without a       *)
(* provider all figures are 0.                                             *)
SnapshotAtOnce(r) ==
  /\ read[r].at = "total" /\ provider # "database"
  /\ Reads(r, [read[r] EXCEPT !.at = "list", !.figures = Summary(event)])
  /\ UNCHANGED <<provider, event, emits, chat, answered, restarts>>

(* Wrong variant: the saves are counted, not the rows.                     *)
SelectEmits(r) ==
  /\ read[r].at = "total" /\ provider = "database"
  /\ Reads(r, [read[r] EXCEPT !.at = "latency", !.figures.total = emits])
  /\ UNCHANGED <<provider, event, emits, chat, answered, restarts>>

(* snapshot() of the table is a query per figure, each of which sees what  *)
(* is committed by then.  The percentiles are not computed.                *)
SelectTotal(r) ==
  /\ read[r].at = "total" /\ provider = "database"
  /\ Reads(r, [read[r] EXCEPT !.at = "latency", !.figures.total = Total(event)])
  /\ UNCHANGED <<provider, event, emits, chat, answered, restarts>>

SelectLatency(r) ==
  /\ read[r].at = "latency"
  /\ Reads(r, [read[r] EXCEPT !.at = "speculative", !.figures.latency = MeanLatency(event)])
  /\ UNCHANGED <<provider, event, emits, chat, answered, restarts>>

SelectSpeculative(r) ==
  /\ read[r].at = "speculative"
  /\ Reads(r, [read[r] EXCEPT !.at = "list", !.figures.speculative = Speculative(event)])
  /\ UNCHANGED <<provider, event, emits, chat, answered, restarts>>

(* GET /inference/metrics lists the recent events after the summary; a     *)
(* provider without a repository lists none.                               *)
ListEvents(r) ==
  /\ read[r].at = "list"
  /\ Reads(r, [read[r] EXCEPT !.at = "respond", !.listed = Total(event),
                              !.page = Page(Listed(event), read[r].limit)])
  /\ UNCHANGED <<provider, event, emits, chat, answered, restarts>>

(* GET /health and /metrics give the summary alone.                        *)
Respond(r) ==
  /\ read[r].at \in {"list", "respond"}
  /\ Reads(r, NoRead)
  /\ UNCHANGED <<provider, event, emits, chat, answered, restarts>>

-----------------------------------------------------------------------------
(* The process ends and starts again: only the SQL table survives.         *)
Restart ==
  /\ restarts < MaxRestarts
  /\ restarts' = restarts + 1
  /\ chat' = [c \in Chats |-> NoChat]
  /\ read' = [r \in Readers |-> NoRead]
  /\ IF provider = "memory"
     THEN event' = NoEvents /\ answered' = {}
     ELSE UNCHANGED <<event, answered>>
  /\ UNCHANGED <<provider, emits>>

Next ==
  \/ \E c \in Chats : Generate(c) \/ Answer(c) \/ Fails(c)
  \/ \E r \in Readers :
       \/ Ask(r) \/ SnapshotAtOnce(r)
       \/ SelectTotal(r) \/ SelectLatency(r) \/ SelectSpeculative(r)
       \/ ListEvents(r) \/ Respond(r)
  \/ Restart

Spec == Init /\ [][Next]_telemetryVars

-----------------------------------------------------------------------------
TelemetryTypeOK ==
  /\ provider \in Providers
  /\ event \in [Ids -> Event]
  /\ emits \in 0 .. MaxEmits
  /\ chat \in [Chats -> Chat]
  /\ \A r \in Readers :
       /\ read[r].at \in {"idle", "total", "latency", "speculative", "list", "respond"}
       /\ read[r].figures \in Figures
       /\ read[r].seen \subseteq [Ids -> Event]
  /\ answered \in SUBSET Ids
  /\ restarts \in 0 .. MaxRestarts

(* A request whose response was sent is in the records, also after a       *)
(* restart if they are kept in the database, and never twice: no two rows  *)
(* take the same place in the list.                                        *)
AnsweredIsRecorded ==
  provider # "none" =>
    /\ answered \subseteq Recorded(event)
    /\ \A i, j \in Recorded(event) : event[i].place = event[j].place => i = j

(* Every figure a reader is given was true at some moment while it was     *)
(* reading, however many requests were answered meanwhile.                 *)
EveryFigureWasTrue ==
  \A r \in Readers :
    read[r].at \in {"list", "respond"} =>
      \A figure \in {"total", "latency", "speculative"} :
        \E table \in read[r].seen : read[r].figures[figure] = Summary(table)[figure]

(* The figures of the in-memory provider all belong to one moment.  Those  *)
(* of the database need not: they can count more requests with speculative *)
(* decoding than requests.                                                 *)
OneMoment ==
  \A r \in Readers :
    /\ read[r].at \in {"list", "respond"} /\ provider # "database"
    => \E table \in read[r].seen : read[r].figures = Summary(table)

(* The requests listed after a summary are no fewer than it counted, and a *)
(* positive limit shows that many of them, the last ones of the list.      *)
PageFollowsSummary ==
  \A r \in Readers :
    read[r].at = "respond" =>
      LET shown == Range(read[r].page)
      IN /\ read[r].figures.total <= read[r].listed
         /\ read[r].limit > 0 => Cardinality(shown) = IF read[r].limit < read[r].listed
                                                      THEN read[r].limit ELSE read[r].listed
         /\ \E table \in read[r].seen :
              /\ Total(table) = read[r].listed /\ shown \subseteq Recorded(table)
              /\ \A i \in shown, j \in Recorded(table) \ shown : table[j].place < table[i].place

(* The indices of the percentiles are within the list, in order, and leave *)
(* at least 95 % and 99 % of the latencies at or below the figure.         *)
PercentileIndices(n) ==
  /\ 0 <= P95Index(n) /\ P95Index(n) <= P99Index(n) /\ P99Index(n) < n
  /\ 100 * (P95Index(n) + 1) >= 95 * n
  /\ 100 * (P99Index(n) + 1) >= 99 * n
=============================================================================
