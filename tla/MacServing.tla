----------------------------- MODULE MacServing -----------------------------
(***************************************************************************)
(* The Mac serving plane (mac-serving): a control plane that starts        *)
(* llama-server, waits for its health answer, proxies requests to it and   *)
(* stops it again (backend.py, app.py).                                    *)
(*                                                                         *)
(* The engine is a process of its own session: it outlives a control plane *)
(* that is killed.  The p-th start of a plane spawns engine p; Foreign is  *)
(* the engine somebody else started: the one that a plane which manages    *)
(* none is meant to reach, or a stranger on the port of one that does.     *)
(* All engines are given the same port.                                    *)
(***************************************************************************)
EXTENDS Integers, FiniteSets

CONSTANTS
  Requests,      \* the requests that can be open at one time
  PoolSize,      \* max_connections of the plane's HTTP client
  MaxStarts,     \* bound: how often the plane is started
  MaxKills,      \* bound: how often the plane dies without running its shutdown
  Managements,   \* the values of engine.manage_process that are tried
  Faults         \* "exit": an engine exits by itself, "slow": upstream calls time out,
                 \* "taken": somebody else's server has the port

ASSUME MacAssumption ==
  /\ IsFiniteSet(Requests)
  /\ PoolSize \in Nat \ {0}
  /\ MaxStarts \in Nat \ {0}
  /\ MaxKills \in Nat
  /\ Managements \in SUBSET BOOLEAN
  /\ Faults \in SUBSET {"exit", "slow", "taken"}

Foreign == 0
Spawned == 1 .. MaxStarts
Engines == Spawned \cup {Foreign}
NoEngine == -1

VARIABLES
  managed,       \* engine.manage_process
  plane,         \* where the lifespan of the control plane is
  handle,        \* backend.process of the running plane
  engine,        \* the engine processes
  starts,        \* how often the plane was started
  kills,         \* how often it died without its shutdown
  orphaned,      \* history: the engines a dying plane left behind
  request,       \* where each request is
  peer,          \* the engine a request has a connection to
  pool,          \* the connections the HTTP client has handed out
  inFlight       \* metrics.in_flight

processVars == <<managed, plane, handle, engine, starts, kills, orphaned>>
requestVars == <<request, peer, pool, inFlight>>
macVars == <<processVars, requestVars>>

PlaneStates == {"down", "check", "probe", "serving", "draining", "stopping", "waiting"}
EngineStates == {"none", "loading", "up", "closing", "gone"}
RequestStates == {"idle", "pooling", "sent", "streaming"}
Kinds == {"proxy", "health"}
Request == [at : RequestStates, kind : Kinds]
NoRequest == [at |-> "idle", kind |-> "proxy"]

Alive(e) == engine[e] \in {"loading", "up", "closing"}
Bound(e) == engine[e] \in {"up", "closing"}
Up(e) == engine[e] = "up"
Running == handle # NoEngine /\ Alive(handle)

At(r, place) == request[r].at = place

SetEngine(e, status) == engine' = [engine EXCEPT ![e] = status]

(* The plane's process ends: its requests, its client and its metrics with *)
(* it.                                                                     *)
ForgetRequests ==
  /\ request' = [r \in Requests |-> NoRequest]
  /\ peer' = [r \in Requests |-> NoEngine]
  /\ pool' = 0
  /\ inFlight' = 0

Init ==
  /\ managed \in Managements
  /\ plane = "down"
  /\ handle = NoEngine
  /\ \E up \in BOOLEAN :
       /\ up \/ managed
       /\ up => ~managed \/ "taken" \in Faults
       /\ engine = [e \in Engines |-> IF e = Foreign /\ up THEN "up" ELSE "none"]
  /\ starts = 0
  /\ kills = 0
  /\ orphaned = {}
  /\ request = [r \in Requests |-> NoRequest]
  /\ peer = [r \in Requests |-> NoEngine]
  /\ pool = 0
  /\ inFlight = 0

-----------------------------------------------------------------------------
(* LlamaCppBackend.start.                                                  *)

(* lifespan calls start(): a plane that does not manage the engine serves  *)
(* at once, the other one spawns it.                                       *)
Start ==
  /\ plane = "down" /\ starts < MaxStarts
  /\ starts' = starts + 1
  /\ IF managed
     THEN plane' = "check" /\ handle' = starts + 1 /\ SetEngine(starts + 1, "loading")
     ELSE plane' = "serving" /\ UNCHANGED <<handle, engine>>
  /\ UNCHANGED <<managed, kills, orphaned, requestVars>>

(* build_command finds no llama-server or no model file, and the plane ends *)
(* before there is a process.                                              *)
StartFails ==
  /\ plane = "down" /\ starts < MaxStarts /\ managed
  /\ starts' = starts + 1
  /\ UNCHANGED <<managed, plane, handle, engine, kills, orphaned, requestVars>>

(* One round of _wait_until_ready: the process is looked at, and then      *)
(* whatever listens on the port is asked for its health.                   *)
CheckAlive ==
  /\ plane = "check" /\ Running
  /\ plane' = "probe"
  /\ UNCHANGED <<managed, handle, engine, starts, kills, orphaned, requestVars>>

(* It exited during the startup: RuntimeError ends the plane.              *)
CheckExited ==
  /\ plane = "check" /\ ~Running
  /\ plane' = "down" /\ handle' = NoEngine
  /\ UNCHANGED <<managed, engine, starts, kills, orphaned, requestVars>>

Probe ==
  /\ plane = "probe"
  /\ \/ (\E e \in Engines : Up(e)) /\ plane' = "serving"
     \/ (\A e \in Engines : ~Up(e)) /\ plane' = "check"
     \/ "slow" \in Faults /\ plane' = "check"
  /\ UNCHANGED <<managed, handle, engine, starts, kills, orphaned, requestVars>>

(* Wrong variants: the startup fails and leaves the engine to itself; the  *)
(* deadline is looked at only when the engine has exited.                  *)
StartupTimesOutOnly ==
  /\ plane = "check"
  /\ plane' = "down" /\ handle' = NoEngine
  /\ UNCHANGED <<managed, engine, starts, kills, orphaned, requestVars>>

StartupTimesOutIfExited ==
  /\ plane = "check" /\ ~Running
  /\ plane' = "stopping"
  /\ UNCHANGED <<managed, handle, engine, starts, kills, orphaned, requestVars>>

(* The startup timeout passes: stop(), then TimeoutError ends the plane.   *)
StartupTimesOut ==
  /\ plane = "check"
  /\ plane' = "stopping"
  /\ UNCHANGED <<managed, handle, engine, starts, kills, orphaned, requestVars>>

-----------------------------------------------------------------------------
(* Shutdown and LlamaCppBackend.stop.                                      *)

(* The server is told to stop: it takes no new requests ...                *)
Drain ==
  /\ plane = "serving"
  /\ plane' = "draining"
  /\ UNCHANGED <<managed, handle, engine, starts, kills, orphaned, requestVars>>

(* ... and leaves the lifespan when the open ones are through ...          *)
Drained ==
  /\ plane = "draining"
  /\ \A r \in Requests : At(r, "idle")
  /\ plane' = "stopping"
  /\ UNCHANGED <<managed, handle, engine, starts, kills, orphaned, requestVars>>

(* ... or when it is told again: they are cancelled, and every connection  *)
(* of the HTTP client is closed.                                           *)
Forced ==
  /\ plane = "draining"
  /\ plane' = "stopping"
  /\ ForgetRequests
  /\ UNCHANGED <<managed, handle, engine, starts, kills, orphaned>>

(* stop(): an engine that still runs is terminated.                        *)
Terminate ==
  /\ plane = "stopping" /\ Running
  /\ plane' = "waiting"
  /\ SetEngine(handle, "closing")
  /\ UNCHANGED <<managed, handle, starts, kills, orphaned, requestVars>>

NothingToStop ==
  /\ plane = "stopping" /\ ~Running
  /\ plane' = "down" /\ handle' = NoEngine
  /\ UNCHANGED <<managed, engine, starts, kills, orphaned, requestVars>>

(* Wrong variants: the engine is forgotten after the 15 seconds; it is     *)
(* waited for however long it takes.                                       *)
StopWaitsOnce ==
  /\ plane = "waiting"
  /\ plane' = "down" /\ handle' = NoEngine
  /\ UNCHANGED <<managed, engine, starts, kills, orphaned, requestVars>>

StopWithoutKill ==
  /\ plane = "waiting" /\ ~Alive(handle)
  /\ plane' = "down" /\ handle' = NoEngine
  /\ UNCHANGED <<managed, engine, starts, kills, orphaned, requestVars>>

(* It exits, or is killed after 15 seconds.                                *)
Stopped ==
  /\ plane = "waiting"
  /\ plane' = "down" /\ handle' = NoEngine
  /\ SetEngine(handle, "gone")
  /\ UNCHANGED <<managed, starts, kills, orphaned, requestVars>>

(* The plane is killed or crashes: nothing of the shutdown runs.           *)
Killed ==
  /\ plane # "down" /\ kills < MaxKills
  /\ kills' = kills + 1
  /\ plane' = "down" /\ handle' = NoEngine
  /\ orphaned' = IF handle = NoEngine THEN orphaned ELSE orphaned \cup {handle}
  /\ ForgetRequests
  /\ UNCHANGED <<managed, engine, starts>>

-----------------------------------------------------------------------------
(* The engines.                                                            *)

(* It binds the port and has loaded its model; it exits if the port is     *)
(* taken.                                                                  *)
EngineStarts(e) ==
  /\ engine[e] = "loading"
  /\ SetEngine(e, IF \E f \in Engines : Bound(f) THEN "gone" ELSE "up")
  /\ UNCHANGED <<managed, plane, handle, starts, kills, orphaned, requestVars>>

EngineExits(e) ==
  /\ \/ engine[e] = "closing"
     \/ "exit" \in Faults /\ Alive(e)
  /\ SetEngine(e, "gone")
  /\ UNCHANGED <<managed, plane, handle, starts, kills, orphaned, requestVars>>

-----------------------------------------------------------------------------
(* The proxy.                                                              *)

(* The middleware counts the request; an inference request or a health     *)
(* probe then asks the client for a connection.  (Those without the API    *)
(* key and those the plane answers by itself never get that far.)          *)
Arrive(r) ==
  /\ plane = "serving" /\ At(r, "idle")
  /\ \E kind \in Kinds : request' = [request EXCEPT ![r] = [at |-> "pooling", kind |-> kind]]
  /\ inFlight' = inFlight + 1
  /\ UNCHANGED <<processVars, peer, pool>>

(* Wrong variant: the pool has no limit.                                   *)
ConnectAnyway(r) ==
  /\ At(r, "pooling")
  /\ \E e \in Engines : Up(e) /\ peer' = [peer EXCEPT ![r] = e]
  /\ request' = [request EXCEPT ![r].at = "sent"]
  /\ pool' = pool + 1
  /\ UNCHANGED <<processVars, inFlight>>

Connect(r) ==
  /\ At(r, "pooling") /\ pool < PoolSize
  /\ \E e \in Engines : Up(e) /\ peer' = [peer EXCEPT ![r] = e]
  /\ request' = [request EXCEPT ![r].at = "sent"]
  /\ pool' = pool + 1
  /\ UNCHANGED <<processVars, inFlight>>

(* The request is over for the middleware and for the HTTP client.         *)
Close(r) ==
  /\ request' = [request EXCEPT ![r] = NoRequest]
  /\ peer' = [peer EXCEPT ![r] = NoEngine]

(* No connection within 5 seconds (2 for a probe): the plane answers 503   *)
(* or, on /healthz, "down".                                                *)
PoolTimesOut(r) ==
  /\ At(r, "pooling") /\ pool >= PoolSize
  /\ Close(r)
  /\ inFlight' = inFlight - 1
  /\ UNCHANGED <<processVars, pool>>

(* Nobody listens: the same answer.                                        *)
Refused(r) ==
  /\ At(r, "pooling") /\ pool < PoolSize
  /\ \A e \in Engines : ~Up(e)
  /\ Close(r)
  /\ inFlight' = inFlight - 1
  /\ UNCHANGED <<processVars, pool>>

(* Wrong variant: an engine that is gone is not noticed.                   *)
BrokenOnTimeoutOnly(r) ==
  /\ At(r, "sent")
  /\ Up(peer[r]) /\ "slow" \in Faults
  /\ Close(r)
  /\ pool' = pool - 1 /\ inFlight' = inFlight - 1
  /\ UNCHANGED processVars

(* The connection breaks, or the upstream call times out, before there is  *)
(* an answer: the same answer.                                             *)
Broken(r) ==
  /\ At(r, "sent")
  /\ ~Up(peer[r]) \/ "slow" \in Faults
  /\ Close(r)
  /\ pool' = pool - 1 /\ inFlight' = inFlight - 1
  /\ UNCHANGED processVars

(* Wrong variant: the middleware waits for the body.                       *)
AnswerCountedLate(r) ==
  /\ At(r, "sent") /\ Up(peer[r])
  /\ request[r].kind = "proxy"
  /\ request' = [request EXCEPT ![r].at = "streaming"]
  /\ UNCHANGED <<processVars, peer, pool, inFlight>>

(* The upstream response begins.  For the middleware the request is over;  *)
(* the body of an inference response is still to be streamed.              *)
Answer(r) ==
  /\ At(r, "sent") /\ Up(peer[r])
  /\ inFlight' = inFlight - 1
  /\ \/ /\ request[r].kind = "proxy"
        /\ request' = [request EXCEPT ![r].at = "streaming"]
        /\ UNCHANGED <<peer, pool>>
     \/ /\ request[r].kind = "health"
        /\ Close(r)
        /\ pool' = pool - 1
  /\ UNCHANGED processVars

(* Wrong variant: a broken stream keeps its connection.                    *)
StreamEndsUnclosed(r) ==
  /\ At(r, "streaming")
  /\ Close(r)
  /\ pool' = IF Up(peer[r]) THEN pool - 1 ELSE pool
  /\ UNCHANGED <<processVars, inFlight>>

(* The body ends, breaks off with the engine, or the client goes away:     *)
(* stream_and_close gives the connection back.                             *)
StreamEnds(r) ==
  /\ At(r, "streaming")
  /\ Close(r)
  /\ pool' = pool - 1
  /\ UNCHANGED <<processVars, inFlight>>

-----------------------------------------------------------------------------
BackendStep ==
  \/ CheckAlive \/ CheckExited \/ Probe \/ StartupTimesOut
  \/ Terminate \/ NothingToStop \/ Stopped

RequestStep(r) ==
  \/ Connect(r) \/ PoolTimesOut(r) \/ Refused(r) \/ Broken(r)
  \/ Answer(r) \/ StreamEnds(r)

Next ==
  \/ Start \/ StartFails \/ BackendStep \/ Drain \/ Drained \/ Forced \/ Killed
  \/ \E e \in Engines : EngineStarts(e) \/ EngineExits(e)
  \/ \E r \in Requests : Arrive(r) \/ RequestStep(r)

Spec == Init /\ [][Next]_macVars

(* The plane's event loop runs on, and the startup timeout passes however  *)
(* often the probe is repeated.  llama-server bounds a generation by its   *)
(* context, so it answers and ends its streams unless it exits.            *)
Fairness ==
  /\ WF_macVars(BackendStep)
  /\ SF_macVars(StartupTimesOut)
  /\ \A r \in Requests : WF_macVars(RequestStep(r))
  /\ WF_macVars(Drained)

FairSpec == Spec /\ Fairness

-----------------------------------------------------------------------------
TypeOK ==
  /\ managed \in BOOLEAN
  /\ plane \in PlaneStates
  /\ handle \in Spawned \cup {NoEngine}
  /\ engine \in [Engines -> EngineStates]
  /\ starts \in 0 .. MaxStarts
  /\ kills \in 0 .. MaxKills
  /\ orphaned \in SUBSET Spawned
  /\ request \in [Requests -> Request]
  /\ peer \in [Requests -> Engines \cup {NoEngine}]
  /\ pool \in 0 .. PoolSize
  /\ inFlight \in Nat

(* The plane owns the life of its engine (README.md:4): every llama-server *)
(* it ever spawned that still runs is the one it has a handle on.  A       *)
(* startup that fails or times out, a stop that has to kill and a shutdown *)
(* that cuts requests off leave none behind; only a plane that dies without *)
(* its shutdown does.  A plane that does not manage the engine spawns      *)
(* none, and no plane stops somebody else's.                               *)
EnginesAreOwned ==
  /\ \A e \in Spawned : Alive(e) => e \in {handle} \cup orphaned
  /\ ~managed => \A e \in Spawned : engine[e] = "none"
  /\ engine[Foreign] # "closing"

(* While no plane has died uncleanly, and unless a stranger's server had   *)
(* the port from the first, whose health answer the plane takes for its    *)
(* engine's: requests reach the engine of this plane, and none of an       *)
(* earlier one.                                                            *)
ReachesOwnEngine ==
  orphaned = {} /\ (managed => engine[Foreign] = "none") =>
    \A r \in Requests : peer[r] # NoEngine => peer[r] = (IF managed THEN handle ELSE Foreign)

Unanswered == {r \in Requests : request[r].at \in {"pooling", "sent"}}
Connected == {r \in Requests : request[r].at \in {"sent", "streaming"}}

(* The gauge is the number of requests that wait for their answer, also    *)
(* after refusals, broken connections, cancellations and restarts.         *)
GaugeIsExact ==
  inFlight = Cardinality(Unanswered)

(* Every connection handed out is used by a request, and none by two:      *)
(* broken streams and cancelled requests give theirs back, so the pool     *)
(* never dries up for good.                                                *)
PoolIsExact ==
  pool = Cardinality(Connected)

(* A startup ends: the plane serves or is down, however the engine behaves.*)
StartSettles == plane \in {"check", "probe"} ~> plane \in {"serving", "down"}

(* A shutdown ends, and with it the engine.                                *)
StopEnds == plane \in {"draining", "stopping", "waiting"} ~> plane = "down"

(* Every request ends: it is answered, refused or broken off.              *)
RequestsEnd == \A r \in Requests : ~At(r, "idle") ~> At(r, "idle")

=============================================================================
