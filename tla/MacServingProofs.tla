-------------------------- MODULE MacServingProofs --------------------------
(***************************************************************************)
(* Proofs about the Mac serving plane, for any number of requests, starts, *)
(* kills and connections.                                                  *)
(***************************************************************************)
EXTENDS MacServing, FiniteSetTheorems, TLAPS

-----------------------------------------------------------------------------
(* The processes.                                                          *)

ProcessTypeOK ==
  /\ managed \in BOOLEAN
  /\ plane \in PlaneStates
  /\ handle \in Spawned \cup {NoEngine}
  /\ engine \in [Engines -> EngineStates]
  /\ starts \in 0 .. MaxStarts
  /\ kills \in 0 .. MaxKills
  /\ orphaned \in SUBSET Spawned

(* A handle is of an engine that was spawned, and only a plane that is up  *)
(* and manages its engine has one.                                         *)
HandleFits ==
  /\ handle # NoEngine => handle <= starts /\ engine[handle] # "none"
  /\ \A e \in Spawned : e > starts => engine[e] = "none"
  /\ plane = "down" => handle = NoEngine
  /\ plane = "waiting" => handle # NoEngine
  /\ ~managed => handle = NoEngine

ProcessInv == ProcessTypeOK /\ HandleFits /\ EnginesAreOwned

(* A request has a connection while it is sent or streamed, and there are  *)
(* none but in a plane that serves or drains.                              *)
PeersFit == \A r \in Requests : peer[r] # NoEngine <=> request[r].at \in {"sent", "streaming"}

ClosedIsQuiet == plane \notin {"serving", "draining"} => \A r \in Requests : At(r, "idle")

RequestTypeOK ==
  /\ request \in [Requests -> Request]
  /\ peer \in [Requests -> Engines \cup {NoEngine}]
  /\ pool \in 0 .. PoolSize
  /\ inFlight \in Nat

RequestInv ==
  /\ RequestTypeOK
  /\ PeersFit
  /\ ClosedIsQuiet
  /\ ReachesOwnEngine
  /\ GaugeIsExact
  /\ PoolIsExact

MacInv == ProcessInv /\ RequestInv

(* The markers are no engines of the plane.                                *)
LEMMA EnginesDiffer ==
  /\ Foreign \notin Spawned /\ NoEngine \notin Engines /\ Spawned \subseteq Engines
  /\ \A e \in Spawned : e \in Int
BY MacAssumption DEF Foreign, NoEngine, Engines, Spawned

(* A plane that is down spawns the next engine.                            *)
LEMMA SpawnKeeps == ProcessInv /\ (Start \/ StartFails) => ProcessInv'
<1> SUFFICES ASSUME ProcessInv, Start \/ StartFails PROVE ProcessInv'
  OBVIOUS
<1> USE DEF ProcessInv, PlaneStates, EngineStates
<1>1. starts + 1 \in Spawned /\ starts \in Nat /\ MaxStarts \in Nat
  BY MacAssumption DEF ProcessTypeOK, Start, StartFails, Spawned
<1>2. CASE Start /\ managed
  <2>1. /\ engine' = [engine EXCEPT ![starts + 1] = "loading"] /\ handle' = starts + 1
        /\ plane = "down" /\ plane' = "check" /\ starts' = starts + 1
        /\ managed' = managed /\ kills' = kills /\ orphaned' = orphaned
    BY <1>2 DEF Start, SetEngine
  <2>2. ProcessTypeOK'
    <3>1. engine' \in [Engines -> EngineStates]
      BY <2>1 DEF ProcessTypeOK
    <3>2. starts' \in 0 .. MaxStarts
      BY <1>1, <2>1 DEF Spawned
    <3>3. QED
      BY <1>1, <2>1, <3>1, <3>2 DEF ProcessTypeOK
  <2>3. HandleFits'
    BY <1>1, <1>2, <2>1, EnginesDiffer DEF ProcessTypeOK, HandleFits, Spawned, Engines
  <2>4. EnginesAreOwned'
    BY <1>1, <1>2, <2>1, EnginesDiffer DEF ProcessTypeOK, HandleFits, EnginesAreOwned, Alive
  <2>5. QED
    BY <2>2, <2>3, <2>4
<1>3. CASE (Start /\ ~managed) \/ StartFails
  <2>1. /\ engine' = engine /\ handle' = handle /\ plane' \in {"serving", "down"}
        /\ (plane' = "serving" => ~managed) /\ plane = "down" /\ starts' = starts + 1
        /\ managed' = managed /\ kills' = kills /\ orphaned' = orphaned
    BY <1>3 DEF Start, StartFails
  <2>2. ProcessTypeOK'
    BY <1>1, <2>1 DEF ProcessTypeOK, Spawned
  <2>3. HandleFits'
    BY <1>1, <2>1 DEF HandleFits, Spawned
  <2>4. EnginesAreOwned'
    BY <2>1 DEF EnginesAreOwned, Alive
  <2>5. QED
    BY <2>2, <2>3, <2>4
<1>4. QED
  BY <1>2, <1>3 DEF ProcessTypeOK

(* The steps of a plane that do not touch an engine: whoever lets go of    *)
(* the handle has an engine that is not alive, or leaves an orphan.        *)
LEMMA PlaneKeeps ==
  ProcessInv /\ (CheckAlive \/ CheckExited \/ Probe \/ StartupTimesOut \/ Drain \/ Drained \/ Forced
                 \/ NothingToStop \/ Killed)
    => ProcessInv'
<1> SUFFICES ASSUME ProcessInv,
                    CheckAlive \/ CheckExited \/ Probe \/ StartupTimesOut \/ Drain \/ Drained \/ Forced
                      \/ NothingToStop \/ Killed
             PROVE  ProcessInv'
  OBVIOUS
<1> USE DEF ProcessInv
<1>1. /\ engine' = engine /\ starts' = starts /\ managed' = managed
      /\ plane' \in PlaneStates \ {"waiting"}
  BY DEF CheckAlive, CheckExited, Probe, StartupTimesOut, Drain, Drained, Forced, NothingToStop,
         Killed, PlaneStates
<1>2. \/ handle' = handle /\ plane' # "down"
      \/ handle' = NoEngine
  BY DEF CheckAlive, CheckExited, Probe, StartupTimesOut, Drain, Drained, Forced, NothingToStop, Killed
<1>3. kills' \in 0 .. MaxKills
  <2>1. MaxKills \in Nat
    BY MacAssumption
  <2>2. QED
    BY <2>1 DEF ProcessTypeOK, CheckAlive, CheckExited, Probe, StartupTimesOut, Drain, Drained,
                Forced, NothingToStop, Killed
<1>4. orphaned' = orphaned \/ (handle # NoEngine /\ orphaned' = orphaned \cup {handle})
  BY DEF CheckAlive, CheckExited, Probe, StartupTimesOut, Drain, Drained, Forced, NothingToStop, Killed
<1>5. ProcessTypeOK'
  BY <1>1, <1>2, <1>3, <1>4 DEF ProcessTypeOK
<1>6. HandleFits'
  BY <1>1, <1>2 DEF HandleFits
<1>7. \A e \in Spawned : Alive(e) => e \in {handle'} \cup orphaned'
  <2>1. \A e \in Spawned : e # NoEngine
    BY EnginesDiffer
  <2>2. CASE CheckExited \/ NothingToStop
    BY <2>1, <2>2 DEF CheckExited, NothingToStop, Running, EnginesAreOwned
  <2>3. CASE Killed
    BY <2>1, <2>3 DEF Killed, EnginesAreOwned
  <2>4. CASE CheckAlive \/ Probe \/ StartupTimesOut \/ Drain \/ Drained \/ Forced
    BY <2>4 DEF CheckAlive, Probe, StartupTimesOut, Drain, Drained, Forced, EnginesAreOwned
  <2>5. QED
    BY <2>2, <2>3, <2>4
<1>8. EnginesAreOwned'
  BY <1>1, <1>7 DEF EnginesAreOwned, Alive
<1>9. QED
  BY <1>5, <1>6, <1>8

(* An engine that is stopped, bound or exits stays who it is.              *)
LEMMA EngineKeeps ==
  ProcessInv /\ (Terminate \/ Stopped \/ \E e \in Engines : EngineStarts(e) \/ EngineExits(e))
    => ProcessInv'
<1> SUFFICES ASSUME ProcessInv,
                    Terminate \/ Stopped \/ \E e \in Engines : EngineStarts(e) \/ EngineExits(e)
             PROVE  ProcessInv'
  OBVIOUS
<1> USE DEF ProcessInv, PlaneStates, EngineStates
<1>1. PICK e \in Engines, status \in EngineStates \ {"none"} :
        /\ SetEngine(e, status)
        /\ engine[e] # "none" /\ (status = "closing" => e \in Spawned /\ managed)
        /\ Alive(e) \/ status = "gone"
  <2>1. CASE Terminate
    <3>1. handle \in Spawned /\ engine[handle] # "none" /\ Alive(handle) /\ managed
      BY <2>1 DEF Terminate, Running, Alive, ProcessTypeOK, HandleFits
    <3>2. QED
      BY <2>1, <3>1, EnginesDiffer DEF Terminate
  <2>2. CASE Stopped
    <3>1. handle \in Spawned /\ engine[handle] # "none"
      BY <2>2 DEF Stopped, ProcessTypeOK, HandleFits
    <3>2. QED
      BY <2>2, <3>1, EnginesDiffer DEF Stopped
  <2>3. CASE \E e \in Engines : EngineStarts(e) \/ EngineExits(e)
    BY <2>3 DEF EngineStarts, EngineExits, Alive
  <2>4. QED
    BY <2>1, <2>2, <2>3
<1>2. /\ engine \in [Engines -> EngineStates]
      /\ engine' = [engine EXCEPT ![e] = status]
      /\ e \in Spawned => e <= starts
  BY <1>1, EnginesDiffer DEF ProcessTypeOK, HandleFits, SetEngine
<1>3. /\ managed' = managed /\ starts' = starts /\ kills' = kills /\ orphaned' = orphaned
      /\ \/ handle' = handle /\ plane' = plane
         \/ handle' = handle /\ handle # NoEngine /\ plane' = "waiting"
         \/ handle' = NoEngine /\ plane' = "down" /\ engine'[handle] = "gone"
  <2>1. CASE Terminate
    BY <2>1 DEF Terminate, Running
  <2>2. CASE Stopped
    <3>1. handle \in Engines
      BY <2>2, EnginesDiffer DEF Stopped, ProcessTypeOK, HandleFits
    <3>2. engine'[handle] = "gone"
      BY <1>2, <2>2, <3>1 DEF Stopped, SetEngine
    <3>3. QED
      BY <2>2, <3>2 DEF Stopped
  <2>3. CASE \E f \in Engines : EngineStarts(f) \/ EngineExits(f)
    BY <2>3 DEF EngineStarts, EngineExits
  <2>4. QED
    BY <2>1, <2>2, <2>3
<1>4. engine' \in [Engines -> EngineStates] /\ \A f \in Engines : f # e => engine'[f] = engine[f]
  BY <1>2
<1>5. ProcessTypeOK'
  BY <1>3, <1>4 DEF ProcessTypeOK
<1>6. HandleFits'
  <2>1. engine'[e] # "none"
    BY <1>2
  <2>2. handle \in Spawned \cup {NoEngine}
    BY DEF ProcessTypeOK
  <2>3. handle' # NoEngine => handle' <= starts' /\ engine'[handle'] # "none"
    BY <1>3, <1>4, <2>1, <2>2, EnginesDiffer DEF HandleFits
  <2>4. \A f \in Spawned : f > starts' => engine'[f] = "none"
    BY <1>2, <1>3, <1>4, EnginesDiffer DEF HandleFits, ProcessTypeOK
  <2>5. QED
    BY <1>3, <2>3, <2>4 DEF HandleFits
<1>7. EnginesAreOwned'
  <2>1. \A f \in Spawned : Alive(f)' => f \in {handle'} \cup orphaned'
    <3>1. \A f \in Spawned : Alive(f)' => Alive(f)
      BY <1>1, <1>2, <1>4, EnginesDiffer DEF Alive
    <3>2. \A f \in Spawned : Alive(f)' => ~(handle' # handle /\ f = handle)
      BY <1>3 DEF Alive
    <3>3. QED
      BY <1>3, <3>1, <3>2, EnginesDiffer DEF EnginesAreOwned
  <2>2. ~managed' => \A f \in Spawned : engine'[f] = "none"
    <3>1. ~managed => e \notin Spawned
      BY <1>1 DEF EnginesAreOwned
    <3>2. QED
      BY <1>3, <1>4, <3>1, EnginesDiffer DEF EnginesAreOwned
  <2>3. engine'[Foreign] # "closing"
    <3>1. CASE e = Foreign
      BY <1>1, <1>2, <3>1, EnginesDiffer DEF Engines
    <3>2. CASE e # Foreign
      BY <1>4, <3>2 DEF EnginesAreOwned, Engines
    <3>3. QED
      BY <3>1, <3>2
  <2>4. QED
    BY <2>1, <2>2, <2>3 DEF EnginesAreOwned
<1>8. QED
  BY <1>5, <1>6, <1>7

(* Every step of the plane and of the engines.                             *)
LEMMA ProcessKeeps == ProcessInv /\ [Next]_macVars => ProcessInv'
<1> SUFFICES ASSUME ProcessInv, [Next]_macVars PROVE ProcessInv'
  OBVIOUS
<1>1. CASE \/ UNCHANGED macVars
           \/ \E r \in Requests : Arrive(r) \/ RequestStep(r)
  <2>1. UNCHANGED processVars
    BY <1>1 DEF macVars, RequestStep, Arrive, Connect, PoolTimesOut, Refused, Broken, Answer, StreamEnds
  <2>2. QED
    BY <2>1 DEF processVars, ProcessInv, ProcessTypeOK, HandleFits, EnginesAreOwned, Alive
<1>2. CASE Start \/ StartFails
  BY <1>2, SpawnKeeps
<1>3. CASE CheckAlive \/ CheckExited \/ Probe \/ StartupTimesOut \/ Drain \/ Drained \/ Forced
             \/ NothingToStop \/ Killed
  BY <1>3, PlaneKeeps
<1>4. CASE Terminate \/ Stopped \/ \E e \in Engines : EngineStarts(e) \/ EngineExits(e)
  BY <1>4, EngineKeeps
<1>5. QED
  BY <1>1, <1>2, <1>3, <1>4 DEF Next, BackendStep

-----------------------------------------------------------------------------
(* The requests.                                                           *)

(* Both counted sets are finite.                                           *)
LEMMA CountsAreFinite == IsFiniteSet(Unanswered) /\ IsFiniteSet(Connected)
BY MacAssumption, FS_Subset DEF Unanswered, Connected

(* A request that begins to wait, or ends waiting, moves the gauge by one. *)
LEMMA GaugeMoves ==
  ASSUME RequestInv, RequestTypeOK',
         NEW r \in Requests,
         \A q \in Requests \ {r} : request'[q] = request[q],
         LET was == request[r].at \in {"pooling", "sent"}
             is == request'[r].at \in {"pooling", "sent"}
         IN \/ was /\ is /\ inFlight' = inFlight
            \/ ~was /\ ~is /\ inFlight' = inFlight
            \/ ~was /\ is /\ inFlight' = inFlight + 1
            \/ was /\ ~is /\ inFlight' = inFlight - 1
  PROVE  GaugeIsExact'
<1> USE DEF RequestInv, RequestTypeOK, GaugeIsExact
<1>1. Cardinality(Unanswered) \in Nat /\ inFlight = Cardinality(Unanswered)
  BY CountsAreFinite, FS_CardinalityType
<1>2. \/ Unanswered' = Unanswered /\ inFlight' = inFlight
      \/ r \notin Unanswered /\ Unanswered' = Unanswered \cup {r} /\ inFlight' = inFlight + 1
      \/ r \in Unanswered /\ Unanswered' = Unanswered \ {r} /\ inFlight' = inFlight - 1
  BY DEF Unanswered
<1>3. QED
  BY <1>1, <1>2, CountsAreFinite, FS_AddElement, FS_RemoveElement

(* A connection that is handed out or given back moves the pool by one.    *)
LEMMA PoolMoves ==
  ASSUME RequestInv,
         NEW r \in Requests,
         \A q \in Requests \ {r} : request'[q] = request[q],
         LET was == request[r].at \in {"sent", "streaming"}
             is == request'[r].at \in {"sent", "streaming"}
         IN \/ was /\ is /\ pool' = pool
            \/ ~was /\ ~is /\ pool' = pool
            \/ ~was /\ is /\ pool' = pool + 1
            \/ was /\ ~is /\ pool' = pool - 1
  PROVE  PoolIsExact' /\ pool' >= 0
<1> USE DEF RequestInv, RequestTypeOK, PoolIsExact
<1>1. Cardinality(Connected) \in Nat /\ pool = Cardinality(Connected)
  BY CountsAreFinite, FS_CardinalityType
<1>2. \/ Connected' = Connected /\ pool' = pool
      \/ r \notin Connected /\ Connected' = Connected \cup {r} /\ pool' = pool + 1
      \/ r \in Connected /\ Connected' = Connected \ {r} /\ pool' = pool - 1
  BY DEF Connected
<1>3. /\ Cardinality(Connected \cup {r}) = IF r \in Connected THEN Cardinality(Connected)
                                           ELSE Cardinality(Connected) + 1
      /\ Cardinality(Connected \ {r}) = IF r \in Connected THEN Cardinality(Connected) - 1
                                        ELSE Cardinality(Connected)
      /\ IsFiniteSet(Connected \ {r})
  BY CountsAreFinite, FS_AddElement, FS_RemoveElement
<1>4. r \in Connected => Cardinality(Connected) - 1 >= 0
  BY <1>3, FS_CardinalityType
<1>5. PoolIsExact'
  BY <1>1, <1>2, <1>3
<1>6. QED
  BY <1>1, <1>2, <1>4, <1>5

(* The gauge never is below the requests that wait.                        *)
LEMMA GaugeIsPositive ==
  ASSUME RequestInv, NEW r \in Requests, request[r].at \in {"pooling", "sent"}
  PROVE  inFlight - 1 \in Nat
<1>1. r \in Unanswered
  BY DEF Unanswered
<1>2. /\ Cardinality(Unanswered \ {r}) = Cardinality(Unanswered) - 1
      /\ IsFiniteSet(Unanswered \ {r})
  BY <1>1, CountsAreFinite, FS_RemoveElement
<1>3. Cardinality(Unanswered) - 1 \in Nat
  BY <1>2, FS_CardinalityType
<1>4. QED
  BY <1>3 DEF RequestInv, GaugeIsExact

(* A step of one request.                                                  *)
LEMMA RequestKeeps ==
  ASSUME ProcessInv, RequestInv, NEW r \in Requests, Arrive(r) \/ RequestStep(r)
  PROVE  RequestInv'
<1>1. /\ UNCHANGED processVars
      /\ request \in [Requests -> Request] /\ peer \in [Requests -> Engines \cup {NoEngine}]
      /\ pool \in 0 .. PoolSize /\ inFlight \in Nat /\ PoolSize \in Nat
  BY MacAssumption DEF RequestInv, RequestTypeOK, RequestStep, Arrive, Connect, PoolTimesOut, Refused,
                       Broken, Answer, StreamEnds
<1>2. PICK after \in Request, with \in Engines \cup {NoEngine} :
        /\ request' = [request EXCEPT ![r] = after]
        /\ peer' = [peer EXCEPT ![r] = with]
        /\ with # NoEngine <=> after.at \in {"sent", "streaming"}
        /\ with = peer[r] \/ with = NoEngine \/ Up(with)
        /\ after.at = "pooling" => plane = "serving"
        /\ LET was == request[r].at \in {"pooling", "sent"}
               is == after.at \in {"pooling", "sent"}
           IN \/ was /\ is /\ inFlight' = inFlight
              \/ ~was /\ ~is /\ inFlight' = inFlight
              \/ ~was /\ is /\ inFlight' = inFlight + 1
              \/ was /\ ~is /\ inFlight' = inFlight - 1
        /\ LET was == request[r].at \in {"sent", "streaming"}
               is == after.at \in {"sent", "streaming"}
           IN \/ was /\ is /\ pool' = pool
              \/ ~was /\ ~is /\ pool' = pool
              \/ ~was /\ is /\ pool' = pool + 1 /\ pool < PoolSize
              \/ was /\ ~is /\ pool' = pool - 1
        /\ At(r, "idle") => plane = "serving"
  <2>1. request[r] \in Request /\ peer[r] \in Engines \cup {NoEngine}
    BY <1>1
  <2>2. NoRequest \in Request
    BY DEF NoRequest, Request, RequestStates, Kinds
  <2>3. peer[r] # NoEngine <=> request[r].at \in {"sent", "streaming"}
    BY DEF RequestInv, PeersFit
  <2>4. CASE Arrive(r)
    <3>1. PICK kind \in Kinds : request' = [request EXCEPT ![r] = [at |-> "pooling", kind |-> kind]]
      BY <2>4 DEF Arrive
    <3>2. [at |-> "pooling", kind |-> kind] \in Request
      BY DEF Request, RequestStates
    <3>3. peer' = [peer EXCEPT ![r] = NoEngine] /\ pool' = pool /\ inFlight' = inFlight + 1
          /\ plane = "serving" /\ request[r].at = "idle"
      BY <1>1, <2>3, <2>4 DEF Arrive, At
    <3>4. QED
      BY <3>1, <3>2, <3>3 DEF At
  <2>5. CASE Connect(r)
    <3>1. PICK e \in Engines : Up(e) /\ peer' = [peer EXCEPT ![r] = e]
      BY <2>5 DEF Connect
    <3>2. request' = [request EXCEPT ![r] = [request[r] EXCEPT !.at = "sent"]]
      BY <2>5 DEF Connect
    <3>3. [request[r] EXCEPT !.at = "sent"] \in Request /\ [request[r] EXCEPT !.at = "sent"].at = "sent"
      BY <2>1 DEF Request, RequestStates
    <3>4. e # NoEngine
      BY EnginesDiffer
    <3>5. pool' = pool + 1 /\ pool < PoolSize /\ inFlight' = inFlight /\ request[r].at = "pooling"
      BY <2>5 DEF Connect, At
    <3>6. QED
      BY <3>1, <3>2, <3>3, <3>4, <3>5 DEF At
  <2>6. CASE PoolTimesOut(r) \/ Refused(r)
    <3>1. /\ request' = [request EXCEPT ![r] = NoRequest] /\ peer' = [peer EXCEPT ![r] = NoEngine]
          /\ pool' = pool /\ inFlight' = inFlight - 1 /\ request[r].at = "pooling"
      BY <2>6 DEF PoolTimesOut, Refused, Close, At
    <3>2. QED
      BY <2>2, <3>1 DEF NoRequest, At
  <2>7. CASE Broken(r)
    <3>1. /\ request' = [request EXCEPT ![r] = NoRequest] /\ peer' = [peer EXCEPT ![r] = NoEngine]
          /\ pool' = pool - 1 /\ inFlight' = inFlight - 1 /\ request[r].at = "sent"
      BY <2>7 DEF Broken, Close, At
    <3>2. QED
      BY <2>2, <3>1 DEF NoRequest, At
  <2>8. CASE Answer(r)
    <3>1. request[r].at = "sent" /\ inFlight' = inFlight - 1
      BY <2>8 DEF Answer, At
    <3>2. CASE request' = [request EXCEPT ![r] = NoRequest]
      <4>1. peer' = [peer EXCEPT ![r] = NoEngine] /\ pool' = pool - 1
        <5>1. request'[r].at # "streaming"
          BY <1>1, <3>2 DEF NoRequest
        <5>2. ~ (request' = [request EXCEPT ![r].at = "streaming"])
          BY <1>1, <5>1 DEF Request
        <5>3. QED
          BY <2>8, <5>2 DEF Answer, Close
      <4>2. QED
        BY <2>2, <3>1, <3>2, <4>1 DEF NoRequest, At
    <3>3. CASE request' = [request EXCEPT ![r].at = "streaming"] /\ UNCHANGED <<peer, pool>>
      <4>1. request' = [request EXCEPT ![r] = [request[r] EXCEPT !.at = "streaming"]]
        BY <3>3
      <4>2. /\ [request[r] EXCEPT !.at = "streaming"] \in Request
            /\ [request[r] EXCEPT !.at = "streaming"].at = "streaming"
        BY <2>1 DEF Request, RequestStates
      <4>3. peer' = [peer EXCEPT ![r] = peer[r]]
        BY <1>1, <3>3
      <4>4. QED
        BY <2>1, <2>3, <3>1, <3>3, <4>1, <4>2, <4>3 DEF At
    <3>4. QED
      BY <2>8, <3>2, <3>3 DEF Answer, Close
  <2>9. CASE StreamEnds(r)
    <3>1. /\ request' = [request EXCEPT ![r] = NoRequest] /\ peer' = [peer EXCEPT ![r] = NoEngine]
          /\ pool' = pool - 1 /\ inFlight' = inFlight /\ request[r].at = "streaming"
      BY <2>9 DEF StreamEnds, Close, At
    <3>2. QED
      BY <2>2, <3>1 DEF NoRequest, At
  <2>10. QED
    BY <2>4, <2>5, <2>6, <2>7, <2>8, <2>9 DEF RequestStep
<1>3. /\ request'[r] = after /\ peer'[r] = with
      /\ \A q \in Requests \ {r} : request'[q] = request[q] /\ peer'[q] = peer[q]
  BY <1>1, <1>2
<1>4. inFlight' \in Nat
  BY <1>1, <1>2, GaugeIsPositive
<1>5. PoolIsExact' /\ pool' >= 0
  BY <1>2, <1>3, PoolMoves
<1>6. RequestTypeOK'
  BY <1>1, <1>2, <1>4, <1>5 DEF RequestTypeOK
<1>7. GaugeIsExact'
  BY <1>2, <1>3, <1>6, GaugeMoves
<1>8. PeersFit'
  BY <1>2, <1>3 DEF RequestInv, PeersFit
<1>9. ClosedIsQuiet'
  BY <1>1, <1>2, <1>3 DEF RequestInv, ClosedIsQuiet, At, processVars
<1>10. ReachesOwnEngine'
  <2>1. ASSUME orphaned = {}, managed => engine[Foreign] = "none", with # NoEngine
        PROVE  with = IF managed THEN handle ELSE Foreign
    <3>1. CASE with = peer[r]
      BY <2>1, <3>1 DEF RequestInv, ReachesOwnEngine
    <3>2. CASE Up(with)
      BY <2>1, <3>2 DEF ProcessInv, HandleFits, EnginesAreOwned, Up, Alive, Engines
    <3>3. QED
      BY <1>2, <2>1, <3>1, <3>2
  <2>2. UNCHANGED <<managed, handle, engine, orphaned>>
    BY <1>1 DEF processVars
  <2>3. QED
    BY <1>3, <2>1, <2>2 DEF RequestInv, ReachesOwnEngine
<1>11. QED
  BY <1>5, <1>6, <1>7, <1>8, <1>9, <1>10 DEF RequestInv

(* A plane that dies takes all its requests with it.                       *)
LEMMA ForgettingKeeps == RequestInv /\ ForgetRequests => RequestInv'
<1> SUFFICES ASSUME RequestInv, ForgetRequests PROVE RequestInv'
  OBVIOUS
<1>1. /\ request' = [r \in Requests |-> NoRequest] /\ peer' = [r \in Requests |-> NoEngine]
      /\ pool' = 0 /\ inFlight' = 0
  BY DEF ForgetRequests
<1>2. NoRequest \in Request /\ NoRequest.at = "idle"
  BY DEF NoRequest, Request, RequestStates, Kinds
<1>3. RequestTypeOK'
  <2>1. 0 \in 0 .. PoolSize
    BY MacAssumption
  <2>2. QED
    BY <1>1, <1>2, <2>1 DEF RequestTypeOK
<1>4. Unanswered' = {} /\ Connected' = {}
  BY <1>1, <1>2 DEF Unanswered, Connected
<1>5. GaugeIsExact' /\ PoolIsExact'
  BY <1>1, <1>4, FS_EmptySet DEF GaugeIsExact, PoolIsExact
<1>6. PeersFit' /\ ClosedIsQuiet' /\ ReachesOwnEngine'
  BY <1>1, <1>2 DEF PeersFit, ClosedIsQuiet, ReachesOwnEngine, At
<1>7. QED
  BY <1>3, <1>5, <1>6 DEF RequestInv

(* A stranger's server may go, but none comes.                             *)
LEMMA StrangerStays ==
  ASSUME ProcessInv,
         Start \/ StartFails \/ BackendStep \/ Drain \/ Drained
           \/ \E e \in Engines : EngineStarts(e) \/ EngineExits(e),
         engine'[Foreign] = "none"
  PROVE  engine[Foreign] = "none"
<1> USE DEF ProcessInv
<1>1. CASE engine' = engine
  BY <1>1
<1>2. CASE Start
  BY <1>2, EnginesDiffer DEF Start, SetEngine, ProcessTypeOK, Engines, Spawned
<1>3. CASE Terminate \/ Stopped \/ \E e \in Engines : EngineStarts(e) \/ EngineExits(e)
  <2>1. \E e : \E status \in {"closing", "gone", "up"} : SetEngine(e, status)
    BY <1>3 DEF Terminate, Stopped, EngineStarts, EngineExits
  <2>2. QED
    BY <2>1 DEF SetEngine, ProcessTypeOK, Engines
<1>4. QED
  BY <1>1, <1>2, <1>3 DEF BackendStep, CheckAlive, CheckExited, Probe, StartupTimesOut,
     NothingToStop, StartFails, Drain, Drained

(* The other steps of the plane and the engines leave the requests alone:  *)
(* a plane changes its engine only when it has no requests.                *)
LEMMA ProcessKeepsRequests ==
  ProcessInv /\ RequestInv
    /\ (Start \/ StartFails \/ BackendStep \/ Drain \/ Drained
        \/ \E e \in Engines : EngineStarts(e) \/ EngineExits(e))
    => RequestInv'
<1> SUFFICES ASSUME ProcessInv, RequestInv,
                    Start \/ StartFails \/ BackendStep \/ Drain \/ Drained
                      \/ \E e \in Engines : EngineStarts(e) \/ EngineExits(e)
             PROVE  RequestInv'
  OBVIOUS
<1> USE DEF BackendStep, CheckAlive, CheckExited, Probe, StartupTimesOut, Terminate, NothingToStop,
            Stopped, Start, StartFails, Drain, Drained, EngineStarts, EngineExits
<1>1. /\ request' = request /\ peer' = peer /\ pool' = pool /\ inFlight' = inFlight
      /\ managed' = managed /\ orphaned' = orphaned
  BY DEF requestVars
<1>2. plane' \notin {"serving", "draining"} => \A r \in Requests : At(r, "idle")
  BY DEF RequestInv, ClosedIsQuiet
<1>3. handle' = handle \/ \A r \in Requests : peer[r] = NoEngine
  <2>1. handle' = handle \/ plane \notin {"serving", "draining"}
    OBVIOUS
  <2>2. QED
    BY <2>1 DEF RequestInv, ClosedIsQuiet, PeersFit, At
<1>4. RequestTypeOK' /\ PeersFit'
  BY <1>1 DEF RequestInv, RequestTypeOK, PeersFit
<1>5. ClosedIsQuiet'
  BY <1>1, <1>2 DEF ClosedIsQuiet, At
<1>6. ReachesOwnEngine'
  <2>1. engine'[Foreign] = "none" => engine[Foreign] = "none"
    BY StrangerStays
  <2>2. QED
    BY <1>1, <1>3, <2>1 DEF RequestInv, ReachesOwnEngine
<1>7. GaugeIsExact' /\ PoolIsExact'
  BY <1>1 DEF RequestInv, GaugeIsExact, PoolIsExact, Unanswered, Connected
<1>8. QED
  BY <1>4, <1>5, <1>6, <1>7 DEF RequestInv

-----------------------------------------------------------------------------
(* The invariant holds at the start and is kept by every step.             *)
THEOREM MacInvariant == Spec => []MacInv
<1>1. Init => MacInv
  <2> SUFFICES ASSUME Init PROVE MacInv
    OBVIOUS
  <2>1. ProcessTypeOK
    <3>1. 0 \in 0 .. MaxStarts /\ 0 \in 0 .. MaxKills /\ managed \in BOOLEAN
      BY MacAssumption DEF Init
    <3>2. QED
      BY <3>1 DEF Init, ProcessTypeOK, PlaneStates, EngineStates
  <2>2. HandleFits /\ EnginesAreOwned
    <3>1. PICK up \in BOOLEAN :
            engine = [e \in Engines |-> IF e = Foreign /\ up THEN "up" ELSE "none"]
      BY DEF Init
    <3>2. /\ \A e \in Spawned : engine[e] = "none"
          /\ engine[Foreign] # "closing"
      BY <3>1, EnginesDiffer DEF Engines
    <3>3. QED
      BY <3>2, EnginesDiffer DEF Init, HandleFits, EnginesAreOwned, Alive
  <2>3. RequestTypeOK
    <3>1. NoRequest \in Request
      BY DEF NoRequest, Request, RequestStates, Kinds
    <3>2. 0 \in 0 .. PoolSize
      BY MacAssumption
    <3>3. QED
      BY <3>1, <3>2 DEF Init, RequestTypeOK
  <2>4. PeersFit /\ ClosedIsQuiet /\ ReachesOwnEngine
    BY DEF Init, PeersFit, ClosedIsQuiet, ReachesOwnEngine, At, NoRequest
  <2>5. Unanswered = {} /\ Connected = {}
    BY DEF Init, Unanswered, Connected, NoRequest
  <2>6. GaugeIsExact /\ PoolIsExact
    BY <2>5, FS_EmptySet DEF Init, GaugeIsExact, PoolIsExact
  <2>7. QED
    BY <2>1, <2>2, <2>3, <2>4, <2>6 DEF MacInv, ProcessInv, RequestInv
<1>2. MacInv /\ [Next]_macVars => MacInv'
  <2> SUFFICES ASSUME MacInv, [Next]_macVars PROVE MacInv'
    OBVIOUS
  <2>1. ProcessInv /\ RequestInv /\ ProcessInv'
    BY ProcessKeeps DEF MacInv
  <2>2. RequestInv'
    <3>1. CASE UNCHANGED macVars
      BY <2>1, <3>1 DEF macVars, processVars, requestVars, RequestInv, RequestTypeOK, PeersFit,
                        ClosedIsQuiet, At, ReachesOwnEngine, GaugeIsExact, PoolIsExact,
                        Unanswered, Connected
    <3>2. CASE Forced \/ Killed
      BY <2>1, <3>2, ForgettingKeeps DEF Forced, Killed
    <3>3. CASE Start \/ StartFails \/ BackendStep \/ Drain \/ Drained
                 \/ \E e \in Engines : EngineStarts(e) \/ EngineExits(e)
      BY <2>1, <3>3, ProcessKeepsRequests
    <3>4. CASE \E r \in Requests : Arrive(r) \/ RequestStep(r)
      BY <2>1, <3>4, RequestKeeps
    <3>5. QED
      BY <3>1, <3>2, <3>3, <3>4 DEF Next
  <2>3. QED
    BY <2>1, <2>2 DEF MacInv
<1>3. QED
  BY <1>1, <1>2, PTL DEF Spec

(* Every variable keeps its type; the pool stays within its limit.         *)
THEOREM MacTypeCorrect == Spec => []TypeOK
<1>1. MacInv => TypeOK
  BY DEF MacInv, ProcessInv, RequestInv, ProcessTypeOK, RequestTypeOK, TypeOK
<1>2. QED
  BY <1>1, MacInvariant, PTL

(* However often the plane is started, stopped, forced or killed, every    *)
(* engine that runs is its own or was left by a plane that was killed.     *)
THEOREM NoEngineIsLost == Spec => []EnginesAreOwned
<1>1. MacInv => EnginesAreOwned
  BY DEF MacInv, ProcessInv
<1>2. QED
  BY <1>1, MacInvariant, PTL

(* Until a plane is killed, and unless a stranger had the port from the    *)
(* first, every request reaches the engine of its plane.                   *)
THEOREM RequestsReachTheirEngine == Spec => []ReachesOwnEngine
<1>1. MacInv => ReachesOwnEngine
  BY DEF MacInv, RequestInv
<1>2. QED
  BY <1>1, MacInvariant, PTL

(* For any number of requests the gauge is exact ...                       *)
THEOREM GaugeCounts == Spec => []GaugeIsExact
<1>1. MacInv => GaugeIsExact
  BY DEF MacInv, RequestInv
<1>2. QED
  BY <1>1, MacInvariant, PTL

(* ... and no connection of the pool is lost.                              *)
THEOREM NoConnectionIsLost == Spec => []PoolIsExact
<1>1. MacInv => PoolIsExact
  BY DEF MacInv, RequestInv
<1>2. QED
  BY <1>1, MacInvariant, PTL
=============================================================================
