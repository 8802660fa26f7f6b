----------------------- MODULE DroneportSessionProofs -----------------------
(***************************************************************************)
(* Proofs about the droneport session for every set of missions, every      *)
(* configuration and any number of requests under way to the port.          *)
(***************************************************************************)
EXTENDS DroneportSession, TLAPS

PortRequests == [request : Requests, live : BOOLEAN]

(* Giving up on a request changes nothing but who waits for it.             *)
LEMMA AbandonKeeps ==
  ASSUME NEW q \in Seq(PortRequests)
  PROVE  /\ Abandon(q) \in Seq(PortRequests)
         /\ Len(Abandon(q)) = Len(q)
         /\ \A i \in 1..Len(q) : /\ Abandon(q)[i].request = q[i].request
                                 /\ Abandon(q)[i].live = FALSE
  <1>1. \A i \in 1..Len(q) : q[i] \in PortRequests
    OBVIOUS
  <1>2. \A i \in 1..Len(q) : [q[i] EXCEPT !.live = FALSE] \in PortRequests
    BY <1>1 DEF PortRequests
  <1>3. Abandon(q) \in Seq(PortRequests) /\ Len(Abandon(q)) = Len(q)
    BY <1>2 DEF Abandon
  <1>4. \A i \in 1..Len(q) : /\ Abandon(q)[i].request = q[i].request
                             /\ Abandon(q)[i].live = FALSE
    BY <1>1 DEF Abandon, PortRequests
  <1> QED BY <1>3, <1>4

(* The initial state satisfies the invariant.                              *)
LEMMA InitIInv == Init => IInv
  <1> SUFFICES ASSUME Init PROVE IInv
    OBVIOUS
  <1>1. unheard \in BOOLEAN
    BY DEF Init
  <1>6. toPort = <<>>
    BY DEF Init
  <1>2. toPort \in Seq(PortRequests) /\ 1..Len(toPort) = {}
    BY <1>6
  <1>3. TypeOK
    BY <1>1, <1>2 DEF Init, TypeOK, Phases, Errors, PortRequests
  <1>4. LiveIsLast /\ GrantIsFresh /\ PhaseOfHandler
    BY <1>2 DEF Init, Waits, LiveIsLast, GrantIsFresh, PhaseOfHandler
  <1>5. TakeoffIsCleared /\ ChargingIsOnPort
    BY DEF Init, TakeoffIsCleared, ChargingIsOnPort
  <1> QED BY <1>3, <1>4, <1>5 DEF IInv

(* The handlers up to their first call.                                    *)
LEMMA BeginKeeps ==
  ASSUME IInv, NEW m \in Missions, HandleDroneportTakeoff(m) \/ HandleDroneportLand(m)
  PROVE  IInv'
  <1>1. TypeOK'
    BY DEF HandleDroneportTakeoff, HandleDroneportLand, IInv, TypeOK, Phases, Errors, Begin,
           Return, Deny, portVars, Waits
  <1>2. LiveIsLast'
    BY DEF HandleDroneportTakeoff, HandleDroneportLand, IInv, TypeOK, LiveIsLast, Begin,
           portVars, WaitingAt, Requests
  <1>3. GrantIsFresh'
    BY DEF HandleDroneportTakeoff, HandleDroneportLand, Begin, Return, Deny, GrantIsFresh,
           Waits
  <1>4. PhaseOfHandler'
    BY DEF HandleDroneportTakeoff, HandleDroneportLand, IInv, PhaseOfHandler, Begin, Return,
           Deny, Real
  <1>5. TakeoffIsCleared'
    BY DEF HandleDroneportTakeoff, HandleDroneportLand, IInv, TakeoffIsCleared, Begin, Return,
           Deny, portVars, Real
  <1>6. ChargingIsOnPort'
    BY DEF HandleDroneportTakeoff, HandleDroneportLand, IInv, ChargingIsOnPort, Begin, Return,
           Deny, portVars, Real
  <1> QED BY <1>1, <1>2, <1>3, <1>4, <1>5, <1>6 DEF IInv

(* The polls of the orchestrator, and the steps without a call.             *)
LEMMA PollsKeep ==
  ASSUME IInv, NEW r \in Requests,
         FirstReadyCheck \/ SkipCall(r) \/ StartChargeWait \/ ChargeAnswered
  PROVE  IInv'
  <1>1. TypeOK'
    <2>1. CASE FirstReadyCheck
      <3>1. /\ UNCHANGED <<cfg, lastMission, timer, op, mid, got, portVars>>
            /\ phase' \in {phase, "READY", "NOT_REGISTERED"}
            /\ pc' \in {"idle", "takeoff", "charge", "land"}
            /\ lastError' \in {lastError, "request_failed"} /\ answer' \in {answer, "denied"}
        BY <2>1 DEF FirstReadyCheck, Return, Deny
      <3>2. /\ phase' \in Phases /\ lastError' \in Errors
            /\ answer' \in {"none", "ok", "pending", "denied"}
        BY <3>1 DEF IInv, TypeOK, Phases, Errors
      <3> QED BY <3>1, <3>2 DEF IInv, TypeOK, portVars
    <2>2. CASE SkipCall(r)
      BY <2>2 DEF SkipCall, IInv, TypeOK, Phases, Return, portVars
    <2>3. CASE StartChargeWait
      BY <2>3 DEF StartChargeWait, IInv, TypeOK, portVars
    <2>4. CASE ChargeAnswered
      <3>1. /\ UNCHANGED <<cfg, lastMission, op, mid, got, portVars>>
            /\ phase' \in {phase, "READY"} /\ timer' \in {timer, "unset"}
            /\ pc' \in {"idle", "takeoff"}
            /\ lastError' \in {lastError, "request_failed", "charge_timeout"}
            /\ answer' \in {answer, "denied", "pending"}
        BY <2>4 DEF ChargeAnswered, Return, Deny
      <3>2. /\ phase' \in Phases /\ lastError' \in Errors
            /\ answer' \in {"none", "ok", "pending", "denied"}
            /\ timer' \in {"unset", "running", "expired"}
        BY <3>1 DEF IInv, TypeOK, Phases, Errors
      <3> QED BY <3>1, <3>2 DEF IInv, TypeOK, portVars
    <2> QED BY <2>1, <2>2, <2>3, <2>4
  <1>2. LiveIsLast'
    BY DEF FirstReadyCheck, SkipCall, StartChargeWait, ChargeAnswered, IInv, TypeOK,
           LiveIsLast, portVars, WaitingAt, SendingAt, Requests
  <1>3. GrantIsFresh'
    BY DEF FirstReadyCheck, SkipCall, StartChargeWait, ChargeAnswered, Return, Deny,
           GrantIsFresh, Waits
  <1>4. PhaseOfHandler'
    BY DEF FirstReadyCheck, SkipCall, StartChargeWait, ChargeAnswered, IInv, PhaseOfHandler,
           Return, Deny, Real, SendingAt, Requests
  <1>5. TakeoffIsCleared'
    BY DEF FirstReadyCheck, SkipCall, StartChargeWait, ChargeAnswered, IInv, PhaseOfHandler,
           TakeoffIsCleared, Return, Deny, portVars, Real, SendingAt
  <1>6. ChargingIsOnPort'
    BY DEF FirstReadyCheck, SkipCall, StartChargeWait, ChargeAnswered, IInv, ChargingIsOnPort,
           portVars, Real
  <1> QED BY <1>1, <1>2, <1>3, <1>4, <1>5, <1>6 DEF IInv

(* A request is sent, or refused at once.                                  *)
LEMMA CallKeeps ==
  ASSUME IInv, NEW r \in Requests, CallDroneport(r)
  PROVE  IInv'
  <1>0. toPort \in Seq(PortRequests) /\ Len(toPort) \in Nat
    BY DEF IInv, TypeOK, PortRequests
  <1>1. CASE toPort' = toPort
    <2>1. /\ UNCHANGED <<cfg, phase, lastMission, timer, op, mid, got, portVars>>
          /\ pc' = "idle" /\ answer' = "denied" /\ lastError' = "request_failed"
          /\ pc = SendingAt(r)
      <3>1. Append(toPort, [request |-> r, live |-> TRUE]) # toPort
        BY <1>0
      <3> QED BY <1>1, <3>1 DEF CallDroneport, Deny, Return, portVars
    <2>2. TypeOK'
      BY <2>1 DEF IInv, TypeOK, portVars, Errors
    <2>3. LiveIsLast' /\ GrantIsFresh' /\ PhaseOfHandler'
      BY <2>1 DEF IInv, LiveIsLast, GrantIsFresh, PhaseOfHandler, portVars, Waits, WaitingAt,
                  SendingAt
    <2>4. TakeoffIsCleared' /\ ChargingIsOnPort'
      BY <2>1 DEF IInv, TakeoffIsCleared, ChargingIsOnPort, portVars, Real
    <2> QED BY <2>2, <2>3, <2>4 DEF IInv
  <1>2. CASE toPort' # toPort
    <2> DEFINE m == [request |-> r, live |-> TRUE]
    <2>1. /\ UNCHANGED <<cfg, phase, lastMission, timer, op, mid, port, unheard, lastError, answer>>
          /\ toPort' = Append(toPort, m)
          /\ pc = SendingAt(r) /\ pc' = WaitingAt(r) /\ got' = "none"
      BY <1>2 DEF CallDroneport
    <2>2. m \in PortRequests
      BY DEF PortRequests
    <2>3. /\ toPort' \in Seq(PortRequests) /\ Len(toPort') = Len(toPort) + 1
          /\ \A i \in 1..Len(toPort) : toPort'[i] = toPort[i]
          /\ toPort'[Len(toPort')] = m
      BY <1>0, <2>1, <2>2
    <2>4. TypeOK'
      BY <2>1, <2>3 DEF IInv, TypeOK, PortRequests, WaitingAt, Waits
    <2>5. LiveIsLast'
      <3> SUFFICES ASSUME NEW i \in 1..Len(toPort'), toPort'[i].live
                   PROVE  i = Len(toPort') /\ pc' = WaitingAt(toPort'[i].request) /\ got' = "none"
        BY DEF LiveIsLast
      <3>1. CASE i \in 1..Len(toPort)
        <4>1. pc = WaitingAt(toPort[i].request)
          BY <2>3, <3>1 DEF IInv, LiveIsLast
        <4> QED BY <2>1, <4>1 DEF WaitingAt, SendingAt
      <3>2. CASE i = Len(toPort')
        BY <2>1, <2>3, <3>2
      <3> QED BY <1>0, <2>3, <3>1, <3>2
    <2>6. GrantIsFresh'
      BY <2>1 DEF GrantIsFresh
    <2>7. PhaseOfHandler' /\ TakeoffIsCleared'
      BY <2>1 DEF IInv, PhaseOfHandler, TakeoffIsCleared, Real, WaitingAt, SendingAt
    <2>8. ChargingIsOnPort'
      <3> SUFFICES ASSUME Real, phase = "CHARGING"
                   PROVE  /\ port \in OnPort
                          /\ \A i \in 1..Len(toPort') : toPort'[i].request # "takeoff"
        BY <2>1 DEF ChargingIsOnPort, Real
      <3>1. port \in OnPort /\ \A i \in 1..Len(toPort) : toPort[i].request # "takeoff"
        BY DEF IInv, ChargingIsOnPort
      <3>2. r = "landing"
        BY <2>1 DEF IInv, PhaseOfHandler, SendingAt, Requests
      <3> QED BY <1>0, <2>3, <3>1, <3>2
    <2> QED BY <2>4, <2>5, <2>6, <2>7, <2>8 DEF IInv
  <1> QED BY <1>1, <1>2

(* A call fails, or the process restarts: nobody waits any more.            *)
LEMMA GiveUpKeeps ==
  ASSUME IInv, CallFails \/ Restart
  PROVE  IInv'
  <1>0. toPort \in Seq(PortRequests) /\ toPort' = Abandon(toPort)
    BY DEF IInv, TypeOK, PortRequests, CallFails, Restart
  <1>1. /\ toPort' \in Seq(PortRequests) /\ Len(toPort') = Len(toPort)
        /\ \A i \in 1..Len(toPort') :
             toPort'[i].request = toPort[i].request /\ toPort'[i].live = FALSE
    BY <1>0, AbandonKeeps
  <1>2. /\ UNCHANGED <<cfg, port, unheard>> /\ pc' = "idle" /\ answer' \in {"denied", "none"}
        /\ phase' \in {phase, "NOT_REGISTERED"}
    BY DEF CallFails, Restart, Deny, Return
  <1>3. TypeOK'
    BY <1>1, <1>2 DEF CallFails, Restart, Deny, IInv, TypeOK, PortRequests, Errors, Phases
  <1>4. LiveIsLast' /\ GrantIsFresh' /\ PhaseOfHandler'
    BY <1>1, <1>2 DEF LiveIsLast, GrantIsFresh, PhaseOfHandler, Waits
  <1>5. TakeoffIsCleared'
    BY <1>2 DEF IInv, TakeoffIsCleared, Real
  <1>6. ChargingIsOnPort'
    BY <1>1, <1>2 DEF IInv, ChargingIsOnPort, Real
  <1> QED BY <1>3, <1>4, <1>5, <1>6 DEF IInv

(* The port's grant is heard.                                              *)
LEMMA GrantedKeeps ==
  ASSUME IInv, LandingGranted \/ TakeoffGranted
  PROVE  IInv'
  <1>0. toPort = <<>> /\ toPort' = toPort /\ pc \in Waits
    BY DEF LandingGranted, TakeoffGranted, IInv, GrantIsFresh, Waits, portVars
  <1>1. TypeOK'
    BY DEF LandingGranted, TakeoffGranted, IInv, TypeOK, Return, Phases, Errors, portVars, Waits
  <1>6. Len(toPort') = 0 /\ pc' \in {"charge", "idle"}
    BY <1>0 DEF LandingGranted, TakeoffGranted, Return
  <1>2. LiveIsLast' /\ GrantIsFresh'
    BY <1>6 DEF LiveIsLast, GrantIsFresh, Waits
  <1>3. PhaseOfHandler'
    BY DEF LandingGranted, TakeoffGranted, IInv, PhaseOfHandler, Return, Real
  <1>4. TakeoffIsCleared'
    BY DEF LandingGranted, TakeoffGranted, IInv, GrantIsFresh, PhaseOfHandler, TakeoffIsCleared,
           Return, Real, portVars, Waits
  <1>5. ChargingIsOnPort'
    BY <1>0 DEF LandingGranted, TakeoffGranted, IInv, GrantIsFresh, ChargingIsOnPort, Real,
           portVars, Waits
  <1> QED BY <1>1, <1>2, <1>3, <1>4, <1>5 DEF IInv

(* The port takes the next request, whether or not somebody waits for it.   *)
LEMMA PortKeeps ==
  ASSUME IInv, PortHandles
  PROVE  IInv'
  <1> DEFINE h == Head(toPort)
  <1>0. /\ toPort \in Seq(PortRequests) /\ toPort # <<>> /\ toPort' = Tail(toPort)
        /\ UNCHANGED <<cfg, session, pc, op, mid, answer>>
    BY DEF PortHandles, IInv, TypeOK, PortRequests
  <1>1. /\ Len(toPort) \in Nat /\ Len(toPort) > 0 /\ h = toPort[1] /\ h \in PortRequests
        /\ toPort' \in Seq(PortRequests) /\ Len(toPort') = Len(toPort) - 1
        /\ \A i \in 1..Len(toPort') : toPort'[i] = toPort[i + 1]
    BY <1>0
  <1>2. PICK verdict \in {"granted", "denied"} :
          /\ got' \in {got} \cup (IF h.live THEN {verdict} ELSE {})
          /\ \/ verdict = "denied" /\ UNCHANGED <<port, unheard>>
             \/ /\ verdict = "granted" /\ h.request = "landing"
                /\ port' = "charging" /\ unheard' = TRUE
             \/ /\ verdict = "granted" /\ h.request = "takeoff"
                /\ port \in OnPort /\ port' = "departed" /\ UNCHANGED unheard
    BY DEF PortHandles
  <1>3. h.live => Len(toPort) = 1 /\ pc = WaitingAt(h.request) /\ got = "none"
    BY <1>1 DEF IInv, LiveIsLast
  <1>4. TypeOK'
    <2>1. got' \in {"none", "granted", "denied"}
      BY <1>2 DEF IInv, TypeOK
    <2>2. unheard' \in BOOLEAN
      BY <1>2 DEF IInv, TypeOK
    <2>3. port' \in OnPort \cup {"unknown", "departed"}
      BY <1>2 DEF IInv, TypeOK, OnPort
    <2> QED BY <1>0, <1>1, <2>1, <2>2, <2>3 DEF IInv, TypeOK, session, PortRequests
  <1>5. LiveIsLast'
    <2> SUFFICES ASSUME NEW i \in 1..Len(toPort'), toPort'[i].live
                 PROVE  i = Len(toPort') /\ pc' = WaitingAt(toPort'[i].request) /\ got' = "none"
      BY DEF LiveIsLast
    <2>1. i + 1 \in 1..Len(toPort) /\ toPort'[i] = toPort[i + 1]
      BY <1>1
    <2>2. i + 1 = Len(toPort) /\ pc = WaitingAt(toPort[i + 1].request) /\ got = "none"
      BY <2>1 DEF IInv, LiveIsLast
    <2>3. ~ h.live
      BY <1>1, <1>3, <2>1
    <2>4. i = Len(toPort')
      BY <1>1, <2>2
    <2>5. got' = "none" /\ pc' = pc
      BY <1>0, <1>2, <2>2, <2>3
    <2> QED BY <2>1, <2>2, <2>4, <2>5
  <1>6. GrantIsFresh'
    <2> SUFFICES ASSUME pc \in Waits, got' = "granted"
                 PROVE  /\ toPort' = <<>>
                        /\ pc = "landWait" => port' \in OnPort
                        /\ pc = "takeoffWait" => port' = "departed"
      BY <1>0 DEF GrantIsFresh
    <2>1. got # "granted"
      BY <1>0 DEF IInv, GrantIsFresh
    <2>2. h.live /\ verdict = "granted"
      BY <1>2, <2>1
    <2>3. Len(toPort') = 0
      BY <1>1, <1>3, <2>2
    <2>4. toPort' = <<>>
      BY <1>1, <2>3
    <2>5. pc = WaitingAt(h.request)
      BY <1>3, <2>2
    <2> QED BY <1>2, <2>2, <2>4, <2>5 DEF WaitingAt, OnPort
  <1>7. PhaseOfHandler'
    BY <1>0 DEF IInv, PhaseOfHandler, session, Real
  <1>8. TakeoffIsCleared'
    BY <1>0, <1>2 DEF IInv, TakeoffIsCleared, session, Real
  <1>9. ChargingIsOnPort'
    <2> SUFFICES ASSUME Real, phase = "CHARGING"
                 PROVE  /\ port' \in OnPort
                        /\ \A i \in 1..Len(toPort') : toPort'[i].request # "takeoff"
      BY <1>0 DEF ChargingIsOnPort, Real, session
    <2>1. port \in OnPort /\ \A i \in 1..Len(toPort) : toPort[i].request # "takeoff"
      BY DEF IInv, ChargingIsOnPort
    <2>2. h.request # "takeoff"
      BY <1>1, <2>1
    <2>3. \A i \in 1..Len(toPort') : toPort'[i].request # "takeoff"
      BY <1>1, <2>1
    <2> QED BY <1>2, <2>1, <2>2, <2>3 DEF OnPort
  <1> QED BY <1>4, <1>5, <1>6, <1>7, <1>8, <1>9 DEF IInv

(* Charging, and time.                                                     *)
LEMMA WorldKeeps ==
  ASSUME IInv, PortCharges \/ Clock \/ UNCHANGED vars
  PROVE  IInv'
  <1>1. TypeOK'
    BY DEF PortCharges, Clock, vars, IInv, TypeOK, session, handler, portVars, OnPort
  <1>2. LiveIsLast' /\ PhaseOfHandler'
    BY DEF PortCharges, Clock, vars, IInv, LiveIsLast, PhaseOfHandler, session, handler,
           portVars, Real
  <1>3. GrantIsFresh'
    BY DEF PortCharges, Clock, vars, IInv, GrantIsFresh, handler, portVars, OnPort
  <1>4. TakeoffIsCleared' /\ ChargingIsOnPort'
    BY DEF PortCharges, Clock, vars, IInv, TakeoffIsCleared, ChargingIsOnPort, session, handler,
           portVars, OnPort, Real
  <1> QED BY <1>1, <1>2, <1>3, <1>4 DEF IInv

-----------------------------------------------------------------------------
(* Every step preserves the inductive invariant.                           *)
LEMMA NextIInv == IInv /\ [Next]_vars => IInv'
  <1> SUFFICES ASSUME IInv, [Next]_vars PROVE IInv'
    OBVIOUS
  <1>1. ASSUME NEW m \in Missions, HandleDroneportTakeoff(m) \/ HandleDroneportLand(m)
        PROVE  IInv'
    BY <1>1, BeginKeeps
  <1>2. CASE HandlerRuns
    BY <1>2, PollsKeep, CallKeeps, GiveUpKeeps, GrantedKeeps DEF HandlerRuns, Requests
  <1>3. CASE PortHandles \/ PortCharges \/ Clock \/ Restart \/ UNCHANGED vars
    BY <1>3, PortKeeps, WorldKeeps, GiveUpKeeps
  <1> QED BY <1>1, <1>2, <1>3 DEF Next

(* The variables of the session are well typed in every behaviour.          *)
THEOREM TypeCorrect == Spec => []TypeOK
  <1>1. IInv => TypeOK
    BY DEF IInv
  <1> QED BY <1>1, InitIInv, NextIInv, PTL DEF Spec

(* A drone that is told to take off has been cleared by the port, unless a   *)
(* landing went unheard: for every queue of abandoned requests.             *)
THEOREM TakeoffCleared == Spec => []TakeoffIsCleared
  <1>1. IInv => TakeoffIsCleared
    BY DEF IInv
  <1> QED BY <1>1, InitIInv, NextIInv, PTL DEF Spec

(* A session that waits for the charge waits for a drone that is on the      *)
(* port and that no abandoned request can remove.                           *)
THEOREM ChargingOnPort == Spec => []ChargingIsOnPort
  <1>1. IInv => ChargingIsOnPort
    BY DEF IInv
  <1> QED BY <1>1, InitIInv, NextIInv, PTL DEF Spec

=============================================================================
