-------------------------- MODULE DroneportSession --------------------------
(***************************************************************************)
(* The droneport session of the emergency component (emergency/src).  The   *)
(* autopilot asks droneport_takeoff once per tick of its preflight and      *)
(* droneport_land when a mission is complete; the component asks the port   *)
(* for a landing place, polls the orchestrator until the drone is charged,  *)
(* and asks for the take-off.  Its handlers run one at a time, and every    *)
(* call goes through the security monitor and may fail or time out.         *)
(*                                                                         *)
(* The port is external: it takes the requests of its topic in order, also  *)
(* those whose sender has given up.  Its answer may be lost.  Requests from *)
(* others than the monitor, droneport_event (journal only) and the journal  *)
(* entries change nothing here; the port's identifier is left out.          *)
(***************************************************************************)
EXTENDS Integers, Sequences

CONSTANTS
  Missions, NoMission,
  Configs,      \* the configurations of the component: sets of settings
  MaxQueue      \* bound: requests under way to the port

ASSUME DPConstants ==
  /\ NoMission \notin Missions
  /\ Configs \subseteq SUBSET {"topic", "mock"}
  /\ MaxQueue \in Nat

VARIABLES
  cfg,          \* "topic": DRONEPORT_TOPIC is set; "mock": MOCK_SUCCESS
  phase, lastMission, lastError,
  timer,        \* droneportChargeWaitAt: unset, running, or past the timeout
  pc, op, mid,  \* the handler: where it is, droneport_takeoff or _land, of what
  got,          \* the port's answer to the request it waits for
  answer,       \* the last answer to the autopilot
  port,         \* the drone as the port has it
  toPort,       \* requests under way to the port; live: somebody waits
  unheard       \* history: the component has not heard of the last landing

session == <<phase, lastMission, lastError, timer>>
handler == <<pc, op, mid, got, answer>>
portVars == <<port, toPort, unheard>>
vars == <<cfg, session, handler, portVars>>

Phases == {"DISABLED", "NOT_REGISTERED", "CHARGING", "READY", "DEPARTED"}
Errors == {"", "already_departed", "request_failed", "charge_timeout"}
Waits == {"landWait", "takeoffWait"}
OnPort == {"charging", "charged"}

(* Not mocked, with a port to talk to.                                     *)
Real == cfg = {"topic"}

-----------------------------------------------------------------------------
(* The handler *)

Return(a) == pc' = "idle" /\ answer' = a

Deny(err) == Return("denied") /\ lastError' = err

Begin(o, m) == pc = "idle" /\ op' = o /\ mid' = m

(* runPreflight up to its first call: mocked, already departed, or asked.   *)
(* DEPARTED answers for the mission it was granted to, and for no other.    *)
HandleDroneportTakeoff(m) ==
  /\ Begin("takeoff", m)
  /\ \/ /\ "mock" \in cfg
        /\ phase' = "DEPARTED"
        /\ Return("ok")
        /\ UNCHANGED <<lastMission, lastError>>
     \/ /\ "mock" \notin cfg /\ phase = "DEPARTED" /\ lastMission = m
        /\ Return("ok")
        /\ UNCHANGED <<phase, lastMission, lastError>>
     \/ /\ "mock" \notin cfg /\ phase = "DEPARTED" /\ lastMission # m
        /\ Deny("already_departed")
        /\ UNCHANGED <<phase, lastMission>>
     \/ /\ "mock" \notin cfg /\ phase # "DEPARTED"
        /\ lastMission' = m
        /\ pc' = "ready" /\ answer' = "none"
        /\ UNCHANGED <<phase, lastError>>
  /\ UNCHANGED <<cfg, timer, got, portVars>>

(* runPostMissionLand up to its call.                                      *)
HandleDroneportLand(m) ==
  /\ Begin("land", m)
  /\ \/ /\ "topic" \notin cfg
        /\ phase' = "DISABLED"
        /\ Return("ok")
        /\ UNCHANGED timer
     \/ /\ cfg = {"topic", "mock"}
        /\ phase' = "CHARGING" /\ timer' = "unset"
        /\ Return("ok")
     \/ /\ Real
        /\ pc' = "land" /\ answer' = "none"
        /\ UNCHANGED <<phase, timer>>
  /\ UNCHANGED <<cfg, lastMission, lastError, got, portVars>>

(* isDroneReady asks the orchestrator, which lists the drone when it is     *)
(* charged; an answer that is an error counts as not ready.                *)
Readiness == {"failed", "no"} \cup (IF port = "charged" THEN {"yes"} ELSE {})

(* Mutant of FirstReadyCheck: CHARGING before the port has the drone.       *)
FirstReadyCheckChargingEarly ==
  /\ pc = "ready"
  /\ \E ready \in Readiness :
       \/ /\ ready = "yes"
          /\ phase' = "READY" /\ pc' = "takeoff"
       \/ /\ ready = "no"
          /\ phase' = "CHARGING"
          /\ pc' = IF phase = "CHARGING" THEN "charge" ELSE "land"
  /\ UNCHANGED <<cfg, lastMission, lastError, timer, op, mid, got, answer, portVars>>

FirstReadyCheck ==
  /\ pc = "ready"
  /\ \E ready \in Readiness :
       \/ /\ ready = "failed"
          /\ Deny("request_failed") /\ UNCHANGED phase
       \/ /\ ready = "yes"
          /\ phase' = "READY" /\ pc' = "takeoff" /\ UNCHANGED <<lastError, answer>>
       \/ /\ ready = "no" /\ phase = "CHARGING"
          /\ pc' = "charge" /\ UNCHANGED <<phase, lastError, answer>>
       \/ /\ ready = "no" /\ phase # "CHARGING"
          /\ phase' = "NOT_REGISTERED" /\ pc' = "land" /\ UNCHANGED <<lastError, answer>>
  /\ UNCHANGED <<cfg, lastMission, timer, op, mid, got, portVars>>

(* callDroneport sends request_landing or request_takeoff, or fails at once *)
(* (the publish fails, the monitor refuses).                               *)
Requests == {"landing", "takeoff"}
SendingAt(r) == IF r = "landing" THEN "land" ELSE "takeoff"
WaitingAt(r) == IF r = "landing" THEN "landWait" ELSE "takeoffWait"

CallDroneport(r) ==
  /\ pc = SendingAt(r)
  /\ "topic" \in cfg
  /\ \/ /\ Len(toPort) < MaxQueue
        /\ toPort' = Append(toPort, [request |-> r, live |-> TRUE])
        /\ pc' = WaitingAt(r) /\ got' = "none"
        /\ UNCHANGED <<lastError, answer>>
     \/ /\ Deny("request_failed")
        /\ UNCHANGED <<toPort, got>>
  /\ UNCHANGED <<cfg, phase, lastMission, timer, op, mid, port, unheard>>

(* Without a topic runLanding and runTakeoff succeed without a call.        *)
SkipCall(r) ==
  /\ pc = SendingAt(r)
  /\ "topic" \notin cfg
  /\ \/ r = "landing" /\ phase' = "CHARGING" /\ pc' = "charge" /\ UNCHANGED answer
     \/ r = "takeoff" /\ Return("ok") /\ UNCHANGED phase
  /\ UNCHANGED <<cfg, lastMission, lastError, timer, op, mid, got, portVars>>

(* The request is refused, or nobody answers in time.  What was asked may   *)
(* still be done: the request stays in the port's topic.                   *)
Abandon(q) == [i \in 1..Len(q) |-> [q[i] EXCEPT !.live = FALSE]]

CallFails ==
  /\ pc \in Waits
  /\ got # "granted"
  /\ Deny("request_failed")
  /\ toPort' = Abandon(toPort)
  /\ UNCHANGED <<cfg, phase, lastMission, timer, op, mid, got, port, unheard>>

(* Mutant of LandingGranted: the phase of the flight before is kept.        *)
LandingGrantedKeepingPhase ==
  /\ pc = "landWait" /\ got = "granted"
  /\ unheard' = FALSE
  /\ \/ op = "takeoff" /\ pc' = "charge" /\ UNCHANGED <<answer, timer>>
     \/ op = "land" /\ Return("ok") /\ timer' = "unset"
  /\ UNCHANGED <<cfg, phase, lastMission, lastError, op, mid, got, port, toPort>>

LandingGranted ==
  /\ pc = "landWait" /\ got = "granted"
  /\ phase' = "CHARGING"
  /\ unheard' = FALSE
  /\ \/ op = "takeoff" /\ pc' = "charge" /\ UNCHANGED <<answer, timer>>
     \/ op = "land" /\ Return("ok") /\ timer' = "unset"
  /\ UNCHANGED <<cfg, lastMission, lastError, op, mid, got, port, toPort>>

(* Mutant of TakeoffGranted: another phase than the session's.             *)
TakeoffGrantedUnknownPhase ==
  /\ pc = "takeoffWait" /\ got = "granted"
  /\ phase' = "FLYING" /\ lastError' = ""
  /\ Return("ok")
  /\ UNCHANGED <<cfg, lastMission, timer, op, mid, got, portVars>>

TakeoffGranted ==
  /\ pc = "takeoffWait" /\ got = "granted"
  /\ phase' = "DEPARTED" /\ lastError' = ""
  /\ Return("ok")
  /\ UNCHANGED <<cfg, lastMission, timer, op, mid, got, portVars>>

(* Mutant of StartChargeWait: every poll starts the wait again.            *)
RestartChargeWait ==
  /\ pc = "charge"
  /\ pc' = "chargeWait"
  /\ timer' = "running"
  /\ UNCHANGED <<cfg, phase, lastMission, lastError, op, mid, got, answer, portVars>>

(* checkChargeReady: the wait starts with the first poll of it ...          *)
StartChargeWait ==
  /\ pc = "charge"
  /\ pc' = "chargeWait"
  /\ timer' = IF timer = "unset" THEN "running" ELSE timer
  /\ UNCHANGED <<cfg, phase, lastMission, lastError, op, mid, got, answer, portVars>>

(* ... and ends when the drone is ready, or not ready after the timeout.    *)
ChargeAnswered ==
  /\ pc = "chargeWait"
  /\ \E ready \in Readiness :
       \/ /\ ready = "failed"
          /\ Deny("request_failed") /\ UNCHANGED <<phase, timer>>
       \/ /\ ready = "yes"
          /\ phase' = "READY" /\ timer' = "unset" /\ pc' = "takeoff"
          /\ UNCHANGED <<lastError, answer>>
       \/ /\ ready = "no" /\ timer = "expired"
          /\ Deny("charge_timeout") /\ timer' = "unset" /\ UNCHANGED phase
       \/ /\ ready = "no" /\ timer # "expired"
          /\ Return("pending") /\ UNCHANGED <<phase, lastError, timer>>
  /\ UNCHANGED <<cfg, lastMission, op, mid, got, portVars>>

-----------------------------------------------------------------------------
(* The port, time, and the component's process *)

(* A take-off is granted to a drone on the port only; anything may be       *)
(* refused.  The answer reaches who still waits for it, or is lost.         *)
PortHandles ==
  /\ toPort # <<>>
  /\ toPort' = Tail(toPort)
  /\ \E verdict \in {"granted", "denied"} :
       /\ got' \in {got} \cup (IF Head(toPort).live THEN {verdict} ELSE {})
       /\ \/ verdict = "denied" /\ UNCHANGED <<port, unheard>>
          \/ /\ verdict = "granted" /\ Head(toPort).request = "landing"
             /\ port' = "charging" /\ unheard' = TRUE
          \/ /\ verdict = "granted" /\ Head(toPort).request = "takeoff"
             /\ port \in OnPort
             /\ port' = "departed" /\ UNCHANGED unheard
  /\ UNCHANGED <<cfg, session, pc, op, mid, answer>>

PortCharges ==
  /\ port = "charging"
  /\ port' = "charged"
  /\ UNCHANGED <<cfg, session, handler, toPort, unheard>>

Clock ==
  /\ timer = "running"
  /\ timer' = "expired"
  /\ UNCHANGED <<cfg, phase, lastMission, lastError, handler, portVars>>

(* The session lives in memory.                                            *)
Restart ==
  /\ phase' = "NOT_REGISTERED" /\ lastMission' = NoMission /\ lastError' = ""
  /\ timer' = "unset"
  /\ pc' = "idle" /\ op' = "takeoff" /\ mid' = NoMission
  /\ got' = "none" /\ answer' = "none"
  /\ toPort' = Abandon(toPort)
  /\ UNCHANGED <<cfg, port, unheard>>

-----------------------------------------------------------------------------
(* The orchestrator's topic has a default, so the session is never born      *)
(* DISABLED.                                                               *)
Init ==
  /\ cfg \in Configs
  /\ phase = "NOT_REGISTERED" /\ lastMission = NoMission /\ lastError = ""
  /\ timer = "unset"
  /\ pc = "idle" /\ op = "takeoff" /\ mid = NoMission
  /\ got = "none" /\ answer = "none"
  /\ port = "unknown" /\ toPort = <<>> /\ unheard = FALSE

HandlerRuns ==
  \/ FirstReadyCheck
  \/ \E r \in Requests : CallDroneport(r) \/ SkipCall(r)
  \/ CallFails \/ LandingGranted \/ TakeoffGranted
  \/ StartChargeWait \/ ChargeAnswered

Next ==
  \/ \E m \in Missions : HandleDroneportTakeoff(m) \/ HandleDroneportLand(m)
  \/ HandlerRuns
  \/ PortHandles \/ PortCharges \/ Clock
  \/ Restart

Spec == Init /\ [][Next]_vars

(* The autopilot asks again on every tick while it is told "pending".       *)
PollPending == answer = "pending" /\ HandleDroneportTakeoff(mid)

(* The consumer goroutine runs (every call times out), time passes, and     *)
(* the autopilot polls.  Nothing forces the port.                          *)
FairSpec == Spec /\ WF_vars(HandlerRuns) /\ WF_vars(Clock) /\ WF_vars(PollPending)

-----------------------------------------------------------------------------
(* Properties *)

(* The variables are well typed.                                           *)
TypeOK ==
  /\ cfg \in Configs
  /\ phase \in Phases /\ lastError \in Errors
  /\ lastMission \in Missions \cup {NoMission} /\ mid \in Missions \cup {NoMission}
  /\ timer \in {"unset", "running", "expired"}
  /\ pc \in {"idle", "ready", "land", "takeoff", "charge", "chargeWait"} \cup Waits
  /\ op \in {"takeoff", "land"}
  /\ got \in {"none", "granted", "denied"}
  /\ answer \in {"none", "ok", "pending", "denied"}
  /\ port \in OnPort \cup {"unknown", "departed"} /\ unheard \in BOOLEAN
  /\ toPort \in Seq([request : Requests, live : BOOLEAN])

(* An ok to the autopilot's take-off request, and the phase DEPARTED that    *)
(* gives further ones, mean that the port has cleared the drone and not      *)
(* taken it back, unless the answer to a landing was never heard (lost, or   *)
(* too late): through retries, restarts and answers to abandoned requests.   *)
TakeoffIsCleared ==
  (Real /\ (phase = "DEPARTED" \/ (answer = "ok" /\ op = "takeoff")))
    => port = "departed" \/ unheard

(* The phase CHARGING, in which a preflight waits without asking for a       *)
(* landing place, means that the drone is on the port, and that no take-off  *)
(* request that was given up earlier can still remove it from there.         *)
ChargingIsOnPort ==
  (Real /\ phase = "CHARGING") =>
    /\ port \in OnPort
    /\ \A i \in 1..Len(toPort) : toPort[i].request # "takeoff"

(* A preflight that is answered "pending" is not pending for ever, even if   *)
(* the port never answers: polled again and again, it ends with a take-off,  *)
(* an error or the charge timeout (or the component restarts).              *)
PendingEnds == (answer = "pending") ~> (pc = "idle" /\ answer # "pending")

-----------------------------------------------------------------------------
(* The inductive invariant behind the two *)

(* Only the last request under way has somebody who waits for it.          *)
LiveIsLast ==
  \A i \in 1..Len(toPort) :
    toPort[i].live => /\ i = Len(toPort)
                      /\ pc = WaitingAt(toPort[i].request)
                      /\ got = "none"

(* An answer that the handler has yet to read is still true of the port.     *)
GrantIsFresh ==
  (pc \in Waits /\ got = "granted") =>
    /\ toPort = <<>>
    /\ pc = "landWait" => port \in OnPort
    /\ pc = "takeoffWait" => port = "departed"

(* A take-off is asked for in the phase READY only; an ok leaves DEPARTED.   *)
PhaseOfHandler ==
  /\ pc \in {"takeoff", "takeoffWait"} => phase = "READY"
  /\ (Real /\ answer = "ok" /\ op = "takeoff") => phase = "DEPARTED"
  /\ answer = "ok" => pc = "idle"

IInv ==
  /\ TypeOK
  /\ LiveIsLast /\ GrantIsFresh /\ PhaseOfHandler
  /\ TakeoffIsCleared /\ ChargingIsOnPort

=============================================================================
