------------------------------ MODULE Limiter ------------------------------
(***************************************************************************)
(* The limiter of the drone (limiter/src): it has each mission authorised   *)
(* by the air traffic authority (ORVD), asks it for the take-off clearance, *)
(* reports telemetry to it in flight, and compares the position with the    *)
(* loaded mission.                                                         *)
(*                                                                         *)
(* Two goroutines share the state: the consumer of the limiter's topic      *)
(* ("handler"), which handles one request at a time and waits for ORVD in   *)
(* the middle of it, and the control loop ("loop").  runORVDSendTelemetry   *)
(* runs in both.                                                           *)
(*                                                                         *)
(* ORVD is external.  Its answers are free, a request may fail after ORVD   *)
(* acted on it, and two history variables say what it granted.  Latitude    *)
(* and longitude are one coordinate x.                                     *)
(***************************************************************************)
EXTENDS Integers, Sequences

CONSTANTS
  Missions, NoMission,
  Steps,          \* the waypoints [x, alt] of each mission
  Positions,      \* the positions navigation reports
  NoNav,          \* lastNav = nil
  ORVDTopic,      \* ORVD_TOPIC is set
  MockSuccess,    \* LIMITER_ORVD_MOCK_SUCCESS
  RevokeSender,   \* the sender that revoke_takeoff bears at the limiter
  ConfigUpdates,  \* [dist, alt]: limits pushed by update_config, 0 if absent
  MaxDistanceFromPathM, MaxAltDeviationM,  \* the configured limits
  MaxMissionAltM,
  PublishFails,   \* the publish of an alarm may return an error
  MaxRequests,    \* bound: requests the handler starts
  MaxRevokes,     \* bound: take-off clearances ORVD revokes
  MaxRestarts     \* bound: restarts of the limiter's process

Threads == {"handler", "loop"}
Verdicts == {"NORMAL", "WARNING", "EMERGENCY"}
Statuses == {"DISABLED", "PENDING", "AUTHORIZED", "DENIED", "OUT_OF_BOUNDS"}
Phases == {"DISABLED", "PENDING", "DRONE_REGISTERED", "MISSION_REGISTERED",
           "AUTHORIZED", "TAKEOFF_AUTHORIZED", "COMPLETED", "DENIED"}
Position == [x : Int, alt : Int]

ASSUME LimConstants ==
  /\ NoMission \notin Missions
  /\ Steps \in [Missions -> Seq(Position)]
  /\ Positions \subseteq Position /\ NoNav \notin Position
  /\ ORVDTopic \in BOOLEAN /\ MockSuccess \in BOOLEAN /\ PublishFails \in BOOLEAN
  /\ ConfigUpdates \subseteq [dist : Nat, alt : Nat]
  /\ MaxDistanceFromPathM \in Nat /\ MaxAltDeviationM \in Nat /\ MaxMissionAltM \in Nat
  /\ MaxRequests \in Nat /\ MaxRevokes \in Nat /\ MaxRestarts \in Nat

VARIABLES
  mission, nav, state, limits,   \* guarded by mu
  orvdStatus, orvdMissionID, orvdPhase, droneRegistered, takeoffAuthorized,
  hpc, hMission,   \* handler: where it is, and the mission of its request
  lpc, verdict,    \* control loop: where it is, and the verdict to be stored
  tpc,             \* runORVDSendTelemetry in each goroutine
  revoke,          \* a revoke_takeoff is on its way to the limiter
  requests, revokes, restarts,   \* counters of the bounds
  (* history *)
  authorized, clearance,   \* ORVD: missions authorised, mission cleared to take off
  unheard,         \* ORVD closed the cleared mission and its answer was lost
  late,            \* alarms of ORVD telemetry since the take-off flag was cleared
  revokeDone,      \* the last revoke_takeoff taken from the topic was obeyed
  alarmed          \* the alarm of the present EMERGENCY verdict was published

orvdVars == <<orvdStatus, orvdMissionID, orvdPhase, droneRegistered, takeoffAuthorized>>
geoVars == <<mission, nav, state, limits>>
loopVars == <<lpc, verdict>>
counts == <<requests, revokes, restarts>>
histVars == <<authorized, clearance, unheard, late, revokeDone, alarmed>>
vars == <<geoVars, orvdVars, hpc, hMission, loopVars, tpc, revoke, counts, histVars>>

(* ORVD is really asked.                                                   *)
Live == ORVDTopic /\ ~ MockSuccess

-----------------------------------------------------------------------------
(* Geometry *)

Abs(n) == IF n < 0 THEN -n ELSE n

InBounds(m) ==
  /\ Steps[m] # <<>>
  /\ \A i \in 1..Len(Steps[m]) :
       Abs(Steps[m][i].x) <= 180 /\ Steps[m][i].alt \in 0..MaxMissionAltM

(* The deviation is the one from the last waypoint.                        *)
Deviation(m, p) ==
  LET target == Steps[m][Len(Steps[m])]
  IN  [dist |-> Abs(p.x - target.x), alt |-> Abs(p.alt - target.alt)]

Verdict(m, p, max) ==
  LET d == Deviation(m, p)
  IN  IF d.dist > max.dist \/ d.alt > max.alt THEN "EMERGENCY"
      ELSE IF 2 * d.dist > max.dist \/ 2 * d.alt > max.alt THEN "WARNING"
      ELSE "NORMAL"

-----------------------------------------------------------------------------
(* Handler: mission_load *)

HandlerFrame ==
  UNCHANGED <<nav, state, limits, loopVars, tpc, revoke, revokes, restarts,
              unheard, revokeDone, alarmed>>

StartRequest ==
  /\ hpc = "idle"
  /\ requests < MaxRequests
  /\ requests' = requests + 1

(* The take-off flag is cleared, if it was set.                            *)
ClearTakeoff ==
  /\ takeoffAuthorized' = FALSE
  /\ late' = IF takeoffAuthorized THEN 0 ELSE late

(* A mission out of bounds is noted; nothing else is reset.                *)
LoadOutOfBounds(m) ==
  /\ StartRequest
  /\ ~ InBounds(m)
  /\ orvdStatus' = "OUT_OF_BOUNDS"
  /\ orvdMissionID' = m
  /\ UNCHANGED <<mission, orvdPhase, droneRegistered, takeoffAuthorized, hpc, hMission,
                 authorized, clearance, late>>
  /\ HandlerFrame

(* Mutant of HandleMissionLoad: the old status stays while ORVD is asked.   *)
HandleMissionLoadKeepingStatus(m) ==
  /\ StartRequest
  /\ InBounds(m)
  /\ orvdMissionID' = m /\ orvdPhase' = "PENDING"
  /\ ClearTakeoff
  /\ hpc' = "load" /\ hMission' = m
  /\ UNCHANGED <<mission, orvdStatus, droneRegistered, authorized, clearance>>
  /\ HandlerFrame

HandleMissionLoad(m) ==
  /\ StartRequest
  /\ InBounds(m)
  /\ orvdStatus' = "PENDING" /\ orvdMissionID' = m /\ orvdPhase' = "PENDING"
  /\ ClearTakeoff
  /\ hpc' = "load" /\ hMission' = m
  /\ UNCHANGED <<mission, droneRegistered, authorized, clearance>>
  /\ HandlerFrame

(* runORVDMissionLoad: no ORVD or a mocked one, or else up to three calls.  *)
RunORVDMissionLoad ==
  /\ hpc = "load"
  /\ IF Live
     THEN /\ hpc' = IF droneRegistered THEN "registerMission" ELSE "registerDrone"
          /\ UNCHANGED <<orvdPhase, droneRegistered>>
     ELSE /\ hpc' = "authorized"
          /\ orvdPhase' = "AUTHORIZED"
          /\ droneRegistered' = (droneRegistered \/ ORVDTopic)
  /\ ClearTakeoff
  /\ UNCHANGED <<mission, orvdStatus, orvdMissionID, hMission, requests, authorized,
                 clearance>>
  /\ HandlerFrame

(* One call of the sequence: ORVD accepts, and the phase moves on ...       *)
Accepted(at, phase, next) ==
  /\ hpc = at
  /\ hpc' = next
  /\ orvdPhase' = phase
  /\ droneRegistered' = (droneRegistered \/ at = "registerDrone")
  /\ authorized' = IF at = "authorizeMission" THEN authorized \cup {hMission} ELSE authorized
  /\ UNCHANGED <<mission, orvdStatus, orvdMissionID, takeoffAuthorized, hMission,
                 requests, clearance, late>>
  /\ HandlerFrame

(* ... or the call fails (ORVD may have authorised for all that) or ORVD    *)
(* answers something else.                                                 *)
Refused(at) ==
  /\ hpc = at
  /\ hpc' = "denied"
  /\ orvdPhase' = "DENIED"
  /\ authorized' \in {authorized} \cup
       (IF at = "authorizeMission" THEN {authorized \cup {hMission}} ELSE {})
  /\ UNCHANGED <<mission, orvdStatus, orvdMissionID, droneRegistered, takeoffAuthorized,
                 hMission, requests, clearance, late>>
  /\ HandlerFrame

LoadCalls == {"registerDrone", "registerMission", "authorizeMission"}

AskORVD ==
  \/ Accepted("registerDrone", "DRONE_REGISTERED", "registerMission")
  \/ Accepted("registerMission", "MISSION_REGISTERED", "authorizeMission")
  \/ Accepted("authorizeMission", "AUTHORIZED", "authorized")
  \/ \E at \in LoadCalls : Refused(at)

(* Mutant of StoreStatus: the result is stored under another name.         *)
StoreStatusRejected ==
  /\ hpc \in {"authorized", "denied"}
  /\ hpc' = "idle"
  /\ orvdStatus' = IF hpc = "authorized" THEN "AUTHORIZED" ELSE "REJECTED"
  /\ mission' = IF hpc = "authorized" THEN hMission ELSE mission
  /\ orvdMissionID' = hMission
  /\ UNCHANGED <<orvdPhase, droneRegistered, takeoffAuthorized, hMission, requests,
                 authorized, clearance, late>>
  /\ HandlerFrame

StoreStatus ==
  /\ hpc \in {"authorized", "denied"}
  /\ hpc' = "idle"
  /\ orvdStatus' = IF hpc = "authorized" THEN "AUTHORIZED" ELSE "DENIED"
  /\ mission' = IF hpc = "authorized" THEN hMission ELSE mission
  /\ orvdMissionID' = hMission
  /\ UNCHANGED <<orvdPhase, droneRegistered, takeoffAuthorized, hMission, requests,
                 authorized, clearance, late>>
  /\ HandlerFrame

-----------------------------------------------------------------------------
(* Handler: orvd_takeoff, orvd_complete, revoke_takeoff, update_config *)

(* A request names a mission, or none and means the one of the limiter.     *)
Named(mid) == IF mid = NoMission THEN orvdMissionID ELSE mid

(* Only a limiter with an authorised mission asks; the mission it asks for  *)
(* is not compared with the authorised one.                                *)
HandleORVDTakeoff(mid) ==
  /\ StartRequest
  /\ IF Named(mid) # NoMission /\ orvdStatus = "AUTHORIZED"
     THEN hpc' = "takeoffPoll" /\ hMission' = Named(mid)
     ELSE UNCHANGED <<hpc, hMission>>
  /\ UNCHANGED <<mission, orvdVars, authorized, clearance, late>>
  /\ HandlerFrame

TakeoffPoll ==
  /\ hpc = "takeoffPoll"
  /\ nav' \in {nav} \cup Positions
  /\ hpc' = "takeoff"
  /\ UNCHANGED <<mission, state, limits, orvdVars, hMission, loopVars, tpc, revoke, counts,
                 histVars>>

GrantTakeoff ==
  /\ takeoffAuthorized' = TRUE
  /\ orvdPhase' = "TAKEOFF_AUTHORIZED"

(* runORVDRequestTakeoff without a call: no ORVD, a mocked one, or a        *)
(* clearance the limiter has already.                                      *)
TakeoffWithoutCall ==
  /\ hpc = "takeoff"
  /\ ~ Live \/ (takeoffAuthorized /\ orvdMissionID = hMission)
  /\ hpc' = "idle"
  /\ IF ORVDTopic /\ MockSuccess
     THEN GrantTakeoff
     ELSE UNCHANGED <<takeoffAuthorized, orvdPhase>>
  /\ UNCHANGED <<mission, orvdStatus, orvdMissionID, droneRegistered, hMission, requests,
                 authorized, clearance, late>>
  /\ HandlerFrame

TakeoffCalls == hpc = "takeoff" /\ Live /\ ~ (takeoffAuthorized /\ orvdMissionID = hMission)

TakeoffGranted ==
  /\ TakeoffCalls
  /\ GrantTakeoff
  /\ clearance' = hMission /\ unheard' = FALSE
  /\ hpc' = "telemetry"
  /\ tpc' = IF nav # NoNav THEN [tpc EXCEPT !["handler"] = "begin"] ELSE tpc
  /\ UNCHANGED <<geoVars, orvdStatus, orvdMissionID, droneRegistered, hMission, loopVars,
                 revoke, counts, authorized, late, revokeDone, alarmed>>

TakeoffDenied ==
  /\ TakeoffCalls
  /\ hpc' = "idle"
  /\ clearance' \in {clearance, hMission}
  /\ UNCHANGED <<mission, orvdVars, hMission, requests, authorized, late>>
  /\ HandlerFrame

TakeoffReturns ==
  /\ hpc = "telemetry"
  /\ tpc["handler"] = "out"
  /\ hpc' = "idle"
  /\ UNCHANGED <<mission, orvdVars, hMission, requests, authorized, clearance, late>>
  /\ HandlerFrame

HandleORVDComplete(mid) ==
  /\ StartRequest
  /\ IF Named(mid) # NoMission
     THEN hpc' = "complete" /\ hMission' = Named(mid)
     ELSE UNCHANGED <<hpc, hMission>>
  /\ UNCHANGED <<mission, orvdVars, authorized, clearance, late>>
  /\ HandlerFrame

(* ORVD confirms, or is not asked: the mission is closed.                  *)
CompleteConfirmed ==
  /\ hpc = "complete"
  /\ hpc' = "idle"
  /\ orvdPhase' = "COMPLETED"
  /\ ClearTakeoff
  /\ clearance' = IF clearance = hMission THEN NoMission ELSE clearance
  /\ UNCHANGED <<mission, orvdStatus, orvdMissionID, droneRegistered, hMission, requests,
                 authorized>>
  /\ HandlerFrame

(* The call failed, before or after ORVD closed the mission, or ORVD        *)
(* answered something else: the limiter changes nothing.                   *)
CompleteFails ==
  /\ hpc = "complete" /\ Live
  /\ hpc' = "idle"
  /\ \/ UNCHANGED <<clearance, unheard>>
     \/ /\ clearance = hMission
        /\ clearance' = NoMission /\ unheard' = TRUE
  /\ UNCHANGED <<geoVars, orvdVars, hMission, loopVars, tpc, revoke, counts, authorized,
                 late, revokeDone, alarmed>>

(* ORVD takes the clearance back and sends revoke_takeoff.                 *)
ORVDRevokes ==
  /\ Live
  /\ revokes < MaxRevokes
  /\ ~ revoke
  /\ clearance # NoMission
  /\ clearance' = NoMission
  /\ revoke' = TRUE
  /\ revokes' = revokes + 1
  /\ UNCHANGED <<geoVars, orvdVars, hpc, hMission, loopVars, tpc, requests, restarts,
                 authorized, unheard, late, revokeDone, alarmed>>

(* Mutant of HandleRevokeTakeoff: the flag is not cleared.                 *)
HandleRevokeTakeoffKeepingFlag ==
  /\ hpc = "idle"
  /\ revoke
  /\ revoke' = FALSE
  /\ revokeDone' = (RevokeSender = "orvd")
  /\ UNCHANGED <<geoVars, orvdVars, hpc, hMission, loopVars, tpc, counts, authorized,
                 clearance, unheard, late, alarmed>>

(* Only the sender "orvd" is obeyed: the flag is cleared, and the alarm is  *)
(* published.                                                              *)
HandleRevokeTakeoff ==
  /\ hpc = "idle"
  /\ revoke
  /\ revoke' = FALSE
  /\ revokeDone' = (RevokeSender = "orvd")
  /\ IF RevokeSender = "orvd" THEN ClearTakeoff ELSE UNCHANGED <<takeoffAuthorized, late>>
  /\ UNCHANGED <<geoVars, orvdStatus, orvdMissionID, orvdPhase, droneRegistered, hpc,
                 hMission, loopVars, tpc, counts, authorized, clearance, unheard, alarmed>>

HandleUpdateConfig(c) ==
  /\ StartRequest
  /\ limits' = [dist |-> IF c.dist > 0 THEN c.dist ELSE limits.dist,
                alt |-> IF c.alt > 0 THEN c.alt ELSE limits.alt]
  /\ UNCHANGED <<mission, nav, state, orvdVars, hpc, hMission, loopVars, tpc, revoke,
                 revokes, restarts, histVars>>

-----------------------------------------------------------------------------
(* runORVDSendTelemetry, in goroutine t *)

TelemetryFrame ==
  UNCHANGED <<geoVars, orvdVars, hpc, hMission, loopVars, revoke, counts, authorized,
              clearance, unheard, revokeDone, alarmed>>

(* Mutant of BeginTelemetry: telemetry is sent in any phase.               *)
BeginTelemetryAlways(t) ==
  /\ tpc[t] = "begin"
  /\ tpc' = [tpc EXCEPT ![t] = IF Live /\ mission # NoMission THEN "call" ELSE "out"]
  /\ UNCHANGED late
  /\ TelemetryFrame

BeginTelemetry(t) ==
  /\ tpc[t] = "begin"
  /\ tpc' = [tpc EXCEPT ![t] =
       IF Live /\ takeoffAuthorized /\ mission # NoMission THEN "call" ELSE "out"]
  /\ UNCHANGED late
  /\ TelemetryFrame

(* ORVD answers that all is well, not at all, or with the command LAND,     *)
(* which makes the limiter report an incident and raise the alarm.         *)
TelemetryAnswered(t) ==
  /\ \/ tpc[t] = "call" /\ \E next \in {"out", "report"} : tpc' = [tpc EXCEPT ![t] = next]
     \/ tpc[t] = "report" /\ tpc' = [tpc EXCEPT ![t] = "alarm"]
  /\ UNCHANGED late
  /\ TelemetryFrame

PublishORVDEmergency(t) ==
  /\ tpc[t] = "alarm"
  /\ tpc' = [tpc EXCEPT ![t] = "out"]
  /\ late' = IF takeoffAuthorized THEN late ELSE late + 1
  /\ TelemetryFrame

SendTelemetry(t) == BeginTelemetry(t) \/ TelemetryAnswered(t) \/ PublishORVDEmergency(t)

-----------------------------------------------------------------------------
(* Control loop *)

LoopFrame ==
  UNCHANGED <<mission, limits, orvdVars, hpc, hMission, revoke, counts, authorized,
              clearance, unheard, late, revokeDone>>

(* Navigation (and telemetry, which nothing reads) is polled.              *)
PollNavigation ==
  /\ lpc = "idle"
  /\ lpc' = "orvd"
  /\ nav' \in {nav} \cup Positions
  /\ UNCHANGED <<state, verdict, tpc, alarmed>>
  /\ LoopFrame

(* Telemetry is due and the position known, or not.                        *)
PollORVDTelemetry ==
  /\ lpc = "orvd"
  /\ lpc' = "telemetry"
  /\ tpc' \in {tpc} \cup
       (IF ORVDTopic /\ nav # NoNav THEN {[tpc EXCEPT !["loop"] = "begin"]} ELSE {})
  /\ UNCHANGED <<nav, state, verdict, alarmed>>
  /\ LoopFrame

(* recalculate: the verdict on a snapshot of the shared state ...           *)
Recalculate ==
  /\ lpc = "telemetry"
  /\ tpc["loop"] = "out"
  /\ IF mission = NoMission \/ nav = NoNav
     THEN lpc' = "idle" /\ UNCHANGED verdict
     ELSE /\ verdict' = Verdict(mission, nav, limits)
          /\ lpc' = IF verdict' # state THEN "store" ELSE "idle"
  /\ UNCHANGED <<nav, state, tpc, alarmed>>
  /\ LoopFrame

(* Mutant of StoreVerdict: only a worsening warning is an emergency.       *)
StoreVerdictAfterWarning ==
  /\ lpc = "store"
  /\ state' = verdict
  /\ alarmed' = FALSE
  /\ lpc' = IF verdict = "EMERGENCY" /\ state = "WARNING" THEN "report" ELSE "idle"
  /\ UNCHANGED <<nav, verdict, tpc>>
  /\ LoopFrame

(* ... is stored when it is a new one; an emergency is reported to ORVD     *)
(* and published.                                                          *)
StoreVerdict ==
  /\ lpc = "store"
  /\ state' = verdict
  /\ alarmed' = FALSE
  /\ lpc' = IF verdict = "EMERGENCY" THEN "report" ELSE "idle"
  /\ UNCHANGED <<nav, verdict, tpc>>
  /\ LoopFrame

ReportIncident ==
  /\ lpc = "report"
  /\ lpc' = "alarm"
  /\ UNCHANGED <<nav, state, verdict, tpc, alarmed>>
  /\ LoopFrame

PublishEmergency ==
  /\ lpc = "alarm"
  /\ lpc' = "idle"
  /\ alarmed' \in {TRUE} \cup (IF PublishFails THEN {FALSE} ELSE {})
  /\ UNCHANGED <<nav, state, verdict, tpc>>
  /\ LoopFrame

-----------------------------------------------------------------------------
(* The process is restarted by its supervisor: New() starts from nothing.   *)
Restart ==
  /\ restarts < MaxRestarts
  /\ restarts' = restarts + 1
  /\ mission' = NoMission /\ nav' = NoNav /\ state' = "NORMAL"
  /\ limits' = [dist |-> MaxDistanceFromPathM, alt |-> MaxAltDeviationM]
  /\ orvdStatus' = "DISABLED" /\ orvdMissionID' = NoMission /\ orvdPhase' = "DISABLED"
  /\ droneRegistered' = FALSE /\ takeoffAuthorized' = FALSE
  /\ hpc' = "idle" /\ hMission' = NoMission
  /\ lpc' = "idle" /\ verdict' = "NORMAL"
  /\ tpc' = [t \in Threads |-> "out"]
  /\ late' = 0 /\ alarmed' = FALSE
  /\ UNCHANGED <<revoke, requests, revokes, authorized, clearance, unheard, revokeDone>>

Init ==
  /\ mission = NoMission /\ nav = NoNav /\ state = "NORMAL"
  /\ limits = [dist |-> MaxDistanceFromPathM, alt |-> MaxAltDeviationM]
  /\ orvdStatus = "DISABLED" /\ orvdMissionID = NoMission /\ orvdPhase = "DISABLED"
  /\ droneRegistered = FALSE /\ takeoffAuthorized = FALSE
  /\ hpc = "idle" /\ hMission = NoMission
  /\ lpc = "idle" /\ verdict = "NORMAL"
  /\ tpc = [t \in Threads |-> "out"]
  /\ revoke = FALSE
  /\ requests = 0 /\ revokes = 0 /\ restarts = 0
  /\ authorized = {} /\ clearance = NoMission /\ unheard = FALSE
  /\ late = 0 /\ revokeDone = TRUE /\ alarmed = FALSE

Requests ==
  \/ \E m \in Missions : LoadOutOfBounds(m) \/ HandleMissionLoad(m)
  \/ \E mid \in Missions \cup {NoMission} : HandleORVDTakeoff(mid) \/ HandleORVDComplete(mid)
  \/ \E c \in ConfigUpdates : HandleUpdateConfig(c)

HandlerRuns ==
  \/ RunORVDMissionLoad \/ AskORVD \/ StoreStatus
  \/ TakeoffPoll \/ TakeoffWithoutCall \/ TakeoffGranted \/ TakeoffDenied
  \/ SendTelemetry("handler") \/ TakeoffReturns
  \/ CompleteConfirmed \/ CompleteFails
  \/ HandleRevokeTakeoff

LoopRuns ==
  \/ PollNavigation \/ PollORVDTelemetry \/ SendTelemetry("loop")
  \/ Recalculate \/ StoreVerdict \/ ReportIncident \/ PublishEmergency

Next == Requests \/ HandlerRuns \/ ORVDRevokes \/ LoopRuns \/ Restart

Spec == Init /\ [][Next]_vars

(* Both goroutines keep running: every request they make times out.        *)
FairSpec == Spec /\ WF_vars(HandlerRuns) /\ WF_vars(LoopRuns)

-----------------------------------------------------------------------------
(* Properties *)

HandlerPoints == {"idle", "load", "authorized", "denied", "takeoffPoll", "takeoff",
                  "telemetry", "complete"} \cup LoadCalls
Limits == [dist : Nat, alt : Nat]

GeoTypeOK ==
  /\ mission \in Missions \cup {NoMission} /\ nav \in Position \cup {NoNav}
  /\ state \in Verdicts /\ verdict \in Verdicts /\ limits \in Limits
  /\ alarmed \in BOOLEAN

ORVDTypeOK ==
  /\ orvdStatus \in Statuses /\ orvdMissionID \in Missions \cup {NoMission}
  /\ orvdPhase \in Phases
  /\ droneRegistered \in BOOLEAN /\ takeoffAuthorized \in BOOLEAN
  /\ authorized \subseteq Missions /\ clearance \in Missions \cup {NoMission}
  /\ revoke \in BOOLEAN /\ unheard \in BOOLEAN /\ revokeDone \in BOOLEAN

ThreadsTypeOK ==
  /\ hpc \in HandlerPoints /\ hMission \in Missions \cup {NoMission}
  /\ lpc \in {"idle", "orvd", "telemetry", "store", "report", "alarm"}
  /\ tpc \in [Threads -> {"out", "begin", "call", "report", "alarm"}]
  /\ requests \in Nat /\ revokes \in Nat /\ restarts \in Nat /\ late \in Nat

(* The variables are well typed.                                           *)
TypeOK == GeoTypeOK /\ ORVDTypeOK /\ ThreadsTypeOK

(* What get_state reports as AUTHORIZED is the mission the geofence guards, *)
(* within bounds, and one that ORVD (when it is asked) has authorised:      *)
(* whatever loads, denials and completions came before.                    *)
AuthorizedIsGuarded ==
  orvdStatus = "AUTHORIZED" =>
    /\ mission = orvdMissionID /\ mission # NoMission /\ InBounds(mission)
    /\ Live => mission \in authorized

(* The take-off flag outlives ORVD's clearance only while a revocation is   *)
(* on its way or after the answer to complete_mission was lost (provided    *)
(* that revocations bear ORVD's name), and it is never set without a        *)
(* guarded mission.                                                        *)
TakeoffFlagSound ==
  takeoffAuthorized =>
    /\ mission # NoMission /\ orvdPhase = "TAKEOFF_AUTHORIZED"
    /\ (Live /\ RevokeSender = "orvd") => clearance # NoMission \/ revoke \/ unheard

(* After the flag is cleared (completion, revocation, a new mission), the   *)
(* telemetry call that was under way raises at most one more alarm.        *)
LateAlarmsBounded == ~ takeoffAuthorized => late <= 1

(* The position breaches the limits of the loaded mission.                 *)
Breach ==
  mission # NoMission /\ nav # NoNav /\ Verdict(mission, nav, limits) = "EMERGENCY"

(* A breach leads to an alarm, unless it ends before the loop sees it: the  *)
(* limiter enforces the actual track whatever the handler waits for.       *)
BreachAlarms == Breach ~> (alarmed \/ ~ Breach)

(* A revoke_takeoff that the limiter takes from its topic is obeyed.       *)
RevokeObeyed == revokeDone

-----------------------------------------------------------------------------
(* The inductive invariant behind the safety properties *)

(* What the handler knows of the mission of its request while it waits.     *)
HandlerKnows ==
  /\ hpc \in {"load", "authorized", "denied"} \cup LoadCalls =>
       /\ hMission \in Missions /\ InBounds(hMission)
       /\ orvdStatus = "PENDING" /\ ~ takeoffAuthorized
  /\ (hpc = "authorized" /\ Live) => hMission \in authorized
  /\ hpc \in {"takeoffPoll", "takeoff"} => orvdStatus = "AUTHORIZED" /\ hMission \in Missions
  /\ hpc = "complete" => hMission \in Missions
  /\ hpc = "telemetry" => takeoffAuthorized
  /\ tpc["handler"] # "out" => hpc = "telemetry"

(* A telemetry call of the loop that is under way without the flag began    *)
(* before the flag was cleared.                                            *)
LoopTelemetry ==
  (~ takeoffAuthorized /\ tpc["loop"] \in {"call", "report", "alarm"}) => late = 0

IInv ==
  /\ TypeOK
  /\ AuthorizedIsGuarded
  /\ TakeoffFlagSound
  /\ LateAlarmsBounded
  /\ HandlerKnows
  /\ LoopTelemetry

=============================================================================
