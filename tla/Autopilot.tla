----------------------------- MODULE Autopilot -----------------------------
(***************************************************************************)
(* The mission state machine of the drone (autopilot/src).  Two goroutines  *)
(* share it: the consumer of the autopilot's topic runs the handlers of     *)
(* mission_load and cmd one at a time ("handler"), and the control loop     *)
(* polls navigation and flies the mission ("loop").  Each reads the shared  *)
(* state under the lock, releases it, calls other components through the   *)
(* security monitor, and writes its conclusion back under the lock again.  *)
(* The preflight (stepPreFlight) runs in both.                             *)
(*                                                                         *)
(* Answers of the limiter, of the emergency component and of navigation,    *)
(* errors and timeouts of those requests included, are chosen freely.       *)
(* Positions are abstracted to the tests made on them: a waypoint is        *)
(* reached or not, the drone has landed or not.                            *)
(***************************************************************************)
EXTENDS Integers

CONSTANTS
  Missions, NoMission,
  Steps,              \* number of steps of each mission
  Drops,              \* the steps <<m, i>> (from 0) that drop the cargo
  Commands,           \* the commands operators send
  MaxCmds,            \* bound: commands handled
  MaxLoads            \* bound: mission_load messages handled

States == {"IDLE", "MISSION_LOADED", "PRE_FLIGHT", "EXECUTING", "PAUSED",
           "COMPLETED", "ABORTED", "EMERGENCY_STOP"}
AllCommands == {"START", "PAUSE", "RESUME", "ABORT", "RESET", "EMERGENCY_STOP",
                "KOVER"}
StopCommands == {"ABORT", "RESET", "EMERGENCY_STOP"}
Threads == {"handler", "loop"}
PreflightErrors == {"no_mission", "limiter_not_cleared", "mission_id_mismatch",
                    "orvd_takeoff_denied", "droneport_denied"}

ASSUME APConstants ==
  /\ NoMission \notin Missions
  /\ Steps \in [Missions -> Nat]
  /\ Drops \subseteq (Missions \X Nat)
  /\ Commands \subseteq AllCommands
  /\ MaxCmds \in Nat /\ MaxLoads \in Nat

VARIABLES
  state, mission, index,   \* guarded by mu
  kover, navKnown, cargoState, lastError,
  timer,        \* preFlightStartedAt: unset, running, or expired
  hpc,          \* handler goroutine: where it is between two commands
  pfAt, pfId,   \* stepPreFlight in each goroutine, and the mission it asks for
  cpc,          \* control loop: what the snapshot made it do
  snapMission, snapIndex, snapId,  \* locals of stepControl
  cmds, loads,  \* counters of the bounds
  (* history *)
  kovered,      \* a KOVER was handled
  stopped,      \* a stop command was handled and no START, RESUME or KOVER since
  moves, opens, \* moving targets and OPENs sent while stopped
  asked,        \* <<check, mission>>: what a goroutine's preflight got cleared
  cleared,      \* the mission under way is the one its preflight cleared
  visited,      \* steps of the loaded mission that were reached
  misreported,  \* the loaded mission is reported complete but was not flown
  overtook      \* what the control loop was doing when the mission was loaded

shared == <<state, mission, index, kover, navKnown, cargoState, lastError, timer>>
loopVars == <<cpc, snapMission, snapIndex, snapId>>
pfVars == <<pfAt, pfId, asked>>
counts == <<cmds, loads>>
stopVars == <<stopped, moves, opens>>
flightVars == <<kovered, cleared, visited, misreported, overtook>>
vars == <<shared, hpc, pfVars, loopVars, counts, stopVars, flightVars>>

-----------------------------------------------------------------------------
(* Commands *)

(* The transition table of the commands.                                   *)
AllowedFrom(c) ==
  CASE c = "START"  -> {"MISSION_LOADED", "IDLE"}
    [] c = "PAUSE"  -> {"EXECUTING"}
    [] c = "RESUME" -> {"PAUSED"}
    [] OTHER        -> States

NextState(c) ==
  CASE c = "START"          -> "PRE_FLIGHT"
    [] c = "PAUSE"          -> "PAUSED"
    [] c = "RESUME"         -> "EXECUTING"
    [] c = "ABORT"          -> "ABORTED"
    [] c = "RESET"          -> "IDLE"
    [] c = "EMERGENCY_STOP" -> "EMERGENCY_STOP"
    [] c = "KOVER"          -> IF state = "PAUSED" THEN state ELSE "EXECUTING"

-----------------------------------------------------------------------------
(* Handler goroutine *)

(* A mission_load overtakes a step of the control loop that has read the     *)
(* mission and is to write its conclusion back.                            *)
Unfinished == {"preflight", "reached", "pastEnd"}

HandleMissionLoad(m) ==
  /\ hpc = "idle"
  /\ loads < MaxLoads
  /\ loads' = loads + 1
  /\ mission' = m
  /\ index' = IF Steps[m] > 0 THEN 0 ELSE -1
  /\ state' = "MISSION_LOADED"
  /\ cleared' = FALSE
  /\ visited' = {} /\ misreported' = FALSE
  /\ overtook' = IF cpc \in Unfinished THEN cpc ELSE "nothing"
  /\ UNCHANGED <<kover, navKnown, cargoState, lastError, timer, hpc, pfVars,
                 loopVars, cmds, stopVars, kovered>>

(* START without a mission.                                                *)
RefuseStart ==
  /\ hpc = "idle"
  /\ "START" \in Commands
  /\ cmds < MaxCmds
  /\ cmds' = cmds + 1
  /\ mission = NoMission
  /\ UNCHANGED <<shared, hpc, pfVars, loopVars, loads, stopVars, flightVars>>

(* A command its table row does not allow in this state is answered ok; a   *)
(* START has cleared the error and restarted the preflight timer by then.   *)
IgnoreCmd(c) ==
  /\ hpc = "idle"
  /\ cmds < MaxCmds
  /\ cmds' = cmds + 1
  /\ state \notin AllowedFrom(c)
  /\ IF c = "START"
     THEN /\ mission # NoMission
          /\ lastError' = "" /\ timer' = "running"
     ELSE UNCHANGED <<lastError, timer>>
  /\ UNCHANGED <<state, mission, index, kover, navKnown, cargoState, hpc,
                 pfVars, loopVars, loads, stopVars, flightVars>>

(* Mutant of ClearsKover: the emergency stop leaves the descent active.     *)
ClearsKoverOnAbort(c) == c \in {"ABORT", "RESET"}

ClearsKover(c) == c \in StopCommands

HandleCmd(c) ==
  /\ hpc = "idle"
  /\ cmds < MaxCmds
  /\ cmds' = cmds + 1
  /\ state \in AllowedFrom(c)
  /\ c = "START" => mission # NoMission
  /\ state' = NextState(c)
  /\ mission' = IF c = "RESET" THEN NoMission ELSE mission
  /\ index' = IF c = "RESET" THEN 0 ELSE index
  /\ kover' = IF c = "KOVER" THEN TRUE ELSE (kover /\ ~ ClearsKover(c))
  /\ IF c = "START"
     THEN lastError' = "" /\ timer' = "running"
     ELSE UNCHANGED <<lastError, timer>>
  /\ hpc' = CASE c = "START" -> "preflight"
              [] c \in {"ABORT", "EMERGENCY_STOP"} -> "stopTarget"
              [] OTHER -> "idle"
  /\ pfAt' = IF c = "START" THEN [pfAt EXCEPT !["handler"] = "begin"] ELSE pfAt
  /\ stopped' = CASE c \in StopCommands -> TRUE
                  [] c \in {"START", "RESUME", "KOVER"} -> FALSE
                  [] OTHER -> stopped
  /\ moves' = IF c \in StopCommands THEN 0 ELSE moves
  /\ opens' = IF c \in StopCommands THEN 0 ELSE opens
  /\ kovered' = (kovered \/ c = "KOVER")
  /\ cleared' = (cleared /\ c \notin StopCommands \cup {"START"})
  /\ UNCHANGED <<navKnown, cargoState, pfId, asked, loopVars, loads,
                 visited, misreported, overtook>>

(* What the two goroutines send to motors and cargo.                       *)
SendTarget(moving) == moves' = IF stopped /\ moving THEN moves + 1 ELSE moves

SendCargo(open) ==
  /\ cargoState' = IF open THEN "OPEN" ELSE "CLOSE"
  /\ opens' = IF stopped /\ open THEN opens + 1 ELSE opens

(* safeActuatorStop of ABORT and EMERGENCY_STOP, after the lock is released *)
(* (a hover target when the position is known, then CLOSE).                *)
SafeStopTarget ==
  /\ hpc = "stopTarget"
  /\ hpc' = "stopCargo"
  /\ UNCHANGED <<shared, pfVars, loopVars, counts, stopVars, flightVars>>

SafeStopCargo ==
  /\ hpc = "stopCargo"
  /\ hpc' = "idle"
  /\ SendCargo(FALSE)
  /\ UNCHANGED <<state, mission, index, kover, navKnown, lastError, timer, pfVars,
                 loopVars, counts, stopped, moves, flightVars>>

(* The handler of START returns when its first stepPreFlight has.           *)
StartReturns ==
  /\ hpc = "preflight"
  /\ pfAt["handler"] = "out"
  /\ hpc' = "idle"
  /\ UNCHANGED <<shared, pfVars, loopVars, counts, stopVars, flightVars>>

-----------------------------------------------------------------------------
(* stepPreFlight, in goroutine t *)

PreflightFrame(t) ==
  UNCHANGED <<mission, index, kover, navKnown, cargoState, timer, hpc, loopVars,
              counts, stopVars, kovered, visited, misreported, overtook>>

(* stepPreFlight returns, and its locals with it.                          *)
LeavePreflight(t) ==
  /\ pfAt' = [pfAt EXCEPT ![t] = "out"]
  /\ pfId' = [pfId EXCEPT ![t] = NoMission]
  /\ asked' = [asked EXCEPT ![t] = {}]

(* Mutant of BeginPreflight: the timer is not looked at.                   *)
BeginPreflightUntimed(t) ==
  /\ pfAt[t] = "begin"
  /\ pfAt' = [pfAt EXCEPT ![t] = IF state = "PRE_FLIGHT" THEN "auth" ELSE "out"]
  /\ asked' = [asked EXCEPT ![t] = {}]
  /\ UNCHANGED <<state, lastError, cleared, pfId>>
  /\ PreflightFrame(t)

(* The state and the timer are read under the lock.                        *)
BeginPreflight(t) ==
  /\ pfAt[t] = "begin"
  /\ pfAt' = [pfAt EXCEPT ![t] =
       CASE state # "PRE_FLIGHT" -> "out"
         [] state = "PRE_FLIGHT" /\ timer = "expired" -> "timeout"
         [] OTHER -> "auth"]
  /\ asked' = [asked EXCEPT ![t] = {}]
  /\ UNCHANGED <<state, lastError, cleared, pfId>>
  /\ PreflightFrame(t)

(* The timeout aborts without looking at the state again.                  *)
PreflightTimesOut(t) ==
  /\ pfAt[t] = "timeout"
  /\ LeavePreflight(t)
  /\ state' = "ABORTED" /\ lastError' = "preflight_timeout" /\ cleared' = FALSE
  /\ PreflightFrame(t)

(* An error of a check ends the preflight, and aborts if it is still on.    *)
PreflightFails(t, err) ==
  /\ LeavePreflight(t)
  /\ IF state = "PRE_FLIGHT"
     THEN state' = "ABORTED" /\ lastError' = err
     ELSE UNCHANGED <<state, lastError>>
  /\ UNCHANGED cleared
  /\ PreflightFrame(t)

(* The three checks: checkLimiterAuthorization, requestORVDTakeoff and      *)
(* requestDroneportTakeoff.  Each reads the mission under the lock ...      *)
Checks == {"auth", "takeoff", "port"}
Waiting(check) == CASE check = "auth" -> "authWait" [] check = "takeoff" -> "takeoffWait"
                    [] check = "port" -> "portWait"
After(check) == CASE check = "auth" -> "takeoff" [] check = "takeoff" -> "port"
                  [] check = "port" -> "promote"
ErrorsOf(check) ==
  CASE check = "auth" -> {"limiter_not_cleared", "mission_id_mismatch"}
    [] check = "takeoff" -> {"orvd_takeoff_denied"}
    [] check = "port" -> {"droneport_denied"}

Ask(t, check) ==
  /\ pfAt[t] = check
  /\ \/ /\ mission = NoMission
        /\ PreflightFails(t, "no_mission")
     \/ /\ mission # NoMission
        /\ pfAt' = [pfAt EXCEPT ![t] = Waiting(check)]
        /\ pfId' = [pfId EXCEPT ![t] = mission]
        /\ UNCHANGED <<state, lastError, cleared, asked>>
        /\ PreflightFrame(t)

(* ... and then waits for the answer: cleared, pending, or an error.        *)
Answered(t, check) ==
  /\ pfAt[t] = Waiting(check)
  /\ pfAt' = [pfAt EXCEPT ![t] = After(check)]
  /\ asked' = [asked EXCEPT ![t] = @ \cup {<<check, pfId[t]>>}]
  /\ UNCHANGED <<state, lastError, cleared, pfId>>
  /\ PreflightFrame(t)

(* Mutant of AnsweredPending: pending counts as cleared.                   *)
AnsweredPendingAsCleared(t, check) ==
  /\ pfAt[t] = Waiting(check)
  /\ check \in {"auth", "port"}
  /\ pfAt' = [pfAt EXCEPT ![t] = After(check)]
  /\ UNCHANGED <<state, lastError, cleared, pfId, asked>>
  /\ PreflightFrame(t)

AnsweredPending(t, check) ==
  /\ pfAt[t] = Waiting(check)
  /\ check \in {"auth", "port"}
  /\ LeavePreflight(t)
  /\ UNCHANGED <<state, lastError, cleared>>
  /\ PreflightFrame(t)

Denied(t, check) ==
  /\ pfAt[t] = Waiting(check)
  /\ \E err \in ErrorsOf(check) : PreflightFails(t, err)

(* All checks passed: the mission starts if the preflight is still on.      *)
Promote(t) ==
  /\ pfAt[t] = "promote"
  /\ LeavePreflight(t)
  /\ IF state = "PRE_FLIGHT"
     THEN /\ state' = "EXECUTING" /\ lastError' = ""
          /\ cleared' = (asked[t] = Checks \X {mission})
     ELSE UNCHANGED <<state, lastError, cleared>>
  /\ PreflightFrame(t)

StepPreFlight(t) ==
  \/ BeginPreflight(t)
  \/ PreflightTimesOut(t)
  \/ \E check \in Checks :
       Ask(t, check) \/ Answered(t, check) \/ AnsweredPending(t, check) \/ Denied(t, check)
  \/ Promote(t)

-----------------------------------------------------------------------------
(* Control loop *)

(* pollNavigationIfDue: not due, an error, or a position.                  *)
PollNavigation ==
  /\ cpc = "idle"
  /\ cpc' = "step"
  /\ navKnown' \in {navKnown, TRUE}
  /\ UNCHANGED <<state, mission, index, kover, cargoState, lastError, timer, hpc,
                 pfVars, snapMission, snapIndex, snapId, counts,
                 stopVars, flightVars>>

(* What stepControl decides from its snapshot of the shared state.          *)
AtStep == IF index < 0 THEN 0 ELSE index

Decision ==
  CASE state = "PRE_FLIGHT"        -> {"preflight"}
    [] state # "PRE_FLIGHT" /\ ~ navKnown -> {"idle"}
    [] state # "PRE_FLIGHT" /\ navKnown /\ kover -> {"koverTarget"}
    [] OTHER ->
         IF \/ mission = NoMission \/ state \notin {"EXECUTING", "PAUSED"}
         THEN {"idle"}
         ELSE CASE Steps[mission] = 0 -> {"idle"}
                [] Steps[mission] # 0 /\ AtStep >= Steps[mission] -> {"pastEnd"}
                [] OTHER -> IF state = "PAUSED" THEN {"hoverTarget"}
                            ELSE {"reached", "moveTarget"}

StepControl ==
  /\ cpc = "step"
  /\ cpc' \in Decision
  /\ snapMission' = mission
  /\ snapIndex' = AtStep
  /\ pfAt' = IF cpc' = "preflight" THEN [pfAt EXCEPT !["loop"] = "begin"] ELSE pfAt
  /\ visited' = IF cpc' = "reached" THEN visited \cup {AtStep} ELSE visited
  /\ UNCHANGED <<shared, hpc, pfId, asked, snapId, counts, stopVars,
                 kovered, cleared, misreported, overtook>>

LoopFrame ==
  UNCHANGED <<navKnown, lastError, timer, hpc, pfVars, snapMission, snapIndex,
              counts, stopped, kovered, visited, overtook>>

PreflightReturns ==
  /\ cpc = "preflight"
  /\ pfAt["loop"] = "out"
  /\ cpc' = "idle"
  /\ UNCHANGED <<state, mission, index, kover, cargoState, snapId, moves, opens,
                 cleared, misreported>>
  /\ LoopFrame

(* A target to the motors, then a command to the cargo bay: of a step of    *)
(* the mission, of the descent, and of hovering.                           *)
LoopTarget(at, moving, next) ==
  /\ cpc = at
  /\ SendTarget(moving)
  /\ cpc' = next
  /\ UNCHANGED <<state, mission, index, kover, cargoState, snapId, opens, cleared,
                 misreported>>
  /\ LoopFrame

LoopCargo(at, open, next) ==
  /\ cpc = at
  /\ SendCargo(open)
  /\ cpc' = next
  /\ UNCHANGED <<state, mission, index, kover, snapId, moves, cleared, misreported>>
  /\ LoopFrame

Move == \/ LoopTarget("moveTarget", TRUE, "moveCargo")
        \/ LoopCargo("moveCargo", <<snapMission, snapIndex>> \in Drops, "idle")
Hover == \/ LoopTarget("hoverTarget", FALSE, "hoverCargo")
         \/ LoopCargo("hoverCargo", FALSE, "idle")

(* Mutant of Advance: the next waypoint is skipped.                        *)
AdvanceByTwo ==
  /\ cpc = "reached"
  /\ snapIndex < Steps[snapMission] - 1
  /\ index' = snapIndex + 2
  /\ cpc' = "idle"
  /\ UNCHANGED <<state, mission, kover, cargoState, snapId, moves, opens, cleared,
                 misreported>>
  /\ LoopFrame

(* A waypoint that is not the last one is reached.                         *)
Advance ==
  /\ cpc = "reached"
  /\ snapIndex < Steps[snapMission] - 1
  /\ index' = snapIndex + 1
  /\ cpc' = "idle"
  /\ UNCHANGED <<state, mission, kover, cargoState, snapId, moves, opens, cleared,
                 misreported>>
  /\ LoopFrame

(* The mission to be reported complete is the one that is loaded now.       *)
TakeMissionId ==
  /\ snapId' = mission
  /\ misreported' = \/ misreported
                    \/ mission # NoMission /\ visited # 0..(Steps[mission] - 1)

(* The last waypoint is reached: the state is not looked at again.          *)
CompleteLast ==
  /\ cpc = "reached"
  /\ snapIndex >= Steps[snapMission] - 1
  /\ state' = "COMPLETED"
  /\ index' = Steps[snapMission]
  /\ TakeMissionId
  /\ cleared' = FALSE
  /\ cpc' = "landThenHover"
  /\ UNCHANGED <<mission, kover, cargoState, moves, opens>>
  /\ LoopFrame

(* The index was already past the last step.                               *)
CompletePastEnd ==
  /\ cpc = "pastEnd"
  /\ IF state = "EXECUTING"
     THEN /\ state' = "COMPLETED" /\ cleared' = FALSE
          /\ TakeMissionId
          /\ cpc' = "land"
     ELSE /\ cpc' = "idle"
          /\ UNCHANGED <<state, snapId, cleared, misreported>>
  /\ UNCHANGED <<mission, index, kover, cargoState, moves, opens>>
  /\ LoopFrame

(* droneport_land, then orvd_complete; without a mission id neither.        *)
NotifyLand ==
  /\ cpc \in {"land", "landThenHover"}
  /\ cpc' = IF cpc = "land" THEN "complete" ELSE "completeThenHover"
  /\ UNCHANGED <<state, mission, index, kover, cargoState, snapId, moves, opens,
                 cleared, misreported>>
  /\ LoopFrame

NotifyComplete ==
  /\ cpc \in {"complete", "completeThenHover"}
  /\ cpc' = IF cpc = "complete" THEN "idle" ELSE "hoverTarget"
  /\ UNCHANGED <<state, mission, index, kover, cargoState, snapId, moves, opens,
                 cleared, misreported>>
  /\ LoopFrame

(* Mutant of KoverLanded: a state the autopilot does not know.             *)
KoverLandedUnknown ==
  /\ cpc = "koverEnd"
  /\ cpc' = "idle"
  /\ kover' = FALSE
  /\ state' = "LANDED"
  /\ UNCHANGED <<mission, index, cargoState, snapId, moves, opens, cleared, misreported>>
  /\ LoopFrame

(* doKover: descend and close the bay; on the ground the mission is paused, *)
(* whatever the state is by then.                                          *)
KoverLanded ==
  /\ cpc = "koverEnd"
  /\ cpc' = "idle"
  /\ kover' = FALSE
  /\ state' = "PAUSED"
  /\ UNCHANGED <<mission, index, cargoState, snapId, moves, opens, cleared, misreported>>
  /\ LoopFrame

KoverClosed ==
  /\ cpc = "koverClosed"
  /\ cargoState' = "CLOSED"
  /\ cpc' \in {"koverEnd", "idle"}
  /\ UNCHANGED <<state, mission, index, kover, snapId, moves, opens, cleared, misreported>>
  /\ LoopFrame

DoKover == \/ LoopTarget("koverTarget", TRUE, "koverCargo")
           \/ LoopCargo("koverCargo", FALSE, "koverClosed")
           \/ KoverClosed
           \/ KoverLanded

(* Time passes beyond the preflight timeout.                               *)
Clock ==
  /\ timer = "running"
  /\ timer' = "expired"
  /\ UNCHANGED <<state, mission, index, kover, navKnown, cargoState, lastError,
                 hpc, pfVars, loopVars, counts, stopVars, flightVars>>

-----------------------------------------------------------------------------
Init ==
  /\ state = "IDLE" /\ mission = NoMission /\ index = 0
  /\ kover = FALSE /\ navKnown = FALSE /\ cargoState = "CLOSED" /\ lastError = ""
  /\ timer = "unset"
  /\ hpc = "idle"
  /\ pfAt = [t \in Threads |-> "out"]
  /\ pfId = [t \in Threads |-> NoMission]
  /\ asked = [t \in Threads |-> {}]
  /\ cpc = "idle" /\ snapMission = NoMission /\ snapIndex = 0 /\ snapId = NoMission
  /\ cmds = 0 /\ loads = 0
  /\ stopped = FALSE /\ moves = 0 /\ opens = 0
  /\ kovered = FALSE /\ cleared = FALSE /\ visited = {} /\ misreported = FALSE
  /\ overtook = "nothing"

HandlerRuns ==
  \/ SafeStopTarget \/ SafeStopCargo \/ StartReturns
  \/ StepPreFlight("handler")

Operators ==
  \/ \E m \in Missions : HandleMissionLoad(m)
  \/ RefuseStart
  \/ \E c \in Commands : IgnoreCmd(c) \/ HandleCmd(c)

LoopRuns ==
  \/ PollNavigation \/ StepControl
  \/ StepPreFlight("loop") \/ PreflightReturns
  \/ Move \/ Hover \/ Advance \/ CompleteLast \/ CompletePastEnd
  \/ NotifyLand \/ NotifyComplete \/ DoKover

Next == Operators \/ HandlerRuns \/ LoopRuns \/ Clock

Spec == Init /\ [][Next]_vars

(* Both goroutines keep running (every request times out), and time passes. *)
FairSpec == Spec /\ WF_vars(HandlerRuns) /\ WF_vars(LoopRuns) /\ WF_vars(Clock)

-----------------------------------------------------------------------------
(* Properties *)

PreflightPoints == Checks \cup {"out", "begin", "timeout", "authWait",
                               "takeoffWait", "portWait", "promote"}
LoopPoints == {"idle", "step", "preflight", "reached", "moveTarget", "moveCargo",
               "hoverTarget", "hoverCargo", "pastEnd", "land", "landThenHover",
               "complete", "completeThenHover", "koverTarget", "koverCargo",
               "koverClosed", "koverEnd"}

SharedTypeOK ==
  /\ state \in States
  /\ mission \in Missions \cup {NoMission}
  /\ index \in Int
  /\ kover \in BOOLEAN /\ navKnown \in BOOLEAN
  /\ cargoState \in {"OPEN", "CLOSE", "CLOSED"}
  /\ lastError \in PreflightErrors \cup {"", "preflight_timeout"}
  /\ timer \in {"unset", "running", "expired"}

ThreadsTypeOK ==
  /\ hpc \in {"idle", "stopTarget", "stopCargo", "preflight"}
  /\ pfAt \in [Threads -> PreflightPoints]
  /\ pfId \in [Threads -> Missions \cup {NoMission}]
  /\ cpc \in LoopPoints
  /\ snapMission \in Missions \cup {NoMission}
  /\ snapId \in Missions \cup {NoMission}
  /\ snapIndex \in Nat
  /\ cpc = "reached" => snapMission \in Missions

HistoryTypeOK ==
  /\ cmds \in Nat /\ loads \in Nat
  /\ stopped \in BOOLEAN /\ moves \in Nat /\ opens \in Nat
  /\ asked \in [Threads -> SUBSET (Checks \X (Missions \cup {NoMission}))]
  /\ kovered \in BOOLEAN
  /\ cleared \in BOOLEAN /\ visited \subseteq Nat /\ misreported \in BOOLEAN
  /\ overtook \in Unfinished \cup {"nothing"}

(* The variables are well typed; a waypoint is reached only in a mission.   *)
TypeOK == SharedTypeOK /\ ThreadsTypeOK /\ HistoryTypeOK

(* After ABORT, RESET or EMERGENCY_STOP, and until START, RESUME or KOVER,  *)
(* the drone is never in flight again, and the step of the control loop     *)
(* that was under way sends at most one more moving target and one more     *)
(* OPEN, however the two goroutines interleave.                            *)
StopLeaksAtMostOne ==
  stopped => /\ state \notin {"PRE_FLIGHT", "EXECUTING"} /\ ~ kover
             /\ moves <= 1 /\ opens <= 1

(* The inductive invariant behind it: a moving target, or an OPEN, that the *)
(* loop is still to send was decided before the stop.                      *)
StopInv ==
  stopped => /\ cpc \in {"moveTarget", "koverTarget"} => moves = 0
             /\ cpc \in {"moveTarget", "moveCargo"} => opens = 0

IInv == TypeOK /\ StopLeaksAtMostOne /\ StopInv

(* A mission is executed only after its own preflight: the limiter, ORVD    *)
(* and the droneport cleared the mission that is loaded (PRE_FLIGHT, then   *)
(* EXECUTING).                                                             *)
ClearedToExecute == (state = "EXECUTING" /\ ~ kover) => cleared

(* It does hold, over any number of missions, as long as no KOVER came and    *)
(* the mission was not loaded while the control loop was in stepPreFlight    *)
(* for another, whatever the two goroutines' preflights get answered and in  *)
(* what order.                                                             *)
ClearedUnlessKover == (~ kovered /\ overtook # "preflight") => ClearedToExecute

(* No report to ORVD was wrong so far.                                     *)
ReportsFlown == ~ misreported

(* orvd_complete reports success for a mission only when it was flown (it    *)
(* is the loaded one and each of its waypoints was reached), over any number *)
(* of missions, through pauses, stops, resumes and KOVER, unless the mission *)
(* was loaded while the control loop had reached a waypoint, or the end, of  *)
(* another and was to write that back.                                     *)
FlownUnlessOvertaken == overtook \notin {"reached", "pastEnd"} => ReportsFlown

(* PRE_FLIGHT ends, in EXECUTING or otherwise: pending answers are polled   *)
(* no longer than the timeout.                                             *)
PreflightEnds == (state = "PRE_FLIGHT") ~> (state # "PRE_FLIGHT")

=============================================================================
