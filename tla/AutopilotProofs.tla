-------------------------- MODULE AutopilotProofs --------------------------
(***************************************************************************)
(* Proofs about the autopilot for every set of missions, every mission      *)
(* length and any number of commands: its type invariant, the bound on what  *)
(* the control loop may still send after a stop command, and that a mission  *)
(* is executed only when cleared and reported only when flown.              *)
(***************************************************************************)
EXTENDS Autopilot, TLAPS

(* The initial state satisfies the invariant.                              *)
LEMMA InitIInv == Init => IInv
  <1> SUFFICES ASSUME Init PROVE IInv
    OBVIOUS
  <1>1. pfAt \in [Threads -> PreflightPoints]
    BY DEF Init, PreflightPoints
  <1>2. asked \in [Threads -> SUBSET (Checks \X (Missions \cup {NoMission}))]
    BY DEF Init
  <1>3. pfId \in [Threads -> Missions \cup {NoMission}]
    BY DEF Init
  <1>5. SharedTypeOK
    <2>1. kover \in BOOLEAN /\ navKnown \in BOOLEAN
      BY DEF Init
    <2>2. state = "IDLE" /\ cargoState = "CLOSED" /\ timer = "unset" /\ index = 0
      BY DEF Init
    <2>3. /\ state \in States /\ index \in Int
          /\ cargoState \in {"OPEN", "CLOSE", "CLOSED"}
          /\ timer \in {"unset", "running", "expired"}
      BY <2>2 DEF States
    <2>4. lastError = "" /\ mission = NoMission
      BY DEF Init
    <2> QED BY <2>1, <2>3, <2>4 DEF SharedTypeOK
  <1>6. ThreadsTypeOK
    BY <1>1, <1>3 DEF Init, ThreadsTypeOK, LoopPoints
  <1>7. HistoryTypeOK
    BY <1>2 DEF Init, HistoryTypeOK
  <1>8. TypeOK
    BY <1>5, <1>6, <1>7 DEF TypeOK
  <1>9. StopLeaksAtMostOne /\ StopInv
    BY DEF Init, StopLeaksAtMostOne, StopInv
  <1> QED BY <1>8, <1>9 DEF IInv

-----------------------------------------------------------------------------
(* Preflight *)

(* Writing a point of the preflight, or an error of it, is well typed.      *)
LEMMA PreflightNames ==
  /\ \A check \in Checks :
       /\ Waiting(check) \in PreflightPoints /\ After(check) \in PreflightPoints
       /\ ErrorsOf(check) \subseteq PreflightErrors
  /\ {"out", "begin", "timeout", "auth"} \subseteq PreflightPoints
  /\ "no_mission" \in PreflightErrors
  BY DEF Checks, Waiting, After, ErrorsOf, PreflightPoints, PreflightErrors

(* Every step of a preflight leaves the flight and the stop history alone,  *)
(* and it starts the flight only from PRE_FLIGHT.                          *)
LEMMA PreflightEffect ==
  ASSUME TypeOK, NEW t \in Threads, StepPreFlight(t)
  PROVE  /\ PreflightFrame(t)
         /\ pfAt' \in [Threads -> PreflightPoints]
         /\ pfId' \in [Threads -> Missions \cup {NoMission}]
         /\ asked' \in [Threads -> SUBSET (Checks \X (Missions \cup {NoMission}))]
         /\ \/ state' \in {state, "ABORTED"}
            \/ state = "PRE_FLIGHT" /\ state' = "EXECUTING"
         /\ lastError' \in PreflightErrors \cup {"", "preflight_timeout"}
         /\ cleared' \in BOOLEAN
  <1>0. /\ pfAt \in [Threads -> PreflightPoints]
        /\ pfId \in [Threads -> Missions \cup {NoMission}]
        /\ asked \in [Threads -> SUBSET (Checks \X (Missions \cup {NoMission}))]
        /\ mission \in Missions \cup {NoMission}
        /\ lastError \in PreflightErrors \cup {"", "preflight_timeout"}
        /\ cleared \in BOOLEAN
    BY DEF TypeOK, SharedTypeOK, ThreadsTypeOK, HistoryTypeOK
  <1>a. ASSUME LeavePreflight(t)
        PROVE  /\ pfAt' \in [Threads -> PreflightPoints]
               /\ pfId' \in [Threads -> Missions \cup {NoMission}]
               /\ asked' \in [Threads -> SUBSET (Checks \X (Missions \cup {NoMission}))]
    BY <1>0, <1>a, PreflightNames DEF LeavePreflight
  <1>1. CASE BeginPreflight(t)
    BY <1>0, <1>1, PreflightNames DEF BeginPreflight
  <1>2. CASE PreflightTimesOut(t)
    BY <1>0, <1>2, <1>a DEF PreflightTimesOut
  <1>3. ASSUME NEW err \in PreflightErrors, PreflightFails(t, err)
        PROVE  /\ PreflightFrame(t) /\ UNCHANGED cleared
               /\ pfAt' \in [Threads -> PreflightPoints]
               /\ pfId' \in [Threads -> Missions \cup {NoMission}]
               /\ asked' \in [Threads -> SUBSET (Checks \X (Missions \cup {NoMission}))]
               /\ state' \in {state, "ABORTED"}
               /\ lastError' \in {lastError, err}
    BY <1>3, <1>a DEF PreflightFails
  <1>4. ASSUME NEW check \in Checks, Ask(t, check)
        PROVE  /\ PreflightFrame(t) /\ UNCHANGED cleared
               /\ pfAt' \in [Threads -> PreflightPoints]
               /\ pfId' \in [Threads -> Missions \cup {NoMission}]
               /\ asked' \in [Threads -> SUBSET (Checks \X (Missions \cup {NoMission}))]
               /\ state' \in {state, "ABORTED"}
               /\ lastError' \in {lastError} \cup PreflightErrors
    <2>1. CASE PreflightFails(t, "no_mission")
      BY <1>0, <1>3, <2>1, PreflightNames
    <2>2. CASE ~ PreflightFails(t, "no_mission")
      BY <1>0, <1>4, <2>2, PreflightNames DEF Ask
    <2> QED BY <2>1, <2>2
  <1>5. ASSUME NEW check \in Checks, Answered(t, check)
        PROVE  /\ PreflightFrame(t) /\ UNCHANGED <<state, lastError, cleared, pfId>>
               /\ pfAt' \in [Threads -> PreflightPoints]
               /\ asked' \in [Threads -> SUBSET (Checks \X (Missions \cup {NoMission}))]
    <2>1. <<check, pfId[t]>> \in Checks \X (Missions \cup {NoMission})
      BY <1>0
    <2>2. asked[t] \subseteq Checks \X (Missions \cup {NoMission})
      BY <1>0
    <2>3. asked' = [asked EXCEPT ![t] = asked[t] \cup {<<check, pfId[t]>>}]
      BY <1>5 DEF Answered
    <2>4. asked' \in [Threads -> SUBSET (Checks \X (Missions \cup {NoMission}))]
      BY <1>0, <2>1, <2>2, <2>3
    <2> QED BY <1>0, <1>5, <2>4, PreflightNames DEF Answered
  <1>6. ASSUME NEW check \in Checks, AnsweredPending(t, check)
        PROVE  /\ PreflightFrame(t)
               /\ UNCHANGED <<state, lastError, cleared>>
               /\ pfAt' \in [Threads -> PreflightPoints]
               /\ pfId' \in [Threads -> Missions \cup {NoMission}]
               /\ asked' \in [Threads -> SUBSET (Checks \X (Missions \cup {NoMission}))]
    BY <1>6, <1>a DEF AnsweredPending
  <1>7. ASSUME NEW check \in Checks, Denied(t, check)
        PROVE  \E err \in PreflightErrors : PreflightFails(t, err)
    BY <1>7, PreflightNames DEF Denied
  <1>8. CASE Promote(t)
    BY <1>0, <1>8, <1>a DEF Promote
  <1> QED BY <1>0, <1>1, <1>2, <1>3, <1>4, <1>5, <1>6, <1>7, <1>8 DEF StepPreFlight

(* A preflight step preserves the invariant.                               *)
LEMMA PreflightKeeps ==
  ASSUME IInv, NEW t \in Threads, StepPreFlight(t)
  PROVE  IInv'
  <1>0. TypeOK
    BY DEF IInv
  <1>1. /\ PreflightFrame(t)
        /\ pfAt' \in [Threads -> PreflightPoints]
        /\ pfId' \in [Threads -> Missions \cup {NoMission}]
        /\ asked' \in [Threads -> SUBSET (Checks \X (Missions \cup {NoMission}))]
        /\ \/ state' \in {state, "ABORTED"}
           \/ state = "PRE_FLIGHT" /\ state' = "EXECUTING"
        /\ lastError' \in PreflightErrors \cup {"", "preflight_timeout"}
        /\ cleared' \in BOOLEAN
    BY <1>0, PreflightEffect
  <1>2. SharedTypeOK'
    BY <1>0, <1>1 DEF TypeOK, SharedTypeOK, States, PreflightFrame
  <1>3. ThreadsTypeOK'
    BY <1>0, <1>1 DEF TypeOK, ThreadsTypeOK, PreflightFrame, loopVars
  <1>5. HistoryTypeOK'
    BY <1>0, <1>1 DEF TypeOK, HistoryTypeOK, PreflightFrame, counts, stopVars
  <1>4. StopLeaksAtMostOne' /\ StopInv'
    BY <1>1 DEF IInv, StopLeaksAtMostOne, StopInv, PreflightFrame, loopVars, stopVars
  <1> QED BY <1>2, <1>3, <1>4, <1>5 DEF IInv, TypeOK

-----------------------------------------------------------------------------
(* Control loop *)

(* A snapshot taken after a stop leads to no moving target and no OPEN, and *)
(* a waypoint is reached only in a mission that is being executed.          *)
LEMMA DecisionAfterStop ==
  /\ Decision \subseteq LoopPoints
  /\ (state \notin {"PRE_FLIGHT", "EXECUTING"} /\ ~ kover)
       => Decision \subseteq {"idle", "pastEnd", "hoverTarget"}
  /\ "reached" \in Decision => mission # NoMission
  <1>1. CASE state = "PRE_FLIGHT"
    BY <1>1 DEF Decision, LoopPoints
  <1>2. CASE state # "PRE_FLIGHT" /\ ~ navKnown
    BY <1>2 DEF Decision, LoopPoints
  <1>3. CASE state # "PRE_FLIGHT" /\ navKnown /\ kover
    BY <1>3 DEF Decision, LoopPoints
  <1>4. CASE /\ state # "PRE_FLIGHT" /\ navKnown /\ ~ kover
             /\ mission = NoMission \/ state \notin {"EXECUTING", "PAUSED"}
    BY <1>4 DEF Decision, LoopPoints
  <1>5. CASE /\ state # "PRE_FLIGHT" /\ navKnown /\ ~ kover
             /\ mission # NoMission /\ state \in {"EXECUTING", "PAUSED"}
    <2>1. CASE Steps[mission] = 0
      BY <1>5, <2>1 DEF Decision, LoopPoints
    <2>2. CASE Steps[mission] # 0 /\ AtStep >= Steps[mission]
      BY <1>5, <2>2 DEF Decision, LoopPoints
    <2>3. CASE Steps[mission] # 0 /\ ~ (AtStep >= Steps[mission])
      BY <1>5, <2>3 DEF Decision, LoopPoints
    <2> QED BY <2>1, <2>2, <2>3
  <1> QED BY <1>1, <1>2, <1>3, <1>4, <1>5

(* Taking the snapshot preserves the invariant.                            *)
LEMMA StepControlKeeps ==
  ASSUME IInv, StepControl
  PROVE  IInv'
  <1>0. TypeOK
    BY DEF IInv
  <1>1. AtStep \in Nat
    <2>1. index \in Int
      BY <1>0 DEF TypeOK, SharedTypeOK
    <2> QED BY <2>1 DEF AtStep
  <1>2. SharedTypeOK'
    BY <1>0 DEF StepControl, shared, TypeOK, SharedTypeOK
  <1>3. pfAt' \in [Threads -> PreflightPoints]
    BY <1>0, PreflightNames DEF StepControl, TypeOK, ThreadsTypeOK
  <1>4. ThreadsTypeOK'
    BY <1>0, <1>1, <1>3, DecisionAfterStop
    DEF StepControl, TypeOK, ThreadsTypeOK, SharedTypeOK
  <1>5. HistoryTypeOK'
    BY <1>0, <1>1 DEF StepControl, TypeOK, HistoryTypeOK, counts, stopVars
  <1>6. StopLeaksAtMostOne'
    BY DEF StepControl, shared, stopVars, IInv, StopLeaksAtMostOne
  <1>7. StopInv'
    BY DecisionAfterStop
    DEF StepControl, shared, stopVars, IInv, StopLeaksAtMostOne, StopInv
  <1> QED BY <1>2, <1>4, <1>5, <1>6, <1>7 DEF IInv, TypeOK

(* Steps of the loop after the snapshot, and what they may write.           *)
LoopWrites ==
  /\ LoopFrame
  /\ state' \in {state, "PAUSED", "COMPLETED"}
  /\ mission' = mission
  /\ index' \in Int
  /\ kover' \in {kover, FALSE}
  /\ cargoState' \in {"OPEN", "CLOSE", "CLOSED"}
  /\ cpc' \in LoopPoints \ {"reached", "moveTarget", "koverTarget"}
  /\ cpc' = "moveCargo" => cpc = "moveTarget"
  /\ snapId' \in Missions \cup {NoMission}
  /\ moves' = moves \/ (moves' = moves + 1 /\ cpc \in {"moveTarget", "koverTarget"})
  /\ opens' = opens \/ (opens' = opens + 1 /\ cpc = "moveCargo")
  /\ cleared' \in BOOLEAN /\ misreported' \in BOOLEAN

LoopActs ==
  \/ PreflightReturns \/ Move \/ Hover \/ Advance \/ CompleteLast \/ CompletePastEnd
  \/ NotifyLand \/ NotifyComplete \/ DoKover

(* Sending leaves the rest alone.                                          *)
LEMMA SendEffects ==
  ASSUME TypeOK
  PROVE  /\ \A at, next \in LoopPoints, moving \in BOOLEAN :
              /\ LoopTarget(at, moving, next)
              /\ next \notin {"reached", "moveTarget", "koverTarget"}
              /\ moving => at \in {"moveTarget", "koverTarget"}
              /\ next = "moveCargo" => at = "moveTarget"
              => LoopWrites
         /\ \A at, next \in LoopPoints, open \in BOOLEAN :
              /\ LoopCargo(at, open, next)
              /\ next \notin {"reached", "moveTarget", "koverTarget", "moveCargo"}
              /\ open => at = "moveCargo"
              => LoopWrites
  <1>0. /\ index \in Int /\ snapId \in Missions \cup {NoMission}
        /\ cargoState \in {"OPEN", "CLOSE", "CLOSED"}
        /\ cleared \in BOOLEAN /\ misreported \in BOOLEAN
    BY DEF TypeOK, SharedTypeOK, ThreadsTypeOK, HistoryTypeOK
  <1>1. ASSUME NEW at \in LoopPoints, NEW next \in LoopPoints, NEW moving \in BOOLEAN,
               LoopTarget(at, moving, next),
               next \notin {"reached", "moveTarget", "koverTarget"},
               moving => at \in {"moveTarget", "koverTarget"},
               next = "moveCargo" => at = "moveTarget"
        PROVE  LoopWrites
    BY <1>0, <1>1 DEF LoopTarget, SendTarget, LoopWrites
  <1>2. ASSUME NEW at \in LoopPoints, NEW next \in LoopPoints, NEW open \in BOOLEAN,
               LoopCargo(at, open, next),
               next \notin {"reached", "moveTarget", "koverTarget", "moveCargo"},
               open => at = "moveCargo"
        PROVE  LoopWrites
    BY <1>0, <1>2 DEF LoopCargo, SendCargo, LoopWrites
  <1> QED BY <1>1, <1>2

(* Every step of the loop after the snapshot is such a step.                *)
LEMMA LoopActsWrite ==
  ASSUME TypeOK, LoopActs
  PROVE  LoopWrites
  <1>0. /\ index \in Int /\ snapId \in Missions \cup {NoMission}
        /\ mission \in Missions \cup {NoMission}
        /\ cargoState \in {"OPEN", "CLOSE", "CLOSED"}
        /\ cleared \in BOOLEAN /\ misreported \in BOOLEAN
        /\ snapIndex \in Nat
        /\ cpc = "reached" => snapMission \in Missions
    BY DEF TypeOK, SharedTypeOK, ThreadsTypeOK, HistoryTypeOK
  <1>1. CASE Move
    <2>1. (<<snapMission, snapIndex>> \in Drops) \in BOOLEAN
      OBVIOUS
    <2>2. CASE cpc = "moveTarget"
      BY <1>1, <2>2, SendEffects DEF Move, LoopTarget, LoopCargo, LoopPoints
    <2>3. CASE cpc = "moveCargo"
      BY <1>1, <2>1, <2>3, SendEffects DEF Move, LoopTarget, LoopCargo, LoopPoints
    <2> QED BY <1>1, <2>2, <2>3 DEF Move, LoopTarget, LoopCargo
  <1>2. CASE Hover
    BY <1>2, SendEffects DEF Hover, LoopPoints
  <1>3. CASE LoopTarget("koverTarget", TRUE, "koverCargo")
    BY <1>3, SendEffects DEF LoopPoints
  <1>4. CASE LoopCargo("koverCargo", FALSE, "koverClosed")
    BY <1>4, SendEffects DEF LoopPoints
  <1>5. CASE KoverClosed \/ KoverLanded
    BY <1>0, <1>5 DEF KoverClosed, KoverLanded, LoopWrites, LoopPoints
  <1>6. CASE PreflightReturns \/ NotifyLand \/ NotifyComplete
    BY <1>0, <1>6
    DEF PreflightReturns, NotifyLand, NotifyComplete, LoopWrites, LoopPoints
  <1>7. CASE Advance
    BY <1>0, <1>7 DEF Advance, LoopWrites, LoopPoints
  <1>8. ASSUME TakeMissionId
        PROVE  snapId' \in Missions \cup {NoMission} /\ misreported' \in BOOLEAN
    BY <1>0, <1>8 DEF TakeMissionId
  <1>9. CASE CompleteLast
    <2>1. Steps[snapMission] \in Int
      BY <1>0, <1>9, APConstants DEF CompleteLast
    <2> QED BY <1>0, <1>8, <1>9, <2>1 DEF CompleteLast, LoopWrites, LoopPoints
  <1>10. CASE CompletePastEnd
    BY <1>0, <1>8, <1>10 DEF CompletePastEnd, LoopWrites, LoopPoints
  <1> QED BY <1>1, <1>2, <1>3, <1>4, <1>5, <1>6, <1>7, <1>9, <1>10 DEF LoopActs, DoKover

(* They preserve the invariant.                                            *)
LEMMA LoopActsKeep ==
  ASSUME IInv, LoopActs
  PROVE  IInv'
  <1>0. TypeOK /\ LoopWrites
    BY LoopActsWrite DEF IInv
  <1>1. kover' \in BOOLEAN
    BY <1>0 DEF LoopWrites, TypeOK, SharedTypeOK
  <1>2. SharedTypeOK'
    BY <1>0, <1>1 DEF LoopWrites, LoopFrame, TypeOK, SharedTypeOK, States
  <1>3. ThreadsTypeOK'
    BY <1>0 DEF LoopWrites, LoopFrame, TypeOK, ThreadsTypeOK, pfVars
  <1>4. HistoryTypeOK'
    BY <1>0 DEF LoopWrites, LoopFrame, TypeOK, HistoryTypeOK, pfVars, counts
  <1>5. StopLeaksAtMostOne'
    <2> SUFFICES ASSUME stopped'
                 PROVE  /\ state' \notin {"PRE_FLIGHT", "EXECUTING"} /\ ~ kover'
                        /\ moves' <= 1 /\ opens' <= 1
      BY DEF StopLeaksAtMostOne
    <2>1. stopped
      BY <1>0 DEF LoopWrites, LoopFrame
    <2>2. ~ kover'
      BY <1>0, <2>1 DEF LoopWrites, IInv, StopLeaksAtMostOne
    <2>3. state' \notin {"PRE_FLIGHT", "EXECUTING"}
      BY <1>0, <2>1 DEF LoopWrites, IInv, StopLeaksAtMostOne
    <2>4. moves \in Nat /\ opens \in Nat
      BY <1>0 DEF TypeOK, HistoryTypeOK
    <2>5. moves' <= 1
      BY <1>0, <2>1, <2>4 DEF LoopWrites, IInv, StopLeaksAtMostOne, StopInv
    <2>6. opens' <= 1
      BY <1>0, <2>1, <2>4 DEF LoopWrites, IInv, StopLeaksAtMostOne, StopInv
    <2> QED BY <2>2, <2>3, <2>5, <2>6
  <1>6. StopInv'
    BY <1>0 DEF LoopWrites, LoopFrame, IInv, TypeOK, HistoryTypeOK, StopInv
  <1> QED BY <1>2, <1>3, <1>4, <1>5, <1>6 DEF IInv, TypeOK

(* Polling navigation preserves it too.                                    *)
LEMMA PollNavigationKeeps ==
  ASSUME IInv, PollNavigation
  PROVE  IInv'
  <1>0. TypeOK
    BY DEF IInv
  <1>1. navKnown' \in BOOLEAN
    BY <1>0 DEF PollNavigation, TypeOK, SharedTypeOK
  <1>2. SharedTypeOK'
    BY <1>0, <1>1 DEF PollNavigation, TypeOK, SharedTypeOK
  <1>3. ThreadsTypeOK'
    BY <1>0 DEF PollNavigation, TypeOK, ThreadsTypeOK, pfVars, LoopPoints
  <1>4. HistoryTypeOK'
    BY <1>0 DEF PollNavigation, TypeOK, HistoryTypeOK, pfVars, counts, stopVars, flightVars
  <1>5. StopLeaksAtMostOne' /\ StopInv'
    BY DEF PollNavigation, IInv, StopLeaksAtMostOne, StopInv, stopVars
  <1> QED BY <1>2, <1>3, <1>4, <1>5 DEF IInv, TypeOK

-----------------------------------------------------------------------------
(* Handlers *)

(* Loading a mission leaves the drone stopped.                             *)
LEMMA MissionLoadKeeps ==
  ASSUME IInv, NEW m \in Missions, HandleMissionLoad(m)
  PROVE  IInv'
  <1>0. TypeOK
    BY DEF IInv
  <1>1. SharedTypeOK'
    <2>1. index' \in {0, -1} /\ mission' = m /\ state' = "MISSION_LOADED"
      BY DEF HandleMissionLoad
    <2>2. index' \in Int /\ state' \in States
      BY <2>1 DEF States
    <2>3. UNCHANGED <<kover, navKnown, cargoState, lastError, timer>>
      BY DEF HandleMissionLoad
    <2> QED BY <1>0, <2>1, <2>2, <2>3 DEF TypeOK, SharedTypeOK
  <1>2. ThreadsTypeOK'
    BY <1>0 DEF HandleMissionLoad, TypeOK, ThreadsTypeOK, pfVars, loopVars
  <1>3. HistoryTypeOK'
    <2>1. /\ cleared' \in BOOLEAN /\ visited' \subseteq Nat /\ misreported' \in BOOLEAN
          /\ overtook' \in Unfinished \cup {"nothing"}
      BY DEF HandleMissionLoad
    <2>2. loads \in Nat /\ loads' = loads + 1
      BY <1>0 DEF HandleMissionLoad, TypeOK, HistoryTypeOK
    <2>3. UNCHANGED <<cmds, stopped, moves, opens, asked, kovered>>
      BY DEF HandleMissionLoad, pfVars, stopVars
    <2>4. loads' \in Nat
      BY <2>2
    <2> QED BY <1>0, <2>1, <2>3, <2>4 DEF TypeOK, HistoryTypeOK
  <1>4. StopLeaksAtMostOne' /\ StopInv'
    BY DEF HandleMissionLoad, IInv, StopLeaksAtMostOne, StopInv, stopVars, loopVars
  <1> QED BY <1>1, <1>2, <1>3, <1>4 DEF IInv, TypeOK

(* A command that is refused or ignored changes no state of the flight.     *)
LEMMA RefusedKeeps ==
  ASSUME IInv, NEW c \in Commands, RefuseStart \/ IgnoreCmd(c)
  PROVE  IInv'
  <1>0. TypeOK
    BY DEF IInv
  <1>2. SharedTypeOK'
    BY <1>0 DEF RefuseStart, IgnoreCmd, shared, TypeOK, SharedTypeOK
  <1>3. ThreadsTypeOK'
    BY <1>0 DEF RefuseStart, IgnoreCmd, TypeOK, ThreadsTypeOK, pfVars, loopVars
  <1>4. HistoryTypeOK'
    <2>1. UNCHANGED <<loads, stopped, moves, opens, asked, kovered, cleared, visited,
                      misreported, overtook>>
      BY DEF RefuseStart, IgnoreCmd, pfVars, stopVars, flightVars
    <2>2. cmds \in Nat /\ cmds' = cmds + 1
      BY <1>0 DEF RefuseStart, IgnoreCmd, TypeOK, HistoryTypeOK
    <2>3. cmds' \in Nat
      BY <2>2
    <2> QED BY <1>0, <2>1, <2>3 DEF TypeOK, HistoryTypeOK
  <1>5. StopLeaksAtMostOne' /\ StopInv'
    <2>1. UNCHANGED <<state, kover, stopped, moves, opens, cpc>>
      BY DEF RefuseStart, IgnoreCmd, shared, stopVars, loopVars
    <2> QED BY <2>1 DEF IInv, StopLeaksAtMostOne, StopInv
  <1> QED BY <1>2, <1>3, <1>4, <1>5 DEF IInv, TypeOK

(* A stop command leaves flight and descent, and a command that does not    *)
(* end the stop is not one of the flight.                                  *)
LEMMA HandleCmdKeeps ==
  ASSUME IInv, NEW c \in Commands, HandleCmd(c)
  PROVE  IInv'
  <1>0. TypeOK /\ c \in AllCommands
    BY APConstants DEF IInv
  <1>1. NextState(c) \in States
    BY <1>0 DEF NextState, AllCommands, States
  <1>2. kover' \in BOOLEAN
    BY <1>0 DEF HandleCmd, ClearsKover, TypeOK, SharedTypeOK
  <1>3. SharedTypeOK'
    <2>1. index' \in {0, index} /\ mission' \in {mission, NoMission} /\ state' = NextState(c)
      BY DEF HandleCmd
    <2>2. index' \in Int
      <3>1. index \in Int
        BY <1>0 DEF TypeOK, SharedTypeOK
      <3> QED BY <2>1, <3>1
    <2>3. lastError' \in {"", lastError} /\ timer' \in {"running", timer}
      BY DEF HandleCmd
    <2>4. UNCHANGED <<navKnown, cargoState>>
      BY DEF HandleCmd
    <2> QED BY <1>0, <1>1, <1>2, <2>1, <2>2, <2>3, <2>4 DEF TypeOK, SharedTypeOK
  <1>4. pfAt' \in [Threads -> PreflightPoints]
    BY <1>0, PreflightNames DEF HandleCmd, TypeOK, ThreadsTypeOK
  <1>5. hpc' \in {"idle", "stopTarget", "stopCargo", "preflight"}
    BY DEF HandleCmd
  <1>6. ThreadsTypeOK'
    BY <1>0, <1>4, <1>5 DEF HandleCmd, TypeOK, ThreadsTypeOK, loopVars
  <1>7. stopped' \in BOOLEAN /\ cleared' \in BOOLEAN /\ kovered' \in BOOLEAN
    BY <1>0 DEF HandleCmd, TypeOK, HistoryTypeOK
  <1>8. HistoryTypeOK'
    <2>1. cmds' = cmds + 1 /\ moves' \in {0, moves} /\ opens' \in {0, opens}
      BY DEF HandleCmd
    <2>2. cmds \in Nat /\ moves \in Nat /\ opens \in Nat
      BY <1>0 DEF TypeOK, HistoryTypeOK
    <2>3. cmds' \in Nat /\ moves' \in Nat /\ opens' \in Nat
      BY <2>1, <2>2
    <2>4. UNCHANGED <<loads, asked, visited, misreported, overtook>>
      BY DEF HandleCmd
    <2> QED BY <1>0, <1>7, <2>3, <2>4 DEF TypeOK, HistoryTypeOK
  <1>9. CASE c \in StopCommands
    <2>1. NextState(c) \notin {"PRE_FLIGHT", "EXECUTING"}
      BY <1>9 DEF NextState, StopCommands
    <2>2. ~ kover'
      BY <1>9 DEF HandleCmd, ClearsKover, StopCommands
    <2>3. moves' = 0 /\ opens' = 0 /\ state' = NextState(c)
      BY <1>9 DEF HandleCmd
    <2> QED BY <1>3, <1>6, <1>8, <2>1, <2>2, <2>3
            DEF IInv, TypeOK, StopLeaksAtMostOne, StopInv
  <1>10. CASE c \in {"START", "RESUME", "KOVER"}
    <2>1. ~ stopped'
      BY <1>10 DEF HandleCmd, StopCommands
    <2> QED BY <1>3, <1>6, <1>8, <2>1 DEF IInv, TypeOK, StopLeaksAtMostOne, StopInv
  <1>11. CASE c = "PAUSE"
    <2>1. state = "EXECUTING" /\ stopped' = stopped
      BY <1>11 DEF HandleCmd, AllowedFrom, StopCommands
    <2>2. ~ stopped'
      BY <2>1 DEF IInv, StopLeaksAtMostOne
    <2> QED BY <1>3, <1>6, <1>8, <2>2 DEF IInv, TypeOK, StopLeaksAtMostOne, StopInv
  <1> QED BY <1>0, <1>9, <1>10, <1>11 DEF AllCommands, StopCommands

(* The end of a handler: the safe stop, or the return of START.             *)
LEMMA HandlerEndKeeps ==
  ASSUME IInv, SafeStopTarget \/ SafeStopCargo \/ StartReturns
  PROVE  IInv'
  <1>0. TypeOK
    BY DEF IInv
  <1>2. opens' = opens
    BY DEF SafeStopTarget, SafeStopCargo, StartReturns, SendCargo, stopVars
  <1>3. SharedTypeOK'
    BY <1>0 DEF SafeStopTarget, SafeStopCargo, StartReturns, SendCargo, shared, TypeOK,
                SharedTypeOK
  <1>4. ThreadsTypeOK'
    BY <1>0 DEF SafeStopTarget, SafeStopCargo, StartReturns, TypeOK,
                ThreadsTypeOK, pfVars, loopVars
  <1>5. HistoryTypeOK'
    BY <1>0, <1>2 DEF SafeStopTarget, SafeStopCargo, StartReturns, TypeOK,
                HistoryTypeOK, pfVars, counts, stopVars, flightVars
  <1>6. StopLeaksAtMostOne' /\ StopInv'
    <2>1. UNCHANGED <<state, kover, stopped, moves, opens, cpc>>
      BY <1>2 DEF SafeStopTarget, SafeStopCargo, StartReturns, shared, stopVars, loopVars
    <2> QED BY <2>1 DEF IInv, StopLeaksAtMostOne, StopInv
  <1> QED BY <1>3, <1>4, <1>5, <1>6 DEF IInv, TypeOK

(* Time only moves the preflight timer.                                    *)
LEMMA ClockKeeps ==
  ASSUME IInv, Clock \/ UNCHANGED vars
  PROVE  IInv'
  <1>0. TypeOK
    BY DEF IInv
  <1>1. SharedTypeOK'
    BY <1>0 DEF Clock, vars, shared, TypeOK, SharedTypeOK
  <1>2. ThreadsTypeOK'
    BY <1>0 DEF Clock, vars, TypeOK, ThreadsTypeOK, pfVars, loopVars
  <1>3. HistoryTypeOK'
    BY <1>0 DEF Clock, vars, TypeOK, HistoryTypeOK, pfVars, counts, stopVars, flightVars
  <1>4. StopLeaksAtMostOne' /\ StopInv'
    BY DEF Clock, vars, shared, IInv, StopLeaksAtMostOne, StopInv, stopVars, loopVars
  <1> QED BY <1>1, <1>2, <1>3, <1>4 DEF IInv, TypeOK

-----------------------------------------------------------------------------
(* Every step preserves the inductive invariant.                           *)
LEMMA NextIInv == IInv /\ [Next]_vars => IInv'
  <1> SUFFICES ASSUME IInv, [Next]_vars PROVE IInv'
    OBVIOUS
  <1>1. CASE Operators
    BY <1>1, MissionLoadKeeps, RefusedKeeps, HandleCmdKeeps DEF Operators, RefuseStart
  <1>2. CASE HandlerRuns
    BY <1>2, HandlerEndKeeps, PreflightKeeps DEF HandlerRuns, Threads
  <1>3. CASE LoopRuns
    BY <1>3, PollNavigationKeeps, StepControlKeeps, PreflightKeeps, LoopActsKeep
    DEF LoopRuns, LoopActs, Threads
  <1>4. CASE Clock \/ UNCHANGED vars
    BY <1>4, ClockKeeps
  <1> QED BY <1>1, <1>2, <1>3, <1>4 DEF Next

(* The variables of the autopilot are well typed in every behaviour.        *)
THEOREM TypeCorrect == Spec => []TypeOK
  <1>1. IInv => TypeOK
    BY DEF IInv
  <1> QED BY <1>1, InitIInv, NextIInv, PTL DEF Spec

(* After a stop command, and until an operator starts the drone again, it   *)
(* is not in flight, and the step of the control loop that was under way    *)
(* sends at most one moving target and one OPEN: for every set of missions  *)
(* and every interleaving of the two goroutines.                           *)
THEOREM StopIsBounded == Spec => []StopLeaksAtMostOne
  <1>1. IInv => StopLeaksAtMostOne
    BY DEF IInv
  <1> QED BY <1>1, InitIInv, NextIInv, PTL DEF Spec

-----------------------------------------------------------------------------
(* The flight of the loaded mission *)

(* The checks that a preflight at point p has passed.                       *)
PassedAt(p) ==
  CASE p \in {"takeoff", "takeoffWait"} -> {"auth"}
    [] p \in {"port", "portWait"} -> {"auth", "takeoff"}
    [] p = "promote" -> Checks
    [] OTHER -> {}

Asking == {"authWait", "takeoffWait", "portWait"}
Outside == {"out", "begin", "timeout"}
KoverPoints == {"koverTarget", "koverCargo", "koverClosed", "koverEnd"}

(* A goroutine is inside stepPreFlight only while its program counter says   *)
(* so: a mission_load finds the handler's preflight over.                   *)
PreflightsIdle ==
  /\ hpc # "preflight" => pfAt["handler"] = "out"
  /\ cpc # "preflight" => pfAt["loop"] = "out"

PreflightHasMission == state = "PRE_FLIGHT" => mission # NoMission

(* Each preflight asks for the mission, and knows which checks it passed.    *)
AsksForMission ==
  (overtook # "preflight" /\ mission # NoMission) =>
    \A t \in Threads :
      /\ pfAt[t] \in Asking => pfId[t] = mission
      /\ pfAt[t] \notin Outside => asked[t] = PassedAt(pfAt[t]) \X {mission}

KoverKnown == kover \/ cpc \in KoverPoints => kovered

(* PAUSED belongs to it, because RESUME goes from there to EXECUTING.        *)
ClearedInFlight ==
  (~ kovered /\ overtook # "preflight" /\ state \in {"EXECUTING", "PAUSED"}) => cleared

(* The waypoints reached are those before the index; a waypoint just reached *)
(* is the one at the index, which nobody moved since the snapshot.           *)
VisitedInOrder ==
  (overtook \notin {"reached", "pastEnd"} /\ mission # NoMission) =>
    /\ AtStep <= Steps[mission]
    /\ cpc = "pastEnd" => AtStep = Steps[mission]
    /\ cpc # "reached" => visited = 0..(AtStep - 1)
    /\ cpc = "reached" => /\ snapMission = mission /\ snapIndex = AtStep
                          /\ AtStep < Steps[mission] /\ visited = 0..AtStep

FlightInv ==
  /\ PreflightsIdle /\ PreflightHasMission /\ AsksForMission
  /\ KoverKnown /\ ClearedInFlight
  /\ VisitedInOrder /\ FlownUnlessOvertaken

(* One more check passed.                                                  *)
LEMMA PassedGrows ==
  /\ PassedAt("auth") = {}
  /\ \A check \in Checks : /\ Waiting(check) \in Asking /\ Waiting(check) \notin Outside
                           /\ check \notin Asking \cup Outside /\ After(check) \notin Asking
                           /\ PassedAt(Waiting(check)) = PassedAt(check)
                           /\ PassedAt(After(check)) = PassedAt(check) \cup {check}
  BY DEF PassedAt, Checks, Waiting, After, Asking, Outside

(* Pairing a set with one mission.                                         *)
LEMMA Pairs ==
  ASSUME NEW S, NEW x, NEW m
  PROVE  /\ {} \X {m} = {}
         /\ (S \X {m}) \cup {<<x, m>>} = (S \cup {x}) \X {m}
  OBVIOUS

(* Initially nothing is loaded.                                            *)
LEMMA InitFlight == Init => FlightInv
  <1> SUFFICES ASSUME Init PROVE FlightInv
    OBVIOUS
  <1>1. PreflightsIdle /\ PreflightHasMission /\ AsksForMission
    BY DEF Init, Threads, PreflightsIdle, PreflightHasMission, AsksForMission
  <1>2. KoverKnown /\ ClearedInFlight
    BY DEF Init, KoverKnown, KoverPoints, ClearedInFlight
  <1>3. VisitedInOrder /\ FlownUnlessOvertaken
    BY DEF Init, VisitedInOrder, FlownUnlessOvertaken, ReportsFlown
  <1> QED BY <1>1, <1>2, <1>3 DEF FlightInv

(* What a step leaves alone when it concerns neither mission nor index.      *)
LEMMA VisitedKept ==
  ASSUME VisitedInOrder, FlownUnlessOvertaken,
         UNCHANGED <<mission, index, overtook, visited, misreported, snapMission, snapIndex>>,
         cpc' = cpc \/ (cpc # "reached" /\ cpc' \notin {"reached", "pastEnd"})
  PROVE  VisitedInOrder' /\ FlownUnlessOvertaken'
  BY DEF VisitedInOrder, FlownUnlessOvertaken, ReportsFlown, AtStep

(* A preflight, in either goroutine: what it asks, and when it starts the    *)
(* flight.                                                                 *)
LEMMA PreflightAsks ==
  ASSUME TypeOK, AsksForMission, NEW t \in Threads, StepPreFlight(t)
  PROVE  /\ AsksForMission' /\ pfAt[t] # "out"
         /\ \A u \in Threads \ {t} : pfAt'[u] = pfAt[u]
         /\ (state' = "EXECUTING" /\ state # "EXECUTING" /\ overtook # "preflight"
               /\ mission # NoMission) => cleared'
         /\ state' \in {"EXECUTING", "PAUSED"} /\ state' = state => cleared' = cleared
  <1>0. /\ pfAt \in [Threads -> PreflightPoints]
        /\ pfId \in [Threads -> Missions \cup {NoMission}]
        /\ asked \in [Threads -> SUBSET (Checks \X (Missions \cup {NoMission}))]
    BY DEF TypeOK, ThreadsTypeOK, HistoryTypeOK
  <1>1. overtook' = overtook /\ mission' = mission
    BY PreflightEffect DEF PreflightFrame
  <1> DEFINE NotOvertaken == overtook # "preflight" /\ mission # NoMission
             Fits(u) == /\ pfAt'[u] \in Asking => pfId'[u] = mission
                        /\ pfAt'[u] \notin Outside =>
                             asked'[u] = PassedAt(pfAt'[u]) \X {mission}
  <1>2. SUFFICES /\ NotOvertaken => Fits(t)
                 /\ pfAt[t] # "out"
                 /\ \A u \in Threads \ {t} : /\ pfAt'[u] = pfAt[u] /\ pfId'[u] = pfId[u]
                                             /\ asked'[u] = asked[u]
                 /\ (state' = "EXECUTING" /\ state # "EXECUTING" /\ NotOvertaken) => cleared'
                 /\ (state' \in {"EXECUTING", "PAUSED"} /\ state' = state)
                       => cleared' = cleared
    BY <1>1 DEF AsksForMission
  <1> HIDE DEF NotOvertaken
  <1>a. NotOvertaken =>
          /\ pfAt[t] \in Asking => pfId[t] = mission
          /\ pfAt[t] \notin Outside => asked[t] = PassedAt(pfAt[t]) \X {mission}
    BY DEF NotOvertaken, AsksForMission
  <1>3. CASE BeginPreflight(t)
    <2>1. pfAt'[t] \in {"out", "timeout", "auth"} /\ asked'[t] = {}
      BY <1>0, <1>3 DEF BeginPreflight
    <2>2. Fits(t)
      BY <2>1, PassedGrows, Pairs DEF Asking, Outside
    <2> QED BY <1>0, <1>3, <2>2 DEF BeginPreflight
  <1>4. CASE PreflightTimesOut(t)
    BY <1>0, <1>4 DEF PreflightTimesOut, LeavePreflight, Asking, Outside
  <1>5. ASSUME NEW err, PreflightFails(t, err)
        PROVE  /\ Fits(t)
               /\ \A u \in Threads \ {t} : /\ pfAt'[u] = pfAt[u] /\ pfId'[u] = pfId[u]
                                           /\ asked'[u] = asked[u]
               /\ state' \in {state, "ABORTED"} /\ cleared' = cleared
    BY <1>0, <1>5 DEF PreflightFails, LeavePreflight, Asking, Outside
  <1>6. ASSUME NEW check \in Checks, Ask(t, check)
        PROVE  /\ NotOvertaken => Fits(t)
               /\ \A u \in Threads \ {t} : /\ pfAt'[u] = pfAt[u] /\ pfId'[u] = pfId[u]
                                           /\ asked'[u] = asked[u]
               /\ state' \in {state, "ABORTED"} /\ cleared' = cleared
               /\ pfAt[t] # "out"
    <2>0. pfAt[t] = check
      BY <1>6 DEF Ask
    <2>1. CASE mission # NoMission
      <3>1. /\ pfAt' = [pfAt EXCEPT ![t] = Waiting(check)]
            /\ pfId' = [pfId EXCEPT ![t] = mission]
            /\ UNCHANGED <<state, lastError, cleared, asked>>
        BY <1>6, <2>1 DEF Ask
      <3>2. pfAt'[t] = Waiting(check) /\ pfId'[t] = mission /\ asked'[t] = asked[t]
        BY <1>0, <3>1
      <3>3. NotOvertaken => Fits(t)
        BY <1>a, <2>0, <3>2, PassedGrows
      <3> QED BY <1>0, <2>0, <3>1, <3>3 DEF Checks
    <2>2. CASE mission = NoMission
      BY <1>5, <1>6, <2>0, <2>2 DEF Ask, Checks
    <2> QED BY <2>1, <2>2
  <1>7. ASSUME NEW check \in Checks, Answered(t, check)
        PROVE  /\ NotOvertaken => Fits(t)
               /\ \A u \in Threads \ {t} : /\ pfAt'[u] = pfAt[u] /\ pfId'[u] = pfId[u]
                                           /\ asked'[u] = asked[u]
               /\ UNCHANGED <<state, cleared>> /\ pfAt[t] # "out"
    <2>1. /\ pfAt[t] = Waiting(check) /\ pfAt'[t] = After(check)
          /\ asked'[t] = asked[t] \cup {<<check, pfId[t]>>}
      BY <1>0, <1>7 DEF Answered
    <2>2. NotOvertaken => asked'[t] = (PassedAt(check) \X {mission}) \cup {<<check, mission>>}
      BY <1>a, <2>1, PassedGrows
    <2>3. NotOvertaken => asked'[t] = PassedAt(After(check)) \X {mission}
      BY <2>2, PassedGrows, Pairs
    <2>4. NotOvertaken => Fits(t)
      BY <2>1, <2>3, PassedGrows
    <2>5. pfAt[t] # "out"
      BY <2>1 DEF Waiting, Checks
    <2> QED BY <1>0, <1>7, <2>4, <2>5 DEF Answered
  <1>8. ASSUME NEW check \in Checks, AnsweredPending(t, check)
        PROVE  /\ Fits(t)
               /\ \A u \in Threads \ {t} : /\ pfAt'[u] = pfAt[u] /\ pfId'[u] = pfId[u]
                                           /\ asked'[u] = asked[u]
               /\ UNCHANGED <<state, cleared>> /\ pfAt[t] # "out"
    <2>1. pfAt[t] # "out"
      BY <1>8 DEF AnsweredPending, Waiting, Checks
    <2> QED BY <1>0, <1>8, <2>1 DEF AnsweredPending, LeavePreflight, Asking, Outside
  <1>9. ASSUME NEW check \in Checks, Denied(t, check)
        PROVE  pfAt[t] # "out" /\ \E err : PreflightFails(t, err)
    BY <1>9 DEF Denied, Waiting, Checks
  <1>10. CASE Promote(t)
    <2>1. NotOvertaken => asked[t] = Checks \X {mission}
      BY <1>10, <1>a DEF Promote, Outside, PassedAt
    <2>2. pfAt'[t] = "out" /\ pfAt[t] = "promote"
      BY <1>0, <1>10 DEF Promote, LeavePreflight
    <2>3. Fits(t)
      BY <2>2 DEF Asking, Outside
    <2> QED BY <1>0, <1>10, <2>1, <2>2, <2>3 DEF Promote, LeavePreflight
  <1>11. CASE \E check \in Checks : Ask(t, check) \/ Answered(t, check)
    BY <1>6, <1>7, <1>11
  <1>12. CASE \E check \in Checks : AnsweredPending(t, check) \/ Denied(t, check)
    BY <1>5, <1>8, <1>9, <1>12
  <1> QED BY <1>3, <1>4, <1>10, <1>11, <1>12 DEF StepPreFlight

(* A preflight step keeps the flight invariant.                            *)
LEMMA PreflightKeepsFlight ==
  ASSUME IInv, FlightInv, NEW t \in Threads, StepPreFlight(t)
  PROVE  FlightInv'
  <1>0. TypeOK /\ PreflightsIdle /\ AsksForMission
    BY DEF IInv, FlightInv
  <1>1. /\ AsksForMission' /\ pfAt[t] # "out"
        /\ \A u \in Threads \ {t} : pfAt'[u] = pfAt[u]
        /\ (state' = "EXECUTING" /\ state # "EXECUTING" /\ overtook # "preflight"
              /\ mission # NoMission) => cleared'
        /\ state' \in {"EXECUTING", "PAUSED"} /\ state' = state => cleared' = cleared
    BY <1>0, PreflightAsks
  <1>2. /\ PreflightFrame(t)
        /\ \/ state' \in {state, "ABORTED"}
           \/ state = "PRE_FLIGHT" /\ state' = "EXECUTING"
    BY <1>0, PreflightEffect
  <1>3. UNCHANGED <<mission, index, kover, overtook, hpc, cpc, snapMission, snapIndex,
                    kovered, visited, misreported>>
    BY <1>2 DEF PreflightFrame, loopVars
  <1>4. PreflightsIdle'
    BY <1>0, <1>1, <1>3 DEF PreflightsIdle, Threads
  <1>5. PreflightHasMission'
    BY <1>2, <1>3 DEF FlightInv, PreflightHasMission
  <1>6. KoverKnown'
    BY <1>3 DEF FlightInv, KoverKnown
  <1>7. ClearedInFlight'
    BY <1>1, <1>2, <1>3 DEF FlightInv, ClearedInFlight, PreflightHasMission
  <1>8. VisitedInOrder' /\ FlownUnlessOvertaken'
    BY <1>3, VisitedKept DEF FlightInv
  <1> QED BY <1>1, <1>4, <1>5, <1>6, <1>7, <1>8 DEF FlightInv

(* What stepControl decides agrees with the state it looked at.              *)
LEMMA DecisionInFlight ==
  /\ "preflight" \in Decision => state = "PRE_FLIGHT"
  /\ Decision \cap KoverPoints # {} => kover
  /\ Decision \cap {"reached", "pastEnd"} # {} => mission # NoMission
  /\ "reached" \in Decision => ~ (AtStep >= Steps[mission])
  /\ "pastEnd" \in Decision => AtStep >= Steps[mission]
  <1>1. CASE state = "PRE_FLIGHT"
    BY <1>1 DEF Decision, KoverPoints
  <1>2. CASE state # "PRE_FLIGHT" /\ ~ navKnown
    BY <1>2 DEF Decision, KoverPoints
  <1>3. CASE state # "PRE_FLIGHT" /\ navKnown /\ kover
    BY <1>3 DEF Decision, KoverPoints
  <1>4. CASE /\ state # "PRE_FLIGHT" /\ navKnown /\ ~ kover
             /\ mission = NoMission \/ state \notin {"EXECUTING", "PAUSED"}
    BY <1>4 DEF Decision, KoverPoints
  <1>5. CASE /\ state # "PRE_FLIGHT" /\ navKnown /\ ~ kover
             /\ mission # NoMission /\ state \in {"EXECUTING", "PAUSED"}
    <2>1. CASE Steps[mission] = 0
      BY <1>5, <2>1 DEF Decision, KoverPoints
    <2>2. CASE Steps[mission] # 0 /\ AtStep >= Steps[mission]
      BY <1>5, <2>2 DEF Decision, KoverPoints
    <2>3. CASE Steps[mission] # 0 /\ ~ (AtStep >= Steps[mission])
      BY <1>5, <2>3 DEF Decision, KoverPoints
    <2> QED BY <2>1, <2>2, <2>3
  <1> QED BY <1>1, <1>2, <1>3, <1>4, <1>5

(* The snapshot: a waypoint that is reached joins those visited.             *)
LEMMA StepControlKeepsFlight ==
  ASSUME IInv, FlightInv, StepControl
  PROVE  FlightInv'
  <1>0. /\ index \in Int /\ mission \in Missions \cup {NoMission}
        /\ pfAt \in [Threads -> PreflightPoints]
    BY DEF IInv, TypeOK, SharedTypeOK, ThreadsTypeOK, HistoryTypeOK
  <1>1. /\ cpc = "step" /\ cpc' \in Decision /\ snapMission' = mission /\ snapIndex' = AtStep
        /\ pfAt' = IF cpc' = "preflight" THEN [pfAt EXCEPT !["loop"] = "begin"] ELSE pfAt
        /\ visited' = IF cpc' = "reached" THEN visited \cup {AtStep} ELSE visited
        /\ UNCHANGED <<state, mission, index, kover, hpc, overtook, kovered, cleared,
                       misreported, pfId, asked>>
    BY DEF StepControl, shared
  <1>2. AtStep \in Nat /\ AtStep' = AtStep
    BY <1>0, <1>1 DEF AtStep
  <1>3. PreflightsIdle'
    BY <1>0, <1>1 DEF FlightInv, PreflightsIdle, Threads
  <1>4. PreflightHasMission' /\ ClearedInFlight' /\ FlownUnlessOvertaken'
    BY <1>1 DEF FlightInv, PreflightHasMission, ClearedInFlight, FlownUnlessOvertaken, ReportsFlown
  <1>5. AsksForMission'
    <2>1. \A t \in Threads : pfAt'[t] \in {pfAt[t], "begin"}
      BY <1>0, <1>1
    <2> QED BY <1>1, <2>1 DEF FlightInv, AsksForMission, Asking, Outside
  <1>6. KoverKnown'
    BY <1>1, DecisionInFlight DEF FlightInv, KoverKnown
  <1>7. VisitedInOrder'
    <2> SUFFICES ASSUME overtook \notin {"reached", "pastEnd"}, mission # NoMission
                 PROVE  /\ AtStep <= Steps[mission]
                        /\ cpc' = "pastEnd" => AtStep = Steps[mission]
                        /\ cpc' # "reached" => visited' = 0..(AtStep - 1)
                        /\ cpc' = "reached" => AtStep < Steps[mission] /\ visited' = 0..AtStep
      BY <1>1, <1>2 DEF VisitedInOrder
    <2>1. AtStep <= Steps[mission] /\ visited = 0..(AtStep - 1)
      BY <1>1 DEF FlightInv, VisitedInOrder
    <2>2. Steps[mission] \in Nat
      BY <1>0, APConstants
    <2>3. cpc' = "pastEnd" => AtStep = Steps[mission]
      BY <1>1, <1>2, <2>1, <2>2, DecisionInFlight
    <2>4. cpc' = "reached" => AtStep < Steps[mission]
      BY <1>1, <1>2, <2>1, <2>2, DecisionInFlight
    <2>5. 0..(AtStep - 1) \cup {AtStep} = 0..AtStep
      BY <1>2
    <2> QED BY <1>1, <2>1, <2>3, <2>4, <2>5
  <1> QED BY <1>3, <1>4, <1>5, <1>6, <1>7 DEF FlightInv

(* Steps of the loop that concern neither index nor report.                  *)
LoopQuiet ==
  /\ LoopWrites
  /\ UNCHANGED <<index, misreported, cleared>>
  /\ cpc # "reached" /\ cpc' # "pastEnd"
  /\ cpc = "preflight" => pfAt["loop"] = "out"
  /\ cpc' \in KoverPoints => cpc \in KoverPoints
  /\ state' # state => cpc \in KoverPoints /\ state' = "PAUSED"

(* They keep the flight invariant.                                         *)
LEMMA LoopQuietKeepsFlight ==
  ASSUME IInv, FlightInv, LoopQuiet
  PROVE  FlightInv'
  <1>1. /\ UNCHANGED <<mission, index, overtook, kovered, visited, misreported, cleared,
                       hpc, snapMission, snapIndex, pfAt, pfId, asked>>
        /\ cpc = "preflight" => pfAt["loop"] = "out"
        /\ kover' \in {kover, FALSE} /\ cpc # "reached" /\ cpc' \notin {"reached", "pastEnd"}
        /\ cpc' \in KoverPoints => cpc \in KoverPoints
        /\ state' # state => cpc \in KoverPoints /\ state' = "PAUSED"
    BY DEF LoopQuiet, LoopWrites, LoopFrame, pfVars
  <1>2. PreflightsIdle' /\ AsksForMission'
    BY <1>1 DEF FlightInv, PreflightsIdle, AsksForMission
  <1>3. PreflightHasMission'
    BY <1>1 DEF FlightInv, PreflightHasMission
  <1>6. KoverKnown'
    <2>1. kover' => kover
      BY <1>1
    <2> QED BY <1>1, <2>1 DEF FlightInv, KoverKnown
  <1>4. ClearedInFlight'
    BY <1>1 DEF FlightInv, ClearedInFlight, KoverKnown
  <1>5. VisitedInOrder' /\ FlownUnlessOvertaken'
    BY <1>1, VisitedKept DEF FlightInv
  <1> QED BY <1>2, <1>3, <1>4, <1>5, <1>6 DEF FlightInv

(* Those steps: targets, cargo commands, notifications and the descent.      *)
LEMMA QuietSteps ==
  ASSUME TypeOK,
         \/ PreflightReturns \/ Move \/ Hover \/ NotifyLand \/ NotifyComplete \/ DoKover
  PROVE  LoopQuiet
  <1>0. LoopWrites
    BY LoopActsWrite DEF LoopActs
  <1>1. CASE PreflightReturns \/ NotifyLand \/ NotifyComplete
    BY <1>0, <1>1
    DEF PreflightReturns, NotifyLand, NotifyComplete, LoopQuiet, KoverPoints
  <1>2. CASE Move \/ Hover
    BY <1>0, <1>2 DEF Move, Hover, LoopTarget, LoopCargo, LoopQuiet, KoverPoints
  <1>3. CASE DoKover
    BY <1>0, <1>3
    DEF DoKover, LoopTarget, LoopCargo, KoverClosed, KoverLanded, LoopQuiet, KoverPoints
  <1> QED BY <1>1, <1>2, <1>3

(* The index moves on, or the mission is complete: then all was visited.     *)
LEMMA ProgressKeepsFlight ==
  ASSUME IInv, FlightInv, Advance \/ CompleteLast \/ CompletePastEnd
  PROVE  FlightInv'
  <1>0. /\ index \in Int /\ mission \in Missions \cup {NoMission}
        /\ snapIndex \in Nat /\ TypeOK
    BY DEF IInv, TypeOK, SharedTypeOK, ThreadsTypeOK, HistoryTypeOK
  <1>1. /\ UNCHANGED <<mission, overtook, kovered, visited, snapMission, snapIndex, hpc,
                       pfAt, pfId, asked, kover>>
        /\ cpc \in {"reached", "pastEnd"}
        /\ cpc' \in {"idle", "landThenHover", "land"}
        /\ \/ UNCHANGED <<state, cleared>>
           \/ state' = "COMPLETED"
    BY DEF Advance, CompleteLast, CompletePastEnd, LoopFrame, pfVars
  <1>2. PreflightsIdle' /\ AsksForMission'
    BY <1>1 DEF FlightInv, PreflightsIdle, AsksForMission
  <1>3. PreflightHasMission' /\ KoverKnown' /\ ClearedInFlight'
    BY <1>1 DEF FlightInv, PreflightHasMission, KoverKnown, ClearedInFlight, KoverPoints
  <1>4. VisitedInOrder' /\ FlownUnlessOvertaken'
    <2>1. CASE ~ (overtook \notin {"reached", "pastEnd"} /\ mission # NoMission)
      <3>1. overtook \notin {"reached", "pastEnd"} => ~ misreported'
        BY <2>1
        DEF FlightInv, FlownUnlessOvertaken, ReportsFlown, Advance, CompleteLast,
            CompletePastEnd, TakeMissionId
      <3> QED BY <1>1, <2>1, <3>1 DEF VisitedInOrder, FlownUnlessOvertaken, ReportsFlown
    <2>2. CASE overtook \notin {"reached", "pastEnd"} /\ mission # NoMission
      <3>0. Steps[mission] \in Nat /\ AtStep \in Nat
        BY <1>0, <2>2, APConstants DEF AtStep
      <3>1. ~ misreported
        BY <2>2 DEF FlightInv, FlownUnlessOvertaken, ReportsFlown
      <3>2. CASE Advance
        <4>1. /\ snapMission = mission /\ snapIndex = AtStep /\ AtStep < Steps[mission]
              /\ visited = 0..AtStep
          BY <2>2, <3>2 DEF FlightInv, VisitedInOrder, Advance
        <4>2. index' = snapIndex + 1 /\ cpc' = "idle" /\ misreported' = misreported
          BY <3>2 DEF Advance
        <4>3. AtStep' = snapIndex + 1
          BY <1>0, <4>2 DEF AtStep
        <4>4. AtStep' <= Steps[mission] /\ visited = 0..(AtStep' - 1)
          BY <3>0, <4>1, <4>3
        <4> QED BY <1>1, <3>1, <4>2, <4>4 DEF VisitedInOrder, FlownUnlessOvertaken, ReportsFlown
      <3>3. CASE CompleteLast
        <4>1. /\ snapMission = mission /\ snapIndex = AtStep /\ AtStep < Steps[mission]
              /\ visited = 0..AtStep
          BY <2>2, <3>3 DEF FlightInv, VisitedInOrder, CompleteLast
        <4>2. /\ index' = Steps[mission] /\ cpc' = "landThenHover"
              /\ AtStep >= Steps[mission] - 1 /\ TakeMissionId
          BY <3>3, <4>1 DEF CompleteLast
        <4>3. AtStep = Steps[mission] - 1
          BY <3>0, <4>1, <4>2
        <4>4. AtStep' = Steps[mission]
          BY <3>0, <4>2 DEF AtStep
        <4>5. visited = 0..(Steps[mission] - 1)
          BY <4>1, <4>3
        <4>6. ~ misreported'
          BY <3>1, <4>2, <4>5 DEF TakeMissionId
        <4>7. AtStep' <= Steps[mission] /\ visited = 0..(AtStep' - 1)
          BY <3>0, <4>4, <4>5
        <4> QED BY <1>1, <4>2, <4>6, <4>7 DEF VisitedInOrder, FlownUnlessOvertaken, ReportsFlown
      <3>4. CASE CompletePastEnd
        <4>1. AtStep = Steps[mission] /\ visited = 0..(AtStep - 1)
          BY <2>2, <3>4 DEF FlightInv, VisitedInOrder, CompletePastEnd
        <4>2. AtStep' = AtStep /\ cpc' \in {"idle", "land"}
          BY <3>4 DEF CompletePastEnd, AtStep
        <4>3. misreported' = misreported \/ TakeMissionId
          BY <3>4 DEF CompletePastEnd
        <4>4. ~ misreported'
          BY <3>1, <4>1, <4>3 DEF TakeMissionId
        <4>5. AtStep <= Steps[mission]
          BY <3>0, <4>1
        <4> QED BY <1>1, <4>1, <4>2, <4>4, <4>5
                DEF VisitedInOrder, FlownUnlessOvertaken, ReportsFlown
      <3> QED BY <3>2, <3>3, <3>4
    <2> QED BY <2>1, <2>2
  <1> QED BY <1>2, <1>3, <1>4 DEF FlightInv

(* A mission is loaded: the handler is in no preflight then, and the control *)
(* loop either is free or is what the load overtook.                        *)
LEMMA MissionLoadKeepsFlight ==
  ASSUME IInv, FlightInv, NEW m \in Missions, HandleMissionLoad(m)
  PROVE  FlightInv'
  <1>0. Steps[m] \in Nat /\ m # NoMission
    BY APConstants
  <1>1. /\ hpc = "idle" /\ mission' = m /\ state' = "MISSION_LOADED" /\ visited' = {}
        /\ index' = (IF Steps[m] > 0 THEN 0 ELSE -1) /\ misreported' = FALSE
        /\ overtook' = (IF cpc \in Unfinished THEN cpc ELSE "nothing")
        /\ UNCHANGED <<kover, kovered, hpc, cpc, pfAt, pfId, asked>>
    BY DEF HandleMissionLoad, pfVars, loopVars
  <1>2. /\ overtook' # "preflight" => cpc # "preflight"
        /\ overtook' \notin {"reached", "pastEnd"} => cpc \notin {"reached", "pastEnd"}
    BY <1>1 DEF Unfinished
  <1>3. PreflightsIdle' /\ PreflightHasMission' /\ ClearedInFlight' /\ KoverKnown'
    BY <1>1
    DEF FlightInv, PreflightsIdle, PreflightHasMission, ClearedInFlight, KoverKnown
  <1>4. AsksForMission'
    <2>1. overtook' # "preflight" => \A t \in Threads : pfAt'[t] = "out"
      BY <1>1, <1>2 DEF FlightInv, PreflightsIdle, Threads
    <2> QED BY <2>1 DEF AsksForMission, Asking, Outside
  <1>5. VisitedInOrder'
    <2>1. AtStep' = 0
      BY <1>1 DEF AtStep
    <2>2. 0..(0 - 1) = {} /\ 0 <= Steps[m]
      BY <1>0
    <2> QED BY <1>1, <1>2, <2>1, <2>2 DEF VisitedInOrder
  <1>6. FlownUnlessOvertaken'
    BY <1>1 DEF FlownUnlessOvertaken, ReportsFlown
  <1> QED BY <1>3, <1>4, <1>5, <1>6 DEF FlightInv

(* A command: START clears nothing yet, and only RESUME and KOVER fly.        *)
LEMMA HandleCmdKeepsFlight ==
  ASSUME IInv, FlightInv, NEW c \in Commands, HandleCmd(c)
  PROVE  FlightInv'
  <1>0. /\ c \in AllCommands /\ pfAt \in [Threads -> PreflightPoints]
    BY APConstants DEF IInv, TypeOK, ThreadsTypeOK
  <1>1. /\ hpc = "idle"
        /\ c = "START" => hpc' = "preflight"
        /\ state \in AllowedFrom(c) /\ state' = NextState(c)
        /\ c = "START" => mission # NoMission
        /\ mission' = IF c = "RESET" THEN NoMission ELSE mission
        /\ index' = IF c = "RESET" THEN 0 ELSE index
        /\ kover' => kover \/ c = "KOVER"
        /\ kovered' = (kovered \/ c = "KOVER")
        /\ cleared' = (cleared /\ c \notin StopCommands \cup {"START"})
        /\ pfAt' = IF c = "START" THEN [pfAt EXCEPT !["handler"] = "begin"] ELSE pfAt
        /\ UNCHANGED <<overtook, visited, misreported, cpc, snapMission, snapIndex, pfId,
                       asked>>
    BY DEF HandleCmd, loopVars
  <1>2. PreflightsIdle'
    BY <1>0, <1>1 DEF FlightInv, PreflightsIdle, Threads
  <1>3. PreflightHasMission'
    BY <1>0, <1>1
    DEF FlightInv, PreflightHasMission, NextState, AllCommands
  <1>4. AsksForMission'
    <2>1. \A t \in Threads : pfAt'[t] \in {pfAt[t], "begin"}
      BY <1>0, <1>1
    <2> QED BY <1>1, <2>1 DEF FlightInv, AsksForMission, Asking, Outside
  <1>5. KoverKnown'
    BY <1>1 DEF FlightInv, KoverKnown
  <1>6. ClearedInFlight'
    <2>1. NextState(c) \in {"EXECUTING", "PAUSED"} => c \in {"PAUSE", "RESUME", "KOVER"}
      BY <1>0 DEF NextState, AllCommands
    <2>2. c = "PAUSE" => state = "EXECUTING"
      BY <1>1 DEF AllowedFrom
    <2>3. c = "RESUME" => state = "PAUSED"
      BY <1>1 DEF AllowedFrom
    <2> QED BY <1>1, <2>1, <2>2, <2>3 DEF FlightInv, ClearedInFlight, StopCommands
  <1>7. VisitedInOrder' /\ FlownUnlessOvertaken'
    <2>1. CASE c = "RESET"
      BY <1>1, <2>1 DEF FlightInv, VisitedInOrder, FlownUnlessOvertaken, ReportsFlown
    <2>2. CASE c # "RESET"
      BY <1>1, <2>2, VisitedKept DEF FlightInv
    <2> QED BY <2>1, <2>2
  <1> QED BY <1>2, <1>3, <1>4, <1>5, <1>6, <1>7 DEF FlightInv

(* Steps that change nothing the flight invariant speaks of.                 *)
LEMMA OthersKeepFlight ==
  ASSUME FlightInv, NEW c \in Commands \cup {"START"},
         \/ RefuseStart \/ IgnoreCmd(c) \/ SafeStopTarget \/ SafeStopCargo \/ StartReturns
         \/ PollNavigation \/ Clock \/ UNCHANGED vars
  PROVE  FlightInv'
  <1>1. UNCHANGED <<state, mission, index, kover, overtook, visited, misreported,
                    snapMission, snapIndex, pfAt, pfId, asked, kovered, cleared>>
    BY DEF RefuseStart, IgnoreCmd, SafeStopTarget, SafeStopCargo, StartReturns,
           PollNavigation, Clock, vars, shared, pfVars, loopVars, flightVars
  <1>2. cpc' = cpc \/ (cpc = "idle" /\ cpc' = "step")
    BY DEF RefuseStart, IgnoreCmd, SafeStopTarget, SafeStopCargo, StartReturns,
           PollNavigation, Clock, vars, loopVars
  <1>6. hpc' = "preflight" \/ pfAt["handler"] = "out" \/ hpc # "preflight"
    BY DEF RefuseStart, IgnoreCmd, SafeStopTarget, SafeStopCargo, StartReturns,
           PollNavigation, Clock, vars
  <1>3. PreflightsIdle' /\ PreflightHasMission' /\ AsksForMission' /\ ClearedInFlight'
    BY <1>1, <1>2, <1>6
    DEF FlightInv, PreflightsIdle, PreflightHasMission, AsksForMission, ClearedInFlight
  <1>4. KoverKnown'
    BY <1>1, <1>2 DEF FlightInv, KoverKnown, KoverPoints
  <1>5. VisitedInOrder' /\ FlownUnlessOvertaken'
    BY <1>1, <1>2, VisitedKept DEF FlightInv
  <1> QED BY <1>3, <1>4, <1>5 DEF FlightInv

(* Every step keeps the flight invariant.                                  *)
LEMMA NextFlight == IInv /\ FlightInv /\ [Next]_vars => FlightInv'
  <1> SUFFICES ASSUME IInv, FlightInv, [Next]_vars PROVE FlightInv'
    OBVIOUS
  <1>1. CASE Operators
    BY <1>1, MissionLoadKeepsFlight, HandleCmdKeepsFlight, OthersKeepFlight DEF Operators
  <1>2. CASE HandlerRuns
    BY <1>2, OthersKeepFlight, PreflightKeepsFlight DEF HandlerRuns, Threads
  <1>3. CASE LoopRuns
    <2>1. TypeOK
      BY DEF IInv
    <2>2. CASE PollNavigation
      BY <2>2, OthersKeepFlight
    <2>3. CASE StepControl
      BY <2>3, StepControlKeepsFlight
    <2>4. CASE StepPreFlight("loop")
      BY <2>4, PreflightKeepsFlight DEF Threads
    <2>5. CASE PreflightReturns \/ Move \/ Hover \/ NotifyLand \/ NotifyComplete \/ DoKover
      BY <2>1, <2>5, QuietSteps, LoopQuietKeepsFlight
    <2>6. CASE Advance \/ CompleteLast \/ CompletePastEnd
      BY <2>6, ProgressKeepsFlight
    <2> QED BY <1>3, <2>2, <2>3, <2>4, <2>5, <2>6 DEF LoopRuns
  <1>4. CASE Clock \/ UNCHANGED vars
    BY <1>4, OthersKeepFlight
  <1> QED BY <1>1, <1>2, <1>3, <1>4 DEF Next

(* The flight invariant holds in every reachable state.                     *)
LEMMA FlightInvariant == Spec => []FlightInv
  BY InitIInv, NextIInv, InitFlight, NextFlight, PTL DEF Spec

(* No mission is executed without the limiter's, ORVD's and the droneport's  *)
(* clearance of this very mission, as long as no KOVER came and its load did *)
(* not fall into a preflight of the control loop: however the preflights of  *)
(* the two goroutines overlap, through aborts, restarts, pauses and any      *)
(* number of missions, of any length.                                      *)
THEOREM ExecutedIsCleared == Spec => []ClearedUnlessKover
  <1>1. FlightInv => ClearedUnlessKover
    BY DEF FlightInv, ClearedInFlight, ClearedUnlessKover, ClearedToExecute
  <1> QED BY <1>1, FlightInvariant, PTL

(* orvd_complete reports a mission only when each of its waypoints was       *)
(* reached, unless its load overtook the control loop between a snapshot and *)
(* its write-back: the index written back skips nothing, whatever commands   *)
(* and other missions came before, and the path past the end reports no more *)
(* than the other one.                                                     *)
THEOREM ReportedIsFlown == Spec => []FlownUnlessOvertaken
  <1>1. FlightInv => FlownUnlessOvertaken
    BY DEF FlightInv
  <1> QED BY <1>1, FlightInvariant, PTL

=============================================================================
