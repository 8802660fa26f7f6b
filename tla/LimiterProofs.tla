--------------------------- MODULE LimiterProofs ---------------------------
(***************************************************************************)
(* Proofs about the limiter for every set of missions, routes, positions    *)
(* and limits, and any number of requests, revocations and restarts.       *)
(***************************************************************************)
EXTENDS Limiter, TLAPS

(* The initial state satisfies the invariant.                              *)
LEMMA InitIInv == Init => IInv
  <1> SUFFICES ASSUME Init PROVE IInv
    OBVIOUS
  <1> USE LimConstants
  <1>1. GeoTypeOK
    BY DEF Init, GeoTypeOK, Verdicts, Limits
  <1>2. ORVDTypeOK
    BY DEF Init, ORVDTypeOK, Statuses, Phases
  <1>3. ThreadsTypeOK
    BY DEF Init, ThreadsTypeOK, HandlerPoints
  <1>4. AuthorizedIsGuarded /\ TakeoffFlagSound /\ LateAlarmsBounded
    BY DEF Init, AuthorizedIsGuarded, TakeoffFlagSound, LateAlarmsBounded
  <1>5. HandlerKnows /\ LoopTelemetry
    BY DEF Init, HandlerKnows, LoopTelemetry, LoadCalls, Threads
  <1> QED BY <1>1, <1>2, <1>3, <1>4, <1>5 DEF IInv, TypeOK

(* A verdict is one of the three.                                          *)
LEMMA VerdictType ==
  ASSUME NEW m, NEW p, NEW max
  PROVE  Verdict(m, p, max) \in Verdicts
  BY DEF Verdict, Verdicts

-----------------------------------------------------------------------------
(* Type correctness *)

(* Mission, position, limits and verdicts keep their types.                *)
LEMMA GeoTypeStep == IInv /\ [Next]_vars => GeoTypeOK'
  <1> SUFFICES ASSUME IInv, [Next]_vars PROVE GeoTypeOK'
    OBVIOUS
  <1> USE LimConstants DEF GeoTypeOK
  <1>0. GeoTypeOK /\ hMission \in Missions \cup {NoMission}
    BY DEF IInv, TypeOK, ThreadsTypeOK
  <1>1. CASE Requests
    <2>1. ASSUME NEW m \in Missions, LoadOutOfBounds(m) \/ HandleMissionLoad(m)
          PROVE  GeoTypeOK'
      BY <1>0, <2>1 DEF LoadOutOfBounds, HandleMissionLoad, HandlerFrame, loopVars
    <2>2. ASSUME NEW mid, HandleORVDTakeoff(mid) \/ HandleORVDComplete(mid)
          PROVE  GeoTypeOK'
      BY <1>0, <2>2 DEF HandleORVDTakeoff, HandleORVDComplete, HandlerFrame, loopVars
    <2>3. ASSUME NEW c \in ConfigUpdates, HandleUpdateConfig(c)
          PROVE  GeoTypeOK'
      <3>1. c.dist \in Nat /\ c.alt \in Nat /\ limits.dist \in Nat /\ limits.alt \in Nat
        BY <1>0 DEF Limits
      <3>2. limits' \in Limits
        BY <2>3, <3>1 DEF HandleUpdateConfig, Limits
      <3> QED BY <1>0, <2>3, <3>2 DEF HandleUpdateConfig, loopVars, histVars
    <2> QED BY <1>1, <2>1, <2>2, <2>3 DEF Requests
  <1>2. CASE HandlerRuns
    BY <1>0, <1>2 DEF HandlerRuns, RunORVDMissionLoad, AskORVD, Accepted, Refused,
       StoreStatus, TakeoffPoll, TakeoffWithoutCall, TakeoffGranted, TakeoffDenied,
       SendTelemetry, BeginTelemetry, TelemetryAnswered, PublishORVDEmergency,
       TelemetryFrame, TakeoffReturns, CompleteConfirmed, CompleteFails,
       HandleRevokeTakeoff, HandlerFrame, geoVars, loopVars, histVars
  <1>3. CASE ORVDRevokes \/ UNCHANGED vars
    BY <1>0, <1>3 DEF ORVDRevokes, vars, geoVars, loopVars, histVars
  <1>4. CASE LoopRuns
    <2>1. CASE Recalculate
      BY <1>0, <2>1, VerdictType DEF Recalculate, LoopFrame
    <2>2. CASE SendTelemetry("loop")
      BY <1>0, <2>2 DEF SendTelemetry, BeginTelemetry, TelemetryAnswered,
         PublishORVDEmergency, TelemetryFrame, geoVars, loopVars
    <2>3. CASE PollNavigation \/ PollORVDTelemetry \/ StoreVerdict \/ ReportIncident
      BY <1>0, <2>3 DEF PollNavigation, PollORVDTelemetry, StoreVerdict, ReportIncident,
         LoopFrame, Verdicts
    <2>4. CASE PublishEmergency
      BY <1>0, <2>4 DEF PublishEmergency, LoopFrame
    <2> QED BY <1>4, <2>1, <2>2, <2>3, <2>4 DEF LoopRuns
  <1>5. CASE Restart
    BY <1>0, <1>5 DEF Restart, Verdicts, Limits
  <1> QED BY <1>1, <1>2, <1>3, <1>4, <1>5 DEF Next

(* The ORVD session keeps its types.                                       *)
LEMMA ORVDTypeStep == IInv /\ [Next]_vars => ORVDTypeOK'
  <1> SUFFICES ASSUME IInv, [Next]_vars PROVE ORVDTypeOK'
    OBVIOUS
  <1> USE LimConstants DEF ORVDTypeOK
  <1>0. ORVDTypeOK /\ hMission \in Missions \cup {NoMission} /\ HandlerKnows
    BY DEF IInv, TypeOK, ThreadsTypeOK
  <1>1. CASE Requests
    <2>1. ASSUME NEW m \in Missions, LoadOutOfBounds(m) \/ HandleMissionLoad(m)
          PROVE  ORVDTypeOK'
      BY <1>0, <2>1 DEF LoadOutOfBounds, HandleMissionLoad, ClearTakeoff, HandlerFrame,
         Statuses, Phases
    <2>2. ASSUME NEW mid, HandleORVDTakeoff(mid) \/ HandleORVDComplete(mid)
          PROVE  ORVDTypeOK'
      BY <1>0, <2>2 DEF HandleORVDTakeoff, HandleORVDComplete, HandlerFrame, orvdVars
    <2>3. ASSUME NEW c, HandleUpdateConfig(c)
          PROVE  ORVDTypeOK'
      BY <1>0, <2>3 DEF HandleUpdateConfig, orvdVars, histVars
    <2> QED BY <1>1, <2>1, <2>2, <2>3 DEF Requests
  <1>2. CASE HandlerRuns
    <2>1. CASE RunORVDMissionLoad
      <3>1. droneRegistered' \in BOOLEAN
        BY <1>0, <2>1, Zenon DEF RunORVDMissionLoad
      <3>2. orvdPhase' \in Phases /\ takeoffAuthorized' \in BOOLEAN
        BY <1>0, <2>1 DEF RunORVDMissionLoad, ClearTakeoff, Phases
      <3> QED BY <1>0, <2>1, <3>1, <3>2 DEF RunORVDMissionLoad, HandlerFrame
    <2>6. CASE StoreStatus
      BY <1>0, <2>6 DEF StoreStatus, HandlerFrame, Statuses, Phases
    <2>2. CASE AskORVD
      BY <1>0, <2>2 DEF AskORVD, Accepted, Refused, HandlerKnows, HandlerFrame, LoadCalls,
         Statuses, Phases
    <2>3. CASE TakeoffPoll \/ TakeoffDenied \/ TakeoffReturns
      BY <1>0, <2>3 DEF TakeoffPoll, TakeoffDenied, TakeoffReturns, TakeoffCalls,
         HandlerFrame, orvdVars, histVars, Phases
    <2>7. CASE TakeoffWithoutCall
      BY <1>0, <2>7 DEF TakeoffWithoutCall, GrantTakeoff, HandlerFrame, orvdVars, histVars,
         Phases
    <2>8. CASE TakeoffGranted
      BY <1>0, <2>8 DEF TakeoffGranted, TakeoffCalls, GrantTakeoff, HandlerFrame, orvdVars,
         histVars, Phases
    <2>4. CASE SendTelemetry("handler")
      BY <1>0, <2>4 DEF SendTelemetry, BeginTelemetry, TelemetryAnswered,
         PublishORVDEmergency, TelemetryFrame, orvdVars
    <2>5. CASE CompleteConfirmed \/ CompleteFails \/ HandleRevokeTakeoff
      BY <1>0, <2>5 DEF CompleteConfirmed, CompleteFails, HandleRevokeTakeoff, ClearTakeoff,
         HandlerFrame, orvdVars, Phases
    <2> QED BY <1>2, <2>1, <2>2, <2>3, <2>4, <2>5, <2>6, <2>7, <2>8
      DEF HandlerRuns
  <1>3. CASE ORVDRevokes \/ UNCHANGED vars
    BY <1>0, <1>3 DEF ORVDRevokes, vars, orvdVars, histVars
  <1>4. CASE LoopRuns
    BY <1>0, <1>4 DEF LoopRuns, PollNavigation, PollORVDTelemetry, Recalculate,
       StoreVerdict, ReportIncident, PublishEmergency, LoopFrame, SendTelemetry,
       BeginTelemetry, TelemetryAnswered, PublishORVDEmergency, TelemetryFrame, orvdVars
  <1>5. CASE Restart
    BY <1>0, <1>5 DEF Restart, Statuses, Phases
  <1> QED BY <1>1, <1>2, <1>3, <1>4, <1>5 DEF Next

(* The two goroutines keep their types.                                    *)
LEMMA ThreadsTypeStep == IInv /\ [Next]_vars => ThreadsTypeOK'
  <1> SUFFICES ASSUME IInv, [Next]_vars PROVE ThreadsTypeOK'
    OBVIOUS
  <1> USE LimConstants DEF ThreadsTypeOK
  <1>0. ThreadsTypeOK /\ orvdMissionID \in Missions \cup {NoMission}
    BY DEF IInv, TypeOK, ORVDTypeOK
  <1>1. CASE Requests
    <2>1. ASSUME NEW m \in Missions, LoadOutOfBounds(m) \/ HandleMissionLoad(m)
          PROVE  ThreadsTypeOK'
      BY <1>0, <2>1 DEF LoadOutOfBounds, HandleMissionLoad, ClearTakeoff, StartRequest,
         HandlerFrame, loopVars, HandlerPoints
    <2>2. ASSUME NEW mid \in Missions \cup {NoMission},
                 HandleORVDTakeoff(mid) \/ HandleORVDComplete(mid)
          PROVE  ThreadsTypeOK'
      BY <1>0, <2>2 DEF HandleORVDTakeoff, HandleORVDComplete, Named, StartRequest,
         HandlerFrame, loopVars, HandlerPoints
    <2>3. ASSUME NEW c, HandleUpdateConfig(c)
          PROVE  ThreadsTypeOK'
      BY <1>0, <2>3 DEF HandleUpdateConfig, StartRequest, loopVars, histVars
    <2> QED BY <1>1, <2>1, <2>2, <2>3 DEF Requests
  <1>2. CASE HandlerRuns
    <2>1. CASE RunORVDMissionLoad \/ StoreStatus
      BY <1>0, <2>1 DEF RunORVDMissionLoad, StoreStatus, ClearTakeoff, HandlerFrame,
         loopVars, HandlerPoints, LoadCalls
    <2>2. CASE AskORVD
      BY <1>0, <2>2 DEF AskORVD, Accepted, Refused, HandlerFrame, loopVars, HandlerPoints,
         LoadCalls
    <2>3. CASE TakeoffPoll \/ TakeoffWithoutCall \/ TakeoffDenied \/ TakeoffReturns
      BY <1>0, <2>3 DEF TakeoffPoll, TakeoffWithoutCall, TakeoffDenied, TakeoffReturns,
         HandlerFrame, counts, loopVars, histVars, HandlerPoints
    <2>4. CASE TakeoffGranted
      BY <1>0, <2>4 DEF TakeoffGranted, counts, loopVars, HandlerPoints, Threads
    <2>5. CASE SendTelemetry("handler")
      BY <1>0, <2>5 DEF SendTelemetry, BeginTelemetry, TelemetryAnswered,
         PublishORVDEmergency, TelemetryFrame, counts, loopVars, Threads
    <2>6. CASE CompleteConfirmed \/ CompleteFails \/ HandleRevokeTakeoff
      BY <1>0, <2>6 DEF CompleteConfirmed, CompleteFails, HandleRevokeTakeoff, ClearTakeoff,
         HandlerFrame, counts, loopVars, HandlerPoints
    <2> QED BY <1>2, <2>1, <2>2, <2>3, <2>4, <2>5, <2>6 DEF HandlerRuns
  <1>3. CASE ORVDRevokes \/ UNCHANGED vars
    BY <1>0, <1>3 DEF ORVDRevokes, vars, counts, loopVars, histVars
  <1>4. CASE LoopRuns
    <2>1. CASE PollNavigation \/ PollORVDTelemetry \/ Recalculate
      BY <1>0, <2>1 DEF PollNavigation, PollORVDTelemetry, Recalculate, LoopFrame, counts,
         Threads
    <2>2. CASE StoreVerdict \/ ReportIncident \/ PublishEmergency
      BY <1>0, <2>2 DEF StoreVerdict, ReportIncident, PublishEmergency, LoopFrame, counts
    <2>3. CASE SendTelemetry("loop")
      BY <1>0, <2>3 DEF SendTelemetry, BeginTelemetry, TelemetryAnswered,
         PublishORVDEmergency, TelemetryFrame, counts, loopVars, Threads
    <2> QED BY <1>4, <2>1, <2>2, <2>3 DEF LoopRuns
  <1>5. CASE Restart
    BY <1>0, <1>5 DEF Restart, HandlerPoints
  <1> QED BY <1>1, <1>2, <1>3, <1>4, <1>5 DEF Next

-----------------------------------------------------------------------------
(* The safety conjuncts of the invariant *)

(* A goroutine inside runORVDSendTelemetry, and a step of the control loop,  *)
(* leave the ORVD session and the handler alone.                           *)
LEMMA LoopEffect ==
  ASSUME LoopRuns \/ SendTelemetry("handler")
  PROVE  UNCHANGED <<mission, orvdVars, hpc, hMission, revoke, authorized, clearance, unheard>>
  BY DEF LoopRuns, PollNavigation, PollORVDTelemetry, Recalculate, StoreVerdict,
     ReportIncident, PublishEmergency, LoopFrame, SendTelemetry, BeginTelemetry,
     TelemetryAnswered, PublishORVDEmergency, TelemetryFrame, geoVars

(* An authorised mission stays guarded: the status leaves AUTHORIZED before  *)
(* the identifier changes, and the mission is stored with the status.      *)
LEMMA AuthorizedStep == IInv /\ [Next]_vars => AuthorizedIsGuarded'
  <1> SUFFICES ASSUME IInv, [Next]_vars PROVE AuthorizedIsGuarded'
    OBVIOUS
  <1> USE LimConstants DEF AuthorizedIsGuarded
  <1>0. AuthorizedIsGuarded /\ HandlerKnows
    BY DEF IInv
  <1>1. CASE Requests
    BY <1>0, <1>1 DEF Requests, LoadOutOfBounds, HandleMissionLoad, HandleORVDTakeoff,
       HandleORVDComplete, HandleUpdateConfig, orvdVars, histVars
  <1>2. CASE RunORVDMissionLoad \/ AskORVD \/ StoreStatus
    BY <1>0, <1>2 DEF RunORVDMissionLoad, AskORVD, Accepted, Refused, StoreStatus,
       HandlerKnows, LoadCalls
  <1>3. CASE TakeoffPoll \/ TakeoffWithoutCall \/ TakeoffGranted \/ TakeoffDenied \/ TakeoffReturns
    BY <1>0, <1>3 DEF TakeoffPoll, TakeoffWithoutCall, TakeoffGranted, TakeoffDenied,
       TakeoffReturns, geoVars, orvdVars, histVars
  <1>4. CASE CompleteConfirmed \/ CompleteFails \/ HandleRevokeTakeoff \/ ORVDRevokes
    BY <1>0, <1>4 DEF CompleteConfirmed, CompleteFails, HandleRevokeTakeoff, ORVDRevokes,
       geoVars, orvdVars
  <1>5. CASE LoopRuns \/ SendTelemetry("handler") \/ UNCHANGED vars
    BY <1>0, <1>5, LoopEffect DEF vars, geoVars, orvdVars, histVars
  <1>6. CASE Restart
    BY <1>6 DEF Restart
  <1> QED BY <1>1, <1>2, <1>3, <1>4, <1>5, <1>6 DEF Next, HandlerRuns

(* The take-off flag stays backed: it is set with ORVD's clearance, and what *)
(* withdraws the clearance leaves a revocation or a lost answer behind.     *)
LEMMA TakeoffStep == IInv /\ [Next]_vars => TakeoffFlagSound'
  <1> SUFFICES ASSUME IInv, [Next]_vars PROVE TakeoffFlagSound'
    OBVIOUS
  <1> USE LimConstants DEF TakeoffFlagSound
  <1>0. TakeoffFlagSound /\ HandlerKnows /\ AuthorizedIsGuarded
    BY DEF IInv
  <1>1. CASE Requests
    BY <1>0, <1>1 DEF Requests, LoadOutOfBounds, HandleMissionLoad, HandleORVDTakeoff,
       HandleORVDComplete, HandleUpdateConfig, HandlerFrame, ClearTakeoff, orvdVars, histVars
  <1>2. CASE RunORVDMissionLoad \/ AskORVD \/ StoreStatus
    <2>1. ~ takeoffAuthorized'
      BY <1>0, <1>2 DEF RunORVDMissionLoad, AskORVD, Accepted, Refused, StoreStatus,
         HandlerKnows, LoadCalls, ClearTakeoff
    <2> QED BY <2>1
  <1>3. CASE TakeoffPoll \/ TakeoffWithoutCall \/ TakeoffGranted \/ TakeoffDenied \/ TakeoffReturns
    BY <1>0, <1>3 DEF TakeoffPoll, TakeoffWithoutCall, TakeoffGranted, TakeoffDenied,
       TakeoffReturns, TakeoffCalls, GrantTakeoff, AuthorizedIsGuarded, HandlerKnows,
       HandlerFrame, Live, geoVars, orvdVars, histVars
  <1>4. CASE CompleteConfirmed \/ CompleteFails \/ HandleRevokeTakeoff \/ ORVDRevokes
    BY <1>0, <1>4 DEF CompleteConfirmed, CompleteFails, HandleRevokeTakeoff, ORVDRevokes,
       ClearTakeoff, HandlerFrame, geoVars, orvdVars
  <1>5. CASE LoopRuns \/ SendTelemetry("handler") \/ UNCHANGED vars
    BY <1>0, <1>5, LoopEffect DEF vars, geoVars, orvdVars, histVars
  <1>6. CASE Restart
    BY <1>6 DEF Restart
  <1> QED BY <1>1, <1>2, <1>3, <1>4, <1>5, <1>6 DEF Next, HandlerRuns

(* What the handler knows while it waits stays true: only the handler       *)
(* itself writes the ORVD session.                                         *)
LEMMA HandlerStep == IInv /\ [Next]_vars => HandlerKnows'
  <1> SUFFICES ASSUME IInv, [Next]_vars PROVE HandlerKnows'
    OBVIOUS
  <1> USE LimConstants DEF HandlerKnows
  <1>0. HandlerKnows /\ ORVDTypeOK /\ ThreadsTypeOK
    BY DEF IInv, TypeOK
  <1>1. CASE Requests
    BY <1>0, <1>1 DEF Requests, LoadOutOfBounds, HandleMissionLoad, HandleORVDTakeoff,
       HandleORVDComplete, HandleUpdateConfig, Named, StartRequest, HandlerFrame,
       ClearTakeoff, ORVDTypeOK, LoadCalls, orvdVars, histVars
  <1>2. CASE RunORVDMissionLoad \/ AskORVD \/ StoreStatus
    BY <1>0, <1>2 DEF RunORVDMissionLoad, AskORVD, Accepted, Refused, StoreStatus,
       HandlerFrame, ClearTakeoff, LoadCalls
  <1>3. CASE TakeoffPoll \/ TakeoffWithoutCall \/ TakeoffGranted \/ TakeoffDenied \/ TakeoffReturns
    BY <1>0, <1>3 DEF TakeoffPoll, TakeoffWithoutCall, TakeoffGranted, TakeoffDenied,
       TakeoffReturns, TakeoffCalls, GrantTakeoff, HandlerFrame, LoadCalls, geoVars,
       orvdVars, histVars, ThreadsTypeOK, Threads
  <1>4. CASE CompleteConfirmed \/ CompleteFails \/ HandleRevokeTakeoff \/ ORVDRevokes
    BY <1>0, <1>4 DEF CompleteConfirmed, CompleteFails, HandleRevokeTakeoff, ORVDRevokes,
       ClearTakeoff, HandlerFrame, geoVars, orvdVars, LoadCalls
  <1>5. CASE SendTelemetry("handler")
    BY <1>0, <1>5, LoopEffect DEF SendTelemetry, BeginTelemetry, TelemetryAnswered,
       PublishORVDEmergency, orvdVars, ThreadsTypeOK, Threads
  <1>6. CASE LoopRuns
    <2>1. tpc'["handler"] = tpc["handler"]
      BY <1>0, <1>6 DEF LoopRuns, PollNavigation, PollORVDTelemetry, Recalculate,
         StoreVerdict, ReportIncident, PublishEmergency, SendTelemetry, BeginTelemetry,
         TelemetryAnswered, PublishORVDEmergency, ThreadsTypeOK, Threads
    <2> QED BY <1>0, <1>6, <2>1, LoopEffect DEF orvdVars
  <1>7. CASE UNCHANGED vars
    BY <1>0, <1>7 DEF vars, orvdVars, histVars
  <1>8. CASE Restart
    BY <1>8 DEF Restart, Threads, LoadCalls
  <1> QED BY <1>1, <1>2, <1>3, <1>4, <1>5, <1>6, <1>7, <1>8 DEF Next, HandlerRuns

(* The loop begins no telemetry call without the flag, so the one that was  *)
(* under way when the flag was cleared is the only late one.               *)
LEMMA LateStep == IInv /\ [Next]_vars => LateAlarmsBounded' /\ LoopTelemetry'
  <1> SUFFICES ASSUME IInv, [Next]_vars PROVE LateAlarmsBounded' /\ LoopTelemetry'
    OBVIOUS
  <1> USE LimConstants DEF LateAlarmsBounded, LoopTelemetry
  <1>0. LateAlarmsBounded /\ LoopTelemetry /\ HandlerKnows /\ ThreadsTypeOK
    BY DEF IInv, TypeOK
  <1>1. CASE Requests
    BY <1>0, <1>1 DEF Requests, LoadOutOfBounds, HandleMissionLoad, HandleORVDTakeoff,
       HandleORVDComplete, HandleUpdateConfig, HandlerFrame, ClearTakeoff, orvdVars, histVars
  <1>2. CASE RunORVDMissionLoad \/ AskORVD \/ StoreStatus
    BY <1>0, <1>2 DEF RunORVDMissionLoad, AskORVD, Accepted, Refused, StoreStatus,
       HandlerFrame, ClearTakeoff
  <1>3. CASE TakeoffPoll \/ TakeoffWithoutCall \/ TakeoffGranted \/ TakeoffDenied \/ TakeoffReturns
    BY <1>0, <1>3 DEF TakeoffPoll, TakeoffWithoutCall, TakeoffGranted, TakeoffDenied,
       TakeoffReturns, GrantTakeoff, HandlerFrame, orvdVars, histVars
  <1>4. CASE CompleteConfirmed \/ CompleteFails \/ HandleRevokeTakeoff \/ ORVDRevokes
    BY <1>0, <1>4 DEF CompleteConfirmed, CompleteFails, HandleRevokeTakeoff, ORVDRevokes,
       ClearTakeoff, HandlerFrame, orvdVars
  <1>5. CASE SendTelemetry("handler")
    <2>1. takeoffAuthorized
      BY <1>0, <1>5 DEF SendTelemetry, BeginTelemetry, TelemetryAnswered,
         PublishORVDEmergency, HandlerKnows
    <2> QED BY <1>5, <2>1, LoopEffect DEF orvdVars
  <1>6. CASE SendTelemetry("loop")
    BY <1>0, <1>6 DEF SendTelemetry, BeginTelemetry, TelemetryAnswered,
       PublishORVDEmergency, TelemetryFrame, orvdVars, ThreadsTypeOK, Threads
  <1>7. CASE LoopRuns /\ ~ SendTelemetry("loop")
    <2>1. UNCHANGED <<takeoffAuthorized, late>> /\ tpc'["loop"] \in {tpc["loop"], "begin"}
      BY <1>0, <1>7 DEF LoopRuns, PollNavigation, PollORVDTelemetry, Recalculate,
         StoreVerdict, ReportIncident, PublishEmergency, LoopFrame, orvdVars,
         ThreadsTypeOK, Threads
    <2> QED BY <1>0, <2>1
  <1>8. CASE UNCHANGED vars
    BY <1>0, <1>8 DEF vars, orvdVars, histVars
  <1>9. CASE Restart
    BY <1>9 DEF Restart, Threads
  <1> QED BY <1>1, <1>2, <1>3, <1>4, <1>5, <1>6, <1>7, <1>8, <1>9 DEF Next, HandlerRuns

-----------------------------------------------------------------------------
(* The parts of the inductive invariant hold together.                     *)
THEOREM Invariance == Spec => []IInv
  <1>1. IInv /\ [Next]_vars => IInv'
    BY GeoTypeStep, ORVDTypeStep, ThreadsTypeStep, AuthorizedStep, TakeoffStep, HandlerStep,
       LateStep DEF IInv, TypeOK
  <1> QED BY <1>1, InitIInv, PTL DEF Spec

(* Type correctness.                                                       *)
THEOREM TypeCorrect == Spec => []TypeOK
  <1>1. IInv => TypeOK
    BY DEF IInv
  <1> QED BY <1>1, Invariance, PTL

(* A mission reported AUTHORIZED is within bounds, guarded by the geofence  *)
(* and authorised by ORVD, after any sequence of loads and restarts        *)
(* (handleMissionLoad, runORVDMissionLoad).                                *)
THEOREM AuthorizedGuarded == Spec => []AuthorizedIsGuarded
  <1>1. IInv => AuthorizedIsGuarded
    BY DEF IInv
  <1> QED BY <1>1, Invariance, PTL

(* The take-off flag is backed by ORVD's clearance, but for the two         *)
(* windows its definition names (handleRevokeTakeoff,                      *)
(* runORVDRequestTakeoff, runORVDCompleteMission).                         *)
THEOREM TakeoffBacked == Spec => []TakeoffFlagSound
  <1>1. IInv => TakeoffFlagSound
    BY DEF IInv
  <1> QED BY <1>1, Invariance, PTL

(* At most one stale alarm of ORVD telemetry follows the clearing of the    *)
(* take-off flag (runORVDSendTelemetry).                                   *)
THEOREM LateAlarmBound == Spec => []LateAlarmsBounded
  <1>1. IInv => LateAlarmsBounded
    BY DEF IInv
  <1> QED BY <1>1, Invariance, PTL

=============================================================================
