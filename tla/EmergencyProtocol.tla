------------------------- MODULE EmergencyProtocol -------------------------
(***************************************************************************)
(* The emergency landing of the drone: the limiter raises an alarm, the     *)
(* security monitor forwards it, the emergency component isolates the      *)
(* drone, closes the cargo bay and lands, and the executors obey.          *)
(*                                                                         *)
(*   limiter --limiter_event--> [monitor] --> emergency                    *)
(*   emergency --ISOLATION_START (direct)--> [monitor]                     *)
(*   emergency --CLOSE, LAND, LOG_EVENT--> [monitor] --> cargo, motors     *)
(*   autopilot --SET_TARGET, OPEN, CLOSE--> [monitor] --> motors, cargo    *)
(*                                                                         *)
(* All arrows into the monitor share one FIFO topic.  The monitor is the    *)
(* module SecurityMonitor; here the other components are its environment.  *)
(* The autopilot and the operators are ClientPublish, with the messages of *)
(* the constant ClientMessages.                                            *)
(***************************************************************************)
EXTENDS SecurityMonitor

CONSTANTS
  ReportsIncident,  \* ORVD is configured and not mocked (callORVD is made)
  MaxRecalc         \* bound: changes of the limiter's verdict

VARIABLES
  limState, limPc,  \* limiter: verdict, and the steps of publishEmergency
  recalcs,          \* counter of the bound MaxRecalc
  emPc, active,     \* emergency: steps of handleLimiterEvent, and its flag
  exec,             \* executors: motors.mode and cargo.state
  sitl,             \* last command the simulator got from the motors
  safeEpoch,        \* history: epoch of the last LAND / CLOSE executed
  landAsked         \* history: LAND was published since the last ISOLATION_START

limVars == <<limState, limPc, recalcs>>
emVars == <<emPc, active, landAsked>>
execVars == <<exec, sitl, safeEpoch>>
evars == <<vars, limVars, emVars, execVars>>

Executors == {"motors", "cargo"}
Verdicts == {"NORMAL", "WARNING", "EMERGENCY"}
MotorModes == {"IDLE", "TRACKING", "LANDING"}
BayStates == {"OPEN", "CLOSED"}

(* The command of the emergency protocol to each executor, and the state it *)
(* brings about.                                                           *)
SafeCommand(x) == IF x = "motors" THEN "LAND" ELSE "CLOSE"
SafeState(x) == IF x = "motors" THEN "LANDING" ELSE "CLOSED"

ASSUME EPConstants ==
  /\ {"autopilot", "cargo"} \subseteq Sender
  /\ {"emergency", "orvd"} \subseteq Topic
  /\ {"SET_TARGET", "OPEN", "limiter_event", "report_incident",
      "proxy_publish", "proxy_request"} \subseteq Action
  /\ ReportsIncident \in BOOLEAN
  /\ MaxRecalc \in Nat

-----------------------------------------------------------------------------
(* Messages *)

Direct(a, s) ==
  [action |-> a, sender |-> s, origin |-> s, payload |-> NoPayload, epoch |-> 0]

ProxyMsg(a, s, t, cmd) ==
  [Direct(a, s) EXCEPT
     !.payload = [topic |-> t, action |-> cmd, data |-> NoPayload]]

ProxyPublishAsync(s, t, cmd) == ProxyMsg("proxy_publish", s, t, cmd)
LogEvent(s) == ProxyPublishAsync(s, "journal", "LOG_EVENT")

(* Component c takes the next message of its topic.                        *)
Take(c) ==
  /\ queue[c] # <<>>
  /\ queue' = [queue EXCEPT ![c] = Tail(@)]

(* Component c takes its next message and publishes m in the same handler.  *)
TakeAndPublish(c, m) ==
  /\ queue[c] # <<>>
  /\ \E q \in Published(queue[ME], m) :
       queue' = [queue EXCEPT ![c] = Tail(@), ![ME] = q]

Next1(c) == Head(queue[c])

-----------------------------------------------------------------------------
(* Limiter: control loop *)

(* recalculate: a verdict is acted on only when it changes, and it is       *)
(* stored before the alarm is published.                                   *)
Recalculate(verdict) ==
  /\ limPc = "idle"
  /\ recalcs < MaxRecalc
  /\ verdict # limState
  /\ limState' = verdict
  /\ recalcs' = recalcs + 1
  /\ limPc' = IF verdict = "EMERGENCY" THEN "report" ELSE "idle"
  /\ IF verdict = "NORMAL"
     THEN UNCHANGED queue
     ELSE PublishToMonitor(LogEvent("limiter"))
  /\ UNCHANGED <<smVars, sent, restarts, emVars, execVars>>

(* publishEmergency reports the incident to ORVD and waits for the answer.  *)
ReportIncident ==
  /\ limPc = "report"
  /\ \/ /\ ReportsIncident
        /\ limPc' = "wait"
        /\ PublishToMonitor(ProxyMsg("proxy_request", "limiter", "orvd", "report_incident"))
     \/ /\ limPc' = "alarm"
        /\ UNCHANGED queue
  /\ UNCHANGED <<smVars, sent, restarts, limState, recalcs, emVars, execVars>>

ReportReturns ==
  /\ limPc = "wait"
  /\ limPc' = "alarm"
  /\ UNCHANGED <<smVars, queue, sent, restarts, limState, recalcs, emVars, execVars>>

PublishAlarm ==
  /\ limPc = "alarm"
  /\ limPc' = "idle"
  /\ PublishToMonitor(ProxyPublishAsync("limiter", "emergency", "limiter_event"))
  /\ UNCHANGED <<smVars, sent, restarts, limState, recalcs, emVars, execVars>>

-----------------------------------------------------------------------------
(* Emergency: handleLimiterEvent publishes four messages in a row and gives *)
(* up, active reset, at the first publish that fails.                      *)

(* Mutant of HandleLimiterEvent: the protocol forgets the isolation.       *)
HandleLimiterEventNoIsolation ==
  /\ emPc = "idle"
  /\ Take("emergency")
  /\ emPc' = "close" /\ active' = TRUE
  /\ UNCHANGED <<smVars, sent, restarts, limVars, landAsked, execVars>>

HandleLimiterEvent ==
  /\ emPc = "idle"
  /\ Take("emergency")
  /\ IF Next1("emergency").action = "limiter_event"
     THEN emPc' = "isolate" /\ active' = TRUE
     ELSE UNCHANGED <<emPc, active>>
  /\ UNCHANGED <<smVars, sent, restarts, limVars, landAsked, execVars>>

(* Mutant of EmergencyStep: an early return leaves the flag set.           *)
EmergencyStepKeepingActive(at, m, next) ==
  /\ emPc = at
  /\ \/ queue' = [queue EXCEPT ![ME] = Append(@, m)] /\ emPc' = next
     \/ LossyBus /\ emPc' = "idle" /\ UNCHANGED queue
  /\ UNCHANGED <<smVars, sent, restarts, limVars, execVars, active>>

EmergencyStep(at, m, next) ==
  /\ emPc = at
  /\ \/ /\ queue' = [queue EXCEPT ![ME] = Append(@, m)]
        /\ emPc' = next
        /\ UNCHANGED active
     \/ /\ LossyBus
        /\ emPc' = "idle"
        /\ active' = FALSE
        /\ UNCHANGED queue
  /\ UNCHANGED <<smVars, sent, restarts, limVars, execVars>>

StartIsolation ==
  /\ EmergencyStep("isolate", Direct("ISOLATION_START", "emergency"), "close")
  /\ landAsked' = FALSE

CloseCargo ==
  /\ EmergencyStep("close", ProxyPublishAsync("emergency", "cargo", "CLOSE"), "land")
  /\ UNCHANGED landAsked

LandMotors ==
  /\ EmergencyStep("land", ProxyPublishAsync("emergency", "motors", "LAND"), "log")
  /\ landAsked' = (queue' # queue)

LogProtocol ==
  /\ EmergencyStep("log", LogEvent("emergency"), "idle")
  /\ UNCHANGED landAsked

-----------------------------------------------------------------------------
(* Executors: they obey the monitor only, and other actions (get_state)     *)
(* change nothing.                                                         *)

Obey(x, state) ==
  /\ exec' = [exec EXCEPT ![x] = state]
  /\ safeEpoch' = IF Next1(x).action = SafeCommand(x)
                  THEN [safeEpoch EXCEPT ![x] = Next1(x).epoch]
                  ELSE safeEpoch

(* The motors also publish the command to the simulator (emitSITL).        *)
EmitSITL(cmd) == sitl' \in {cmd} \cup (IF LossyBus THEN {sitl} ELSE {})

MotorsHandle(a, state) ==
  /\ queue["motors"] # <<>>
  /\ Next1("motors").action = a
  /\ Take("motors")
  /\ IF Next1("motors").sender = ME
     THEN Obey("motors", state) /\ EmitSITL(a)
     ELSE UNCHANGED execVars
  /\ UNCHANGED <<smVars, sent, restarts, limVars, emVars>>

(* Mutant of HandleLand: a mode outside the motors' modes.                 *)
HandleLandUnknownMode == MotorsHandle("LAND", "LANDED")

HandleSetTarget == MotorsHandle("SET_TARGET", "TRACKING")
HandleLand == MotorsHandle("LAND", "LANDING")

(* A change of the bay is logged to the journal, through the monitor.      *)
CargoHandle(a, state) ==
  /\ queue["cargo"] # <<>>
  /\ Next1("cargo").action = a
  /\ IF Next1("cargo").sender = ME
     THEN /\ Obey("cargo", state)
          /\ IF exec["cargo"] # state
             THEN TakeAndPublish("cargo", LogEvent("cargo"))
             ELSE Take("cargo")
     ELSE Take("cargo") /\ UNCHANGED <<exec, safeEpoch>>
  /\ UNCHANGED <<smVars, sent, restarts, limVars, emVars, sitl>>

HandleOpen == CargoHandle("OPEN", "OPEN")
HandleClose == CargoHandle("CLOSE", "CLOSED")

ExecutorIgnores(x) ==
  /\ queue[x] # <<>>
  /\ Next1(x).action \notin {"SET_TARGET", "LAND", "OPEN", "CLOSE"}
  /\ Take(x)
  /\ UNCHANGED <<smVars, sent, restarts, limVars, emVars, execVars>>

-----------------------------------------------------------------------------
EInit ==
  /\ Init
  /\ limState = "NORMAL" /\ limPc = "idle" /\ recalcs = 0
  /\ emPc = "idle" /\ active = FALSE /\ landAsked = FALSE
  /\ exec = [x \in Executors |-> IF x = "motors" THEN "IDLE" ELSE "CLOSED"]
  /\ sitl = "none"
  /\ safeEpoch = [x \in Executors |-> 0]

LimiterPublishes == ReportIncident \/ ReportReturns \/ PublishAlarm
EmergencyRuns ==
  HandleLimiterEvent \/ StartIsolation \/ CloseCargo \/ LandMotors \/ LogProtocol
MotorsRun == HandleSetTarget \/ HandleLand \/ ExecutorIgnores("motors")
CargoRuns == HandleOpen \/ HandleClose \/ ExecutorIgnores("cargo")

OthersStep ==
  \/ \E v \in Verdicts : Recalculate(v)
  \/ LimiterPublishes
  \/ EmergencyRuns
  \/ MotorsRun
  \/ CargoRuns

ENext ==
  \/ MonitorStep /\ UNCHANGED <<limVars, emVars, execVars>>
  \/ (\E m \in ClientMessages : ClientPublish(m)) /\ UNCHANGED <<limVars, emVars, execVars>>
  \/ OthersStep

ESpec == EInit /\ [][ENext]_evars

(* Every consumer goroutine and the limiter's loop keep running; requests   *)
(* time out.  Nothing forces an alarm, a client or the watchdog.           *)
EFairSpec ==
  /\ ESpec
  /\ WF_evars(HandlerStep /\ UNCHANGED <<limVars, emVars, execVars>>)
  /\ WF_evars(LimiterPublishes)
  /\ WF_evars(EmergencyRuns)
  /\ WF_evars(MotorsRun)
  /\ WF_evars(CargoRuns)

-----------------------------------------------------------------------------
(* Properties *)

(* The variables of the other components are well typed.                   *)
ETypeOK ==
  /\ limState \in Verdicts /\ limPc \in {"idle", "report", "wait", "alarm"}
  /\ recalcs \in 0..MaxRecalc
  /\ emPc \in {"idle", "isolate", "close", "land", "log"}
  /\ active \in BOOLEAN /\ landAsked \in BOOLEAN
  /\ exec \in [Executors -> MotorModes \cup BayStates]
  /\ exec["motors"] \in MotorModes /\ exec["cargo"] \in BayStates
  /\ sitl \in {"none", "SET_TARGET", "LAND"}
  /\ safeEpoch \in [Executors -> Nat]

(* Once an executor obeyed a LAND (CLOSE) that the monitor forwarded in the *)
(* present isolation, it keeps LANDING (the bay keeps CLOSED) until the     *)
(* isolation ends: no SET_TARGET or OPEN of the autopilot, however long it  *)
(* was queued or held by a proxy handler, is obeyed after it.              *)
SafeStateHolds ==
  \A x \in Executors :
    (mode = "ISOLATED" /\ restarts = 0 /\ safeEpoch[x] = version)
      => exec[x] = SafeState(x)

(* The flag "active" of the emergency component tells the truth: when the   *)
(* handler has returned and the flag is set, LAND was published after the   *)
(* last ISOLATION_START (each early return resets the flag).               *)
ActiveMeansLandAsked == (active /\ emPc = "idle") => landAsked

(* An alarm of the limiter ends with the motors landing, the simulator told *)
(* so and the bay closed, and it stays so: with a bus that does not fail,   *)
(* no restart, no watchdog and nobody ending the isolation.                *)
AlarmLands ==
  (limPc = "alarm") ~> [](/\ exec["motors"] = "LANDING" /\ sitl = "LAND"
                          /\ exec["cargo"] = "CLOSED")

(* A landing commanded in isolation goes on until ISOLATION_END, which alone *)
(* restores the base policies, in a fleet where nobody sends ISOLATION_END.  *)
LandingUntilIsolationEnd ==
  (safeEpoch["motors"] # 0 /\ safeEpoch["motors"] % 2 = 0)
    => exec["motors"] = "LANDING"

(* The composition implements the abstract landing: an executor is held    *)
(* from the moment it obeys the safe command of the present isolation.      *)
Held ==
  {x \in Executors : mode = "ISOLATED" /\ restarts = 0 /\ safeEpoch[x] = version}

Landing == INSTANCE EmergencyLanding WITH
  States <- MotorModes \cup BayStates,
  Safe <- [x \in Executors |-> SafeState(x)],
  isolated <- (mode = "ISOLATED"),
  held <- Held

(* Every step of limiter, monitor, emergency, motors and cargo is a step of *)
(* the abstract landing: isolations begin and end for both executors at     *)
(* once, and an executor, once secured, is let go by nothing else: not by a *)
(* second alarm, a second ISOLATION_START or a command delayed on its way.  *)
ImplementsLanding == Landing!Spec

-----------------------------------------------------------------------------
(* The inductive invariant behind SafeStateHolds and ImplementsLanding *)

(* The epochs an executor x has seen (e) or will see (queue q) are not       *)
(* later than the present version v.                                       *)
EpochsUpTo(q, e, v) == e <= v /\ \A i \in 1..Len(q) : q[i].epoch <= v

IsSafe(x, m, v) == m.action = SafeCommand(x) /\ m.epoch = v

(* Nothing but the safe command of version v follows one of version v.      *)
CleanAfterSafe(x, q, e, v) ==
  /\ e = v => \A i \in 1..Len(q) : IsSafe(x, q[i], v)
  /\ \A i, j \in 1..Len(q) : (i < j /\ IsSafe(x, q[i], v)) => IsSafe(x, q[j], v)

SafeCommanded(x, q, e, v) ==
  e = v \/ \E i \in 1..Len(q) : IsSafe(x, q[i], v)

EpochsBounded ==
  restarts = 0 =>
    \A x \in Executors : EpochsUpTo(queue[x], safeEpoch[x], version)

NothingUnsafeBehind ==
  (mode = "ISOLATED" /\ restarts = 0) =>
    \A x \in Executors : CleanAfterSafe(x, queue[x], safeEpoch[x], version)

(* ... nor does a proxy handler hold anything else for that executor.       *)
NothingUnsafeHeld ==
  (mode = "ISOLATED" /\ restarts = 0 /\ pc = "checked") =>
    \A x \in Executors :
      (/\ cur.payload.topic = x
       /\ SafeCommanded(x, queue[x], safeEpoch[x], version))
        => cur.payload.action = SafeCommand(x)

EInv ==
  /\ IInv
  /\ ETypeOK
  /\ EpochsBounded
  /\ NothingUnsafeBehind
  /\ NothingUnsafeHeld
  /\ SafeStateHolds

=============================================================================
