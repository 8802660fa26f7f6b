# TLA+ models of the drone's safety core

The repository is the on-board software of a delivery drone: a set of Go
processes that talk only through a message broker (Kafka or MQTT), with one
process, the security monitor, as the gateway between all others. This
directory holds TLA+ models of the processes that decide whether the drone may
fly, where it may fly and how it is brought down, and of the requests between
them that load a mission and poll its state, the TLC configurations that check
them, and proofs of their safety properties checked by TLAPS.

    tlc -workers 2 -config sm_monitor.cfg MCSecurityMonitor
    tlapm SecurityMonitorProofs.tla

## 1. The system

### Components

| Component | State | Operations | Talks to |
|---|---|---|---|
| security monitor (`security_monitor/src`) | safety mode with version and source, active and base policy tables, last time each watched sender was heard | proxy_request, proxy_publish, set/remove/clear/list_policies, ISOLATION_START/END, isolation_status, safety_heartbeat; a watchdog goroutine | everybody: it forwards under its own name what the active table allows, and logs mode transitions to the journal |
| limiter (`limiter/src`) | loaded mission, last position, verdict, limits, ORVD status/phase/mission id, take-off flag | mission_load, orvd_takeoff, orvd_complete, revoke_takeoff, update_config, get_state; a control loop | ORVD (authorisation, take-off, telemetry, incidents, completion), navigation, telemetry, emergency |
| emergency (`emergency/src`) | the flag `active`; droneport phase, mission, last error and start of the charge wait | limiter_event, droneport_takeoff, droneport_land, droneport_event | monitor (ISOLATION_START directly), cargo, motors, journal, droneport |
| autopilot (`autopilot/src`) | flight state, mission, waypoint index, KOVER flag, last position, preflight start time | mission_load, cmd (START, PAUSE, RESUME, ABORT, RESET, EMERGENCY_STOP, KOVER), get_state; a control loop | limiter, emergency, navigation, motors, cargo |
| motors (`motors/src`) | mode, last target | SET_TARGET, LAND, get_state | the simulator (SITL) |
| cargo (`cargo/src`) | bay open or closed | OPEN, CLOSE, get_state | journal |
| mission handler (`mission_handler/src`) | last mission, last error | LOAD_MISSION, VALIDATE_ONLY | limiter, then autopilot |
| navigation (`navigation/src`) | last state | nav_state, update_config, get_state | |
| telemetry (`telemetry/src`) | last state of navigation, motors and cargo | get_state; a poll loop | the three, by proxy_request |
| journal (`journal/src`) | an append-only file | LOG_EVENT | |
| component runtime (`component/src`) and bus (`bus/src`) | handler table; pending requests by correlation identifier | dispatch, request with timeout, proxy helpers | the broker |

Certification, credential generation, configuration, the stubs and the
deployment files take part in no run-time protocol.

### How they interact

* Every command is wrapped into `proxy_publish` or `proxy_request` and sent to
  the monitor's topic. The executors obey only the sender `security_monitor`.
* Each process consumes its topic in one goroutine, one message at a time. A
  handler that makes a request blocks that goroutine until the answer or the
  timeout.
* Autopilot, limiter and monitor have a second goroutine (control loop or
  watchdog) that shares the state of the first under a mutex, takes snapshots,
  releases the mutex, calls other components, and writes back.
* An emergency starts in the limiter (geofence, ORVD's LAND, a revocation) or in
  the watchdog, and ends in the executors.

### What is hard, and what correctness means

* *Check, then act.* Policy check and forwarding in the monitor, snapshot and
  write-back in the autopilot and limiter: what another goroutine does in
  between must not undo an isolation, a stop or a revocation, or at most for one
  message.
* *Order across queues.* A target the autopilot sent before an isolation may
  arrive after it. No executor may leave its safe state for it.
* *Partial failure.* The emergency protocol is four publishes, each of which may
  fail; an answer of ORVD may be lost after ORVD acted on it.
* *Restarts.* All state is in memory; the supervisor restarts processes.
* *Late answers.* A request that timed out is still in a queue and is carried
  out later; its reply comes when its owner already waits for another one.
* *Nested waiting.* A request through the monitor blocks the monitor's only
  consumer, and the component asked may itself need the monitor to answer.
* *Progress.* A silent component must lead to isolation, an alarm to a landing,
  a preflight to a decision, and no circle of waiting handlers may be for ever.

The list `hazards` of PROJECT.json places each of these at a line of the code.

## 2. Modules

| Module | Models | Checked by | Proved in |
|---|---|---|---|
| `SecurityMonitor` | the monitor, the bus as it sees it | `MCSecurityMonitor` | `SecurityMonitorProofs` |
| `EmergencyProtocol` (extends `SecurityMonitor`) | limiter alarm, emergency protocol, motors, cargo, as environment of the monitor | `MCEmergencyProtocol` | `EmergencyProtocolProofs` |
| `Autopilot` | both goroutines of the autopilot | `MCAutopilot` | `AutopilotProofs` |
| `EmergencyLanding` | abstract: what the emergency landing promises | through `EmergencyProtocol` | `EmergencyProtocolProofs` |
| `Limiter` | both goroutines of the limiter, with ORVD as a free environment | `MCLimiter` | `LimiterProofs` |
| `DroneportSession` | the droneport side of the emergency component, with the port | `MCDroneportSession` | `DroneportSessionProofs` |
| `MissionChain` | requests and replies over both buses, mission handler, navigation, telemetry; monitor, limiter, ORVD and autopilot as links of the chain | `MCMissionChain` | `MissionChainProofs`, `MissionOrderProofs`, `MissionToldProofs` |
| `MissionLoading` | abstract: what loading a mission promises | through `MissionChain` | `MissionOrderProofs` |

### SecurityMonitor

`mode`, `version`, `source` are the struct `safetyState`; `policies` and
`normalPolicies` the two maps of the same struct; `seen` abstracts the time
stamps of the watched senders to "heard within the timeout". `queue` is the
broker, one FIFO per topic; `pc` and `cur` are the consumer goroutine. A proxy
handler is two steps, `CheckProxy` (policy check, read lock held) and `Forward`
(publish, lock released), because the watchdog can run between them; all other
handlers run with the lock held and are one step. `ProxyRequestReturns` is the
answer or the timeout. `Restart` begins again from the initial tables and either
redelivers the message in hand or not. A publish may fail when `LossyBus` holds.

Messages carry two history fields: `origin`, who published the message first,
and `epoch`, the safety version under which it was forwarded.

### EmergencyProtocol

The limiter is reduced to what its loop does about a verdict: it acts on a
change, may wait for ORVD, then publishes `limiter_event`. The emergency
component is a program counter through the four publishes of
`handleLimiterEvent`. Motors and cargo take messages from their queues and obey
those of the monitor. All processes share the monitor's inbox, so the model has
the orders the broker allows. The autopilot's commands are client messages.

### EmergencyLanding

The promise without the machinery: three variables, the isolation, the set of
executors secured in it, and the state of the executors. `Secure` puts an
executor into its safe state, and `Command` may change only one that is not
secured, until `Release`. `EmergencyProtocol` maps `isolated` to the mode,
`held` to the executors whose `safeEpoch` is the present version (`Held`), and
the executors to themselves; `ImplementsLanding` is the abstract specification
under this mapping, restarts of the monitor included (a restart is a `Release`).
Queues, policies, versions, the watchdog and the limiter are all stutters.

### Autopilot

`hpc` and `cpc` are the two goroutines, `pfAt[t]` the position of
`stepPreFlight` in goroutine `t` (it runs in both). Each unlock followed by a
call is a step boundary: the three checks of the preflight, the decision of
`stepControl` on its snapshot, the write of `COMPLETED`, the descent of KOVER.
Positions and velocities are left out: whether a waypoint is reached and whether
the ground is reached are free choices. A mission is its number of steps and the
set of steps that drop the cargo. A step that is not a map, at which the code
stands still (`autopilot.go:578`), is left out. The history variable `overtook`
says what the control loop was in the middle of when the mission was loaded: in a
preflight, or between a snapshot and its write-back. The locals of `stepPreFlight`
(`pfId`, `asked`) are forgotten when it returns (`LeavePreflight`).

### Limiter

`hpc` and `lpc` are the two goroutines, `tpc[t]` the telemetry call in goroutine
`t`. Each call to ORVD is a step of its own, which can succeed, be refused, fail
before or fail after ORVD acted. What ORVD granted is history (`authorized`,
`clearance`). Latitude and longitude are one coordinate `x`; the deviation is
the one the code computes, from the last waypoint. The geometry on the sphere is
left out.

### DroneportSession

`phase`, `lastMission`, `lastError`, `timer` are the `droneport...` fields of the
struct `Emergency`; the timer is unset, running or past its timeout. `pc` follows
the one goroutine through `runPreflight` and `runPostMissionLand`: the
readiness check, the request for a landing place, the charge wait, the request
for take-off. The port is external: it takes requests from its topic in order,
also those whose sender gave up (`live` is false), grants a take-off only to a
drone it has, and its answer may be lost. `unheard` is history: the port took
the drone and the component was not told. The configuration `cfg` says whether a
topic of the port is set and whether take-offs are mocked; the orchestrator's
topic has a default (`droneport.go:30`), so the session is never born DISABLED.

### MissionChain

`inbox[c]` is the topic of component `c`, `replies[t]` the reply topic of `t`,
`pending[t]` the correlation identifier `t` waits for; a new identifier is one
more than the last of the same component (the code takes it from the clock in
nanoseconds, and one process is assumed not to draw the same twice). `cur[t]` is
the message a handler works on: it is kept while the handler waits for its own
request, and the handler takes no other. `BusRequest`, `Matches`, `TimedOut`,
`Drop` and `Reply` are the bus; `Dispatching` is the difference between the
brokers: Kafka reads the reply topic in a goroutine of its own, the MQTT client
delivers all topics from one goroutine in order, so a handler that waits keeps
its own reply from being seen. A request times out at any moment (`Patient`
delays that to when nothing else can happen), and what was asked stays in the
queues. Errors of the way (timeout, forbidden, failed publish) are the result
`none`; a refusal of the component is `rejected`.

The limiter asks ORVD once here (the steps of it are in `Limiter`), and the
requests of the limiter's and the autopilot's own loops, which put the same
kind of message into the monitor's topic, are represented by telemetry's polls.
Restarts and redelivery are in `SecurityMonitor`, not here.

### MissionLoading

The promise without bus, monitor and timeouts: the missions the limiter ever
accepted, the mission of the limiter, that of the autopilot, and the mission of
the ok that stands (`loaded`). Limiter and autopilot may each take a mission, also
one of a load that was given up, but only while no ok stands, and the autopilot
only an accepted one; `Confirm` is the ok, possible when both hold the same
mission. `MissionChain` has the four variables under the same names, so the
mapping is the identity; `ImplementsLoading` is the abstract specification, and
all queues, correlations and waiting handlers are stutters. `Begin` and `Confirm`
are the mission handler's (`loaded` is history: it is set by the answer ok and
cleared when the next load is taken up), `Accept` the limiter's, `Take` the
autopilot's.

## 3. Runs

| Run | Expect | Question | Distinct states |
|---|---|---|---|
| `sm_monitor` | pass | Do the active table, the version and the journal follow the mode; how much leaks through the check-then-forward gap; can a component borrow the monitor's name; does silence isolate; does the inbox drain? | 436 thousand |
| `ep_safety` | pass | Does an executor that obeyed LAND or CLOSE stay safe for the rest of the isolation, is the flag `active` truthful, and is the abstract landing implemented? | 1.5 million |
| `ep_liveness` | pass | Does every alarm end in a lasting landing, when nothing fails? | 314 thousand |
| `ep_watchdog` | violation | The same with the watchdog on. | |
| `ep_restart` | violation | Does a landing go on until ISOLATION_END across a restart of the monitor? | |
| `ap_flight` | pass | What may the control loop still do after a stop; is a mission executed only when cleared (but for KOVER) and reported only when flown, if its load did not fall into a step of the loop; does the preflight end? | 560 thousand |
| `ap_kover` | violation | Is a mission executed only when cleared, with KOVER? | |
| `lim_limits` | pass | Is what the limiter says of ORVD backed by ORVD; how many stale alarms are there; is a lasting breach alarmed? | 209 thousand |
| `lim_revoke` | violation | Is a revocation obeyed that comes through the monitor? | |
| `dp_session` | pass | Are the phases true of the port, and does a pending preflight end? | 15 thousand |
| `mc_chain` | pass | Does the autopilot hold only accepted missions, is an ok true for the mission handler, what is the platform told, is the abstract loading implemented, is telemetry fresh, and do all handlers return? | 313 thousand |
| `mc_nested` | violation | Is a valid mission that everybody accepts loaded by proxy_request? | |

### Properties

* `ActiveTableFollowsMode`, `VersionTellsMode`, `TransitionsLoggedInOrder`: two
  goroutines switch the mode and an administrator edits policies meanwhile; the
  tables, the version and the journal still tell one story.
* `IsolationLeaksAtMostOne`: the gap between check and forwarding lets at most
  one message outside the emergency table through per isolation.
* `AuthorityNotBorrowed`: however wrong the policies are, no component switches
  the mode or edits policies through a message that bears the monitor's name.
* `SilenceIsolates`, `InboxDrains`: liveness of watchdog and consumer.
* `SafeStateHolds`: once an executor obeyed the protocol's command of the
  present isolation it stays in the safe state until the isolation ends, for any
  backlog in the queues and in spite of the one leaked message.
* `ActiveMeansLandAsked`: no early return leaves the flag set without a LAND.
* `AlarmLands`: an alarm leads to motors landing, simulator told, bay closed,
  for good.
* `StopLeaksAtMostOne`: after ABORT, RESET or EMERGENCY_STOP the loop never
  takes the drone back into flight and sends at most one stale moving target and
  one stale OPEN.
* `ClearedUnlessKover`, `FlownUnlessOvertaken`: a mission is executed only after
  its own preflight, and reported complete only when every waypoint of it was
  reached, also when it replaces another one. Each excuses exactly the gap in
  which this fails: the load fell into a preflight of the control loop, or between
  a snapshot and its write-back (section 4). What they show is that no other order
  of loads, commands and answers leads there.
* `PreflightEnds`: PRE_FLIGHT is left.
* `ImplementsLanding`: the refinement above. A second isolation command during
  an isolation, for example, may not free what was secured.
* `AuthorizedIsGuarded`, `TakeoffFlagSound`, `LateAlarmsBounded`,
  `BreachAlarms`: status, clearance, telemetry and geofence of the limiter.
  `TakeoffFlagSound` excuses a completion of which the limiter never heard, and
  asks for some clearance, not for that of the same mission (section 4).
* `TakeoffIsCleared`: an ok to a take-off request, and the phase DEPARTED that
  gives further ones without asking, mean that the port has cleared the drone
  and not taken it back, unless the answer to a landing was never heard.
* `ChargingIsOnPort`: in CHARGING, where a preflight waits without asking for a
  landing place, the drone is on the port and no take-off request that was given
  up can still remove it. `PendingEnds`: polled again and again, a pending
  preflight ends, even if the port is dead.
* `FliesAcceptedOnly`: the autopilot never holds a mission that the limiter has
  not accepted. `OkMeansLoaded`: when the mission handler answers ok, limiter
  and autopilot hold that mission and no earlier load that was given up can still
  replace it. The order of the queues is what makes this true.
* `ToldIsTrue`: what the platform is told by proxy_request is true of what it
  asked last, and not a late reply to something it gave up: ok means that a valid
  mission was validated, a refusal that this was not what it asked. A load by
  proxy_request is never answered ok (a refusal, also of a valid mission, and an
  error are possible); `mc_nested` shows this for one schedule, `ToldIsTrue` for
  all of them. An ok to a load is the mission handler's only (`OkMeansLoaded`), when
  the load was published.
* `ImplementsLoading`: the refinement of `MissionLoading`.
* `FreshTelemetry`: what telemetry stores for a component is that component's
  state and not older than the poll. `HandlersReturn`: monitor, mission handler
  and limiter, who wait for each other, come to the end of all they were asked.

Each property of a passing run has a mutant in PROJECT.json, a definition whose
body is replaced by a plausible mistake (they stand before the definition they
mutate, under a comment "Mutant of ..."), under which TLC finds it violated.

### Bounds

* Client messages (`MaxSent`): three in `sm_monitor`, from a set with every
  action, senders with and without authority, malformed and self-addressed
  messages. Three are enough for a policy edit, a switch and a proxied message
  in every order; the watchdog and forwarded messages come on top. Two in
  `ep_safety`, so that one command can be in the executor's queue while another
  is held by the proxy handler.
* Restarts: one, since a restart forgets everything but the queues.
* Missions: two where a stale index or identifier must be visible; one mission
  whose altitude is out of bounds for the limiter. Two waypoints, so that "last"
  and "not last" differ.
* `ap_flight`: two missions, two loads, three commands of any kind (a start, a
  stop or KOVER, and one more): enough for a load and a start of another mission
  in any gap of the first one's flight.
* Limiter: three requests of any kind, one revocation, one restart. In
  `lim_limits` the publish of an alarm does not fail, since the code does not
  repeat it and `BreachAlarms` does not hold then (section 4); no other
  property of the run depends on whether it was published.
* `dp_session`: two missions, all four configurations, three requests under way
  to the port (one awaited and two given up); retries and restarts are not
  bounded.
* `mc_chain`: six scenarios chosen in the initial state. Over Kafka without
  ORVD: two loads, and one load against one poll; over Kafka with ORVD: one load;
  over MQTT: one load against one poll; a poll of two components whose states
  change meanwhile, and two polls of the same one, for late replies. Two loads
  are needed for a late first one to meet a second; the third level of nesting
  (limiter to ORVD) shows with one. `mc_nested` has one load, everybody agreeing.

`CHECK_DEADLOCK FALSE` is set for `sm_monitor`, `ep_*` and `mc_*`: when all
clients are silent these processes wait for messages and may do so forever. The
control loops of autopilot and limiter never stop and a droneport session can
always be asked, so their runs check deadlock.

### Fairness

* `SecurityMonitor!FairSpec`: weak fairness of the consumer goroutine
  (`HandlerStep`; a request ends at its timeout) and of the watchdog's ticker
  (`CheckHeartbeatTimeout`). Clients may stop, time need not pass.
* `EFairSpec`: the same for each consumer goroutine and for the limiter's loop
  once it has decided to publish. Nothing makes verdicts, clients or the
  watchdog act.
* `Autopilot!FairSpec`: both goroutines, and the clock of the preflight. Every
  call inside them has a timeout.
* `DroneportSession!FairSpec`: the handler (each of its calls has a timeout), the
  clock of the charge wait, and the autopilot's poll of a pending answer, which
  its control loop repeats on every tick of a preflight. `PendingEnds` is therefore
  conditional on polling: with the defaults the autopilot itself gives up first,
  after 60 seconds (`autopilot.go:109`) of a charge wait of 120 (`droneport.go:63`).
  Nothing forces the port.
* `MissionChain!FairSpec`: the consumers of monitor, mission handler and limiter;
  a request that waits ends at its timeout at the latest. Nothing forces the
  platform, ORVD, the components asked, or the delivery of a reply.
* `Limiter!FairSpec`: both goroutines, for the same reason. Weak fairness is
  enough everywhere since each goroutine, once it can go on, can go on until it
  does.

## 4. What disagrees with the documentation

* `ep_watchdog`: the emergency table has no entry for the limiter. When the
  watchdog isolates first, the limiter's alarm is refused, it is not repeated,
  and no landing is ever commanded.
* `ep_restart`: the mode is in memory only, so a restart of the monitor ends an
  isolation without ISOLATION_END.
* `ap_kover`: KOVER on the ground leaves PAUSED, and RESUME then executes a
  mission that no preflight cleared.
* `lim_revoke`: the limiter wants the sender `orvd`, and what the monitor
  forwards bears the monitor's name.
* `mc_nested`: LOAD_MISSION by proxy_request. The monitor waits for the mission
  handler in its only consumer, the mission handler's own proxy_request waits
  behind it, and only timeouts end it, with an error. The limiter's requests of
  ORVD nest once more: with a real ORVD a load cannot succeed over Kafka even by
  proxy_publish.

Where the properties above make an exception, the code does otherwise than the
documents say. Each of these shows in TLC when the exception is dropped from the
property named:

* `autopilot.go:524` (`ClearedUnlessKover`): after its three checks the preflight
  looks only at the state. A mission loaded and started while the control loop
  waits for the answers about another one is executed on those
  (`docs/orvd_integration.md:96`).
* `autopilot.go:598` (`FlownUnlessOvertaken`): the control loop writes COMPLETED, and
  takes the identifier it reports to ORVD, after the lock was released: a mission
  loaded in between is complete before it began (`docs/orvd_integration.md:187`).
  The index at `autopilot.go:611` is written in the same way and skips waypoints of
  a new mission.
* `opbd_client.go:320` (`TakeoffFlagSound`): when the answer to complete_mission is
  lost the take-off flag stays, and the next preflight is answered from it although
  ORVD has closed the mission (`docs/orvd_integration.md:185`).
* `limiter.go:345` (the same): orvd_takeoff compares its mission with nothing, so the
  flag may be that of another mission than the authorised one.
* `limiter.go:525` (`BreachAlarms`, with `PublishFails`): the alarm is published once
  per change of the verdict; if that publish fails, a lasting breach is never
  alarmed (`limiter.go:1`, `docs/bts3_assets_and_trust_model.md:62`).
* `droneport_client.go:260` (`TakeoffIsCleared`): when the answer to the landing after
  a flight is lost the phase stays DEPARTED, and the next take-off of the mission is
  answered ok while the port has the drone (`docs/droneport_integration.md:93`,
  `:109`).

Observations that need no run of their own:

* `limiter.go:468`: the limit called distance from path (`docs/orvd_integration.md:272`)
  is compared with the distance from the last waypoint only, so the beginning of
  a long authorised route is an emergency.
* Over MQTT (the `BROKER_TYPE` of `docker/.env`) a request made inside a handler
  is never answered: the client is used with its default, ordered delivery. The
  monitor makes all proxied requests inside a handler, so they all time out.
* The shipped policies have no entry for telemetry's get_state of navigation, so
  that part of its poll is always forbidden.
* A VALIDATE_ONLY clears `last_error` while `last_mission` is still that of a
  load that failed.
* The orchestrator's topic has a default, so the phase DISABLED is not the
  initial one without configuration (`docs/droneport_integration.md:105`).
* The start of the charge wait is not cleared when the first readiness check
  succeeds or the preflight is given up (`docs/droneport_integration.md:92`,
  `:143`): the next wait may time out at once.
* After a flight that was aborted the phase stays DEPARTED, and other missions
  are denied until a landing is reported or the process restarts.
* `docs/orvd_integration.md:348` promises `ok: false` for a START the limiter
  refuses, and `handleCmd` answers `ok: true` with the state ABORTED; `:226` says
  that a preflight timeout of 0 means none, and `New` leaves the default of 60
  seconds.

## 5. Proofs

The theorems hold for every value of the constants that satisfies the named
assumptions (`SMConstants`, `EPConstants`, `APConstants`, `LimConstants`, `DPConstants`,
`MCConstants`, `NoMsgIsNone`): any set of components, any policy table, missions of
any length, any limits, and any number of messages, commands and restarts. All but
one of them fix types and the names the code itself uses. `SMConstants` says more:
a client message bears the name of who published it, and none but the monitor
uses the monitor's. The sender is a field of the JSON message that the monitor
does not authenticate (the broker's credentials and access lists are to do this),
so the theorems about the monitor hold under honest sender names.

* **SecurityMonitorProofs.** `Invariance` shows that `IInv` is an invariant,
  from which `TypeCorrect`, `TablesCorrect`, `JournalOrder` and `LeakBound`
  follow; `NoBorrowedAuthority` is the action property. The safety properties
  are not inductive alone. `SendersAttributed` is needed because a queued
  message must still bear its origin's name or the monitor's when it is handled.
  `PendingLeak` is needed because the leak bound depends on the message in hand:
  if it was checked under the base table, nothing has leaked yet. The step
  lemmas are stated for `MonitorStep \/ EnvironmentStep`, where the environment
  may append messages under its own name to the inbox and consume the other
  topics; so the composed system reuses them.
* **EmergencyProtocolProofs.** `MonitorInComposition` shows that every step of
  the composed system is a step of the monitor or of that environment, hence
  `IInv` holds there too. `SafeStateTheorem` proves `SafeStateHolds` with `EInv`:
  no epoch is later than the present version (`EpochsBounded`); in a queue,
  nothing but the safe command follows a safe command of the present isolation
  (`NothingUnsafeBehind`); and once such a command was forwarded the proxy
  handler holds nothing outside the emergency table (`NothingUnsafeHeld`). The
  last one is where the leak bound enters: the leaked message, if any, was
  forwarded before the first message the monitor checked in the isolation.
  `LandingImplemented` is the refinement: the initial states map, and with `EInv`
  each action is an abstract one or a stutter; `EpochsBounded` is what makes a
  new isolation begin with nothing secured. `FlagTruthful` needs a small
  invariant of its own, over the four positions of the handler.
* **AutopilotProofs.** `StopIsBounded` proves `StopLeaksAtMostOne` with
  `StopInv`: a moving target or an OPEN that the loop has still to send was
  decided before the stop, and none has been sent since. `ExecutedIsCleared` and
  `ReportedIsFlown` prove `ClearedUnlessKover` and `FlownUnlessOvertaken` with
  `FlightInv`, for any number of missions. Both goroutines run the preflight, so for
  each the invariant says that the mission it asks for is the loaded one and which
  checks it has passed at its present point (`AsksForMission`); this is what makes
  the answers add up to a clearance of one mission. `ClearedInFlight` covers PAUSED
  beside EXECUTING, because RESUME leads from the one to the other without a
  preflight, and `KoverKnown` says that only KOVER brings the loop to the point
  where it writes PAUSED by itself. `VisitedInOrder` says that the waypoints reached
  are those before the index and, between the snapshot and the write-back of the
  loop, that the snapshot is still that of the mission. These hold while the load
  of the mission did not overtake the loop; that a load can overtake nothing else,
  since the handler's own preflight is over when it takes the next message, is
  `PreflightsIdle`.
* **LimiterProofs.** `AuthorizedGuarded`, `TakeoffBacked` and `LateAlarmBound`,
  with `HandlerKnows` (what the handler knows of its request's mission while it
  waits for ORVD) and `LoopTelemetry` (a telemetry call under way without the
  flag began before the flag was cleared, and has raised no alarm since).

* **DroneportSessionProofs.** `TakeoffCleared` and `ChargingOnPort`, for any
  number of requests under way, with `LiveIsLast` (only the last of them has
  somebody who waits), `GrantIsFresh` (an answer not yet read is still true of the
  port, because nothing is left in its topic) and `PhaseOfHandler`.
* **MissionChainProofs.** `ChainInvariant`, from which `TypeCorrect`,
  `AcceptedOnly` and `TelemetryFresh` follow, for any number of loads, polls and
  sensors and both brokers. The invariant says of every queue that a message
  which bears the newest correlation of its sender carries what the sender last
  asked, and that a reply with that correlation is an honest answer to it: an ok
  about a mission means that the limiter accepted it, a state is of the component
  asked and not older than the question. Older messages and replies may say
  anything, because `Matches` compares the correlation with the pending one, and
  a component waits only for its newest.
* **MissionOrderProofs.** `OkIsLoaded` proves `OkMeansLoaded`, and
  `LoadingImplemented` the refinement of `MissionLoading`. That an answer is honest
  (the chain invariant) does not exclude that an older load, given up, is still in
  a queue behind it. `OrderInv` says it is not: behind the newest request of the
  mission handler the monitor's topic has none of its requests
  (`MonitorInOrder`); behind the newest request of the monitor the topics of
  limiter and autopilot are empty (`LinksInOrder`); so when an ok to the newest
  request is under way, the component has worked off its topic and holds the
  mission (`OkIsTrue`). `LoadedInOrder` carries this from the limiter's answer over
  the autopilot's to the ok. For the refinement it gives the guard of `Accept` and
  `Take`: a component that takes a load finds no ok standing.
* **MissionToldProofs.** `PlatformToldTruth` proves `ToldIsTrue`. Two things make it
  so. A reply counts only while its own request is waited for, on each of the two
  links, platform to monitor and monitor to mission handler: `NoLies` says that no
  wrong reply is under way to one who waits for it. And a load that the monitor
  waits for finds no ok of the limiter (`LoadUnanswered`): that ok would have to
  come from the monitor, which answers nobody before it has given the load up, and
  the mission handler's answer then finds nobody waiting. `ToldInv` speaks of
  the request that is still waited for (`Open`) and not of the newest, as `OrderInv`
  does, because the monitor also publishes to the mission handler, behind a request
  that it gave up.

`MissionChain` has two assumptions: `MCConstants`, and `NoMsgIsNone`, by which the
value that stands for no message is none.

Every safety invariant, action property and refinement that a passing run checks
is proved. Checked by TLC only are the liveness properties, which under fairness
are out of the prover's reach: `SilenceIsolates`, `InboxDrains`, `AlarmLands`,
`PreflightEnds`, `BreachAlarms`, `PendingEnds`, `HandlersReturn`.

## 6. Not modelled

* Journal: it appends events to a file, one at a time; what reaches it in which
  order is in `SecurityMonitor` for mode transitions. The file is I/O.
* Telemetry's analytics posting and the analytics client of the sdk: fire and
  forget, nothing reads the outcome.
* The WPL parser and the validation rules of a mission: text processing, modelled
  by their verdict.
* Connecting, reconnecting and rebalancing of the brokers' clients; broker
  credentials; MQTT quality of service.
* Certification, credential generation, configuration, process entry points and
  stubs: no run-time protocol.
* Payload wording, logging other than mode transitions, geometry on the sphere,
  velocities and headings, battery levels beyond the test made on them, and
  concrete times.
* A publish that returns an error although the message was delivered (a timeout of
  the client), and the redelivery of more than the message in hand after a
  restart. A failed publish appends nothing in the models.
* Restarts of emergency, limiter and executors in `EmergencyProtocol`. After a
  restart of the monitor nothing counts as secured (`Held` is empty), so safety and
  refinement claim nothing there; `ep_restart` is about that case.
* Autopilot and limiter with both of their goroutines in one model: the state
  space is out of TLC's reach. Each has the other as a free environment, which is
  more than the other can do.

## 7. Plan

1. A reduced composition of the autopilot's preflight with the limiter's take-off
   flag, for a load of another mission between the two calls.
2. Restarts of the mission handler and of the limiter in `MissionChain`.
3. Safety parts of the liveness arguments, such as the bound on what a waiting
   handler still has to do, as theorems.
