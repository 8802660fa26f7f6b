---------------------------- MODULE MissionChain ----------------------------
(***************************************************************************)
(* Requests and replies over the bus (bus/src), through the proxy of the     *)
(* security monitor, and the two chains of them that cross the drone:       *)
(*                                                                         *)
(*   platform --LOAD_MISSION--> mission_handler --mission_load--> limiter    *)
(*     limiter --authorize--> orvd ; mission_handler --> autopilot          *)
(*   telemetry --get_state--> navigation, motors, cargo                    *)
(*                                                                         *)
(* Every arrow is a request to the monitor, which repeats it to its target,  *)
(* waits for the reply in its only consumer goroutine, and replies.  A       *)
(* requester keeps a pending entry under a correlation identifier until the  *)
(* reply or the timeout comes.  Journal entries, which nobody waits for, are *)
(* left out; the policies are in SecurityMonitor, the steps of ORVD in       *)
(* Limiter and the use of the mission in Autopilot.                        *)
(***************************************************************************)
EXTENDS Integers, Sequences

CONSTANTS
  Missions, BadMission, NoMission,
  Sensors,              \* the components that telemetry polls
  Scenarios,            \* broker, whether ORVD is asked at all, what is polled in
                        \* which order, and the bounds
  Refusing,             \* monitor, limiter and ORVD may refuse; publishes fail
  Patient,              \* a request times out only when nothing else can happen
  NoMsg, NoAnswer

ME == "security_monitor"
MH == "mission_handler"
Handlers == {MH, "limiter", ME}
Threads == Handlers \cup {"platform", "telemetry"}
Components == Threads \cup {"autopilot", "orvd"} \cup Sensors
Loads == Missions \cup {BadMission}

ASSUME MCConstants ==
  /\ Sensors \cap (Threads \cup {"autopilot", "orvd"}) = {}
  /\ Scenarios \subseteq [broker : {"kafka", "mqtt"}, orvd : BOOLEAN, pollOrder : Seq(Sensors),
                          maxLoads : Nat, maxPolls : Nat, maxSamples : Nat]
  /\ BadMission \notin Missions /\ NoMission \notin Loads
  /\ Refusing \in BOOLEAN /\ Patient \in BOOLEAN

VARIABLES
  scenario,     \* of Scenarios
  inbox,        \* inbox[c]: topic of component c
  replies,      \* replies[t]: reply topic of t
  requests,     \* requests[t]: number of requests made; the next correlation
  pending,      \* pending[t]: correlation that t waits for, or 0
  asked,        \* asked[t]: the last request of t
  cur,          \* cur[t]: message that handler t works on
  lastMission, lastError,           \* mission handler
  limMission, accepted, apMission,  \* missions of limiter and autopilot; history
  loaded,       \* history: mission of the last LOAD_MISSION answered ok
  loads, told,  \* platform: counter of maxLoads, and what it was told last
  sample,       \* sample[s]: version of the state of sensor s
  polls, polled, last               \* telemetry: pollOnce, and what it stored

busVars == <<scenario, inbox, replies, requests, pending, asked, cur>>
missionVars == <<lastMission, lastError, limMission, accepted, apMission, loaded>>
pilotVars == <<loads, told>>
telemetryVars == <<sample, polls, polled, last>>
vars == <<busVars, missionVars, pilotVars, telemetryVars>>

(* What is asked of a topic, and (history) the sample that was current then. *)
Request ==
  [topic : Components, data : Loads \cup {NoMission}, since : Nat,
   action : {"LOAD_MISSION", "VALIDATE_ONLY", "mission_load", "authorize", "get_state"}]

(* A message on a topic; corr is 0 when nobody waits for a reply.           *)
Message == [sender : Threads, corr : Nat, request : Request]

ASSUME NoMsgIsNone == NoMsg \notin Message

(* The answer of component by: its result, or "none" for every error of the  *)
(* way there (timeout, failed publish, forbidden).                         *)
Answer == [result : {"ok", "rejected", "none"}, by : Components, sample : Nat]
ReplyMessage == [corr : Nat, answer : Answer]

Failure == [result |-> "none", by |-> ME, sample |-> 0]
AnswerOf(c, r) == [result |-> r, by |-> c, sample |-> 0]

Ask(c, a, d) ==
  [topic |-> c, data |-> d, since |-> IF c \in Sensors THEN sample[c] ELSE 0,
   action |-> a]

-----------------------------------------------------------------------------
(* The bus *)

(* A component takes the next message of its topic.                        *)
Next1(c) == Head(inbox[c])
Taken(c) == [inbox EXCEPT ![c] = Tail(@)]

(* Bus.Request registers a new correlation and publishes r on topic c, into  *)
(* the inboxes b.                                                          *)
BusRequest(t, c, r, b) ==
  /\ requests' = [requests EXCEPT ![t] = @ + 1]
  /\ pending' = [pending EXCEPT ![t] = requests[t] + 1]
  /\ asked' = [asked EXCEPT ![t] = r]
  /\ inbox' = [b EXCEPT ![c] =
       Append(@, [sender |-> t, corr |-> requests[t] + 1, request |-> r])]

(* ProxyClient.ProxyRequest: the request goes to the monitor's topic.        *)
ProxyRequest(t, r, b) == BusRequest(t, ME, r, b)

(* The goroutine that dispatches the replies of t is free.  Over Kafka the   *)
(* reply topic has its own; over MQTT one goroutine dispatches all topics,   *)
(* so no reply is seen while a handler works.                              *)
Dispatching(t) ==
  scenario.broker = "mqtt" /\ t \in Handlers => cur[t] = NoMsg

(* Mutant of Matches: any reply is taken for the one that is waited for.     *)
MatchesAny(t, r) == pending[t] # 0

(* A reply goes to the request that is pending under its correlation.        *)
Matches(t, r) == pending[t] # 0 /\ pending[t] = r.corr

(* Nothing but a timeout can happen.                                       *)
Stuck ==
  /\ \A t \in Threads : replies[t] = <<>> \/ ~ Dispatching(t)
  /\ \A c \in Components : inbox[c] = <<>> \/ (c \in Handlers /\ cur[c] # NoMsg)

(* Mutant of TimedOut: Bus.Request waits without a timeout.                  *)
NeverTimedOut(t) == FALSE

(* A patient platform waits longer than every handler.                      *)
TimedOut(t) ==
  /\ pending[t] # 0
  /\ Patient => Stuck /\ (t = "platform" => \A u \in Handlers : pending[u] = 0)

HasReply(t) == replies[t] # <<>> /\ Dispatching(t) /\ Matches(t, Head(replies[t]))

(* Bus.Request of t returns with outcome o; answer and replies that are left. *)
Returns(t, o) ==
  \/ o = "reply" /\ HasReply(t)
  \/ o = "timeout" /\ TimedOut(t)
Outcomes == {"reply", "timeout"}
Result(t, o) == IF o = "reply" THEN Head(replies[t]).answer ELSE Failure
Left(t, o) == IF o = "reply" THEN [replies EXCEPT ![t] = Tail(@)] ELSE replies
Forget(t) == pending' = [pending EXCEPT ![t] = 0]

(* A reply that nobody waits for any more has no handler.                   *)
Drop(t) ==
  /\ replies[t] # <<>> /\ Dispatching(t) /\ ~ Matches(t, Head(replies[t]))
  /\ replies' = [replies EXCEPT ![t] = Tail(@)]
  /\ UNCHANGED <<scenario, inbox, requests, pending, asked, cur,
                 missionVars, pilotVars, telemetryVars>>

(* handleMessage publishes the result a to the reply topic of m, if any.     *)
Reply(m, a, b) ==
  replies' = IF m.corr = 0 THEN b
             ELSE [b EXCEPT ![m.sender] = Append(@, [corr |-> m.corr, answer |-> a])]

(* A handler occupies the goroutine of its topic until it returns.          *)
Idle(t) == cur[t] = NoMsg /\ inbox[t] # <<>>
Occupy(t) == cur' = [cur EXCEPT ![t] = Next1(t)]
Finish(t) == cur' = [cur EXCEPT ![t] = NoMsg]

-----------------------------------------------------------------------------
(* The security monitor: proxy_publish and proxy_request *)

MonitorPublishes ==
  /\ Idle(ME) /\ Next1(ME).corr = 0
  /\ inbox' = [Taken(ME) EXCEPT ![Next1(ME).request.topic] =
                 Append(@, [Next1(ME) EXCEPT !.sender = ME])]
  /\ UNCHANGED <<scenario, replies, requests, pending, asked, cur,
                 missionVars, pilotVars, telemetryVars>>

MonitorRequests ==
  /\ Idle(ME) /\ Next1(ME).corr # 0
  /\ Occupy(ME)
  /\ BusRequest(ME, Next1(ME).request.topic, Next1(ME).request, Taken(ME))
  /\ UNCHANGED <<scenario, replies, missionVars, pilotVars, telemetryVars>>

(* The policy or the isolation refuses, or the publish fails.                *)
MonitorRefuses ==
  /\ Idle(ME) /\ Refusing
  /\ inbox' = Taken(ME)
  /\ Reply(Next1(ME), Failure, replies)
  /\ UNCHANGED <<scenario, requests, pending, asked, cur,
                 missionVars, pilotVars, telemetryVars>>

(* The target's response is passed on; an error of the request is an error.  *)
MonitorReturns ==
  /\ cur[ME] # NoMsg
  /\ \E o \in Outcomes :
       Returns(ME, o) /\ Reply(cur[ME], Result(ME, o), Left(ME, o))
  /\ Forget(ME) /\ Finish(ME)
  /\ UNCHANGED <<scenario, inbox, requests, asked, missionVars, pilotVars, telemetryVars>>

-----------------------------------------------------------------------------
(* The platform *)

(* It loads or validates a mission by proxy_request, or by proxy_publish.     *)
PilotAsks(a, d) ==
  /\ loads < scenario.maxLoads
  /\ pending["platform"] = 0
  /\ loads' = loads + 1 /\ told' = "nothing"
  /\ \/ ProxyRequest("platform", Ask(MH, a, d), inbox)
     \/ /\ inbox' = [inbox EXCEPT ![ME] =
             Append(@, [sender |-> "platform", corr |-> 0, request |-> Ask(MH, a, d)])]
        /\ UNCHANGED <<requests, pending, asked>>
  /\ UNCHANGED <<scenario, replies, cur, missionVars, telemetryVars>>

PilotReturns ==
  /\ \E o \in Outcomes :
       /\ Returns("platform", o)
       /\ told' = Result("platform", o).result
       /\ replies' = Left("platform", o)
  /\ Forget("platform")
  /\ UNCHANGED <<scenario, inbox, requests, asked, cur, missionVars, loads, telemetryVars>>

-----------------------------------------------------------------------------
(* The mission handler *)

(* Mutant of InvalidMission: the mission is remembered before it is validated. *)
InvalidMissionRemembered ==
  /\ Idle(MH) /\ Next1(MH).request.data = BadMission
  /\ inbox' = Taken(MH)
  /\ lastMission' = BadMission /\ lastError' = "invalid"
  /\ Reply(Next1(MH), AnswerOf(MH, "rejected"), replies)
  /\ UNCHANGED <<scenario, requests, pending, asked, cur, limMission,
                 accepted, apMission, loaded, pilotVars, telemetryVars>>

(* parseMission and validateMission refuse the mission.                     *)
InvalidMission ==
  /\ Idle(MH) /\ Next1(MH).request.data = BadMission
  /\ inbox' = Taken(MH)
  /\ lastError' = "invalid"
  /\ Reply(Next1(MH), AnswerOf(MH, "rejected"), replies)
  /\ UNCHANGED <<scenario, requests, pending, asked, cur, lastMission, limMission,
                 accepted, apMission, loaded, pilotVars, telemetryVars>>

HandleValidateOnly ==
  /\ Idle(MH) /\ Next1(MH).request.data \in Missions
  /\ Next1(MH).request.action = "VALIDATE_ONLY"
  /\ inbox' = Taken(MH)
  /\ lastError' = ""
  /\ Reply(Next1(MH), AnswerOf(MH, "ok"), replies)
  /\ UNCHANGED <<scenario, requests, pending, asked, cur, lastMission, limMission,
                 accepted, apMission, loaded, pilotVars, telemetryVars>>

(* handleLoadMission up to its request of the limiter ...                   *)
HandleLoadMission ==
  /\ Idle(MH) /\ Next1(MH).request.data \in Missions
  /\ Next1(MH).request.action = "LOAD_MISSION"
  /\ lastMission' = Next1(MH).request.data /\ lastError' = ""
  /\ ProxyRequest(MH, Ask("limiter", "mission_load", Next1(MH).request.data), Taken(MH))
  /\ Occupy(MH)
  /\ loaded' = NoMission
  /\ UNCHANGED <<scenario, replies, limMission, accepted, apMission,
                 pilotVars, telemetryVars>>

HasAsked(c) == cur[MH] # NoMsg /\ asked[MH].topic = c

(* handleLoadMission returns with error e.                                  *)
LoadFails(e, o) ==
  /\ lastError' = e
  /\ Reply(cur[MH], AnswerOf(MH, "rejected"), Left(MH, o))
  /\ Forget(MH) /\ Finish(MH)
  /\ UNCHANGED <<inbox, requests, asked, loaded>>

(* Mutant of LimiterAgreed: no answer of the limiter is no objection.        *)
LimiterDidNotObject(a) == a.result # "rejected"

LimiterAgreed(a) == a.result = "ok"

(* ... then that of the autopilot, only if the limiter agreed ...            *)
LimiterReturns ==
  /\ HasAsked("limiter")
  /\ \E o \in Outcomes :
       /\ Returns(MH, o)
       /\ \/ /\ LimiterAgreed(Result(MH, o))
             /\ ProxyRequest(MH, Ask("autopilot", "mission_load", lastMission), inbox)
             /\ replies' = Left(MH, o)
             /\ UNCHANGED <<cur, lastError, loaded>>
          \/ /\ ~ LimiterAgreed(Result(MH, o))
             /\ LoadFails(IF Result(MH, o).result = "none" THEN "limiter_no_response"
                          ELSE "limiter_rejected", o)
  /\ UNCHANGED <<scenario, lastMission, limMission, accepted, apMission,
                 pilotVars, telemetryVars>>

(* Mutant of AutopilotAgreed: sent is as good as loaded.                     *)
AutopilotDidNotObject(a) == a.result # "rejected"

AutopilotAgreed(a) == a.result = "ok"

(* ... and the answer to the platform.                                      *)
AutopilotReturns ==
  /\ HasAsked("autopilot")
  /\ \E o \in Outcomes :
       /\ Returns(MH, o)
       /\ \/ /\ AutopilotAgreed(Result(MH, o))
             /\ loaded' = lastMission
             /\ Reply(cur[MH], AnswerOf(MH, "ok"), Left(MH, o))
             /\ Forget(MH) /\ Finish(MH)
             /\ UNCHANGED <<inbox, requests, asked, lastError>>
          \/ /\ ~ AutopilotAgreed(Result(MH, o))
             /\ LoadFails(IF Result(MH, o).result = "none" THEN "autopilot_no_response"
                          ELSE "autopilot_error", o)
  /\ UNCHANGED <<scenario, lastMission, limMission, accepted, apMission,
                 pilotVars, telemetryVars>>

-----------------------------------------------------------------------------
(* Limiter, ORVD, autopilot: handleMissionLoad of each *)

Accept(d) == limMission' = d /\ accepted' = accepted \cup {d}

(* Out of bounds, accepted without ORVD, or ORVD is asked.                   *)
LimiterLoads ==
  /\ Idle("limiter")
  /\ \/ /\ Refusing
        /\ inbox' = Taken("limiter")
        /\ Reply(Next1("limiter"), AnswerOf("limiter", "rejected"), replies)
        /\ UNCHANGED <<requests, pending, asked, cur, limMission, accepted>>
     \/ /\ ~ scenario.orvd
        /\ inbox' = Taken("limiter")
        /\ Accept(Next1("limiter").request.data)
        /\ Reply(Next1("limiter"), AnswerOf("limiter", "ok"), replies)
        /\ UNCHANGED <<requests, pending, asked, cur>>
     \/ /\ scenario.orvd
        /\ Occupy("limiter")
        /\ ProxyRequest("limiter", Ask("orvd", "authorize", Next1("limiter").request.data),
                        Taken("limiter"))
        /\ UNCHANGED <<replies, limMission, accepted>>
  /\ UNCHANGED <<scenario, lastMission, lastError, apMission, loaded,
                 pilotVars, telemetryVars>>

OrvdReturns ==
  /\ cur["limiter"] # NoMsg
  /\ \E o \in Outcomes :
       /\ Returns("limiter", o)
       /\ \/ /\ Result("limiter", o).result = "ok"
             /\ Accept(cur["limiter"].request.data)
             /\ Reply(cur["limiter"], AnswerOf("limiter", "ok"), Left("limiter", o))
          \/ /\ Result("limiter", o).result # "ok"
             /\ Reply(cur["limiter"], AnswerOf("limiter", "rejected"), Left("limiter", o))
             /\ UNCHANGED <<limMission, accepted>>
  /\ Forget("limiter") /\ Finish("limiter")
  /\ UNCHANGED <<scenario, inbox, requests, asked, lastMission, lastError, apMission,
                 loaded, pilotVars, telemetryVars>>

(* External.                                                               *)
OrvdAnswers ==
  /\ inbox["orvd"] # <<>>
  /\ inbox' = Taken("orvd")
  /\ \E r \in {"ok"} \cup (IF Refusing THEN {"rejected"} ELSE {}) :
       Reply(Next1("orvd"), AnswerOf("orvd", r), replies)
  /\ UNCHANGED <<scenario, requests, pending, asked, cur,
                 missionVars, pilotVars, telemetryVars>>

(* The autopilot takes every mission, in every state.                       *)
AutopilotLoads ==
  /\ inbox["autopilot"] # <<>>
  /\ inbox' = Taken("autopilot")
  /\ apMission' = Next1("autopilot").request.data
  /\ Reply(Next1("autopilot"), AnswerOf("autopilot", "ok"), replies)
  /\ UNCHANGED <<scenario, requests, pending, asked, cur, lastMission, lastError,
                 limMission, accepted, loaded, pilotVars, telemetryVars>>

-----------------------------------------------------------------------------
(* Telemetry and the components it polls *)

(* The state of a sensor changes: nav_state, SET_TARGET, OPEN ...           *)
Sense(s) ==
  /\ sample[s] < scenario.maxSamples
  /\ sample' = [sample EXCEPT ![s] = @ + 1]
  /\ UNCHANGED <<busVars, missionVars, pilotVars, polls, polled, last>>

HandleGetState(s) ==
  /\ inbox[s] # <<>>
  /\ inbox' = Taken(s)
  /\ Reply(Next1(s), [result |-> "ok", by |-> s, sample |-> sample[s]], replies)
  /\ UNCHANGED <<scenario, requests, pending, asked, cur,
                 missionVars, pilotVars, telemetryVars>>

(* pollOnce asks one component after the other ...                          *)
PollNext ==
  /\ polls < scenario.maxPolls
  /\ pending["telemetry"] = 0 /\ Len(polled) < Len(scenario.pollOrder)
  /\ ProxyRequest("telemetry",
       Ask(scenario.pollOrder[Len(polled) + 1], "get_state", NoMission), inbox)
  /\ UNCHANGED <<scenario, replies, cur, missionVars, pilotVars, telemetryVars>>

PollReturns ==
  /\ \E o \in Outcomes :
       /\ Returns("telemetry", o)
       /\ polled' = Append(polled, [answer |-> Result("telemetry", o),
                                    since |-> asked["telemetry"].since])
       /\ replies' = Left("telemetry", o)
  /\ Forget("telemetry")
  /\ UNCHANGED <<scenario, inbox, requests, asked, cur, missionVars, pilotVars,
                 sample, polls, last>>

(* ... and stores what it got at the end; no answer keeps the old state.      *)
AnsweredFor(s) ==
  {i \in DOMAIN polled : scenario.pollOrder[i] = s /\ polled[i].answer.result # "none"}

PollStores ==
  /\ polls < scenario.maxPolls /\ Len(polled) = Len(scenario.pollOrder)
  /\ polls' = polls + 1
  /\ polled' = <<>>
  /\ last' = [s \in Sensors |->
       IF AnsweredFor(s) = {} THEN last[s]
       ELSE polled[CHOOSE i \in AnsweredFor(s) : TRUE]]
  /\ UNCHANGED <<busVars, missionVars, pilotVars, sample>>

-----------------------------------------------------------------------------
NoRequest == [topic |-> ME, data |-> NoMission, since |-> 0, action |-> "get_state"]

Init ==
  /\ scenario \in Scenarios
  /\ inbox = [c \in Components |-> <<>>]
  /\ replies = [t \in Threads |-> <<>>]
  /\ requests = [t \in Threads |-> 0]
  /\ pending = [t \in Threads |-> 0]
  /\ asked = [t \in Threads |-> NoRequest]
  /\ cur = [t \in Handlers |-> NoMsg]
  /\ lastMission = NoMission /\ lastError = ""
  /\ limMission = NoMission /\ accepted = {} /\ apMission = NoMission
  /\ loaded = NoMission
  /\ loads = 0 /\ told = "nothing"
  /\ sample = [s \in Sensors |-> 0]
  /\ polls = 0 /\ polled = <<>> /\ last = [s \in Sensors |-> NoAnswer]

MonitorRuns == MonitorPublishes \/ MonitorRequests \/ MonitorRefuses \/ MonitorReturns
MissionHandlerRuns ==
  InvalidMission \/ HandleValidateOnly \/ HandleLoadMission \/ LimiterReturns
    \/ AutopilotReturns
LimiterRuns == LimiterLoads \/ OrvdReturns
TelemetryRuns == PollNext \/ PollReturns \/ PollStores

Next ==
  \/ \E t \in Threads : Drop(t)
  \/ MonitorRuns
  \/ MissionHandlerRuns
  \/ LimiterRuns
  \/ OrvdAnswers \/ AutopilotLoads
  \/ TelemetryRuns
  \/ \E s \in Sensors : HandleGetState(s) \/ Sense(s)
  \/ \E a \in {"LOAD_MISSION", "VALIDATE_ONLY"}, d \in Loads : PilotAsks(a, d)
  \/ PilotReturns

Spec == Init /\ [][Next]_vars

(* The consumer goroutines of the three handlers run, and their timeouts     *)
(* pass; nothing forces the platform, ORVD, the components that are asked or *)
(* the delivery of a reply.                                                *)
FairSpec ==
  /\ Spec
  /\ WF_vars(MonitorRuns) /\ WF_vars(MissionHandlerRuns) /\ WF_vars(LimiterRuns)

-----------------------------------------------------------------------------
(* Properties *)

Polled == [answer : Answer, since : Nat]
Busy(t) == cur[t] # NoMsg \/ inbox[t] # <<>>

(* The variables are well typed.                                           *)
TypeOK ==
  /\ scenario \in Scenarios
  /\ inbox \in [Components -> Seq(Message)]
  /\ replies \in [Threads -> Seq(ReplyMessage)]
  /\ requests \in [Threads -> Nat] /\ pending \in [Threads -> Nat]
  /\ asked \in [Threads -> Request]
  /\ cur \in [Handlers -> Message \cup {NoMsg}]
  /\ {lastMission, limMission, apMission, loaded} \subseteq Missions \cup {NoMission}
  /\ lastError \in {"", "invalid", "limiter_no_response", "limiter_rejected",
                    "autopilot_no_response", "autopilot_error"}
  /\ accepted \subseteq Missions
  /\ loads \in Nat /\ told \in {"nothing", "ok", "rejected", "none"}
  /\ sample \in [Sensors -> Nat]
  /\ polls \in Nat /\ polled \in Seq(Polled)
  /\ last \in [Sensors -> Polled \cup {NoAnswer}]

(* The autopilot never holds a mission that the limiter has not accepted,    *)
(* through timeouts, late replies, refusals and repeated loads.              *)
FliesAcceptedOnly == apMission # NoMission => apMission \in accepted

(* LOAD_MISSION answered ok means that limiter and autopilot hold this very  *)
(* mission, and that no earlier load that was given up can still replace it,  *)
(* until the mission handler starts the next one.                          *)
OkMeansLoaded ==
  loaded # NoMission => limMission = loaded /\ apMission = loaded

(* What result x says of request r is true: the one request to the mission   *)
(* handler that can be answered ok is the validation of a valid mission.     *)
Validated(r) == r.action = "VALIDATE_ONLY" /\ r.data \in Missions
TrueOf(r, x) == (x = "ok" => Validated(r)) /\ (x = "rejected" => ~ Validated(r))

(* What the platform is told by proxy_request is the answer to what it asked  *)
(* last, never a late reply to an earlier request; and because the monitor   *)
(* that waits for the mission handler cannot serve it, no schedule, broker   *)
(* or timeout lets a LOAD_MISSION by proxy_request be answered ok.           *)
ToldIsTrue == TrueOf(asked["platform"], told)

(* Bus, monitor and the four handlers implement the abstract loading: while  *)
(* an ok stands neither limiter nor autopilot takes another mission, and the *)
(* autopilot takes none the limiter has not accepted.                       *)
Loading == INSTANCE MissionLoading
ImplementsLoading == Loading!Spec

(* The state telemetry stores for a component is that component's, taken     *)
(* after this poll asked for it: no late reply of an earlier request.        *)
FreshTelemetry ==
  \A s \in Sensors :
    last[s] # NoAnswer =>
      /\ last[s].answer.by = s
      /\ last[s].since <= last[s].answer.sample /\ last[s].answer.sample <= sample[s]

(* No circle of waiting handlers is for ever: monitor, mission handler and   *)
(* limiter wait for each other in one goroutine each, and yet they come to   *)
(* the end of everything that was asked of them.                           *)
HandlersReturn ==
  (\E t \in Handlers : Busy(t)) ~> (\A t \in Handlers : ~ Busy(t))

(* A platform that asks by proxy_request for a valid mission, with ORVD and  *)
(* every component agreeing and no timeout but those nothing can prevent, is *)
(* told ok.                                                                *)
DocumentedLoad ==
  told \in {"rejected", "none"} => asked["platform"].data \notin Missions

=============================================================================
