---------------------- MODULE EmergencyProtocolProofs ----------------------
(***************************************************************************)
(* Proof that an executor which obeyed the emergency protocol stays in its  *)
(* safe state for the whole isolation, for every set of components and      *)
(* clients, every policy table and every bound, with a lossy bus and the    *)
(* watchdog running.                                                       *)
(***************************************************************************)
EXTENDS EmergencyProtocol, SecurityMonitorProofs

-----------------------------------------------------------------------------
(* Queues of the executors *)

(* Consuming the head of a clean queue leaves a clean queue.               *)
LEMMA TailClean ==
  ASSUME NEW x, NEW q \in Seq(Message), q # <<>>, NEW e \in Nat, NEW v \in Nat,
         CleanAfterSafe(x, q, e, v), NEW f \in Nat,
         f = e \/ (Head(q).action = SafeCommand(x) /\ f = Head(q).epoch)
  PROVE  /\ CleanAfterSafe(x, Tail(q), f, v)
         /\ e = v => IsSafe(x, Head(q), v)
         /\ SafeCommanded(x, Tail(q), f, v) => SafeCommanded(x, q, e, v)
  <1>1. /\ Len(q) \in Nat \ {0}
        /\ Len(Tail(q)) = Len(q) - 1
        /\ \A i \in 1..Len(Tail(q)) : Tail(q)[i] = q[i + 1]
        /\ Head(q) = q[1]
    OBVIOUS
  <1>2. e = v => IsSafe(x, Head(q), v)
    BY <1>1 DEF CleanAfterSafe
  <1>0. f = v => e = v \/ IsSafe(x, Head(q), v)
    BY DEF IsSafe
  <1>3. f = v => \A i \in 1..Len(Tail(q)) : IsSafe(x, Tail(q)[i], v)
    <2> SUFFICES ASSUME f = v, NEW i \in 1..Len(Tail(q))
                 PROVE  IsSafe(x, q[i + 1], v)
      BY <1>1
    <2>1. i + 1 \in 1..Len(q) /\ 1 \in 1..Len(q) /\ 1 < i + 1
      BY <1>1
    <2> QED BY <1>0, <1>1, <2>1 DEF CleanAfterSafe
  <1>4. \A i, j \in 1..Len(Tail(q)) :
          (i < j /\ IsSafe(x, Tail(q)[i], v)) => IsSafe(x, Tail(q)[j], v)
    <2> SUFFICES ASSUME NEW i \in 1..Len(Tail(q)), NEW j \in 1..Len(Tail(q)),
                        i < j, IsSafe(x, q[i + 1], v)
                 PROVE  IsSafe(x, q[j + 1], v)
      BY <1>1
    <2>1. i + 1 \in 1..Len(q) /\ j + 1 \in 1..Len(q) /\ i + 1 < j + 1
      BY <1>1
    <2> QED BY <2>1 DEF CleanAfterSafe
  <1>5. SafeCommanded(x, Tail(q), f, v) => SafeCommanded(x, q, e, v)
    <2>1. CASE f = v
      BY <1>0, <1>1, <2>1 DEF SafeCommanded
    <2>2. ASSUME NEW i \in 1..Len(Tail(q)), IsSafe(x, Tail(q)[i], v)
          PROVE  SafeCommanded(x, q, e, v)
      <3>1. i + 1 \in 1..Len(q) /\ q[i + 1] = Tail(q)[i]
        BY <1>1
      <3> QED BY <2>2, <3>1 DEF SafeCommanded
    <2> QED BY <2>1, <2>2 DEF SafeCommanded
  <1> QED BY <1>2, <1>3, <1>4, <1>5 DEF CleanAfterSafe

(* Appending the safe command of this version, or anything while none is    *)
(* there, leaves a clean queue.                                            *)
LEMMA AppendClean ==
  ASSUME NEW x, NEW q \in Seq(Message), NEW m \in Message, NEW e \in Nat,
         NEW v \in Nat, CleanAfterSafe(x, q, e, v),
         SafeCommanded(x, q, e, v) => IsSafe(x, m, v)
  PROVE  CleanAfterSafe(x, Append(q, m), e, v)
  <1>1. /\ Len(q) \in Nat
        /\ Len(Append(q, m)) = Len(q) + 1
        /\ \A i \in 1..Len(q) : Append(q, m)[i] = q[i]
        /\ Append(q, m)[Len(q) + 1] = m
    OBVIOUS
  <1>2. ASSUME e = v, NEW i \in 1..Len(Append(q, m))
        PROVE  IsSafe(x, Append(q, m)[i], v)
    <2>1. CASE i \in 1..Len(q)
      BY <1>1, <1>2, <2>1 DEF CleanAfterSafe
    <2>2. CASE i = Len(q) + 1
      BY <1>1, <1>2, <2>2 DEF SafeCommanded
    <2> QED BY <1>1, <2>1, <2>2
  <1>3. ASSUME NEW i \in 1..Len(Append(q, m)), NEW j \in 1..Len(Append(q, m)),
               i < j, IsSafe(x, Append(q, m)[i], v)
        PROVE  IsSafe(x, Append(q, m)[j], v)
    <2>1. i \in 1..Len(q) /\ Append(q, m)[i] = q[i]
      BY <1>1, <1>3
    <2>2. CASE j \in 1..Len(q)
      BY <1>1, <1>3, <2>1, <2>2 DEF CleanAfterSafe
    <2>3. CASE j = Len(q) + 1
      BY <1>1, <1>3, <2>1, <2>3 DEF SafeCommanded
    <2> QED BY <1>1, <2>2, <2>3
  <1> QED BY <1>2, <1>3 DEF CleanAfterSafe

(* The epoch bound is kept by both, and by a growing version.              *)
LEMMA EpochsKept ==
  ASSUME NEW q \in Seq(Message), NEW e \in Nat, NEW v \in Nat, NEW w \in Nat,
         v <= w, EpochsUpTo(q, e, v)
  PROVE  /\ EpochsUpTo(q, e, w)
         /\ \A m \in Message : m.epoch <= v => EpochsUpTo(Append(q, m), e, w)
         /\ q # <<>> => /\ EpochsUpTo(Tail(q), e, w)
                        /\ EpochsUpTo(Tail(q), Head(q).epoch, w)
  <1>1. \A i \in 1..Len(q) : q[i].epoch \in Nat
    <2> SUFFICES ASSUME NEW i \in 1..Len(q) PROVE q[i].epoch \in Nat
      OBVIOUS
    <2>1. q[i] \in Message
      OBVIOUS
    <2> QED BY <2>1 DEF Message
  <1>2. EpochsUpTo(q, e, w)
    BY <1>1 DEF EpochsUpTo
  <1>3. ASSUME NEW m \in Message, m.epoch <= v
        PROVE  EpochsUpTo(Append(q, m), e, w)
    <2>1. /\ Len(q) \in Nat
          /\ Len(Append(q, m)) = Len(q) + 1
          /\ \A i \in 1..Len(q) : Append(q, m)[i] = q[i]
          /\ Append(q, m)[Len(q) + 1] = m
      OBVIOUS
    <2>2. m.epoch \in Nat
      BY DEF Message
    <2>3. m.epoch <= w
      BY <1>3, <2>2
    <2> QED BY <1>2, <2>1, <2>3 DEF EpochsUpTo
  <1>4. ASSUME q # <<>>
        PROVE  EpochsUpTo(Tail(q), e, w) /\ EpochsUpTo(Tail(q), Head(q).epoch, w)
    <2>1. /\ Len(q) \in Nat \ {0}
          /\ Len(Tail(q)) = Len(q) - 1
          /\ \A i \in 1..Len(Tail(q)) : Tail(q)[i] = q[i + 1]
          /\ Head(q) = q[1]
      BY <1>4
    <2>2. \A i \in 1..Len(Tail(q)) : i + 1 \in 1..Len(q)
      BY <2>1
    <2> QED BY <1>2, <2>1, <2>2 DEF EpochsUpTo
  <1> QED BY <1>2, <1>3, <1>4

-----------------------------------------------------------------------------
(* The other components are an environment of the monitor *)

(* What is published to the monitor is a message in its publisher's name.   *)
Publishable(m) == m \in Message /\ m.sender = m.origin /\ m.sender # ME

(* The messages the limiter and the emergency component publish are messages. *)
LEMMA MessageTypes ==
  /\ Publishable(Direct("ISOLATION_START", "emergency"))
  /\ Publishable(ProxyMsg("proxy_request", "limiter", "orvd", "report_incident"))
  /\ Publishable(ProxyPublishAsync("limiter", "emergency", "limiter_event"))
  /\ Publishable(ProxyPublishAsync("emergency", "cargo", "CLOSE"))
  /\ Publishable(ProxyPublishAsync("emergency", "motors", "LAND"))
  /\ \A s \in {"limiter", "emergency", "cargo"} : Publishable(LogEvent(s))
  <1>1. ASSUME NEW a \in Action, NEW s \in Sender, NEW t \in Topic,
               NEW cmd \in Action, s # ME
        PROVE  Publishable(ProxyMsg(a, s, t, cmd)) /\ Publishable(Direct(a, s))
    BY <1>1 DEF Publishable, ProxyMsg, Direct, Message, Target
  <1> QED BY <1>1, SMConstants, EPConstants DEF ProxyPublishAsync, LogEvent, ME

(* How the queues change when a component publishes or consumes.            *)
LEMMA PublishEffect ==
  ASSUME TypeOK, NEW m, Publishable(m), PublishToMonitor(m)
  PROVE  /\ queue' \in [Topic -> Seq(Message)]
         /\ queue'[ME] \in {queue[ME], Append(queue[ME], m)}
         /\ \A x \in Topic \ {ME} : queue'[x] = queue[x]
  <1>1. PICK q \in Published(queue[ME], m) : queue' = [queue EXCEPT ![ME] = q]
    BY DEF PublishToMonitor
  <1>2. q \in {queue[ME], Append(queue[ME], m)}
    BY <1>1 DEF Published
  <1>3. ME \in Topic /\ queue[ME] \in Seq(Message) /\ m \in Message
    BY SMConstants DEF TypeOK, Publishable
  <1>4. q \in Seq(Message)
    BY <1>2, <1>3
  <1> QED BY <1>1, <1>2, <1>3, <1>4 DEF TypeOK

(* Taking the head of a topic leaves the other topics alone.                 *)
LEMMA TakeEffect ==
  ASSUME TypeOK, NEW c \in Topic \ {ME}, Take(c)
  PROVE  /\ queue' \in [Topic -> Seq(Message)]
         /\ queue'[c] = Tail(queue[c]) /\ queue[c] # <<>>
         /\ \A x \in Topic \ {c} : queue'[x] = queue[x]
  <1>1. queue[c] \in Seq(Message) /\ queue[c] # <<>>
    BY DEF TypeOK, Take
  <1>2. Tail(queue[c]) \in Seq(Message)
    BY <1>1
  <1> QED BY <1>1, <1>2 DEF TypeOK, Take

(* A handler that takes its message and publishes touches two topics only.   *)
LEMMA TakeAndPublishEffect ==
  ASSUME TypeOK, NEW c \in Topic \ {ME}, NEW m, Publishable(m),
         TakeAndPublish(c, m)
  PROVE  /\ queue' \in [Topic -> Seq(Message)]
         /\ queue'[c] = Tail(queue[c]) /\ queue[c] # <<>>
         /\ queue'[ME] \in {queue[ME], Append(queue[ME], m)}
         /\ \A x \in Topic \ {c, ME} : queue'[x] = queue[x]
  <1>1. PICK q \in Published(queue[ME], m) :
          queue' = [queue EXCEPT ![c] = Tail(@), ![ME] = q]
    BY DEF TakeAndPublish
  <1>2. q \in {queue[ME], Append(queue[ME], m)}
    BY <1>1 DEF Published
  <1>3. /\ ME \in Topic /\ queue[ME] \in Seq(Message) /\ m \in Message
        /\ queue[c] \in Seq(Message) /\ queue[c] # <<>>
    BY SMConstants DEF TypeOK, Publishable, TakeAndPublish
  <1>4. /\ Append(queue[ME], m) \in Seq(Message)
        /\ Tail(queue[c]) \in Seq(Message)
    BY <1>3
  <1>5. q \in Seq(Message)
    BY <1>2, <1>3, <1>4
  <1> QED BY <1>1, <1>2, <1>3, <1>4, <1>5 DEF TypeOK

(* The topics of the components differ.                                    *)
LEMMA TopicNames ==
  /\ "motors" \in Topic \ {ME} /\ "cargo" \in Topic \ {ME}
  /\ "emergency" \in Topic \ {ME}
  /\ "motors" # "cargo" /\ "motors" # "emergency" /\ "cargo" # "emergency"
  BY SMConstants, EPConstants DEF ME

(* A step that only publishes to the monitor leaves the executors alone.    *)
LEMMA PublishersAreEnvironment ==
  ASSUME TypeOK,
         (\E v \in Verdicts : Recalculate(v)) \/ LimiterPublishes \/ EmergencyRuns
  PROVE  /\ EnvironmentStep
         /\ \A x \in Executors : queue'[x] = queue[x]
         /\ UNCHANGED execVars
  <1> DEFINE Only == /\ UNCHANGED <<smVars, sent, restarts>>
                     /\ UNCHANGED execVars
  <1>1. ASSUME NEW m, Publishable(m), Only,
               queue' = queue \/ PublishToMonitor(m)
                 \/ queue' = [queue EXCEPT ![ME] = Append(@, m)]
        PROVE  EnvironmentStep /\ \A x \in Executors : queue'[x] = queue[x]
    <2>1. queue' = queue \/ PublishToMonitor(m)
      BY <1>1 DEF PublishToMonitor, Published
    <2>2. /\ queue' \in [Topic -> Seq(Message)]
          /\ queue'[ME] \in {queue[ME], Append(queue[ME], m)}
          /\ \A x \in Topic \ {ME} : queue'[x] = queue[x]
      BY <1>1, <2>1, PublishEffect DEF TypeOK
    <2>3. UNCHANGED smVars /\ sent' = sent /\ restarts' = restarts
      BY <1>1
    <2>4. sent' \in Nat
      BY <2>3 DEF TypeOK
    <2> QED
      BY <1>1, <2>2, <2>3, <2>4, TopicNames
         DEF EnvironmentStep, smVars, Publishable, Executors
  <1>2. CASE \E v \in Verdicts : Recalculate(v)
    BY <1>1, <1>2, MessageTypes DEF Recalculate
  <1>3. CASE LimiterPublishes
    BY <1>1, <1>3, MessageTypes
       DEF LimiterPublishes, ReportIncident, ReportReturns, PublishAlarm
  <1>4. CASE HandleLimiterEvent
    <2>1. /\ queue' \in [Topic -> Seq(Message)]
          /\ \A x \in Topic \ {"emergency"} : queue'[x] = queue[x]
      BY <1>4, TakeEffect, TopicNames DEF HandleLimiterEvent
    <2>2. UNCHANGED smVars /\ sent' = sent /\ restarts' = restarts
          /\ UNCHANGED execVars
      BY <1>4 DEF HandleLimiterEvent
    <2>3. ME \in Topic \ {"emergency"}
      BY SMConstants DEF ME
    <2> QED
      BY <2>1, <2>2, <2>3, TopicNames
         DEF EnvironmentStep, smVars, Executors, TypeOK
  <1>5. CASE StartIsolation \/ CloseCargo \/ LandMotors \/ LogProtocol
    BY <1>1, <1>5, MessageTypes
       DEF StartIsolation, CloseCargo, LandMotors, LogProtocol, EmergencyStep
  <1> QED BY <1>2, <1>3, <1>4, <1>5 DEF EmergencyRuns

(* An executor consumes the head of its topic, obeys it or not, and may log  *)
(* to the journal.                                                         *)
ExecutorTakes(x) ==
  /\ queue[x] # <<>> /\ queue'[x] = Tail(queue[x])
  /\ \A y \in Executors \ {x} : queue'[y] = queue[y]
  /\ \/ UNCHANGED <<exec, safeEpoch>>
     \/ \E state : /\ Obey(x, state)
                   /\ Head(queue[x]).action = SafeCommand(x) => state = SafeState(x)

(* For the monitor a step of motors or cargo is a step of its environment.   *)
LEMMA ExecutorsAreEnvironment ==
  ASSUME TypeOK, MotorsRun \/ CargoRuns
  PROVE  EnvironmentStep /\ \E x \in Executors : ExecutorTakes(x)
  <1> USE TopicNames
  <1>1. ASSUME NEW c \in Executors, Take(c), UNCHANGED <<smVars, sent, restarts>>
        PROVE  /\ EnvironmentStep
               /\ queue[c] # <<>> /\ queue'[c] = Tail(queue[c])
               /\ \A y \in Executors \ {c} : queue'[y] = queue[y]
    <2>1. c \in Topic \ {ME}
      BY DEF Executors
    <2>2. /\ queue' \in [Topic -> Seq(Message)]
          /\ queue'[c] = Tail(queue[c]) /\ queue[c] # <<>>
          /\ \A x \in Topic \ {c} : queue'[x] = queue[x]
      BY <1>1, <2>1, TakeEffect
    <2>3. UNCHANGED smVars /\ sent' = sent /\ restarts' = restarts
      BY <1>1
    <2> QED
      BY <2>1, <2>2, <2>3, SMConstants DEF EnvironmentStep, smVars, TypeOK, Executors
  <1>2. ASSUME NEW c \in Executors, TakeAndPublish(c, LogEvent("cargo")),
               UNCHANGED <<smVars, sent, restarts>>
        PROVE  /\ EnvironmentStep
               /\ queue[c] # <<>> /\ queue'[c] = Tail(queue[c])
               /\ \A y \in Executors \ {c} : queue'[y] = queue[y]
    <2>1. c \in Topic \ {ME} /\ Publishable(LogEvent("cargo"))
      BY MessageTypes DEF Executors
    <2>2. /\ queue' \in [Topic -> Seq(Message)]
          /\ queue'[c] = Tail(queue[c]) /\ queue[c] # <<>>
          /\ queue'[ME] \in {queue[ME], Append(queue[ME], LogEvent("cargo"))}
          /\ \A x \in Topic \ {c, ME} : queue'[x] = queue[x]
      BY <1>2, <2>1, TakeAndPublishEffect
    <2>3. UNCHANGED smVars /\ sent' = sent /\ restarts' = restarts
      BY <1>2
    <2> QED
      BY <2>1, <2>2, <2>3 DEF EnvironmentStep, smVars, TypeOK, Executors, Publishable
  <1>3. ASSUME NEW a, NEW state, MotorsHandle(a, state),
               a = SafeCommand("motors") => state = SafeState("motors")
        PROVE  EnvironmentStep /\ ExecutorTakes("motors")
    <2>1. Take("motors") /\ UNCHANGED <<smVars, sent, restarts>>
          /\ Head(queue["motors"]).action = a
      BY <1>3 DEF MotorsHandle, Next1
    <2>2. UNCHANGED <<exec, safeEpoch>> \/ Obey("motors", state)
      BY <1>3 DEF MotorsHandle, execVars
    <2> QED BY <1>1, <1>3, <2>1, <2>2 DEF ExecutorTakes, Executors
  <1>4. ASSUME NEW a, NEW state, CargoHandle(a, state),
               a = SafeCommand("cargo") => state = SafeState("cargo")
        PROVE  EnvironmentStep /\ ExecutorTakes("cargo")
    <2>1. /\ Take("cargo") \/ TakeAndPublish("cargo", LogEvent("cargo"))
          /\ UNCHANGED <<smVars, sent, restarts>>
          /\ Head(queue["cargo"]).action = a
      BY <1>4 DEF CargoHandle, Next1
    <2>2. UNCHANGED <<exec, safeEpoch>> \/ Obey("cargo", state)
      BY <1>4 DEF CargoHandle
    <2> QED BY <1>1, <1>2, <1>4, <2>1, <2>2 DEF ExecutorTakes, Executors
  <1>5. ASSUME NEW x \in Executors, ExecutorIgnores(x)
        PROVE  EnvironmentStep /\ ExecutorTakes(x)
    <2>1. Take(x) /\ UNCHANGED <<smVars, sent, restarts>> /\ UNCHANGED execVars
      BY <1>5 DEF ExecutorIgnores
    <2> QED BY <1>1, <2>1 DEF ExecutorTakes, execVars
  <1>6. CASE MotorsRun
    BY <1>3, <1>5, <1>6 DEF MotorsRun, HandleSetTarget, HandleLand, SafeCommand,
       SafeState, Executors
  <1>7. CASE CargoRuns
    BY <1>4, <1>5, <1>7 DEF CargoRuns, HandleOpen, HandleClose, SafeCommand,
       SafeState, Executors
  <1> QED BY <1>6, <1>7

-----------------------------------------------------------------------------
(* Steps of the monitor, seen from the executors *)

(* In ISOLATED mode a checked message is the safe command of its executor.  *)
LEMMA EmergencyTableIsSafe ==
  ASSUME NEW s, NEW t, Key(s, t) \in EmergencyPolicies,
         NEW x \in Executors, t.topic = x
  PROVE  t.action = SafeCommand(x)
  BY DEF Key, EmergencyPolicies, EmergencyKey, Executors, SafeCommand, ME

(* A handler other than Forward does not touch the executors' topics.       *)
LEMMA ReceiveLeavesExecutors ==
  ASSUME TypeOK, NEW a, Receive(a)
  PROVE  \A x \in Executors : queue'[x] = queue[x]
  BY TopicNames DEF Receive, TypeOK, Executors

MonitorLeavesExecutors ==
  /\ \A x \in Executors : queue'[x] = queue[x]
  /\ restarts' = restarts
  /\ \/ mode' = mode /\ version' = version
     \/ mode = "ISOLATED" /\ mode' = "NORMAL" /\ version' = version + 1
     \/ mode = "NORMAL" /\ mode' = "ISOLATED" /\ version' = version + 1
  /\ \/ pc' # "checked"
     \/ UNCHANGED <<pc, cur>>
     \/ Key(cur'.sender, cur'.payload) \in policies /\ UNCHANGED <<mode, version>>

(* A monitor step either forwards, or leaves the executors' topics alone.    *)
LEMMA MonitorSteps ==
  ASSUME TypeOK, MonitorStep
  PROVE  Forward \/ Restart \/ MonitorLeavesExecutors
  <1>1. CASE HandleIsolationStart \/ HandleIsolationEnd
    <2>1. \A x \in Executors : queue'[x] = queue[x]
      BY <1>1, ReceiveLeavesExecutors DEF HandleIsolationStart, HandleIsolationEnd
    <2>2. \/ mode' = mode /\ version' = version
          \/ mode = "ISOLATED" /\ mode' = "NORMAL" /\ version' = version + 1
          \/ mode = "NORMAL" /\ mode' = "ISOLATED" /\ version' = version + 1
      BY <1>1 DEF HandleIsolationStart, HandleIsolationEnd, EnterIsolated,
         EnterNormal
    <2>3. UNCHANGED <<pc, cur, restarts>>
      BY <1>1 DEF HandleIsolationStart, HandleIsolationEnd
    <2> QED BY <2>1, <2>2, <2>3 DEF MonitorLeavesExecutors
  <1>2. CASE HandleSafetyHeartbeat \/ HandleSetPolicy \/ HandleRemovePolicy
             \/ HandleClearPolicies \/ HandleQuery
    <2>1. \A x \in Executors : queue'[x] = queue[x]
      BY <1>2, ReceiveLeavesExecutors DEF HandleSafetyHeartbeat, HandleSetPolicy,
         HandleRemovePolicy, PolicyCommand, HandleClearPolicies, HandleQuery
    <2>2. UNCHANGED <<mode, version, pc, cur, restarts>>
      BY <1>2 DEF HandleSafetyHeartbeat, HandleSetPolicy, HandleRemovePolicy,
         PolicyCommand, HandleClearPolicies, HandleQuery, smVars
    <2> QED BY <2>1, <2>2 DEF MonitorLeavesExecutors
  <1>3. CASE HandleProxyPublish \/ HandleProxyRequest
    <2>1. PICK a : CheckProxy(a)
      BY <1>3 DEF HandleProxyPublish, HandleProxyRequest
    <2>2. \A x \in Executors : queue'[x] = queue[x]
      BY <2>1, ReceiveLeavesExecutors DEF CheckProxy
    <2>3. UNCHANGED <<mode, version, restarts>>
      BY <2>1 DEF CheckProxy
    <2>4. UNCHANGED <<pc, cur>> \/ Key(cur'.sender, cur'.payload) \in policies
      BY <2>1 DEF CheckProxy, Allowed
    <2> QED BY <2>2, <2>3, <2>4 DEF MonitorLeavesExecutors
  <1>4. CASE ProxyRequestReturns
    BY <1>4 DEF ProxyRequestReturns, MonitorLeavesExecutors
  <1>5. CASE \E s \in Watched : HeartbeatExpires(s)
    BY <1>5 DEF HeartbeatExpires, MonitorLeavesExecutors
  <1>6. CASE CheckHeartbeatTimeout
    BY <1>6 DEF CheckHeartbeatTimeout, EnterIsolated, MonitorLeavesExecutors
  <1> QED
    BY <1>1, <1>2, <1>3, <1>4, <1>5, <1>6 DEF MonitorStep, HandlerStep

-----------------------------------------------------------------------------
(* Preservation of the invariant *)

ExecInv == EpochsBounded /\ NothingUnsafeBehind /\ NothingUnsafeHeld /\ SafeStateHolds

(* A step that leaves queues, executors and safety state alone.            *)
LEMMA QuietStep ==
  ASSUME ExecInv, \A x \in Executors : queue'[x] = queue[x],
         UNCHANGED <<exec, safeEpoch, mode, version, restarts, pc, cur>>
  PROVE  ExecInv'
  BY DEF ExecInv, EpochsBounded, NothingUnsafeBehind, NothingUnsafeHeld,
     SafeStateHolds, EpochsUpTo, CleanAfterSafe, SafeCommanded, IsSafe,
     SafeCommand, SafeState

(* Types of what the executors see.                                        *)
LEMMA ExecTypes ==
  ASSUME TypeOK, ETypeOK, NEW x \in Executors
  PROVE  /\ queue[x] \in Seq(Message) /\ safeEpoch[x] \in Nat /\ version \in Nat
         /\ queue[x] # <<>> => Head(queue[x]) \in Message /\ Head(queue[x]).epoch \in Nat
  <1>1. queue[x] \in Seq(Message) /\ safeEpoch[x] \in Nat /\ version \in Nat
    BY TopicNames DEF TypeOK, ETypeOK, Executors
  <1>2. queue[x] # <<>> => Head(queue[x]) \in Message
    BY <1>1
  <1> QED BY <1>1, <1>2 DEF Message

(* The monitor leaves the executors alone but may switch the mode: a new    *)
(* version is later than every epoch seen so far.                          *)
LEMMA MonitorQuiet ==
  ASSUME TypeOK, ETypeOK, ActiveTableFollowsMode, ExecInv,
         MonitorLeavesExecutors, UNCHANGED execVars
  PROVE  ExecInv'
  <1>0. UNCHANGED <<exec, safeEpoch>>
    BY DEF execVars
  <1>1. version' \in Nat /\ version <= version'
    BY DEF MonitorLeavesExecutors, TypeOK
  <1>2. EpochsBounded'
    <2> SUFFICES ASSUME restarts' = 0, NEW x \in Executors
                 PROVE  EpochsUpTo(queue'[x], safeEpoch'[x], version')
      BY DEF EpochsBounded
    <2>1. EpochsUpTo(queue[x], safeEpoch[x], version)
      BY DEF ExecInv, EpochsBounded, MonitorLeavesExecutors
    <2> QED BY <1>0, <1>1, <2>1, ExecTypes, EpochsKept DEF MonitorLeavesExecutors
  <1>3. CASE mode' = "NORMAL"
    BY <1>2, <1>3 DEF ExecInv, NothingUnsafeBehind, NothingUnsafeHeld,
       SafeStateHolds
  <1>4. CASE mode' = "ISOLATED" /\ version' = version + 1
    <2>1. ASSUME restarts' = 0, NEW x \in Executors
          PROVE  /\ safeEpoch'[x] # version'
                 /\ \A i \in 1..Len(queue'[x]) : queue'[x][i].epoch # version'
      <3>1. EpochsUpTo(queue[x], safeEpoch[x], version)
        BY <2>1 DEF ExecInv, EpochsBounded, MonitorLeavesExecutors
      <3>2. safeEpoch[x] # version + 1
        BY <3>1, ExecTypes DEF EpochsUpTo
      <3>3. ASSUME NEW i \in 1..Len(queue[x]) PROVE queue[x][i].epoch # version + 1
        <4>1. queue[x][i] \in Message
          BY ExecTypes
        <4>2. queue[x][i].epoch \in Nat /\ queue[x][i].epoch <= version
          BY <3>1, <4>1 DEF EpochsUpTo, Message
        <4> QED BY <4>2, ExecTypes
      <3> QED BY <1>0, <1>4, <3>2, <3>3 DEF MonitorLeavesExecutors
    <2> QED
      BY <1>2, <2>1 DEF ExecInv, NothingUnsafeBehind, NothingUnsafeHeld,
         SafeStateHolds, CleanAfterSafe, SafeCommanded, IsSafe
  <1>5. CASE mode' = mode /\ version' = version
    <2>1. NothingUnsafeBehind' /\ SafeStateHolds'
      BY <1>0, <1>5 DEF ExecInv, NothingUnsafeBehind, SafeStateHolds,
         MonitorLeavesExecutors, CleanAfterSafe, IsSafe, SafeCommand, SafeState
    <2>2. NothingUnsafeHeld'
      <3>1. CASE pc' # "checked"
        BY <3>1 DEF NothingUnsafeHeld
      <3>2. CASE UNCHANGED <<pc, cur>>
        BY <1>0, <1>5, <3>2 DEF ExecInv, NothingUnsafeHeld,
           MonitorLeavesExecutors, SafeCommanded, IsSafe, SafeCommand
      <3>3. CASE Key(cur'.sender, cur'.payload) \in policies
        <4> SUFFICES ASSUME mode = "ISOLATED", NEW x \in Executors,
                            cur'.payload.topic = x
                     PROVE  cur'.payload.action = SafeCommand(x)
          BY <1>5 DEF NothingUnsafeHeld, SafeCommand
        <4>1. policies = EmergencyPolicies
          BY DEF ActiveTableFollowsMode
        <4> QED BY <3>3, <4>1, EmergencyTableIsSafe
      <3> QED BY <3>1, <3>2, <3>3 DEF MonitorLeavesExecutors
    <2> QED BY <1>2, <2>1, <2>2 DEF ExecInv
  <1> QED BY <1>3, <1>4, <1>5 DEF MonitorLeavesExecutors

(* Forwarding appends to at most one executor's topic, in the present       *)
(* version, and never anything unsafe behind a safe command.               *)
LEMMA ForwardKeeps ==
  ASSUME TypeOK, ETypeOK, ExecInv, Forward, UNCHANGED execVars
  PROVE  ExecInv'
  <1>0. UNCHANGED <<exec, safeEpoch, mode, version, restarts>>
    BY DEF execVars, Forward
  <1>1. pc = "checked" /\ pc' # "checked"
    BY DEF Forward
  <1>2. cur.payload.topic \in Topic /\ Forwarded \in Message
    BY <1>1, ForwardedType
  <1>3. Forwarded.action = cur.payload.action /\ Forwarded.epoch = version
    BY DEF Forwarded
  <1>4. ASSUME NEW x \in Executors
        PROVE  \/ queue'[x] = queue[x]
               \/ x = cur.payload.topic /\ queue'[x] = Append(queue[x], Forwarded)
    <2>1. PICK q \in Published(queue[cur.payload.topic], Forwarded) :
            queue' = [queue EXCEPT ![cur.payload.topic] = q]
      BY DEF Forward
    <2>2. q \in {queue[cur.payload.topic], Append(queue[cur.payload.topic], Forwarded)}
      BY <2>1 DEF Published
    <2> QED BY <1>2, <2>1, <2>2, TopicNames DEF TypeOK, Executors
  <1>5. EpochsBounded'
    <2> SUFFICES ASSUME restarts = 0, NEW x \in Executors
                 PROVE  EpochsUpTo(queue'[x], safeEpoch[x], version)
      BY <1>0 DEF EpochsBounded
    <2>1. EpochsUpTo(queue[x], safeEpoch[x], version)
      BY DEF ExecInv, EpochsBounded
    <2>2. version <= version /\ Forwarded.epoch <= version
      BY <1>3, ExecTypes
    <2>3. EpochsUpTo(Append(queue[x], Forwarded), safeEpoch[x], version)
      BY <1>2, <2>1, <2>2, ExecTypes, EpochsKept
    <2> QED BY <1>4, <2>1, <2>3
  <1>6. NothingUnsafeBehind'
    <2> SUFFICES ASSUME mode = "ISOLATED", restarts = 0, NEW x \in Executors
                 PROVE  CleanAfterSafe(x, queue'[x], safeEpoch[x], version)
      BY <1>0 DEF NothingUnsafeBehind, CleanAfterSafe, IsSafe, SafeCommand
    <2>1. CleanAfterSafe(x, queue[x], safeEpoch[x], version)
      BY DEF ExecInv, NothingUnsafeBehind
    <2>2. CASE x = cur.payload.topic
      <3>1. SafeCommanded(x, queue[x], safeEpoch[x], version)
              => IsSafe(x, Forwarded, version)
        BY <1>1, <1>3, <2>2 DEF ExecInv, NothingUnsafeHeld, IsSafe
      <3>2. CleanAfterSafe(x, Append(queue[x], Forwarded), safeEpoch[x], version)
        BY <1>2, <2>1, <3>1, ExecTypes, AppendClean
      <3> QED BY <1>4, <2>1, <3>2
    <2> QED BY <1>4, <2>1, <2>2
  <1>7. NothingUnsafeHeld' /\ SafeStateHolds'
    BY <1>0, <1>1 DEF ExecInv, NothingUnsafeHeld, SafeStateHolds, SafeState
  <1> QED BY <1>5, <1>6, <1>7 DEF ExecInv

(* An executor that takes its next command.                                *)
LEMMA ExecutorKeeps ==
  ASSUME TypeOK, ETypeOK, ExecInv, NEW c \in Executors, ExecutorTakes(c),
         UNCHANGED <<mode, version, restarts, pc, cur>>
  PROVE  ExecInv'
  <1> DEFINE f == safeEpoch'[c]
  <1>1. /\ queue[c] # <<>> /\ queue'[c] = Tail(queue[c])
        /\ \A y \in Executors \ {c} :
             queue'[y] = queue[y] /\ safeEpoch'[y] = safeEpoch[y] /\ exec'[y] = exec[y]
    BY DEF ExecutorTakes, Obey, ETypeOK
  <1>2. \/ f = safeEpoch[c]
        \/ /\ Head(queue[c]).action = SafeCommand(c)
           /\ f = Head(queue[c]).epoch
           /\ exec'[c] = SafeState(c)
    BY DEF ExecutorTakes, Obey, ETypeOK, Next1
  <1>3. Head(queue[c]).action = SafeCommand(c) =>
          exec'[c] = exec[c] \/ exec'[c] = SafeState(c)
    BY DEF ExecutorTakes, Obey, ETypeOK
  <1>4. f \in Nat
    BY <1>1, <1>2, ExecTypes
  <1>5. EpochsBounded'
    <2> SUFFICES ASSUME restarts = 0, NEW x \in Executors
                 PROVE  EpochsUpTo(queue'[x], safeEpoch'[x], version)
      BY DEF EpochsBounded
    <2>1. EpochsUpTo(queue[x], safeEpoch[x], version)
      BY DEF ExecInv, EpochsBounded
    <2>2. CASE x = c
      <3>1. version <= version
        BY ExecTypes
      <3>2. /\ EpochsUpTo(Tail(queue[c]), safeEpoch[c], version)
            /\ EpochsUpTo(Tail(queue[c]), Head(queue[c]).epoch, version)
        BY <1>1, <2>1, <2>2, <3>1, ExecTypes, EpochsKept
      <3> QED BY <1>1, <1>2, <2>2, <3>2
    <2> QED BY <1>1, <2>1, <2>2
  <1>6. ASSUME mode = "ISOLATED", restarts = 0
        PROVE  /\ CleanAfterSafe(c, queue'[c], f, version)
               /\ safeEpoch[c] = version => IsSafe(c, Head(queue[c]), version)
               /\ SafeCommanded(c, queue'[c], f, version)
                    => SafeCommanded(c, queue[c], safeEpoch[c], version)
    <2>1. CleanAfterSafe(c, queue[c], safeEpoch[c], version)
      BY <1>6 DEF ExecInv, NothingUnsafeBehind
    <2>2. f = safeEpoch[c] \/ (Head(queue[c]).action = SafeCommand(c)
                                 /\ f = Head(queue[c]).epoch)
      BY <1>2
    <2>3. /\ queue[c] \in Seq(Message) /\ queue[c] # <<>>
          /\ safeEpoch[c] \in Nat /\ version \in Nat /\ f \in Nat
      BY <1>1, <1>4, ExecTypes
    <2> HIDE DEF f
    <2>4. /\ CleanAfterSafe(c, Tail(queue[c]), f, version)
          /\ safeEpoch[c] = version => IsSafe(c, Head(queue[c]), version)
          /\ SafeCommanded(c, Tail(queue[c]), f, version)
               => SafeCommanded(c, queue[c], safeEpoch[c], version)
      BY <2>1, <2>2, <2>3, TailClean
    <2> QED BY <1>1, <2>4
  <1>7. NothingUnsafeBehind'
    <2> SUFFICES ASSUME mode = "ISOLATED", restarts = 0, NEW x \in Executors
                 PROVE  CleanAfterSafe(x, queue'[x], safeEpoch'[x], version)
      BY DEF NothingUnsafeBehind, CleanAfterSafe, IsSafe, SafeCommand
    <2>1. CASE x = c
      BY <1>6, <2>1
    <2>2. CASE x # c
      BY <1>1, <2>2 DEF ExecInv, NothingUnsafeBehind
    <2> QED BY <2>1, <2>2
  <1>8. NothingUnsafeHeld'
    <2> SUFFICES ASSUME mode = "ISOLATED", restarts = 0, pc = "checked",
                        NEW x \in Executors, cur.payload.topic = x,
                        SafeCommanded(x, queue'[x], safeEpoch'[x], version)
                 PROVE  cur.payload.action = SafeCommand(x)
      BY DEF NothingUnsafeHeld, SafeCommanded, IsSafe, SafeCommand
    <2>1. SafeCommanded(x, queue[x], safeEpoch[x], version)
      <3>1. CASE x = c
        BY <1>6, <3>1
      <3>2. CASE x # c
        BY <1>1, <3>2
      <3> QED BY <3>1, <3>2
    <2> QED BY <2>1 DEF ExecInv, NothingUnsafeHeld
  <1>9. SafeStateHolds'
    <2> SUFFICES ASSUME mode = "ISOLATED", restarts = 0, NEW x \in Executors,
                        safeEpoch'[x] = version
                 PROVE  exec'[x] = SafeState(x)
      BY DEF SafeStateHolds, SafeState
    <2>1. CASE x # c
      BY <1>1, <2>1 DEF ExecInv, SafeStateHolds
    <2>2. CASE x = c /\ f = safeEpoch[c]
      <3>1. exec[c] = SafeState(c) /\ Head(queue[c]).action = SafeCommand(c)
        BY <1>6, <2>2 DEF ExecInv, SafeStateHolds, IsSafe
      <3> QED BY <1>3, <2>2, <3>1
    <2>3. CASE x = c /\ f # safeEpoch[c]
      BY <1>2, <2>3
    <2> QED BY <2>1, <2>2, <2>3
  <1> QED BY <1>5, <1>7, <1>8, <1>9 DEF ExecInv

(* Types of the other components.                                          *)
LEMMA NextETypeOK ==
  ASSUME TypeOK, ETypeOK, OthersStep
  PROVE  ETypeOK'
  <1> USE DEF ETypeOK
  <1>1. ASSUME NEW v \in Verdicts, Recalculate(v) PROVE ETypeOK'
    BY <1>1, EPConstants DEF Recalculate, emVars, execVars
  <1>2. CASE LimiterPublishes
    BY <1>2 DEF LimiterPublishes, ReportIncident, ReportReturns, PublishAlarm,
       emVars, execVars
  <1>3. CASE EmergencyRuns
    <2>1. UNCHANGED <<limVars, execVars>>
      BY <1>3 DEF EmergencyRuns, HandleLimiterEvent, StartIsolation, CloseCargo,
         LandMotors, LogProtocol, EmergencyStep
    <2>2. emPc' \in {"idle", "isolate", "close", "land", "log"} /\ active' \in BOOLEAN
      BY <1>3 DEF EmergencyRuns, HandleLimiterEvent, StartIsolation, CloseCargo,
         LandMotors, LogProtocol, EmergencyStep
    <2>3. landAsked' \in BOOLEAN
      BY <1>3 DEF EmergencyRuns, HandleLimiterEvent, StartIsolation, CloseCargo,
         LandMotors, LogProtocol
    <2> QED BY <2>1, <2>2, <2>3 DEF limVars, execVars
  <1>4. ASSUME NEW a \in {"SET_TARGET", "LAND"}, NEW state \in MotorModes,
               MotorsHandle(a, state), TypeOK
        PROVE  ETypeOK'
    <2>1. queue["motors"] # <<>> /\ UNCHANGED <<limVars, emVars>>
      BY <1>4 DEF MotorsHandle
    <2>2. Next1("motors").epoch \in Nat
      BY <2>1, ExecTypes DEF Next1, Executors
    <2>3. UNCHANGED execVars \/ (Obey("motors", state) /\ EmitSITL(a))
      BY <1>4 DEF MotorsHandle
    <2>4. sitl' \in {"none", "SET_TARGET", "LAND"}
      BY <2>3 DEF execVars, EmitSITL
    <2>5. /\ exec' \in [Executors -> MotorModes \cup BayStates]
          /\ exec'["motors"] \in MotorModes /\ exec'["cargo"] \in BayStates
          /\ safeEpoch' \in [Executors -> Nat]
      BY <2>2, <2>3 DEF execVars, Obey, Executors
    <2> QED BY <2>1, <2>4, <2>5 DEF limVars, emVars
  <1>5. ASSUME NEW a, NEW state \in BayStates, CargoHandle(a, state), TypeOK
        PROVE  ETypeOK'
    <2>1. queue["cargo"] # <<>> /\ UNCHANGED <<limVars, emVars, sitl>>
      BY <1>5 DEF CargoHandle
    <2>2. Next1("cargo").epoch \in Nat
      BY <2>1, ExecTypes DEF Next1, Executors
    <2>3. UNCHANGED <<exec, safeEpoch>> \/ Obey("cargo", state)
      BY <1>5 DEF CargoHandle
    <2>4. /\ exec' \in [Executors -> MotorModes \cup BayStates]
          /\ exec'["motors"] \in MotorModes /\ exec'["cargo"] \in BayStates
          /\ safeEpoch' \in [Executors -> Nat]
      BY <2>2, <2>3 DEF Obey, Executors
    <2> QED BY <2>1, <2>4 DEF limVars, emVars
  <1>6. ASSUME NEW x, ExecutorIgnores(x) PROVE ETypeOK'
    BY <1>6 DEF ExecutorIgnores, limVars, emVars, execVars
  <1>7. CASE MotorsRun
    BY <1>4, <1>6, <1>7 DEF MotorsRun, HandleSetTarget, HandleLand, MotorModes
  <1>8. CASE CargoRuns
    BY <1>5, <1>6, <1>8 DEF CargoRuns, HandleOpen, HandleClose, BayStates
  <1> QED BY <1>1, <1>2, <1>3, <1>7, <1>8 DEF OthersStep

-----------------------------------------------------------------------------
(* Theorems *)

(* Every step of the composition preserves the inductive invariant.          *)
LEMMA NextEInv ==
  ASSUME EInv, [ENext]_evars
  PROVE  EInv'
  <1> USE DEF EInv
  <1>0. TypeOK /\ ActiveTableFollowsMode /\ ExecInv
    BY DEF IInv, ExecInv
  <1>1. CASE MonitorStep /\ UNCHANGED <<limVars, emVars, execVars>>
    <2>1. IInv'
      BY <1>1, NextIInv
    <2>2. ETypeOK'
      BY <1>1 DEF ETypeOK, limVars, emVars, execVars
    <2>3. CASE Forward
      <3>1. ExecInv'
        BY <1>0, <1>1, <2>3, ForwardKeeps
      <3> QED BY <2>1, <2>2, <3>1 DEF ExecInv
    <2>4. CASE Restart
      <3>1. restarts' # 0
        BY <1>0, <2>4 DEF Restart, TypeOK
      <3> QED BY <2>1, <2>2, <3>1 DEF EpochsBounded, NothingUnsafeBehind,
                 NothingUnsafeHeld, SafeStateHolds
    <2>5. CASE MonitorLeavesExecutors
      <3>1. ExecInv'
        BY <1>0, <1>1, <2>5, MonitorQuiet
      <3> QED BY <2>1, <2>2, <3>1 DEF ExecInv
    <2> QED BY <1>0, <1>1, <2>3, <2>4, <2>5, MonitorSteps
  <1>2. CASE /\ \E m \in ClientMessages : ClientPublish(m)
             /\ UNCHANGED <<limVars, emVars, execVars>>
    <2>1. PICK m \in ClientMessages : ClientPublish(m)
      BY <1>2
    <2>2. IInv'
      BY <1>0, <2>1, NextIInv, NextIsMonitorOrEnvironment DEF Next
    <2>3. ETypeOK' /\ UNCHANGED <<exec, safeEpoch>>
      BY <1>2 DEF ETypeOK, limVars, emVars, execVars
    <2>4. \A x \in Executors : queue'[x] = queue[x]
      <3>1. PublishToMonitor(m) /\ Publishable(m)
        BY <2>1, SMConstants DEF ClientPublish, Publishable
      <3> QED BY <1>0, <3>1, PublishEffect, TopicNames DEF Executors
    <2>5. UNCHANGED <<mode, version, restarts, pc, cur>>
      BY <2>1 DEF ClientPublish, smVars
    <2>6. ExecInv'
      BY <1>0, <2>3, <2>4, <2>5, QuietStep
    <2> QED BY <2>2, <2>3, <2>6 DEF ExecInv
  <1>3. CASE OthersStep
    <2>1. ETypeOK'
      BY <1>0, <1>3, NextETypeOK
    <2>2. CASE (\E v \in Verdicts : Recalculate(v)) \/ LimiterPublishes \/ EmergencyRuns
      <3>1. /\ EnvironmentStep
            /\ \A x \in Executors : queue'[x] = queue[x]
            /\ UNCHANGED <<exec, safeEpoch>>
        BY <1>0, <2>2, PublishersAreEnvironment DEF execVars
      <3>2. IInv'
        BY <3>1, NextIInv
      <3>3. ExecInv'
        BY <1>0, <3>1, QuietStep DEF EnvironmentStep
      <3> QED BY <2>1, <3>2, <3>3 DEF ExecInv
    <2>3. CASE MotorsRun \/ CargoRuns
      <3>1. PICK c \in Executors : EnvironmentStep /\ ExecutorTakes(c)
        BY <1>0, <2>3, ExecutorsAreEnvironment
      <3>2. IInv'
        BY <3>1, NextIInv
      <3>3. ExecInv'
        BY <1>0, <3>1, ExecutorKeeps DEF EnvironmentStep
      <3> QED BY <2>1, <3>2, <3>3 DEF ExecInv
    <2> QED BY <1>3, <2>2, <2>3 DEF OthersStep
  <1>4. CASE UNCHANGED evars
    <2>1. UNCHANGED vars /\ UNCHANGED <<limVars, emVars, execVars>>
      BY <1>4 DEF evars
    <2>2. IInv'
      BY <1>0, <2>1, NextIInv, NextIsMonitorOrEnvironment
    <2>3. ETypeOK' /\ UNCHANGED <<exec, safeEpoch>>
      BY <2>1 DEF ETypeOK, limVars, emVars, execVars
    <2>4. UNCHANGED <<mode, version, restarts, pc, cur, queue>>
      BY <2>1 DEF vars, smVars
    <2>5. ExecInv'
      BY <1>0, <2>3, <2>4, QuietStep
    <2> QED BY <2>2, <2>3, <2>5 DEF ExecInv
  <1> QED BY <1>1, <1>2, <1>3, <1>4 DEF ENext

(* The inductive invariant holds initially.                                  *)
LEMMA InitEInv == EInit => EInv
  <1> SUFFICES ASSUME EInit PROVE EInv
    OBVIOUS
  <1>1. Init
    BY DEF EInit
  <1>2. TypeOK
    BY <1>1, InitTypeOK
  <1>3. IInv
    BY <1>1, <1>2, SMConstants DEF Init, IInv, ActiveTableFollowsMode,
       VersionTellsMode, TransitionsLoggedInOrder, IsolationLeaksAtMostOne,
       SendersAttributed, PendingLeak
  <1>4. ETypeOK
    <2>1. exec \in [Executors -> MotorModes \cup BayStates]
      BY DEF EInit, MotorModes, BayStates
    <2>2. exec["motors"] \in MotorModes /\ exec["cargo"] \in BayStates
      BY DEF EInit, MotorModes, BayStates, Executors
    <2>3. safeEpoch \in [Executors -> Nat]
      BY DEF EInit
    <2>4. recalcs \in 0..MaxRecalc
      BY EPConstants DEF EInit
    <2>5. active \in BOOLEAN /\ landAsked \in BOOLEAN
      BY DEF EInit
    <2>6. limState \in Verdicts /\ sitl \in {"none", "SET_TARGET", "LAND"}
      BY DEF EInit, Verdicts
    <2>7. /\ limPc \in {"idle", "report", "wait", "alarm"}
          /\ emPc \in {"idle", "isolate", "close", "land", "log"}
      BY DEF EInit
    <2> QED BY <2>1, <2>2, <2>3, <2>4, <2>5, <2>6, <2>7 DEF ETypeOK
  <1>5. EpochsBounded /\ NothingUnsafeBehind /\ NothingUnsafeHeld /\ SafeStateHolds
    BY <1>1, TopicNames DEF Init, EInit, EpochsBounded, EpochsUpTo,
       NothingUnsafeBehind, NothingUnsafeHeld, SafeStateHolds, Executors
  <1> QED BY <1>3, <1>4, <1>5 DEF EInv

(* Every executor that obeyed the emergency protocol stays in its safe      *)
(* state until the isolation ends, whatever the other components queue.     *)
THEOREM SafeStateTheorem == ESpec => []SafeStateHolds
  <1>1. EInv /\ [ENext]_evars => EInv'
    BY NextEInv
  <1>2. EInv => SafeStateHolds
    BY DEF EInv
  <1> QED BY <1>1, <1>2, InitEInv, PTL DEF ESpec

(* The theorems about the monitor hold in the composition too.             *)
THEOREM MonitorInComposition ==
  ESpec => [](ActiveTableFollowsMode /\ IsolationLeaksAtMostOne /\ ETypeOK)
  <1>1. EInv /\ [ENext]_evars => EInv'
    BY NextEInv
  <1>2. EInv => ActiveTableFollowsMode /\ IsolationLeaksAtMostOne /\ ETypeOK
    BY DEF EInv, IInv
  <1> QED BY <1>1, <1>2, InitEInv, PTL DEF ESpec

-----------------------------------------------------------------------------
(* The composition implements the abstract landing *)

LandingStep == [Landing!Next]_(Landing!lvars)

(* A step that changes neither mode, version nor executors is a stutter.     *)
LEMMA QuietIsStutter ==
  ASSUME UNCHANGED <<mode, version, restarts, exec, safeEpoch>>
  PROVE  LandingStep
  BY DEF LandingStep, Landing!lvars, Held

(* The monitor switches the mode: an isolation begins or ends.             *)
LEMMA MonitorIsolates ==
  ASSUME EInv, MonitorLeavesExecutors, UNCHANGED <<exec, safeEpoch>>
  PROVE  LandingStep
  <1>1. CASE mode' = mode /\ version' = version
    BY <1>1, QuietIsStutter DEF MonitorLeavesExecutors
  <1>2. CASE mode = "ISOLATED" /\ mode' = "NORMAL"
    BY <1>2 DEF LandingStep, Landing!Next, Landing!Release, Held
  <1>3. CASE mode = "NORMAL" /\ mode' = "ISOLATED" /\ version' = version + 1
    <2>1. Held' = {}
      <3> SUFFICES ASSUME NEW x \in Executors, restarts' = 0 PROVE safeEpoch'[x] # version'
        BY DEF Held
      <3>1. safeEpoch[x] <= version
        BY DEF EInv, EpochsBounded, EpochsUpTo, MonitorLeavesExecutors
      <3>2. safeEpoch[x] \in Nat /\ version \in Nat
        BY ExecTypes DEF EInv, IInv
      <3> QED BY <1>3, <3>1, <3>2
    <2> QED BY <1>3, <2>1 DEF LandingStep, Landing!Next, Landing!Isolate
  <1> QED BY <1>1, <1>2, <1>3 DEF MonitorLeavesExecutors

(* A restart of the monitor ends the isolation, if there is one.           *)
LEMMA RestartReleases ==
  ASSUME EInv, Restart, UNCHANGED <<exec, safeEpoch>>
  PROVE  LandingStep
  <1>1. mode' = "NORMAL" /\ Held' = {}
    BY DEF Restart, Held
  <1>2. CASE mode = "ISOLATED"
    BY <1>1, <1>2 DEF LandingStep, Landing!Next, Landing!Release
  <1>3. CASE mode # "ISOLATED"
    BY <1>1, <1>3 DEF LandingStep, Landing!lvars, Held
  <1> QED BY <1>2, <1>3

(* An executor is secured, commanded while it is not secured, or left alone. *)
LEMMA ExecutorIsCommanded ==
  ASSUME EInv, ETypeOK', NEW c \in Executors, ExecutorTakes(c),
         UNCHANGED <<mode, version, restarts>>
  PROVE  LandingStep
  <1> DEFINE m == Head(queue[c])
             s == exec'[c]
  <1>1. CASE UNCHANGED <<exec, safeEpoch>>
    BY <1>1, QuietIsStutter
  <1>2. CASE ~ UNCHANGED <<exec, safeEpoch>>
    <2>1. /\ exec \in [Executors -> MotorModes \cup BayStates]
          /\ safeEpoch \in [Executors -> Nat]
          /\ s \in MotorModes \cup BayStates
      BY DEF EInv, ETypeOK
    <2>2. /\ exec' = [exec EXCEPT ![c] = s]
          /\ m.action = SafeCommand(c) =>
               s = SafeState(c) /\ safeEpoch' = [safeEpoch EXCEPT ![c] = m.epoch]
          /\ m.action # SafeCommand(c) => safeEpoch' = safeEpoch
      BY <1>2, <2>1 DEF ExecutorTakes, Obey, Next1
    <2>3. c \in Held => IsSafe(c, m, version)
      <3> SUFFICES ASSUME c \in Held PROVE IsSafe(c, m, version)
        OBVIOUS
      <3>1. CleanAfterSafe(c, queue[c], safeEpoch[c], version) /\ safeEpoch[c] = version
        BY DEF EInv, NothingUnsafeBehind, Held
      <3>2. queue[c] \in Seq(Message) /\ queue[c] # <<>> /\ version \in Nat
        BY ExecTypes DEF EInv, IInv, ExecutorTakes
      <3>3. 1 \in 1..Len(queue[c]) /\ m = queue[c][1]
        BY <3>2
      <3> QED BY <3>1, <3>3 DEF CleanAfterSafe
    <2>4. CASE mode = "ISOLATED" /\ restarts = 0 /\ IsSafe(c, m, version)
      <3>1. Held' = Held \cup {c}
        BY <2>1, <2>2, <2>4 DEF Held, IsSafe
      <3>2. [x \in Executors |-> SafeState(x)][c] = s
        BY <2>2, <2>4 DEF IsSafe
      <3>3. Landing!Secure(c)
        BY <2>2, <2>4, <3>1, <3>2 DEF Landing!Secure
      <3> QED BY <3>3 DEF LandingStep, Landing!Next
    <2>5. CASE ~ (mode = "ISOLATED" /\ restarts = 0 /\ IsSafe(c, m, version))
      <3>1. c \notin Held
        BY <2>3, <2>5 DEF Held
      <3>2. c \notin Held'
        BY <2>1, <2>2, <2>5, <3>1 DEF Held, IsSafe
      <3>3. Held' = Held
        BY <2>1, <2>2, <3>1, <3>2 DEF Held
      <3>4. Landing!Command(c, s)
        BY <2>2, <3>1, <3>3 DEF Landing!Command
      <3> QED BY <2>1, <3>4 DEF LandingStep, Landing!Next
    <2> QED BY <2>4, <2>5
  <1> QED BY <1>1, <1>2

(* Every step of the composition is a step of the abstract landing.         *)
LEMMA StepRefines ==
  ASSUME EInv, EInv', [ENext]_evars
  PROVE  LandingStep
  <1>0. TypeOK /\ ETypeOK'
    BY DEF EInv, IInv
  <1>1. CASE MonitorStep /\ UNCHANGED <<limVars, emVars, execVars>>
    <2>1. UNCHANGED <<exec, safeEpoch>>
      BY <1>1 DEF execVars
    <2>2. CASE Forward
      BY <2>1, <2>2, QuietIsStutter DEF Forward
    <2> QED BY <1>0, <1>1, <2>1, <2>2, MonitorSteps, MonitorIsolates, RestartReleases
  <1>2. CASE /\ \E m \in ClientMessages : ClientPublish(m)
             /\ UNCHANGED <<limVars, emVars, execVars>>
    BY <1>2, QuietIsStutter DEF ClientPublish, smVars, execVars
  <1>3. CASE (\E v \in Verdicts : Recalculate(v)) \/ LimiterPublishes \/ EmergencyRuns
    BY <1>0, <1>3, PublishersAreEnvironment, QuietIsStutter
       DEF EnvironmentStep, execVars
  <1>4. CASE MotorsRun \/ CargoRuns
    BY <1>0, <1>4, ExecutorsAreEnvironment, ExecutorIsCommanded DEF EnvironmentStep
  <1>5. CASE UNCHANGED evars
    BY <1>5, QuietIsStutter DEF evars, vars, smVars, execVars
  <1> QED BY <1>1, <1>2, <1>3, <1>4, <1>5 DEF ENext, OthersStep

(* Limiter, monitor, emergency component, motors and cargo together         *)
(* implement the abstract emergency landing: what handleLimiterEvent        *)
(* secures stays secured until the isolation ends.                         *)
THEOREM LandingImplemented == ESpec => ImplementsLanding
  <1>1. EInit => Landing!Init
    <2> SUFFICES ASSUME EInit PROVE Landing!Init
      OBVIOUS
    <2>1. mode = "NORMAL"
      BY DEF EInit, Init
    <2>2. exec \in [Executors -> MotorModes \cup BayStates]
      BY DEF EInit, MotorModes, BayStates
    <2> QED BY <2>1, <2>2 DEF Landing!Init, Held
  <1>2. EInv /\ EInv' /\ [ENext]_evars => [Landing!Next]_(Landing!lvars)
    BY StepRefines DEF LandingStep
  <1>3. EInv /\ [ENext]_evars => EInv'
    BY NextEInv
  <1> QED BY <1>1, <1>2, <1>3, InitEInv, PTL DEF ESpec, ImplementsLanding, Landing!Spec

-----------------------------------------------------------------------------
(* The flag of the emergency component *)

(* Before handleLimiterEvent returns with the flag set, LAND was published. *)
FlagInv == ActiveMeansLandAsked /\ (emPc = "log" => landAsked)

(* Every step keeps the flag truthful.                                     *)
LEMMA NextFlagInv ==
  ASSUME TypeOK, FlagInv, [ENext]_evars
  PROVE  FlagInv'
  <1> USE DEF FlagInv, ActiveMeansLandAsked
  <1>1. CASE UNCHANGED emVars
    BY <1>1 DEF emVars
  <1>2. CASE EmergencyRuns
    <2>1. CASE HandleLimiterEvent
      BY <2>1 DEF HandleLimiterEvent
    <2>2. CASE StartIsolation \/ CloseCargo
      BY <2>2 DEF StartIsolation, CloseCargo, EmergencyStep
    <2>3. CASE LandMotors
      <3> DEFINE land == ProxyPublishAsync("emergency", "motors", "LAND")
      <3>1. queue[ME] \in Seq(Message) /\ queue \in [Topic -> Seq(Message)] /\ ME \in Topic
        BY SMConstants DEF TypeOK
      <3>2. land \in Message
        BY MessageTypes DEF Publishable
      <3>3. queue' = [queue EXCEPT ![ME] = Append(@, land)] => queue' # queue
        <4>1. Append(queue[ME], land) # queue[ME]
          <5> HIDE DEF land
          <5>1. Len(Append(queue[ME], land)) = Len(queue[ME]) + 1 /\ Len(queue[ME]) \in Nat
            BY <3>1, <3>2
          <5> QED BY <5>1
        <4> QED BY <3>1, <4>1
      <3> QED BY <2>3, <3>3 DEF LandMotors, EmergencyStep
    <2>4. CASE LogProtocol
      BY <2>4 DEF LogProtocol, EmergencyStep
    <2> QED BY <1>2, <2>1, <2>2, <2>3, <2>4 DEF EmergencyRuns
  <1>3. CASE \E v \in Verdicts : Recalculate(v)
    BY <1>1, <1>3 DEF Recalculate
  <1>4. CASE LimiterPublishes
    BY <1>1, <1>4 DEF LimiterPublishes, ReportIncident, ReportReturns, PublishAlarm
  <1>5. CASE MotorsRun \/ CargoRuns
    BY <1>1, <1>5 DEF MotorsRun, CargoRuns, HandleSetTarget, HandleLand, HandleOpen,
       HandleClose, MotorsHandle, CargoHandle, ExecutorIgnores
  <1>6. CASE UNCHANGED evars
    BY <1>1, <1>6 DEF evars
  <1> QED BY <1>1, <1>2, <1>3, <1>4, <1>5, <1>6 DEF ENext, OthersStep

(* The flag "active" claims a landing only when LAND was published in it.   *)
THEOREM FlagTruthful == ESpec => []ActiveMeansLandAsked
  <1>1. EInit => FlagInv
    BY DEF EInit, FlagInv, ActiveMeansLandAsked
  <1>2. EInv => TypeOK
    BY DEF EInv, IInv
  <1>3. TypeOK /\ FlagInv /\ [ENext]_evars => FlagInv'
    BY NextFlagInv
  <1>4. EInv /\ [ENext]_evars => EInv'
    BY NextEInv
  <1>5. FlagInv => ActiveMeansLandAsked
    BY DEF FlagInv
  <1> QED BY <1>1, <1>2, <1>3, <1>4, <1>5, InitEInv, PTL DEF ESpec

=============================================================================
