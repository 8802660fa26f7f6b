----------------------- MODULE SecurityMonitorProofs -----------------------
(***************************************************************************)
(* Proofs about SecurityMonitor for every set of components, every policy   *)
(* table and every bound.                                                  *)
(***************************************************************************)
EXTENDS SecurityMonitor, TLAPS

(* The emergency table consists of policy keys.                            *)
LEMMA EmergencyPoliciesType == EmergencyPolicies \subseteq PolicyKey
  BY SMConstants DEF EmergencyPolicies, EmergencyKey, PolicyKey, ME

(* The initial state satisfies the type invariant.                         *)
LEMMA InitTypeOK == Init => TypeOK
  BY SMConstants DEF Init, TypeOK, ME, Modes

(* Taking the head of the inbox keeps the queues well typed.               *)
LEMMA ReceiveType ==
  ASSUME TypeOK, NEW a, Receive(a)
  PROVE  /\ queue' \in [Topic -> Seq(Message)]
         /\ Head(queue[ME]) \in Message
         /\ pc = "idle" /\ cur = NoMsg
  <1>1. ME \in Topic
    BY SMConstants
  <1>2. queue[ME] \in Seq(Message) /\ queue[ME] # <<>>
    BY <1>1 DEF TypeOK, Receive
  <1> QED BY <1>1, <1>2 DEF TypeOK, Receive

(* What a mode switch does to the fields it touches.                       *)
LEMMA SwitchType ==
  ASSUME TypeOK, NEW src \in Sender, EnterIsolated(src) \/ EnterNormal(src)
  PROVE  /\ mode' \in Modes /\ version' \in Nat \ {0} /\ source' \in Sender
         /\ policies' \subseteq PolicyKey
         /\ transitionLog' \in Seq(Transition)
         /\ leaked' \in Nat
  <1>1. CASE UNCHANGED <<mode, version, source, policies, transitionLog, leaked>>
    BY <1>1 DEF TypeOK
  <1>2. CASE LogTransition /\ mode' \in Modes /\ version' = version + 1
             /\ source' = src /\ policies' \in {EmergencyPolicies, normalPolicies}
             /\ leaked' \in {leaked, 0}
    <2>1. [mode |-> mode', version |-> version', source |-> source'] \in Transition
      BY <1>2 DEF TypeOK, Transition
    <2>2. transitionLog' \in Seq(Transition)
      BY <1>2, <2>1 DEF LogTransition, Published, TypeOK
    <2> QED BY <1>2, <2>2, EmergencyPoliciesType DEF TypeOK
  <1> QED BY <1>1, <1>2 DEF EnterIsolated, EnterNormal, Modes

(* A checked message has a target topic, and what is forwarded is a message.*)
LEMMA ForwardedType ==
  ASSUME TypeOK, pc = "checked"
  PROVE  /\ cur \in Message /\ cur.payload \in Target
         /\ cur.payload.topic \in Topic
         /\ Forwarded \in Message
  <1>1. cur \in Message /\ cur.payload \in Target
    BY DEF TypeOK
  <1> QED BY <1>1, SMConstants DEF TypeOK, Forwarded, Message, Target

(* Every step of the monitor or of a client preserves the type invariant.   *)
LEMMA NextTypeOK ==
  ASSUME TypeOK, MonitorStep \/ EnvironmentStep
  PROVE  TypeOK'
  <1>1. CASE HandleIsolationStart
    <2>1. Head(queue[ME]) \in Message /\ queue' \in [Topic -> Seq(Message)]
      BY <1>1, ReceiveType DEF HandleIsolationStart
    <2>2. Head(queue[ME]).sender \in Sender
      BY <2>1 DEF Message
    <2> QED BY <1>1, <2>1, <2>2, SwitchType DEF HandleIsolationStart, TypeOK
  <1>2. CASE HandleIsolationEnd
    <2>1. Head(queue[ME]) \in Message /\ queue' \in [Topic -> Seq(Message)]
      BY <1>2, ReceiveType DEF HandleIsolationEnd
    <2>2. Head(queue[ME]).sender \in Sender
      BY <2>1 DEF Message
    <2> QED BY <1>2, <2>1, <2>2, SwitchType DEF HandleIsolationEnd, TypeOK
  <1>3. CASE HandleSafetyHeartbeat
    BY <1>3, ReceiveType DEF HandleSafetyHeartbeat, RecordSenderSeen, TypeOK
  <1>4. CASE HandleSetPolicy
    BY <1>4, ReceiveType
       DEF HandleSetPolicy, PolicyCommand, SetNormalPolicies, TypeOK
  <1>5. CASE HandleRemovePolicy
    BY <1>5, ReceiveType
       DEF HandleRemovePolicy, PolicyCommand, SetNormalPolicies, TypeOK
  <1>6. CASE HandleClearPolicies
    BY <1>6, ReceiveType DEF HandleClearPolicies, SetNormalPolicies, TypeOK
  <1>7. CASE HandleQuery
    BY <1>7, ReceiveType DEF HandleQuery, smVars, TypeOK
  <1>8. CASE HandleProxyPublish \/ HandleProxyRequest
    <2>1. PICK a : CheckProxy(a)
      BY <1>8 DEF HandleProxyPublish, HandleProxyRequest
    <2>2. /\ Head(queue[ME]) \in Message /\ queue' \in [Topic -> Seq(Message)]
          /\ pc = "idle" /\ cur = NoMsg
      BY <2>1, ReceiveType DEF CheckProxy
    <2>3. Head(queue[ME]) # NoMsg
      BY <2>2, SMConstants
    <2> QED BY <2>1, <2>2, <2>3 DEF CheckProxy, RecordSenderSeen, TypeOK
  <1>9. CASE Forward
    <2>1. /\ cur \in Message /\ cur.payload.topic \in Topic
          /\ Forwarded \in Message
      BY <1>9, ForwardedType DEF Forward
    <2>2. PICK q \in Published(queue[cur.payload.topic], Forwarded) :
            /\ queue' = [queue EXCEPT ![cur.payload.topic] = q]
            /\ leaked' \in {leaked, leaked + 1}
            /\ \/ pc' = "waiting" /\ UNCHANGED cur
               \/ pc' = "idle" /\ cur' = NoMsg
      BY <1>9 DEF Forward
    <2>3. q \in Seq(Message)
      <3>1. q \in {Append(queue[cur.payload.topic], Forwarded), queue[cur.payload.topic]}
        BY <2>2 DEF Published
      <3>2. queue[cur.payload.topic] \in Seq(Message)
        BY <2>1 DEF TypeOK
      <3>3. Append(queue[cur.payload.topic], Forwarded) \in Seq(Message)
        BY <2>1, <3>2
      <3> QED BY <3>1, <3>2, <3>3
    <2>4. queue' \in [Topic -> Seq(Message)]
      BY <2>1, <2>2, <2>3 DEF TypeOK
    <2>5. leaked' \in Nat
      BY <2>2 DEF TypeOK
    <2> QED BY <1>9, <2>2, <2>4, <2>5, SMConstants DEF Forward, TypeOK
  <1>10. CASE ProxyRequestReturns
    BY <1>10 DEF ProxyRequestReturns, TypeOK
  <1>11. CASE \E s \in Watched : HeartbeatExpires(s)
    BY <1>11 DEF HeartbeatExpires, TypeOK
  <1>12. CASE CheckHeartbeatTimeout
    BY <1>12, SwitchType, SMConstants DEF CheckHeartbeatTimeout, TypeOK
  <1>13. CASE Restart
    <2>1. queue' \in [Topic -> Seq(Message)]
      <3>1. CASE UNCHANGED queue
        BY <3>1 DEF TypeOK
      <3>2. CASE cur # NoMsg /\ queue' = [queue EXCEPT ![ME] = <<cur>> \o @]
        <4>1. queue[ME] \in Seq(Message) /\ <<cur>> \in Seq(Message)
          BY <3>2, SMConstants DEF TypeOK
        <4>2. <<cur>> \o queue[ME] \in Seq(Message)
          BY <4>1
        <4> QED BY <3>2, <4>2 DEF TypeOK
      <3> QED BY <1>13, <3>1, <3>2 DEF Restart
    <2> QED BY <1>13, <2>1, SMConstants DEF Restart, TypeOK, Modes
  <1>14. CASE EnvironmentStep
    BY <1>14 DEF EnvironmentStep, TypeOK
  <1> QED
    BY <1>1, <1>2, <1>3, <1>4, <1>5, <1>6, <1>7, <1>8, <1>9, <1>10, <1>11,
       <1>12, <1>13, <1>14 DEF MonitorStep, HandlerStep

(* The clients of this specification, and stuttering, are such an           *)
(* environment.                                                            *)
LEMMA NextIsMonitorOrEnvironment ==
  ASSUME TypeOK, [Next]_vars
  PROVE  MonitorStep \/ EnvironmentStep
  <1>1. CASE MonitorStep
    BY <1>1
  <1>2. CASE \E m \in ClientMessages : ClientPublish(m)
    <2>1. PICK m \in ClientMessages : ClientPublish(m)
      BY <1>2
    <2>2. PICK q \in Published(queue[ME], m) : queue' = [queue EXCEPT ![ME] = q]
      BY <2>1 DEF ClientPublish, PublishToMonitor
    <2>3. /\ ME \in Topic /\ queue[ME] \in Seq(Message) /\ m \in Message
          /\ m.sender = m.origin /\ m.sender # ME
      BY SMConstants DEF TypeOK
    <2>4. q \in {queue[ME], Append(queue[ME], m)}
      BY <2>2 DEF Published
    <2>5. q \in Seq(Message)
      BY <2>3, <2>4
    <2>6. queue' \in [Topic -> Seq(Message)] /\ queue'[ME] = q
      BY <2>2, <2>3, <2>5 DEF TypeOK
    <2>7. sent' \in Nat /\ UNCHANGED restarts /\ UNCHANGED smVars
      BY <2>1 DEF ClientPublish, TypeOK
    <2> QED BY <2>3, <2>4, <2>6, <2>7 DEF EnvironmentStep, smVars
  <1>3. CASE UNCHANGED vars
    BY <1>3 DEF vars, smVars, EnvironmentStep, TypeOK
  <1> QED BY <1>1, <1>2, <1>3 DEF Next

(* Type correctness of the monitor for every value of the constants.        *)
THEOREM TypeCorrect == Spec => []TypeOK
  <1>1. TypeOK /\ [Next]_vars => TypeOK'
    BY NextTypeOK, NextIsMonitorOrEnvironment
  <1> QED BY <1>1, InitTypeOK, PTL DEF Spec

-----------------------------------------------------------------------------
(* The steps, sorted by the part of the safety state they touch.           *)

(* Only a mode switch, a policy command and a restart touch the tables.     *)
LEMMA StepKinds ==
  ASSUME TypeOK, MonitorStep \/ EnvironmentStep
  PROVE  \/ /\ \E src \in Sender : EnterIsolated(src) \/ EnterNormal(src)
            /\ UNCHANGED <<normalPolicies, pc, cur, restarts>>
         \/ /\ \E S : SetNormalPolicies(S)
            /\ UNCHANGED <<mode, version, source, transitionLog, leaked, pc, cur, restarts>>
         \/ Restart
         \/ UNCHANGED <<mode, version, source, policies, normalPolicies,
                        transitionLog, restarts>>
  <1>1. CASE HandleIsolationStart
    <2>1. Head(queue[ME]).sender \in Sender
      BY <1>1, ReceiveType DEF HandleIsolationStart, Message
    <2> QED BY <1>1, <2>1 DEF HandleIsolationStart
  <1>2. CASE HandleIsolationEnd
    <2>1. Head(queue[ME]).sender \in Sender
      BY <1>2, ReceiveType DEF HandleIsolationEnd, Message
    <2> QED BY <1>2, <2>1 DEF HandleIsolationEnd
  <1>3. CASE HandleSetPolicy
    BY <1>3 DEF HandleSetPolicy, PolicyCommand
  <1>4. CASE HandleRemovePolicy
    BY <1>4 DEF HandleRemovePolicy, PolicyCommand
  <1>5. CASE HandleClearPolicies
    BY <1>5 DEF HandleClearPolicies
  <1>6. CASE CheckHeartbeatTimeout
    BY <1>6, SMConstants DEF CheckHeartbeatTimeout
  <1>7. CASE HandleSafetyHeartbeat \/ HandleQuery \/ HandleProxyPublish
             \/ HandleProxyRequest \/ Forward \/ ProxyRequestReturns
             \/ \E s \in Watched : HeartbeatExpires(s)
    BY <1>7 DEF HandleSafetyHeartbeat, HandleQuery, smVars, HandleProxyPublish,
       HandleProxyRequest, CheckProxy, Forward, ProxyRequestReturns,
       HeartbeatExpires
  <1>8. CASE EnvironmentStep
    BY <1>8 DEF EnvironmentStep
  <1> QED
    BY <1>1, <1>2, <1>3, <1>4, <1>5, <1>6, <1>7, <1>8
       DEF MonitorStep, HandlerStep

(* Consecutive numbers have different parity.                              *)
LEMMA ParityFlips == \A n \in Nat : ((n + 1) % 2 = 0) <=> (n % 2 # 0)
  OBVIOUS

(* The logged transitions carry numbers.                                   *)
LEMMA LoggedVersions ==
  ASSUME TypeOK, NEW i \in 1..Len(transitionLog)
  PROVE  transitionLog[i].version \in Nat
  <1>1. transitionLog[i] \in Transition
    BY DEF TypeOK
  <1> QED BY <1>1 DEF Transition

(* The active table follows the mode, and the version tells it.            *)
LEMMA NextTables ==
  ASSUME TypeOK, ActiveTableFollowsMode, VersionTellsMode, MonitorStep \/ EnvironmentStep
  PROVE  ActiveTableFollowsMode' /\ VersionTellsMode'
  <1>1. ASSUME NEW src \in Sender, EnterIsolated(src) \/ EnterNormal(src),
               UNCHANGED normalPolicies
        PROVE  ActiveTableFollowsMode' /\ VersionTellsMode'
    <2>1. ActiveTableFollowsMode'
      BY <1>1 DEF EnterIsolated, EnterNormal, ActiveTableFollowsMode,
         EmergencyPolicies, TypeOK, Modes
    <2>2. VersionTellsMode'
      <3>1. CASE UNCHANGED <<mode, version>>
        BY <3>1 DEF VersionTellsMode
      <3>2. CASE /\ version' = version + 1
                 /\ mode' = (IF mode = "NORMAL" THEN "ISOLATED" ELSE "NORMAL")
        <4>1. (version' % 2 = 0) <=> (version % 2 # 0)
          BY <3>2, ParityFlips DEF TypeOK
        <4> QED BY <3>2, <4>1 DEF VersionTellsMode, TypeOK, Modes
      <3> QED BY <1>1, <3>1, <3>2 DEF EnterIsolated, EnterNormal
    <2> QED BY <2>1, <2>2
  <1>2. ASSUME NEW S, SetNormalPolicies(S), UNCHANGED <<mode, version>>
        PROVE  ActiveTableFollowsMode' /\ VersionTellsMode'
    BY <1>2 DEF SetNormalPolicies, ActiveTableFollowsMode, EmergencyPolicies,
       VersionTellsMode
  <1>3. CASE Restart
    BY <1>3 DEF Restart, ActiveTableFollowsMode, VersionTellsMode
  <1>4. CASE UNCHANGED <<mode, version, policies, normalPolicies>>
    BY <1>4 DEF ActiveTableFollowsMode, EmergencyPolicies, VersionTellsMode
  <1> QED BY <1>1, <1>2, <1>3, <1>4, StepKinds

(* The journal receives the transitions in version order.                  *)
LEMMA NextTransitionsLogged ==
  ASSUME TypeOK, VersionTellsMode, TransitionsLoggedInOrder, MonitorStep \/ EnvironmentStep
  PROVE  TransitionsLoggedInOrder'
  <1>1. CASE UNCHANGED <<version, transitionLog, restarts>>
    BY <1>1 DEF TransitionsLoggedInOrder
  <1>2. CASE Restart
    BY <1>2 DEF Restart, TransitionsLoggedInOrder, TypeOK
  <1>3. ASSUME NEW src \in Sender, EnterIsolated(src) \/ EnterNormal(src),
               UNCHANGED restarts, restarts = 0,
               ~ UNCHANGED <<version, transitionLog>>
        PROVE  TransitionsLoggedInOrder'
    <2> DEFINE tr == [mode |-> mode', version |-> version', source |-> source']
    <2>1. /\ version' = version + 1
          /\ mode' = (IF mode = "NORMAL" THEN "ISOLATED" ELSE "NORMAL")
          /\ LogTransition
      BY <1>3 DEF EnterIsolated, EnterNormal
    <2>2. (mode' = "ISOLATED") <=> (version' % 2 = 0)
      <3>1. (version' % 2 = 0) <=> (version % 2 # 0)
        BY <2>1, ParityFlips DEF TypeOK
      <3> QED BY <2>1, <3>1 DEF VersionTellsMode, TypeOK, Modes
    <2>3. transitionLog \in Seq(Transition)
      BY DEF TypeOK
    <2>4. CASE transitionLog' = transitionLog
      <3>1. \A i \in 1..Len(transitionLog) : transitionLog[i].version <= version'
        BY <1>3, <2>1, LoggedVersions DEF TransitionsLoggedInOrder, TypeOK
      <3> QED BY <1>3, <2>4, <3>1 DEF TransitionsLoggedInOrder
    <2>5. CASE transitionLog' = Append(transitionLog, tr)
      <3>1. Len(transitionLog') = Len(transitionLog) + 1 /\ Len(transitionLog) \in Nat
        BY <2>3, <2>5
      <3>2. transitionLog'[Len(transitionLog) + 1] = tr
        BY <2>3, <2>5
      <3>3. \A i \in 1..Len(transitionLog) : transitionLog'[i] = transitionLog[i]
        BY <2>3, <2>5
      <3>4. \A i \in 1..Len(transitionLog) : transitionLog[i].version \in Nat
        BY LoggedVersions
      <3>5. \A i, j \in 1..Len(transitionLog') :
              i < j => transitionLog'[i].version < transitionLog'[j].version
        <4> SUFFICES ASSUME NEW i \in 1..Len(transitionLog'),
                            NEW j \in 1..Len(transitionLog'), i < j
                     PROVE  transitionLog'[i].version < transitionLog'[j].version
          OBVIOUS
        <4>1. i \in 1..Len(transitionLog) /\ transitionLog'[i] = transitionLog[i]
          BY <3>1, <3>3
        <4>2. CASE j \in 1..Len(transitionLog)
          BY <1>3, <3>3, <4>1, <4>2 DEF TransitionsLoggedInOrder
        <4>3. CASE j = Len(transitionLog) + 1
          <5>1. transitionLog[i].version <= version
            BY <1>3, <4>1 DEF TransitionsLoggedInOrder
          <5>2. transitionLog'[j].version = version + 1
            BY <2>1, <3>2, <4>3
          <5> QED BY <3>4, <4>1, <5>1, <5>2 DEF TypeOK
        <4> QED BY <3>1, <4>2, <4>3
      <3>6. ASSUME NEW i \in 1..Len(transitionLog')
            PROVE  /\ transitionLog'[i].version <= version'
                   /\ (transitionLog'[i].mode = "ISOLATED") <=>
                        (transitionLog'[i].version % 2 = 0)
        <4>1. CASE i \in 1..Len(transitionLog)
          BY <1>3, <2>1, <3>3, <3>4, <4>1 DEF TransitionsLoggedInOrder, TypeOK
        <4>2. CASE i = Len(transitionLog) + 1
          BY <2>1, <2>2, <3>2, <4>2 DEF TypeOK
        <4> QED BY <3>1, <4>1, <4>2
      <3> QED BY <3>5, <3>6 DEF TransitionsLoggedInOrder
    <2> QED BY <2>1, <2>4, <2>5 DEF LogTransition, Published
  <1>4. CASE restarts' = restarts /\ restarts # 0
    BY <1>4 DEF TransitionsLoggedInOrder
  <1> QED BY <1>1, <1>2, <1>3, <1>4, StepKinds

(* The gap between check and forwarding leaks at most one message.         *)
LEMMA NextLeak ==
  ASSUME TypeOK, ActiveTableFollowsMode, IsolationLeaksAtMostOne, PendingLeak,
         MonitorStep \/ EnvironmentStep
  PROVE  IsolationLeaksAtMostOne' /\ PendingLeak'
  <1> USE DEF EmergencyPolicies, Key
  <1>1. CASE HandleIsolationStart \/ HandleIsolationEnd
    <2>1. pc = "idle" /\ UNCHANGED <<pc, cur>>
      BY <1>1 DEF HandleIsolationStart, HandleIsolationEnd, Receive
    <2>2. \/ UNCHANGED <<mode, source, leaked>>
          \/ mode' = "NORMAL"
          \/ leaked' = 0
      BY <1>1 DEF HandleIsolationStart, HandleIsolationEnd, EnterIsolated,
         EnterNormal
    <2> QED BY <2>1, <2>2 DEF IsolationLeaksAtMostOne, PendingLeak
  <1>2. CASE CheckHeartbeatTimeout
    BY <1>2 DEF CheckHeartbeatTimeout, EnterIsolated, IsolationLeaksAtMostOne,
       PendingLeak
  <1>3. CASE HandleProxyPublish \/ HandleProxyRequest
    <2>1. PICK a : CheckProxy(a)
      BY <1>3 DEF HandleProxyPublish, HandleProxyRequest
    <2>2. UNCHANGED <<mode, source, leaked>>
      BY <2>1 DEF CheckProxy
    <2>3. CASE UNCHANGED <<pc, cur>>
      BY <2>2, <2>3 DEF IsolationLeaksAtMostOne, PendingLeak
    <2>4. CASE Key(cur'.sender, cur'.payload) \in policies
      BY <2>2, <2>4 DEF IsolationLeaksAtMostOne, PendingLeak,
         ActiveTableFollowsMode
    <2> QED BY <2>1, <2>3, <2>4 DEF CheckProxy, Allowed
  <1>4. CASE Forward
    <2>1. pc = "checked" /\ pc' # "checked" /\ UNCHANGED <<mode, source>>
      BY <1>4 DEF Forward
    <2>2. PendingLeak'
      BY <2>1 DEF PendingLeak
    <2>3. \/ leaked' = leaked
          \/ /\ leaked' = leaked + 1
             /\ mode = "ISOLATED"
             /\ Key(cur.sender, cur.payload) \notin EmergencyPolicies
      BY <1>4 DEF Forward
    <2>4. IsolationLeaksAtMostOne'
      BY <2>1, <2>3 DEF IsolationLeaksAtMostOne, PendingLeak, TypeOK
    <2> QED BY <2>2, <2>4
  <1>5. CASE ProxyRequestReturns
    BY <1>5 DEF ProxyRequestReturns, IsolationLeaksAtMostOne, PendingLeak
  <1>6. CASE Restart
    BY <1>6 DEF Restart, IsolationLeaksAtMostOne, PendingLeak
  <1>7. CASE UNCHANGED <<mode, source, leaked, pc, cur>>
    BY <1>7 DEF IsolationLeaksAtMostOne, PendingLeak
  <1>8. CASE HandleSafetyHeartbeat \/ HandleSetPolicy \/ HandleRemovePolicy
             \/ HandleClearPolicies \/ HandleQuery
             \/ (\E s \in Watched : HeartbeatExpires(s))
             \/ EnvironmentStep
    <2>1. UNCHANGED <<mode, source, leaked, pc, cur>>
      BY <1>8 DEF HandleSafetyHeartbeat, HandleSetPolicy, HandleRemovePolicy,
         PolicyCommand, HandleClearPolicies, HandleQuery, HeartbeatExpires,
         EnvironmentStep, smVars
    <2> QED BY <1>7, <2>1
  <1> QED
    BY <1>1, <1>2, <1>3, <1>4, <1>5, <1>6, <1>8
       DEF MonitorStep, HandlerStep

(* Dropping the head of the inbox keeps its messages attributed.           *)
LEMMA ReceiveAttributed ==
  ASSUME TypeOK, SendersAttributed, NEW a, Receive(a)
  PROVE  /\ \A i \in 1..Len(queue'[ME]) : Attributed(queue'[ME][i])
         /\ Attributed(Head(queue[ME]))
  <1>1. queue[ME] \in Seq(Message) /\ queue[ME] # <<>>
    BY SMConstants DEF TypeOK, Receive
  <1>2. queue'[ME] = Tail(queue[ME])
    BY SMConstants DEF TypeOK, Receive
  <1>3. /\ Len(Tail(queue[ME])) = Len(queue[ME]) - 1
        /\ \A i \in 1..Len(Tail(queue[ME])) : Tail(queue[ME])[i] = queue[ME][i + 1]
        /\ Head(queue[ME]) = queue[ME][1]
        /\ Len(queue[ME]) \in Nat \ {0}
    BY <1>1
  <1> QED BY <1>2, <1>3 DEF SendersAttributed

(* Appending an attributed message keeps a queue attributed.               *)
LEMMA AppendAttributed ==
  ASSUME NEW q \in Seq(Message), NEW m \in Message, Attributed(m),
         \A i \in 1..Len(q) : Attributed(q[i])
  PROVE  \A i \in 1..Len(Append(q, m)) : Attributed(Append(q, m)[i])
  <1>1. /\ Len(Append(q, m)) = Len(q) + 1 /\ Len(q) \in Nat
        /\ Append(q, m)[Len(q) + 1] = m
        /\ \A i \in 1..Len(q) : Append(q, m)[i] = q[i]
    OBVIOUS
  <1> QED BY <1>1

(* Every message in the inbox names its publisher or the monitor.          *)
LEMMA NextAttributed ==
  ASSUME TypeOK, SendersAttributed, MonitorStep \/ EnvironmentStep
  PROVE  SendersAttributed'
  <1> USE DEF Attributed
  <1>1. ASSUME NEW a, Receive(a), UNCHANGED cur
        PROVE  SendersAttributed'
    BY <1>1, ReceiveAttributed DEF SendersAttributed
  <1>2. CASE HandleIsolationStart \/ HandleIsolationEnd \/ HandleSafetyHeartbeat
             \/ HandleSetPolicy \/ HandleRemovePolicy \/ HandleClearPolicies
             \/ HandleQuery
    <2>1. UNCHANGED cur /\ \E a : Receive(a)
      BY <1>2 DEF HandleIsolationStart, HandleIsolationEnd,
         HandleSafetyHeartbeat, HandleSetPolicy, HandleRemovePolicy,
         PolicyCommand, HandleClearPolicies, HandleQuery, smVars
    <2> QED BY <1>1, <2>1
  <1>3. CASE HandleProxyPublish \/ HandleProxyRequest
    <2>1. PICK a : CheckProxy(a)
      BY <1>3 DEF HandleProxyPublish, HandleProxyRequest
    <2> QED BY <2>1, ReceiveAttributed DEF CheckProxy, SendersAttributed
  <1>4. CASE Forward
    <2>1. /\ cur \in Message /\ cur.payload.topic \in Topic
          /\ Forwarded \in Message
      BY <1>4, ForwardedType DEF Forward
    <2>2. Attributed(Forwarded)
      BY DEF Forwarded
    <2>3. PICK q \in Published(queue[cur.payload.topic], Forwarded) :
            /\ queue' = [queue EXCEPT ![cur.payload.topic] = q]
            /\ cur' \in {cur, NoMsg}
      BY <1>4 DEF Forward
    <2>4. queue'[ME] \in {queue[ME], Append(queue[ME], Forwarded)}
      BY <2>1, <2>3, SMConstants DEF Published, TypeOK
    <2>5. queue[ME] \in Seq(Message)
      BY SMConstants DEF TypeOK
    <2>6. \A i \in 1..Len(queue'[ME]) : Attributed(queue'[ME][i])
      BY <2>1, <2>2, <2>4, <2>5, AppendAttributed DEF SendersAttributed
    <2> QED BY <2>3, <2>6 DEF SendersAttributed
  <1>5. CASE ProxyRequestReturns
    BY <1>5 DEF ProxyRequestReturns, SendersAttributed
  <1>6. CASE Restart
    <2>1. CASE UNCHANGED queue
      BY <1>6, <2>1 DEF Restart, SendersAttributed
    <2>2. CASE cur # NoMsg /\ queue' = [queue EXCEPT ![ME] = <<cur>> \o @]
      <3>1. queue[ME] \in Seq(Message) /\ cur \in Message
        BY <2>2, SMConstants DEF TypeOK
      <3>2. queue'[ME] = <<cur>> \o queue[ME]
        BY <2>2, SMConstants DEF TypeOK
      <3>3. \A i \in 1..Len(<<cur>> \o queue[ME]) :
              (<<cur>> \o queue[ME])[i] = IF i = 1 THEN cur ELSE queue[ME][i - 1]
        BY <3>1
      <3>4. Len(<<cur>> \o queue[ME]) = 1 + Len(queue[ME]) /\ Len(queue[ME]) \in Nat
        BY <3>1
      <3>5. Attributed(cur)
        BY <2>2 DEF SendersAttributed
      <3> QED BY <1>6, <3>2, <3>3, <3>4, <3>5 DEF Restart, SendersAttributed
    <2> QED BY <1>6, <2>1, <2>2 DEF Restart
  <1>7. CASE EnvironmentStep
    <2>1. UNCHANGED cur /\ queue[ME] \in Seq(Message)
      BY <1>7, SMConstants DEF EnvironmentStep, TypeOK
    <2>2. CASE queue'[ME] = queue[ME]
      BY <2>1, <2>2 DEF SendersAttributed
    <2>3. ASSUME NEW m \in Message, m.sender = m.origin,
                 queue'[ME] = Append(queue[ME], m)
          PROVE  SendersAttributed'
      BY <2>1, <2>3, AppendAttributed DEF SendersAttributed
    <2> QED BY <1>7, <2>2, <2>3 DEF EnvironmentStep
  <1>8. CASE UNCHANGED <<queue, cur>>
    BY <1>8 DEF SendersAttributed
  <1>9. CASE (\E s \in Watched : HeartbeatExpires(s)) \/ CheckHeartbeatTimeout
    BY <1>8, <1>9 DEF HeartbeatExpires, CheckHeartbeatTimeout
  <1> QED
    BY <1>2, <1>3, <1>4, <1>5, <1>6, <1>7, <1>9
       DEF MonitorStep, HandlerStep

(* Whatever the environment publishes and consumes, a step preserves the    *)
(* inductive invariant.                                                    *)
LEMMA NextIInv ==
  ASSUME IInv, MonitorStep \/ EnvironmentStep
  PROVE  IInv'
  BY NextTypeOK, NextTables, NextTransitionsLogged, NextLeak, NextAttributed
     DEF IInv

-----------------------------------------------------------------------------
(* Theorems *)

(* The inductive invariant holds in every behaviour of the monitor.        *)
THEOREM Invariance == Spec => []IInv
  <1>1. Init => IInv
    <2>1. Init => TypeOK
      BY InitTypeOK
    <2> QED
      BY <2>1, SMConstants DEF Init, IInv, ActiveTableFollowsMode,
         VersionTellsMode, TransitionsLoggedInOrder, IsolationLeaksAtMostOne,
         SendersAttributed, PendingLeak
  <1>2. IInv /\ [Next]_vars => IInv'
    BY NextIInv, NextIsMonitorOrEnvironment DEF IInv
  <1> QED BY <1>1, <1>2, PTL DEF Spec

(* In NORMAL mode the active table is the base table, in ISOLATED mode the  *)
(* emergency table, whatever the administrator and the watchdog do.        *)
THEOREM TablesCorrect == Spec => [](ActiveTableFollowsMode /\ VersionTellsMode)
  <1>1. IInv => ActiveTableFollowsMode /\ VersionTellsMode
    BY DEF IInv
  <1> QED BY <1>1, Invariance, PTL

(* The journal sees the transitions of a run in version order.             *)
THEOREM JournalOrder == Spec => []TransitionsLoggedInOrder
  <1>1. IInv => TransitionsLoggedInOrder
    BY DEF IInv
  <1> QED BY <1>1, Invariance, PTL

(* At most one message slips through after the watchdog isolates, and none  *)
(* after ISOLATION_START.                                                  *)
THEOREM LeakBound == Spec => []IsolationLeaksAtMostOne
  <1>1. IInv => IsolationLeaksAtMostOne
    BY DEF IInv
  <1> QED BY <1>1, Invariance, PTL

(* Unless the monitor itself is named policy administrator, no policy table *)
(* lets another component switch the mode or edit the policies.            *)
THEOREM NoBorrowedAuthority ==
  ASSUME Admin # ME
  PROVE  Spec => AuthorityNotBorrowed
  <1> DEFINE Step ==
        /\ normalPolicies' # normalPolicies =>
             \/ restarts' # restarts
             \/ CanManagePolicies(Head(queue[ME]).origin)
        /\ mode' # mode =>
             \/ restarts' # restarts
             \/ mode' = "ISOLATED" /\ queue' = queue
             \/ MaySwitchMode(Head(queue[ME]).origin)
  <1>1. IInv /\ [Next]_vars => [Step]_vars
    <2> SUFFICES ASSUME IInv, [Next]_vars PROVE Step
      OBVIOUS
    <2>1. ASSUME NEW a, Receive(a)
          PROVE  /\ CanManagePolicies(Head(queue[ME]).sender)
                      => CanManagePolicies(Head(queue[ME]).origin)
                 /\ MaySwitchMode(Head(queue[ME]).sender)
                      => MaySwitchMode(Head(queue[ME]).origin)
      BY <2>1, ReceiveAttributed
         DEF IInv, Attributed, CanManagePolicies, MaySwitchMode, ME
    <2>2. CASE HandleIsolationStart \/ HandleIsolationEnd
      BY <2>1, <2>2 DEF HandleIsolationStart, HandleIsolationEnd
    <2>3. CASE HandleSetPolicy \/ HandleRemovePolicy \/ HandleClearPolicies
      BY <2>1, <2>3 DEF HandleSetPolicy, HandleRemovePolicy, PolicyCommand,
         HandleClearPolicies
    <2>4. CASE CheckHeartbeatTimeout
      BY <2>4 DEF CheckHeartbeatTimeout, EnterIsolated
    <2>5. CASE Restart
      BY <2>5 DEF Restart, IInv, TypeOK
    <2>6. CASE HandleSafetyHeartbeat \/ HandleQuery \/ HandleProxyPublish
               \/ HandleProxyRequest \/ Forward \/ ProxyRequestReturns
               \/ (\E s \in Watched : HeartbeatExpires(s))
               \/ (\E m \in ClientMessages : ClientPublish(m))
               \/ UNCHANGED vars
      <3>1. UNCHANGED <<mode, normalPolicies>>
        BY <2>6 DEF HandleSafetyHeartbeat, HandleQuery, HandleProxyPublish,
           HandleProxyRequest, CheckProxy, Forward, ProxyRequestReturns,
           HeartbeatExpires, ClientPublish, vars, smVars
      <3> QED BY <3>1
    <2> QED
      BY <2>2, <2>3, <2>4, <2>5, <2>6 DEF Next, MonitorStep, HandlerStep
  <1> QED BY <1>1, Invariance, PTL DEF Spec, AuthorityNotBorrowed

=============================================================================
