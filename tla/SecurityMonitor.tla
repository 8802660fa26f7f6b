-------------------------- MODULE SecurityMonitor --------------------------
(***************************************************************************)
(* The policy gateway of the drone (security_monitor/src).  Every command  *)
(* one component sends to another is a proxy_request or a proxy_publish on *)
(* the topic of the security monitor, which forwards it under its own name *)
(* when its policy table allows the triple (sender, topic, action).        *)
(*                                                                         *)
(* Two goroutines share the state.  The consumer of the monitor's topic    *)
(* runs the handlers one message at a time, and a proxy handler releases   *)
(* the lock between the policy check and the forwarding (Checked, then     *)
(* Forward).  The watchdog may switch to ISOLATED at any moment between.   *)
(*                                                                         *)
(* The bus is a function from topics to FIFO queues (a one-partition Kafka *)
(* topic).  A publish may fail when LossyBus holds.                        *)
(***************************************************************************)
EXTENDS Integers, Sequences

CONSTANTS
  Sender,            \* component identifiers that appear in "sender"
  Topic,             \* broker topics, named by the component that reads them
  Action,            \* action names
  Admin,             \* POLICY_ADMIN_SENDER, or NoAdmin when it is not set
  NoAdmin,
  InitialPolicies,   \* parsePolicies(SECURITY_POLICIES)
  ClientMessages,    \* what the other components may publish to the monitor
  HeartbeatOn,       \* heartbeatTimeout > 0, so the watchdog goroutine runs
  Failsafe,          \* failsafeAction = "isolate"
  LossyBus,          \* a publish may return an error
  NoMsg, NoPayload,
  MaxSent,           \* bound: messages the clients publish
  MaxRestarts        \* bound: restarts of the monitor's process

VARIABLES
  mode, version, source,       \* safetyState
  policies, normalPolicies,    \* the active and the base policy tables
  seen,           \* watched senders heard of within heartbeatTimeout
  pc, cur,        \* the consumer goroutine and the message it handles
  queue,          \* broker: topic -> messages not consumed yet
  transitionLog,  \* LOG_EVENT messages of mode transitions that were published
  sent, restarts, \* counters of the bounds
  leaked          \* history: messages outside EmergencyPolicies forwarded
                  \* since the monitor entered the current isolation

smVars == <<mode, version, source, policies, normalPolicies, seen, pc, cur,
            transitionLog, leaked>>
vars == <<smVars, queue, sent, restarts>>

ME == "security_monitor"
Watched == {"limiter", "emergency"}
Modes == {"NORMAL", "ISOLATED"}

PolicyKey == [sender : Sender, topic : Topic, action : Action]
Target == [topic : Topic, action : Action, data : PolicyKey \cup {NoPayload}]

(* origin and epoch are history: the component that first published the     *)
(* message, and the safety-state version under which it was forwarded.      *)
Message == [action : Action, sender : Sender, origin : Sender,
            payload : Target \cup PolicyKey \cup {NoPayload}, epoch : Nat]
Transition == [mode : Modes, version : Nat, source : Sender]

ASSUME SMConstants ==
  /\ {ME, "emergency", "limiter"} \subseteq Sender
  /\ {"navigation", "motors", "cargo", "journal", ME} \subseteq Topic
  /\ {"get_state", "LAND", "CLOSE", "LOG_EVENT", "isolation_status",
      "ISOLATION_START", "ISOLATION_END"} \subseteq Action
  /\ Admin \in Sender \cup {NoAdmin}
  /\ NoAdmin \notin Sender
  /\ InitialPolicies \subseteq PolicyKey
  /\ ClientMessages \subseteq Message
  /\ \A m \in ClientMessages : m.origin = m.sender /\ m.sender # ME
  /\ NoMsg \notin Message
  /\ NoPayload \notin PolicyKey \cup Target
  /\ HeartbeatOn \in BOOLEAN /\ Failsafe \in BOOLEAN /\ LossyBus \in BOOLEAN
  /\ MaxSent \in Nat /\ MaxRestarts \in Nat

-----------------------------------------------------------------------------
(* Policy store *)

EmergencyKey(t, a) == [sender |-> "emergency", topic |-> t, action |-> a]

EmergencyPolicies ==
  {EmergencyKey("navigation", "get_state"), EmergencyKey("motors", "LAND"),
   EmergencyKey("cargo", "CLOSE"), EmergencyKey("journal", "LOG_EVENT"),
   EmergencyKey(ME, "isolation_status"), EmergencyKey(ME, "ISOLATION_END")}

Key(s, t) == [sender |-> s, topic |-> t.topic, action |-> t.action]

(* Mutant of Allowed: the check reads the base table, not the active one.  *)
AllowedByBaseTable(s, t) == Key(s, t) \in normalPolicies

Allowed(s, t) == Key(s, t) \in policies

CanManagePolicies(s) == Admin # NoAdmin /\ s = Admin

(* Mutant of MaySwitchMode: the monitor trusts its own name, as all other   *)
(* components do.                                                          *)
MaySwitchModeTrustingSelf(s) == s \in {"emergency", ME} \/ CanManagePolicies(s)

MaySwitchMode(s) == s = "emergency" \/ CanManagePolicies(s)

-----------------------------------------------------------------------------
(* Bus *)

(* The outcomes of publishing m on a topic whose queue is q.               *)
Published(q, m) == {Append(q, m)} \cup (IF LossyBus THEN {q} ELSE {})

(* The consumer goroutine takes the next message, an action a.             *)
Receive(a) ==
  /\ pc = "idle"
  /\ queue[ME] # <<>>
  /\ Head(queue[ME]).action = a
  /\ queue' = [queue EXCEPT ![ME] = Tail(@)]

-----------------------------------------------------------------------------
(* Safety mode: both switches run with the lock held, journal included.    *)

(* Mutant of LogTransition: the version was read before it was bumped.     *)
LogTransitionStaleVersion ==
  transitionLog' \in
    Published(transitionLog,
              [mode |-> mode', version |-> version, source |-> source'])

LogTransition ==
  transitionLog' \in
    Published(transitionLog,
              [mode |-> mode', version |-> version', source |-> source'])

(* Mutant of EnterIsolated: a second activation is a transition again.     *)
EnterIsolatedTwice(src) ==
  /\ mode' = "ISOLATED"
  /\ policies' = EmergencyPolicies
  /\ source' = src
  /\ version' = version + 1
  /\ leaked' = 0
  /\ LogTransition

EnterIsolated(src) ==
  \/ /\ mode = "ISOLATED"
     /\ UNCHANGED <<mode, version, source, policies, transitionLog, leaked>>
  \/ /\ mode = "NORMAL"
     /\ mode' = "ISOLATED"
     /\ policies' = EmergencyPolicies
     /\ source' = src
     /\ version' = version + 1
     /\ leaked' = 0
     /\ LogTransition

EnterNormal(src) ==
  \/ /\ mode = "NORMAL"
     /\ UNCHANGED <<mode, version, source, policies, transitionLog, leaked>>
  \/ /\ mode = "ISOLATED"
     /\ mode' = "NORMAL"
     /\ policies' = normalPolicies
     /\ source' = src
     /\ version' = version + 1
     /\ UNCHANGED leaked
     /\ LogTransition

HandleIsolationStart ==
  /\ Receive("ISOLATION_START")
  /\ LET s == Head(queue[ME]).sender
     IN  IF MaySwitchMode(s)
         THEN EnterIsolated(s)
         ELSE UNCHANGED <<mode, version, source, policies, transitionLog, leaked>>
  /\ UNCHANGED <<normalPolicies, seen, pc, cur, sent, restarts>>

HandleIsolationEnd ==
  /\ Receive("ISOLATION_END")
  /\ LET s == Head(queue[ME]).sender
     IN  IF MaySwitchMode(s)
         THEN EnterNormal(s)
         ELSE UNCHANGED <<mode, version, source, policies, transitionLog, leaked>>
  /\ UNCHANGED <<normalPolicies, seen, pc, cur, sent, restarts>>

RecordSenderSeen(s) == seen' = seen \cup ({s} \cap Watched)

HandleSafetyHeartbeat ==
  /\ Receive("safety_heartbeat")
  /\ RecordSenderSeen(Head(queue[ME]).sender)
  /\ UNCHANGED <<mode, version, source, policies, normalPolicies, pc, cur,
                 transitionLog, leaked, sent, restarts>>

-----------------------------------------------------------------------------
(* Policy administration: the base table always changes, the active one    *)
(* only in NORMAL mode.                                                    *)

(* Mutant of SetNormalPolicies: the active table changes in any mode.      *)
SetNormalPoliciesInAnyMode(S) == normalPolicies' = S /\ policies' = S

SetNormalPolicies(S) ==
  /\ normalPolicies' = S
  /\ policies' = IF mode = "NORMAL" THEN S ELSE policies

PolicyCommand(a, table) ==
  /\ Receive(a)
  /\ LET m == Head(queue[ME])
     IN  IF CanManagePolicies(m.sender) /\ m.payload \in PolicyKey
         THEN SetNormalPolicies(table)
         ELSE UNCHANGED <<policies, normalPolicies>>
  /\ UNCHANGED <<mode, version, source, seen, pc, cur, transitionLog, leaked,
                 sent, restarts>>

HandleSetPolicy ==
  PolicyCommand("set_policy", normalPolicies \cup {Head(queue[ME]).payload})

HandleRemovePolicy ==
  PolicyCommand("remove_policy", normalPolicies \ {Head(queue[ME]).payload})

HandleClearPolicies ==
  /\ Receive("clear_policies")
  /\ IF CanManagePolicies(Head(queue[ME]).sender)
     THEN SetNormalPolicies({})
     ELSE UNCHANGED <<policies, normalPolicies>>
  /\ UNCHANGED <<mode, version, source, seen, pc, cur, transitionLog, leaked,
                 sent, restarts>>

(* list_policies, isolation_status, ping, get_status and unknown actions   *)
(* answer without changing the state of the monitor.                       *)
StateChanging == {"ISOLATION_START", "ISOLATION_END", "safety_heartbeat",
                  "set_policy", "remove_policy", "clear_policies",
                  "proxy_publish", "proxy_request"}

HandleQuery ==
  /\ \E a \in Action \ StateChanging : Receive(a)
  /\ UNCHANGED <<smVars, sent, restarts>>

-----------------------------------------------------------------------------
(* Proxy handlers *)

(* First half, with the read lock: the sender is recorded, and a message   *)
(* with a valid and allowed target goes on to be forwarded.                *)
CheckProxy(a) ==
  /\ Receive(a)
  /\ LET m == Head(queue[ME])
     IN  /\ RecordSenderSeen(m.sender)
         /\ IF m.payload \in Target /\ Allowed(m.sender, m.payload)
            THEN pc' = "checked" /\ cur' = m
            ELSE UNCHANGED <<pc, cur>>
  /\ UNCHANGED <<mode, version, source, policies, normalPolicies,
                 transitionLog, leaked, sent, restarts>>

HandleProxyPublish == CheckProxy("proxy_publish")
HandleProxyRequest == CheckProxy("proxy_request")

Forwarded == [action |-> cur.payload.action, sender |-> ME,
              origin |-> cur.origin, payload |-> cur.payload.data, epoch |-> version]

(* Second half, without the lock: the message is published under the       *)
(* monitor's name; proxy_request then waits for the answer.                *)
Forward ==
  /\ pc = "checked"
  /\ LET t == cur.payload.topic
     IN  \E q \in Published(queue[t], Forwarded) :
           /\ queue' = [queue EXCEPT ![t] = q]
           /\ leaked' = IF /\ mode = "ISOLATED"
                           /\ Key(cur.sender, cur.payload) \notin EmergencyPolicies
                           /\ q # queue[t]
                        THEN leaked + 1 ELSE leaked
           /\ IF cur.action = "proxy_request" /\ q # queue[t]
              THEN pc' = "waiting" /\ UNCHANGED cur
              ELSE pc' = "idle" /\ cur' = NoMsg
  /\ UNCHANGED <<mode, version, source, policies, normalPolicies, seen,
                 transitionLog, sent, restarts>>

(* Mutants of ProxyRequestReturns: the handled message is not forgotten;    *)
(* a request has no timeout, so one to the monitor itself never returns.   *)
ProxyRequestReturnsKeepingMessage ==
  /\ pc = "waiting"
  /\ pc' = "idle"
  /\ UNCHANGED <<mode, version, source, policies, normalPolicies, seen, cur,
                 transitionLog, leaked, queue, sent, restarts>>

ProxyRequestReturnsOnAnswer ==
  /\ pc = "waiting"
  /\ cur.payload.topic # ME
  /\ pc' = "idle"
  /\ cur' = NoMsg
  /\ UNCHANGED <<mode, version, source, policies, normalPolicies, seen,
                 transitionLog, leaked, queue, sent, restarts>>

(* The answer arrived on the reply topic, or proxyTimeoutSec elapsed.      *)
ProxyRequestReturns ==
  /\ pc = "waiting"
  /\ pc' = "idle"
  /\ cur' = NoMsg
  /\ UNCHANGED <<mode, version, source, policies, normalPolicies, seen,
                 transitionLog, leaked, queue, sent, restarts>>

-----------------------------------------------------------------------------
(* Watchdog goroutine *)

(* More than heartbeatTimeout passes without a word from s.                *)
HeartbeatExpires(s) ==
  /\ HeartbeatOn
  /\ s \in seen
  /\ seen' = seen \ {s}
  /\ UNCHANGED <<mode, version, source, policies, normalPolicies, pc, cur,
                 transitionLog, leaked, queue, sent, restarts>>

(* Mutant of CheckHeartbeatTimeout: only the silence of both isolates.     *)
CheckHeartbeatTimeoutOfBoth ==
  /\ HeartbeatOn /\ Failsafe
  /\ mode = "NORMAL"
  /\ seen = {}
  /\ EnterIsolated(ME)
  /\ UNCHANGED <<normalPolicies, seen, pc, cur, queue, sent, restarts>>

CheckHeartbeatTimeout ==
  /\ HeartbeatOn /\ Failsafe
  /\ mode = "NORMAL"
  /\ ~ (Watched \subseteq seen)
  /\ EnterIsolated(ME)
  /\ UNCHANGED <<normalPolicies, seen, pc, cur, queue, sent, restarts>>

-----------------------------------------------------------------------------
(* The process is restarted by its supervisor: New() starts from           *)
(* newInitialSafetyState and SECURITY_POLICIES.  The message being handled  *)
(* is delivered again unless the broker counts it as consumed.             *)
Restart ==
  /\ restarts < MaxRestarts
  /\ restarts' = restarts + 1
  /\ mode' = "NORMAL" /\ version' = 1 /\ source' = ME
  /\ policies' = InitialPolicies /\ normalPolicies' = InitialPolicies
  /\ seen' = {}
  /\ pc' = "idle" /\ cur' = NoMsg
  /\ leaked' = 0
  /\ \/ UNCHANGED queue
     \/ /\ cur # NoMsg
        /\ queue' = [queue EXCEPT ![ME] = <<cur>> \o @]
  /\ UNCHANGED <<transitionLog, sent>>

(* A component publishes to the monitor's topic, or fails to.              *)
PublishToMonitor(m) ==
  \E q \in Published(queue[ME], m) : queue' = [queue EXCEPT ![ME] = q]

ClientPublish(m) ==
  /\ sent < MaxSent
  /\ sent' = sent + 1
  /\ PublishToMonitor(m)
  /\ UNCHANGED <<smVars, restarts>>

-----------------------------------------------------------------------------
Init ==
  /\ mode = "NORMAL" /\ version = 1 /\ source = ME
  /\ policies = InitialPolicies /\ normalPolicies = InitialPolicies
  /\ seen = {}
  /\ pc = "idle" /\ cur = NoMsg
  /\ queue = [t \in Topic |-> <<>>]
  /\ transitionLog = <<>>
  /\ sent = 0 /\ restarts = 0
  /\ leaked = 0

HandlerStep ==
  \/ HandleIsolationStart \/ HandleIsolationEnd \/ HandleSafetyHeartbeat
  \/ HandleSetPolicy \/ HandleRemovePolicy \/ HandleClearPolicies
  \/ HandleQuery
  \/ HandleProxyPublish \/ HandleProxyRequest
  \/ Forward \/ ProxyRequestReturns

MonitorStep ==
  \/ HandlerStep
  \/ \E s \in Watched : HeartbeatExpires(s)
  \/ CheckHeartbeatTimeout
  \/ Restart

Next ==
  \/ MonitorStep
  \/ \E m \in ClientMessages : ClientPublish(m)

Spec == Init /\ [][Next]_vars

(* The consumer goroutine keeps running, a request times out, the ticker   *)
(* of the watchdog keeps firing.                                           *)
FairSpec == Spec /\ WF_vars(HandlerStep) /\ WF_vars(CheckHeartbeatTimeout)

-----------------------------------------------------------------------------
(* Properties *)

(* The variables hold values of the shapes the handlers assume.            *)
TypeOK ==
  /\ mode \in Modes /\ version \in Nat \ {0} /\ source \in Sender
  /\ policies \subseteq PolicyKey /\ normalPolicies \subseteq PolicyKey
  /\ seen \subseteq Watched
  /\ pc \in {"idle", "checked", "waiting"}
  /\ cur \in Message \cup {NoMsg}
  /\ (pc = "idle") <=> (cur = NoMsg)
  /\ cur # NoMsg => cur.payload \in Target
  /\ queue \in [Topic -> Seq(Message)]
  /\ transitionLog \in Seq(Transition)
  /\ sent \in Nat /\ restarts \in Nat /\ leaked \in Nat

(* In NORMAL mode the active table is the base table, whatever the         *)
(* administrator did to it during an isolation; in ISOLATED mode it is     *)
(* exactly the emergency table, whatever the administrator does to the     *)
(* base table meanwhile (handleSetPolicy, enterNormalLocked).              *)
ActiveTableFollowsMode ==
  policies = IF mode = "NORMAL" THEN normalPolicies ELSE EmergencyPolicies

(* state_version tells the mode: both goroutines bump it exactly once per   *)
(* switch, so an even version always means ISOLATED.                       *)
VersionTellsMode == (mode = "ISOLATED") <=> (version % 2 = 0)

(* The journal gets the transitions of one run of the process in version   *)
(* order and with alternating modes, although two goroutines log them.     *)
TransitionsLoggedInOrder ==
  restarts = 0 =>
    /\ \A i, j \in 1..Len(transitionLog) :
         i < j => transitionLog[i].version < transitionLog[j].version
    /\ \A i \in 1..Len(transitionLog) :
         /\ transitionLog[i].version <= version
         /\ (transitionLog[i].mode = "ISOLATED") <=>
              (transitionLog[i].version % 2 = 0)

(* The check-then-forward gap of the proxy handlers lets at most one        *)
(* message outside the emergency table through after the switch to         *)
(* ISOLATED, and none when the switch came from ISOLATION_START, which the  *)
(* same goroutine handles.                                                 *)
IsolationLeaksAtMostOne ==
  mode = "ISOLATED" => leaked <= (IF source = ME THEN 1 ELSE 0)

(* What a message changes is decided by who first published it: no policy   *)
(* table lets a component make the monitor command itself, since a message  *)
(* the monitor forwards to its own topic bears the monitor's name.          *)
AuthorityNotBorrowed ==
  [][ /\ normalPolicies' # normalPolicies =>
           \/ restarts' # restarts
           \/ CanManagePolicies(Head(queue[ME]).origin)
      /\ mode' # mode =>
           \/ restarts' # restarts
           \/ mode' = "ISOLATED" /\ queue' = queue
           \/ MaySwitchMode(Head(queue[ME]).origin) ]_vars

(* A silent limiter or emergency component ends in isolation unless both    *)
(* are heard again (checkHeartbeatTimeout).                                *)
SilenceIsolates ==
  (mode = "NORMAL" /\ ~ (Watched \subseteq seen))
    ~> (mode = "ISOLATED" \/ Watched \subseteq seen)

(* Messages keep the name of who published them until the monitor puts its  *)
(* own name on what it forwards.                                           *)
Attributed(m) == m.sender = m.origin \/ m.sender = ME

SendersAttributed ==
  /\ \A i \in 1..Len(queue[ME]) : Attributed(queue[ME][i])
  /\ cur # NoMsg => Attributed(cur)

(* A message that passed the check under the base table can be waiting for  *)
(* its forwarding in ISOLATED mode only if the watchdog isolated.           *)
PendingLeak ==
  (/\ mode = "ISOLATED"
   /\ pc = "checked"
   /\ Key(cur.sender, cur.payload) \notin EmergencyPolicies)
     => leaked = 0 /\ source = ME

(* What the other components may do to the monitor: append a message under  *)
(* their own name to its topic and consume the topics they read.           *)
EnvironmentStep ==
  /\ UNCHANGED <<mode, version, source, policies, normalPolicies, seen, pc, cur,
                 transitionLog, leaked, restarts>>
  /\ sent' \in Nat
  /\ queue' \in [Topic -> Seq(Message)]
  /\ \/ queue'[ME] = queue[ME]
     \/ \E m \in Message : /\ m.sender = m.origin /\ m.sender # ME
                            /\ queue'[ME] = Append(queue[ME], m)

(* The inductive invariant behind the theorems of SecurityMonitorProofs.    *)
IInv ==
  /\ TypeOK
  /\ ActiveTableFollowsMode
  /\ VersionTellsMode
  /\ TransitionsLoggedInOrder
  /\ IsolationLeaksAtMostOne
  /\ SendersAttributed
  /\ PendingLeak

(* Every message published to the monitor is handled: no proxied request,   *)
(* not even one the monitor sends to itself, blocks the consumer forever.  *)
InboxDrains == (queue[ME] # <<>>) ~> (queue[ME] = <<>> /\ pc = "idle")

=============================================================================
