------------------------- MODULE MissionChainProofs -------------------------
(***************************************************************************)
(* For every set of missions, sensors and scenarios, every bound and every   *)
(* choice of timeouts, late replies and refusals: the autopilot holds only    *)
(* missions that the limiter accepted, and telemetry stores only fresh state. *)
(*                                                                         *)
(* The invariant says what the queues hold.  A message carries what its      *)
(* sender asked, if its correlation is the sender's newest; a reply with the *)
(* newest correlation is an honest answer to what was asked; older ones may  *)
(* say anything, and the correlation keeps them out.                        *)
(***************************************************************************)
EXTENDS MissionChain, TLAPS

-----------------------------------------------------------------------------
(* Families of queues *)

Within(b, D, G) == b = [c \in D |-> b[c]] /\ \A c \in D : b[c] \in Seq(G[c])

(* A queue stays in a larger set.                                          *)
LEMMA SeqGrows ==
  ASSUME NEW S, NEW T, S \subseteq T, NEW q \in Seq(S)
  PROVE  q \in Seq(T)
OBVIOUS

(* The head and the tail of a queue.                                        *)
LEMMA HeadTail ==
  ASSUME NEW S, NEW q \in Seq(S), q # <<>>
  PROVE  Head(q) \in S /\ Tail(q) \in Seq(S)
OBVIOUS

(* What is in the queues stays there when what they may hold grows.         *)
LEMMA WithinGrows ==
  ASSUME NEW D, NEW G, NEW H, NEW b, Within(b, D, G), \A c \in D : G[c] \subseteq H[c]
  PROVE  Within(b, D, H)
BY SeqGrows DEF Within

(* A consumer takes the head of a queue.                                    *)
LEMMA WithinTail ==
  ASSUME NEW D, NEW G, NEW b, Within(b, D, G), NEW x \in D, b[x] # <<>>
  PROVE  Head(b[x]) \in G[x] /\ Within([b EXCEPT ![x] = Tail(@)], D, G)
<1>1. b[x] \in Seq(G[x])
  BY DEF Within
<1>2. Head(b[x]) \in G[x] /\ Tail(b[x]) \in Seq(G[x])
  BY <1>1, HeadTail
<1> QED
  BY <1>2 DEF Within

(* A producer appends to a queue.                                           *)
LEMMA WithinAppend ==
  ASSUME NEW D, NEW G, NEW b, Within(b, D, G), NEW x \in D, NEW e \in G[x]
  PROVE  Within([b EXCEPT ![x] = Append(@, e)], D, G)
<1>1. Append(b[x], e) \in Seq(G[x])
  BY DEF Within
<1> QED
  BY <1>1 DEF Within

-----------------------------------------------------------------------------
(* The inductive invariant *)

GoodRequest(r) ==
  /\ r.topic # ME
  /\ r.topic = "limiter" => r.data \in Missions
  /\ r.topic = "autopilot" => r.data \in accepted
  /\ r.topic \in Sensors => r.since <= sample[r.topic]

Newest(t, n) == n # 0 /\ n = requests[t]

GoodMessage(m) ==
  /\ GoodRequest(m.request)
  /\ m.corr <= requests[m.sender]
  /\ Newest(m.sender, m.corr) => m.request = asked[m.sender]

(* Only the monitor sends to the other components, and only what is theirs.  *)
GoodInbox ==
  [c \in Components |->
    {m \in Message : /\ GoodMessage(m)
                     /\ IF c = ME THEN m.sender # ME
                        ELSE m.sender = ME /\ m.request.topic = c}]

Fresh(s, since, a) == a.by = s /\ since <= a.sample /\ a.sample <= sample[s]

Honest(r, a) ==
  /\ r.topic = "limiter" /\ a.result = "ok" => r.data \in accepted
  /\ r.topic \in Sensors /\ a.result # "none" => Fresh(r.topic, r.since, a)

GoodReplies ==
  [t \in Threads |->
    {r \in ReplyMessage : /\ r.corr <= requests[t]
                          /\ Newest(t, r.corr) => Honest(asked[t], r.answer)}]

Queues == Within(inbox, Components, GoodInbox) /\ Within(replies, Threads, GoodReplies)

Waits ==
  /\ \A t \in Threads : pending[t] \in {0, requests[t]}
  /\ \A t \in Handlers : cur[t] # NoMsg => cur[t] \in GoodInbox[t]
  /\ cur[ME] # NoMsg => asked[ME] = cur[ME].request
  /\ cur[MH] # NoMsg => asked[MH].data = lastMission /\ lastMission \in Missions

Polls ==
  /\ Len(polled) <= Len(scenario.pollOrder)
  /\ pending["telemetry"] # 0 =>
       /\ Len(polled) < Len(scenario.pollOrder)
       /\ asked["telemetry"].topic = scenario.pollOrder[Len(polled) + 1]
  /\ \A i \in 1..Len(polled) :
       polled[i].answer.result # "none" =>
         Fresh(scenario.pollOrder[i], polled[i].since, polled[i].answer)

IInv == TypeOK /\ Queues /\ Waits /\ Polls /\ FliesAcceptedOnly /\ FreshTelemetry

-----------------------------------------------------------------------------
(* Requests are numbered upwards, and what is accepted or sampled stays so.  *)
Progress ==
  /\ accepted \subseteq accepted' /\ accepted' \subseteq Missions
  /\ sample' \in [Sensors -> Nat] /\ \A s \in Sensors : sample[s] <= sample'[s]
  /\ requests' \in [Threads -> Nat]
  /\ \A t \in Threads : \/ requests'[t] = requests[t] /\ asked'[t] = asked[t]
                        \/ requests'[t] = requests[t] + 1

(* Then no message and no reply that was good turns bad.                    *)
LEMMA Grows ==
  ASSUME TypeOK, Progress
  PROVE  /\ \A c \in Components : GoodInbox[c] \subseteq GoodInbox'[c]
         /\ \A t \in Threads : GoodReplies[t] \subseteq GoodReplies'[t]
         /\ Within(inbox, Components, GoodInbox) => Within(inbox, Components, GoodInbox')
         /\ Within(replies, Threads, GoodReplies) => Within(replies, Threads, GoodReplies')
<1>0. /\ requests \in [Threads -> Nat] /\ sample \in [Sensors -> Nat]
      /\ asked \in [Threads -> Request]
  BY DEF TypeOK
<1>1. ASSUME NEW c \in Components, NEW m \in GoodInbox[c]
      PROVE  m \in GoodInbox'[c]
  <2>1. m \in Message /\ GoodMessage(m)
    BY <1>1 DEF GoodInbox
  <2>2. m.sender \in Threads /\ m.corr \in Nat /\ m.request \in Request
    BY <2>1 DEF Message
  <2>3. m.request.topic \in Components /\ m.request.since \in Nat
    BY <2>2 DEF Request
  <2>4. GoodRequest(m.request)'
    BY <1>0, <2>1, <2>3 DEF GoodMessage, GoodRequest, Progress
  <2>5. m.corr <= requests'[m.sender]
    BY <1>0, <2>1, <2>2 DEF GoodMessage, Progress
  <2>6. Newest(m.sender, m.corr)' => m.request = asked'[m.sender]
    BY <1>0, <2>1, <2>2 DEF GoodMessage, Progress, Newest
  <2> QED
    BY <1>1, <2>1, <2>4, <2>5, <2>6 DEF GoodInbox, GoodMessage
<1>2. ASSUME NEW t \in Threads, NEW r \in GoodReplies[t]
      PROVE  r \in GoodReplies'[t]
  <2>1. r \in ReplyMessage /\ r.corr <= requests[t]
        /\ (Newest(t, r.corr) => Honest(asked[t], r.answer))
    BY <1>2 DEF GoodReplies
  <2>2. r.corr \in Nat /\ r.answer.sample \in Nat
    BY <2>1 DEF ReplyMessage, Answer
  <2>3. asked[t].topic \in Components /\ asked[t].since \in Nat
    BY <1>0, <1>2 DEF Request
  <2>4. Newest(t, r.corr)' => Newest(t, r.corr) /\ asked'[t] = asked[t]
    BY <1>0, <1>2, <2>1, <2>2 DEF Newest, Progress
  <2>5. Honest(asked[t], r.answer) /\ asked'[t] = asked[t] => Honest(asked[t], r.answer)'
    BY <1>0, <1>2, <2>2, <2>3 DEF Honest, Fresh, Progress
  <2>6. r.corr <= requests'[t]
    BY <1>0, <1>2, <2>1, <2>2 DEF Progress
  <2> QED
    BY <1>2, <2>1, <2>4, <2>5, <2>6 DEF GoodReplies
<1>3. \A c \in Components : GoodInbox[c] \subseteq GoodInbox'[c]
  BY <1>1
<1>4. \A t \in Threads : GoodReplies[t] \subseteq GoodReplies'[t]
  BY <1>2
<1> QED
  BY <1>3, <1>4, WithinGrows

-----------------------------------------------------------------------------
(* What is left of the type invariant when the queues are good.             *)
OtherTypes ==
  /\ scenario \in Scenarios
  /\ requests \in [Threads -> Nat] /\ pending \in [Threads -> Nat]
  /\ asked \in [Threads -> Request]
  /\ cur \in [Handlers -> Message \cup {NoMsg}]
  /\ {lastMission, limMission, apMission, loaded} \subseteq Missions \cup {NoMission}
  /\ lastError \in {"", "invalid", "limiter_no_response", "limiter_rejected",
                    "autopilot_no_response", "autopilot_error"}
  /\ accepted \subseteq Missions
  /\ loads \in Nat /\ told \in {"nothing", "ok", "rejected", "none"}
  /\ sample \in [Sensors -> Nat]
  /\ polls \in Nat /\ polled \in Seq(Polled)
  /\ last \in [Sensors -> Polled \cup {NoAnswer}]

(* Good queues are typed.                                                  *)
LEMMA TypesFromQueues ==
  ASSUME Queues', OtherTypes'
  PROVE  TypeOK'
<1>1. \A c \in Components : inbox'[c] \in Seq(Message)
  <2>1. ASSUME NEW c \in Components
        PROVE  inbox'[c] \in Seq(Message)
    <3>1. inbox'[c] \in Seq(GoodInbox'[c]) /\ GoodInbox'[c] \subseteq Message
      BY DEF Queues, Within, GoodInbox
    <3> QED
      BY <3>1, SeqGrows
  <2> QED
    BY <2>1
<1>2. \A t \in Threads : replies'[t] \in Seq(ReplyMessage)
  <2>1. ASSUME NEW t \in Threads
        PROVE  replies'[t] \in Seq(ReplyMessage)
    <3>1. replies'[t] \in Seq(GoodReplies'[t]) /\ GoodReplies'[t] \subseteq ReplyMessage
      BY DEF Queues, Within, GoodReplies
    <3> QED
      BY <3>1, SeqGrows
  <2> QED
    BY <2>1
<1>3. inbox' \in [Components -> Seq(Message)] /\ replies' \in [Threads -> Seq(ReplyMessage)]
  BY <1>1, <1>2 DEF Queues, Within
<1> QED
  BY <1>3 DEF OtherTypes, TypeOK

(* What an unbroken invariant gives to every action.                        *)
LEMMA Facts ==
  ASSUME IInv
  PROVE  /\ OtherTypes
         /\ {ME, MH, "limiter", "platform", "telemetry"} \subseteq Threads
         /\ {ME, MH, "limiter"} \subseteq Handlers /\ Handlers \subseteq Threads
         /\ Threads \subseteq Components /\ Sensors \subseteq Components
         /\ {"autopilot", "orvd"} \subseteq Components
BY DEF IInv, TypeOK, OtherTypes, Threads, Handlers, Components

(* The types that matter to the bus.                                        *)
LEMMA BusTypes ==
  ASSUME IInv
  PROVE  /\ TypeOK
         /\ requests \in [Threads -> Nat] /\ pending \in [Threads -> Nat]
         /\ asked \in [Threads -> Request]
         /\ cur \in [Handlers -> Message \cup {NoMsg}]
         /\ accepted \subseteq Missions /\ sample \in [Sensors -> Nat]
BY DEF IInv, TypeOK

(* The next message of a component is good, and so is what is left.          *)
LEMMA Takes ==
  ASSUME IInv, NEW x \in Components, inbox[x] # <<>>
  PROVE  /\ Next1(x) \in GoodInbox[x] /\ Next1(x) \in Message /\ GoodMessage(Next1(x))
         /\ Next1(x).sender \in Threads /\ Next1(x).corr \in Nat
         /\ Next1(x).request \in Request
         /\ IF x = ME THEN Next1(x).sender # ME
            ELSE Next1(x).sender = ME /\ Next1(x).request.topic = x
         /\ Within(Taken(x), Components, GoodInbox)
<1>1. Next1(x) \in GoodInbox[x] /\ Within(Taken(x), Components, GoodInbox)
  BY WithinTail DEF IInv, Queues, Next1, Taken
<1>2. /\ Next1(x) \in Message /\ GoodMessage(Next1(x))
      /\ IF x = ME THEN Next1(x).sender # ME
         ELSE Next1(x).sender = ME /\ Next1(x).request.topic = x
  BY <1>1 DEF GoodInbox
<1> QED
  BY <1>1, <1>2 DEF Message

(* Bus.Request returns an honest answer to what was asked last.             *)
LEMMA AnswersHonestly ==
  ASSUME IInv, NEW t \in Threads, NEW o \in Outcomes, Returns(t, o)
  PROVE  /\ pending[t] # 0
         /\ Result(t, o) \in Answer /\ Honest(asked[t], Result(t, o))
         /\ Within(Left(t, o), Threads, GoodReplies)
<1>1. CASE o = "reply"
  <2>1. replies[t] # <<>> /\ pending[t] # 0 /\ pending[t] = Head(replies[t]).corr
    BY <1>1 DEF Returns, HasReply, Matches
  <2>2. Head(replies[t]) \in GoodReplies[t] /\ Within(Left(t, o), Threads, GoodReplies)
    BY <1>1, <2>1, WithinTail DEF IInv, Queues, Left
  <2>3. Newest(t, Head(replies[t]).corr)
    BY <2>1 DEF IInv, Waits, Newest
  <2>4. Head(replies[t]) \in ReplyMessage /\ Honest(asked[t], Head(replies[t]).answer)
    BY <2>2, <2>3 DEF GoodReplies
  <2> QED
    BY <1>1, <2>1, <2>2, <2>4 DEF Result, ReplyMessage
<1>2. CASE o = "timeout"
  <2>1. Result(t, o) = Failure /\ Left(t, o) = replies
    BY <1>2 DEF Result, Left
  <2>2. Failure \in Answer /\ Failure.result = "none"
    BY DEF Failure, Answer, Components, Threads, Handlers
  <2>3. pending[t] # 0
    BY <1>2 DEF Returns, TimedOut
  <2> QED
    BY <2>1, <2>2, <2>3 DEF Honest, IInv, Queues
<1> QED
  BY <1>1, <1>2 DEF Outcomes

(* The same notions in the next state, of values of this one.               *)
GoodRequestNext(r) ==
  /\ r.topic # ME
  /\ r.topic = "limiter" => r.data \in Missions
  /\ r.topic = "autopilot" => r.data \in accepted'
  /\ r.topic \in Sensors => r.since <= sample'[r.topic]

FreshNext(s, since, a) == a.by = s /\ since <= a.sample /\ a.sample <= sample'[s]

HonestNext(r, a) ==
  /\ r.topic = "limiter" /\ a.result = "ok" => r.data \in accepted'
  /\ r.topic \in Sensors /\ a.result # "none" => FreshNext(r.topic, r.since, a)

NewestNext(t, n) == n # 0 /\ n = requests'[t]

(* What may be put into an inbox ...                                        *)
LEMMA PutsMessage ==
  ASSUME NEW c \in Components, NEW m \in Message, GoodRequestNext(m.request),
         IF c = ME THEN m.sender # ME ELSE m.sender = ME /\ m.request.topic = c,
         m.corr <= requests'[m.sender],
         NewestNext(m.sender, m.corr) => m.request = asked'[m.sender]
  PROVE  m \in GoodInbox'[c]
BY DEF GoodInbox, GoodMessage, GoodRequest, GoodRequestNext, Newest, NewestNext

(* ... and into a reply topic.                                             *)
LEMMA PutsReply ==
  ASSUME NEW t \in Threads, NEW r \in ReplyMessage, r.corr <= requests'[t],
         NewestNext(t, r.corr) => HonestNext(asked'[t], r.answer)
  PROVE  r \in GoodReplies'[t]
BY DEF GoodReplies, Newest, NewestNext, Honest, HonestNext, Fresh, FreshNext

(* Honest stays honest.                                                     *)
LEMMA HonestGrows ==
  ASSUME TypeOK, Progress, NEW r \in Request, NEW a \in Answer, Honest(r, a)
  PROVE  HonestNext(r, a)
<1>1. a.sample \in Nat /\ r.since \in Nat
  BY DEF Answer, Request
<1>2. sample \in [Sensors -> Nat]
  BY DEF TypeOK
<1> QED
  BY <1>1, <1>2 DEF Honest, HonestNext, Fresh, FreshNext, Progress

(* Good requests stay good.                                                 *)
LEMMA GoodRequestGrows ==
  ASSUME TypeOK, Progress, NEW r \in Request, GoodRequest(r)
  PROVE  GoodRequestNext(r)
<1>1. r.since \in Nat
  BY DEF Request
<1>2. sample \in [Sensors -> Nat]
  BY DEF TypeOK
<1> QED
  BY <1>1, <1>2 DEF GoodRequest, GoodRequestNext, Progress

(* A request numbers itself, and touches nobody else's numbers.              *)
LEMMA Numbers ==
  ASSUME IInv, NEW t \in Threads, NEW c, NEW r \in Request, NEW b,
         BusRequest(t, c, r, b)
  PROVE  /\ requests' \in [Threads -> Nat] /\ pending' \in [Threads -> Nat]
         /\ asked' \in [Threads -> Request] /\ asked'[t] = r
         /\ requests'[t] = requests[t] + 1 /\ pending'[t] = requests'[t]
         /\ \A u \in Threads \ {t} : /\ requests'[u] = requests[u]
                                     /\ pending'[u] = pending[u] /\ asked'[u] = asked[u]
<1>1. /\ requests \in [Threads -> Nat] /\ pending \in [Threads -> Nat]
      /\ asked \in [Threads -> Request]
  BY DEF IInv, TypeOK
<1> QED
  BY <1>1 DEF BusRequest

(* A request puts a good message into the inbox of c.                        *)
LEMMA Requests ==
  ASSUME IInv, NEW t \in Threads, NEW c \in Components, NEW r \in Request, NEW b,
         IF c = ME THEN t # ME ELSE t = ME /\ r.topic = c,
         BusRequest(t, c, r, b), GoodRequestNext(r), Within(b, Components, GoodInbox')
  PROVE  Within(inbox', Components, GoodInbox')
<1>1. /\ requests' \in [Threads -> Nat] /\ asked'[t] = r
      /\ requests'[t] = requests[t] + 1
  BY Numbers
<1>2. requests[t] + 1 \in Nat
  BY <1>1
<1> DEFINE m == [sender |-> t, corr |-> requests[t] + 1, request |-> r]
<1>3. m \in Message
  BY <1>2 DEF Message
<1>4. m.sender = t /\ m.corr = requests'[t] /\ m.request = r
  BY <1>1
<1>6. inbox' = [b EXCEPT ![c] = Append(@, m)]
  BY DEF BusRequest
<1> HIDE DEF m
<1>5. m \in GoodInbox'[c]
  BY <1>1, <1>3, <1>4, PutsMessage
<1> QED
  BY <1>5, <1>6, WithinAppend

(* A reply to m is good when it is honest about what its sender asked.       *)
LEMMA RepliesWell ==
  ASSUME NEW m \in Message, NEW a \in Answer, NEW b, Reply(m, a, b),
         Within(b, Threads, GoodReplies'), m.corr <= requests'[m.sender],
         NewestNext(m.sender, m.corr) => HonestNext(asked'[m.sender], a)
  PROVE  Within(replies', Threads, GoodReplies')
<1>1. CASE m.corr = 0
  BY <1>1 DEF Reply
<1>2. CASE m.corr # 0
  <2> DEFINE e == [corr |-> m.corr, answer |-> a]
  <2>1. m.sender \in Threads /\ e \in ReplyMessage /\ e.corr = m.corr /\ e.answer = a
    BY DEF Message, ReplyMessage
  <2>2. replies' = [b EXCEPT ![m.sender] = Append(@, e)]
    BY <1>2 DEF Reply
  <2> HIDE DEF e
  <2>3. e \in GoodReplies'[m.sender]
    BY <2>1, PutsReply
  <2> QED
    BY <2>1, <2>2, <2>3, WithinAppend
<1> QED
  BY <1>1, <1>2

(* A component that answers the monitor is honest if the answer is honest    *)
(* about the message it took.                                              *)
LEMMA TargetReplies ==
  ASSUME IInv, Progress, NEW c \in Components \ {ME}, NEW m \in GoodInbox[c],
         NEW a \in Answer, NEW b, Reply(m, a, b), Within(b, Threads, GoodReplies),
         requests' = requests, asked' = asked, HonestNext(m.request, a)
  PROVE  Within(replies', Threads, GoodReplies')
<1>1. m \in Message /\ GoodMessage(m)
  BY DEF GoodInbox
<1>2. TypeOK
  BY DEF IInv
<1>3. Within(b, Threads, GoodReplies')
  BY <1>2, Grows, WithinGrows
<1> QED
  BY <1>1, <1>3, RepliesWell DEF GoodMessage, Newest, NewestNext

-----------------------------------------------------------------------------
(* What the other threads do leaves a poll alone.                           *)
LEMMA PollKept ==
  ASSUME IInv, Progress, UNCHANGED <<scenario, polled, last>>,
         pending'["telemetry"] = pending["telemetry"],
         asked'["telemetry"] = asked["telemetry"]
  PROVE  Polls' /\ FreshTelemetry'
<1>1. /\ sample \in [Sensors -> Nat] /\ polled \in Seq(Polled)
      /\ last \in [Sensors -> Polled \cup {NoAnswer}]
      /\ scenario.pollOrder \in Seq(Sensors)
  BY MCConstants DEF IInv, TypeOK
<1>2. Polls'
  <2>1. ASSUME NEW i \in 1..Len(polled), polled[i].answer.result # "none"
        PROVE  FreshNext(scenario.pollOrder[i], polled[i].since, polled[i].answer)
    <3>1. Fresh(scenario.pollOrder[i], polled[i].since, polled[i].answer)
      BY <2>1 DEF IInv, Polls
    <3>0. polled[i] \in Polled
      BY <1>1
    <3>2. polled[i].answer.sample \in Nat
      BY <3>0 DEF Polled, Answer
    <3>3. scenario.pollOrder[i] \in Sensors
      BY <1>1 DEF IInv, Polls
    <3> QED
      BY <1>1, <3>1, <3>2, <3>3 DEF Fresh, FreshNext, Progress
  <2> QED
    BY <2>1 DEF IInv, Polls, Fresh, FreshNext
<1>3. FreshTelemetry'
  <2>1. ASSUME NEW s \in Sensors, last[s] # NoAnswer
        PROVE  last[s].answer.sample <= sample'[s]
    <3>1. last[s].answer.sample \in Nat /\ last[s].answer.sample <= sample[s]
      BY <1>1, <2>1 DEF Polled, Answer, IInv, FreshTelemetry
    <3> QED
      BY <1>1, <3>1 DEF Progress
  <2> QED
    BY <2>1 DEF IInv, FreshTelemetry
<1> QED
  BY <1>2, <1>3

(* The messages handlers work on stay good.                                 *)
LEMMA WorkKept ==
  ASSUME IInv, Progress, NEW t \in Handlers, cur'[t] = cur[t], cur'[t] # NoMsg
  PROVE  cur'[t] \in GoodInbox'[t]
<1>1. TypeOK /\ cur[t] \in GoodInbox[t] /\ t \in Components
  BY Facts DEF IInv, Waits
<1> QED
  BY <1>1, Grows

(* Actions that only move messages.                                         *)
LEMMA MovesOnly ==
  ASSUME IInv, Progress,
         UNCHANGED <<scenario, requests, pending, asked, cur, lastMission, polled, last>>
  PROVE  Waits' /\ Polls' /\ FreshTelemetry'
<1>1. \A t \in Handlers : cur'[t] # NoMsg => cur'[t] \in GoodInbox'[t]
  BY WorkKept
<1>2. Waits'
  BY <1>1 DEF IInv, Waits
<1> QED
  BY <1>2, PollKept

(* The parts of the invariant, put together.                                *)
LEMMA Together ==
  ASSUME Queues', OtherTypes', Waits', Polls', FliesAcceptedOnly', FreshTelemetry'
  PROVE  IInv'
BY TypesFromQueues DEF IInv

(* Nothing is accepted, sampled or asked.                                   *)
LEMMA Still ==
  ASSUME IInv, UNCHANGED <<accepted, sample, requests, asked>>
  PROVE  Progress /\ GoodInbox' = GoodInbox /\ GoodReplies' = GoodReplies
<1>1. Progress
  BY BusTypes DEF Progress
<1> QED
  BY <1>1 DEF GoodInbox, GoodReplies, GoodMessage, GoodRequest, Newest, Honest, Fresh

-----------------------------------------------------------------------------
(* One lemma per action *)

(* A late reply is dropped.                                                 *)
LEMMA DropStep ==
  ASSUME IInv, NEW t \in Threads, Drop(t)
  PROVE  IInv'
<1> USE DEF Drop, missionVars, pilotVars, telemetryVars
<1>1. Progress /\ GoodInbox' = GoodInbox /\ GoodReplies' = GoodReplies
  BY Still
<1>2. Waits' /\ Polls' /\ FreshTelemetry'
  BY <1>1, MovesOnly
<1>3. Queues'
  BY <1>1, WithinTail DEF IInv, Queues
<1>4. OtherTypes'
  BY Facts DEF OtherTypes
<1>5. FliesAcceptedOnly'
  BY DEF IInv, FliesAcceptedOnly
<1> QED
  BY <1>2, <1>3, <1>4, <1>5, Together

(* proxy_publish.                                                           *)
LEMMA MonitorPublishesStep ==
  ASSUME IInv, MonitorPublishes
  PROVE  IInv'
<1> USE DEF MonitorPublishes, missionVars, pilotVars, telemetryVars
<1>1. Progress /\ GoodInbox' = GoodInbox /\ GoodReplies' = GoodReplies
  BY Still
<1>2. Waits' /\ Polls' /\ FreshTelemetry'
  BY <1>1, MovesOnly
<1>3. Queues'
  <2>1. ME \in Components /\ ME \in Threads /\ inbox[ME] # <<>>
    BY Facts DEF Idle
  <2> DEFINE n == Next1(ME)
             m == [n EXCEPT !.sender = ME]
             c == n.request.topic
  <2>2. /\ n \in Message /\ n.request \in Request /\ GoodMessage(n) /\ n.corr = 0
        /\ Within(Taken(ME), Components, GoodInbox)
    BY <2>1, Takes
  <2>3. c \in Components /\ c # ME /\ GoodRequestNext(n.request)
    <3>1. GoodRequest(n.request) /\ TypeOK
      BY <2>2 DEF GoodMessage, IInv
    <3> QED
      BY <1>1, <2>2, <3>1, GoodRequestGrows DEF GoodRequest, Request
  <2>4. m \in Message /\ m.sender = ME /\ m.corr = 0 /\ m.request = n.request
        /\ m.request.topic = c
    BY <2>1, <2>2 DEF Message
  <2>5. requests'[ME] \in Nat
    BY <2>1, Facts DEF OtherTypes
  <2>6. inbox' = [Taken(ME) EXCEPT ![c] = Append(@, m)]
    OBVIOUS
  <2> HIDE DEF m, n, c, MonitorPublishes
  <2>7. m \in GoodInbox'[c]
    BY <2>3, <2>4, <2>5, PutsMessage DEF NewestNext
  <2>8. Within(Taken(ME), Components, GoodInbox')
    BY <1>1, <2>2
  <2>9. Within(inbox', Components, GoodInbox')
    BY <2>3, <2>6, <2>7, <2>8, WithinAppend
  <2> QED
    BY <1>1, <2>9 DEF IInv, Queues, MonitorPublishes
<1>4. OtherTypes'
  BY Facts DEF OtherTypes
<1>5. FliesAcceptedOnly'
  BY DEF IInv, FliesAcceptedOnly
<1> QED
  BY <1>2, <1>3, <1>4, <1>5, Together

(* proxy_request: the monitor asks what it was asked.                       *)
LEMMA MonitorRequestsStep ==
  ASSUME IInv, MonitorRequests
  PROVE  IInv'
<1> USE DEF MonitorRequests, missionVars, pilotVars, telemetryVars
<1> DEFINE n == Next1(ME)
<1>1. ME \in Components /\ ME \in Threads /\ ME \in Handlers /\ inbox[ME] # <<>>
  BY Facts DEF Idle
<1>2. /\ n \in Message /\ n.request \in Request /\ GoodMessage(n) /\ n \in GoodInbox[ME]
      /\ n.sender \in Threads \ {ME} /\ Within(Taken(ME), Components, GoodInbox)
  BY <1>1, Takes
<1>3. /\ BusRequest(ME, n.request.topic, n.request, Taken(ME))
      /\ cur' = [cur EXCEPT ![ME] = n]
  BY DEF Occupy
<1> HIDE DEF n
<1>4. /\ requests' \in [Threads -> Nat] /\ pending' \in [Threads -> Nat]
      /\ asked' \in [Threads -> Request] /\ asked'[ME] = n.request
      /\ requests'[ME] = requests[ME] + 1 /\ pending'[ME] = requests'[ME]
      /\ \A u \in Threads \ {ME} : /\ requests'[u] = requests[u]
                                   /\ pending'[u] = pending[u] /\ asked'[u] = asked[u]
  BY <1>1, <1>2, <1>3, Numbers
<1>5. Progress
  BY <1>4, BusTypes DEF Progress
<1>6. TypeOK
  BY DEF IInv
<1>7. Queues'
  <2>1. GoodRequestNext(n.request) /\ n.request.topic \in Components \ {ME}
    BY <1>2, <1>5, <1>6, GoodRequestGrows DEF GoodMessage, GoodRequest, Request
  <2>2. Within(Taken(ME), Components, GoodInbox')
    BY <1>2, <1>5, <1>6, Grows, WithinGrows
  <2>3. Within(inbox', Components, GoodInbox')
    BY <1>1, <1>2, <1>3, <2>1, <2>2, Requests
  <2>4. Within(replies', Threads, GoodReplies')
    BY <1>5, <1>6, Grows DEF IInv, Queues
  <2> QED
    BY <2>3, <2>4 DEF Queues
<1>8. /\ cur' \in [Handlers -> Message \cup {NoMsg}] /\ cur'[ME] = n
      /\ \A t \in Handlers \ {ME} : cur'[t] = cur[t]
  BY <1>1, <1>2, <1>3, Facts DEF OtherTypes
<1>9. Waits'
  <2>1. \A t \in Handlers : cur'[t] # NoMsg => cur'[t] \in GoodInbox'[t]
    BY <1>1, <1>2, <1>5, <1>6, <1>8, WorkKept, Grows
  <2>2. MH \in Handlers \ {ME} /\ MH \in Threads \ {ME}
    BY Facts DEF MH, ME
  <2> QED
    BY <1>4, <1>8, <2>1, <2>2 DEF IInv, Waits
<1>10. Polls' /\ FreshTelemetry'
  BY <1>4, <1>5, Facts, PollKept DEF ME
<1>11. OtherTypes'
  BY <1>4, <1>8, Facts DEF OtherTypes
<1>12. FliesAcceptedOnly'
  BY DEF IInv, FliesAcceptedOnly
<1> QED
  BY <1>7, <1>9, <1>10, <1>11, <1>12, Together

(* A component other than the monitor takes a message and answers it at once. *)
LEMMA ComponentReplies ==
  ASSUME IInv, Progress, NEW c \in Components \ {ME}, inbox[c] # <<>>,
         NEW a \in Answer, inbox' = Taken(c), Reply(Next1(c), a, replies),
         HonestNext(Next1(c).request, a), UNCHANGED <<requests, asked>>
  PROVE  Queues'
<1>1. Next1(c) \in GoodInbox[c] /\ Within(Taken(c), Components, GoodInbox)
  BY Takes
<1>2. Within(replies, Threads, GoodReplies) /\ TypeOK
  BY DEF IInv, Queues
<1>3. Within(replies', Threads, GoodReplies')
  BY <1>1, <1>2, TargetReplies
<1>4. Within(inbox', Components, GoodInbox')
  BY <1>1, <1>2, Grows, WithinGrows
<1> QED
  BY <1>3, <1>4 DEF Queues

(* The answers of the components.                                           *)
LEMMA Answers ==
  /\ Failure \in Answer /\ Failure.result = "none"
  /\ \A c \in Components, r \in {"ok", "rejected", "none"} :
       AnswerOf(c, r) \in Answer /\ AnswerOf(c, r).result = r
  /\ {"limiter", "autopilot", "orvd", MH, ME} \cap Sensors = {}
  /\ "limiter" # ME /\ MH # ME /\ "autopilot" # ME /\ "orvd" # ME /\ "telemetry" # ME
  /\ "platform" # ME /\ MH # "limiter" /\ MH # "telemetry" /\ ME \notin Sensors
BY MCConstants DEF Failure, Answer, AnswerOf, Components, Threads, Handlers, ME, MH

(* The monitor refuses.                                                     *)
LEMMA MonitorRefusesStep ==
  ASSUME IInv, MonitorRefuses
  PROVE  IInv'
<1>0. /\ inbox[ME] # <<>> /\ inbox' = Taken(ME) /\ Reply(Next1(ME), Failure, replies)
      /\ UNCHANGED <<scenario, requests, pending, asked, cur,
                     missionVars, pilotVars, telemetryVars>>
  BY DEF MonitorRefuses, Idle
<1>1. Progress /\ GoodInbox' = GoodInbox /\ GoodReplies' = GoodReplies
  BY <1>0, Still DEF missionVars, telemetryVars
<1>2. Waits' /\ Polls' /\ FreshTelemetry'
  BY <1>0, <1>1, MovesOnly DEF missionVars, telemetryVars
<1>3. Queues'
  <2>1. ME \in Components
    BY Facts
  <2>2. /\ Next1(ME) \in Message /\ GoodMessage(Next1(ME))
        /\ Within(Taken(ME), Components, GoodInbox)
    BY <1>0, <2>1, Takes
  <2>3. Within(replies, Threads, GoodReplies')
    BY <1>1 DEF IInv, Queues
  <2>4. \A r : HonestNext(r, Failure)
    BY Answers DEF HonestNext
  <2>5. Next1(ME).corr <= requests'[Next1(ME).sender]
    BY <1>0, <2>2 DEF GoodMessage
  <2>6. Within(replies', Threads, GoodReplies')
    BY <1>0, <2>2, <2>3, <2>4, <2>5, Answers, RepliesWell
  <2> QED
    BY <1>0, <1>1, <2>2, <2>6 DEF Queues
<1>4. OtherTypes'
  BY <1>0, Facts DEF OtherTypes, missionVars, pilotVars, telemetryVars
<1>5. FliesAcceptedOnly'
  BY <1>0 DEF IInv, FliesAcceptedOnly, missionVars
<1> QED
  BY <1>2, <1>3, <1>4, <1>5, Together

(* The monitor passes an honest answer on.                                  *)
LEMMA MonitorReturnsStep ==
  ASSUME IInv, MonitorReturns
  PROVE  IInv'
<1>0. /\ cur[ME] # NoMsg /\ pending' = [pending EXCEPT ![ME] = 0]
      /\ cur' = [cur EXCEPT ![ME] = NoMsg]
      /\ UNCHANGED <<scenario, inbox, requests, asked, missionVars, pilotVars, telemetryVars>>
  BY DEF MonitorReturns, Forget, Finish
<1>a. PICK o \in Outcomes : Returns(ME, o) /\ Reply(cur[ME], Result(ME, o), Left(ME, o))
  BY DEF MonitorReturns
<1>1. Progress /\ GoodInbox' = GoodInbox /\ GoodReplies' = GoodReplies
  BY <1>0, Still DEF missionVars, telemetryVars
<1>b. ME \in Threads /\ ME \in Handlers /\ ME \in Components /\ TypeOK
  BY Facts DEF IInv
<1>2. Queues'
  <2>1. /\ Result(ME, o) \in Answer /\ Honest(asked[ME], Result(ME, o))
        /\ Within(Left(ME, o), Threads, GoodReplies)
    BY <1>a, <1>b, AnswersHonestly
  <2>2. cur[ME] \in GoodInbox[ME] /\ asked[ME] = cur[ME].request
    BY <1>0, <1>b DEF IInv, Waits
  <2>3. cur[ME] \in Message /\ GoodMessage(cur[ME])
    BY <1>b, <2>2 DEF GoodInbox
  <2>4. HonestNext(asked[ME], Result(ME, o))
    BY <1>1, <1>b, <2>1, HonestGrows, BusTypes
  <2>5. Within(Left(ME, o), Threads, GoodReplies')
    BY <1>1, <2>1
  <2>6. /\ cur[ME].corr <= requests'[cur[ME].sender]
        /\ NewestNext(cur[ME].sender, cur[ME].corr) =>
             HonestNext(asked'[cur[ME].sender], Result(ME, o))
    BY <1>0, <2>2, <2>3, <2>4 DEF GoodMessage, Newest, NewestNext
  <2>7. Within(replies', Threads, GoodReplies')
    BY <1>a, <2>1, <2>3, <2>5, <2>6, RepliesWell
  <2> QED
    BY <1>0, <1>1, <2>7 DEF IInv, Queues
<1>3. /\ cur' \in [Handlers -> Message \cup {NoMsg}] /\ cur'[ME] = NoMsg
      /\ pending' \in [Threads -> Nat] /\ pending'[ME] = 0
      /\ \A t \in Handlers \ {ME} : cur'[t] = cur[t]
      /\ \A t \in Threads \ {ME} : pending'[t] = pending[t]
  BY <1>0, <1>b, BusTypes
<1>4. Waits'
  <2>1. \A t \in Handlers : cur'[t] # NoMsg => cur'[t] \in GoodInbox'[t]
    BY <1>1, <1>3, WorkKept
  <2>2. MH \in Handlers \ {ME} /\ lastMission' = lastMission
    BY <1>0, Facts, Answers DEF missionVars
  <2> QED
    BY <1>0, <1>3, <2>1, <2>2 DEF IInv, Waits
<1>5. Polls' /\ FreshTelemetry'
  <2>1. "telemetry" \in Threads \ {ME}
    BY Facts, Answers
  <2> QED
    BY <1>0, <1>1, <1>3, <2>1, PollKept DEF telemetryVars
<1>6. OtherTypes'
  BY <1>0, <1>3, Facts DEF OtherTypes, missionVars, pilotVars, telemetryVars
<1>7. FliesAcceptedOnly'
  BY <1>0 DEF IInv, FliesAcceptedOnly, missionVars
<1> QED
  BY <1>2, <1>4, <1>5, <1>6, <1>7, Together

(* The mission handler refuses a mission.                                   *)
LEMMA InvalidMissionStep ==
  ASSUME IInv, InvalidMission
  PROVE  IInv'
<1>0. /\ inbox[MH] # <<>> /\ inbox' = Taken(MH) /\ lastError' = "invalid"
      /\ Reply(Next1(MH), AnswerOf(MH, "rejected"), replies)
      /\ UNCHANGED <<scenario, requests, pending, asked, cur, lastMission, limMission,
                     accepted, apMission, loaded, pilotVars, telemetryVars>>
  BY DEF InvalidMission, Idle
<1>1. Progress /\ GoodInbox' = GoodInbox /\ GoodReplies' = GoodReplies
  BY <1>0, Still DEF telemetryVars
<1>2. Waits' /\ Polls' /\ FreshTelemetry'
  BY <1>0, <1>1, MovesOnly DEF telemetryVars
<1>3. Queues'
  <2>1. MH \in Components \ {ME}
    BY Facts, Answers
  <2>2. Next1(MH).request.topic = MH
    BY <1>0, <2>1, Takes
  <2>3. HonestNext(Next1(MH).request, AnswerOf(MH, "rejected")) /\ AnswerOf(MH, "rejected") \in Answer
    BY <2>1, <2>2, Answers DEF HonestNext
  <2> QED
    BY <1>0, <1>1, <2>1, <2>3, ComponentReplies
<1>4. OtherTypes'
  BY <1>0, Facts DEF OtherTypes, pilotVars, telemetryVars
<1>5. FliesAcceptedOnly'
  BY <1>0 DEF IInv, FliesAcceptedOnly
<1> QED
  BY <1>2, <1>3, <1>4, <1>5, Together

(* The mission handler validates only.                                      *)
LEMMA HandleValidateOnlyStep ==
  ASSUME IInv, HandleValidateOnly
  PROVE  IInv'
<1>0. /\ inbox[MH] # <<>> /\ inbox' = Taken(MH) /\ lastError' = ""
      /\ Reply(Next1(MH), AnswerOf(MH, "ok"), replies)
      /\ UNCHANGED <<scenario, requests, pending, asked, cur, lastMission, limMission,
                     accepted, apMission, loaded, pilotVars, telemetryVars>>
  BY DEF HandleValidateOnly, Idle
<1>1. Progress /\ GoodInbox' = GoodInbox /\ GoodReplies' = GoodReplies
  BY <1>0, Still DEF telemetryVars
<1>2. Waits' /\ Polls' /\ FreshTelemetry'
  BY <1>0, <1>1, MovesOnly DEF telemetryVars
<1>3. Queues'
  <2>1. MH \in Components \ {ME}
    BY Facts, Answers
  <2>2. Next1(MH).request.topic = MH
    BY <1>0, <2>1, Takes
  <2>3. HonestNext(Next1(MH).request, AnswerOf(MH, "ok")) /\ AnswerOf(MH, "ok") \in Answer
    BY <2>1, <2>2, Answers DEF HonestNext
  <2> QED
    BY <1>0, <1>1, <2>1, <2>3, ComponentReplies
<1>4. OtherTypes'
  BY <1>0, Facts DEF OtherTypes, pilotVars, telemetryVars
<1>5. FliesAcceptedOnly'
  BY <1>0 DEF IInv, FliesAcceptedOnly
<1> QED
  BY <1>2, <1>3, <1>4, <1>5, Together

(* What may be asked is a request.                                          *)
LEMMA Asks ==
  ASSUME IInv, NEW c \in Components, NEW d \in Loads \cup {NoMission},
         NEW a \in {"LOAD_MISSION", "VALIDATE_ONLY", "mission_load", "authorize", "get_state"}
  PROVE  /\ Ask(c, a, d) \in Request /\ Ask(c, a, d).topic = c /\ Ask(c, a, d).data = d
         /\ c \in Sensors => Ask(c, a, d).since = sample[c]
BY BusTypes DEF Ask, Request

(* A thread asks the monitor: every part of the invariant but its own.        *)
LEMMA ThreadAsks ==
  ASSUME IInv, NEW t \in Threads \ {ME}, NEW r \in Request, NEW b,
         ProxyRequest(t, r, b), GoodRequestNext(r), Within(b, Components, GoodInbox),
         UNCHANGED <<accepted, sample>>
  PROVE  /\ Progress /\ Within(inbox', Components, GoodInbox')
         /\ requests' \in [Threads -> Nat] /\ pending' \in [Threads -> Nat]
         /\ asked' \in [Threads -> Request] /\ asked'[t] = r
         /\ pending'[t] = requests'[t]
         /\ \A u \in Threads \ {t} : /\ requests'[u] = requests[u]
                                     /\ pending'[u] = pending[u] /\ asked'[u] = asked[u]
<1>1. BusRequest(t, ME, r, b)
  BY DEF ProxyRequest
<1>2. /\ requests' \in [Threads -> Nat] /\ pending' \in [Threads -> Nat]
      /\ asked' \in [Threads -> Request] /\ asked'[t] = r
      /\ requests'[t] = requests[t] + 1 /\ pending'[t] = requests'[t]
      /\ \A u \in Threads \ {t} : /\ requests'[u] = requests[u]
                                  /\ pending'[u] = pending[u] /\ asked'[u] = asked[u]
  BY <1>1, Numbers
<1>3. Progress
  BY <1>2, BusTypes DEF Progress
<1>4. Within(b, Components, GoodInbox') /\ ME \in Components
  BY <1>3, BusTypes, Facts, Grows, WithinGrows
<1>5. Within(inbox', Components, GoodInbox')
  BY <1>1, <1>4, Requests
<1> QED
  BY <1>2, <1>3, <1>5

(* The platform asks, by request or by publish.                             *)
LEMMA PilotAsksStep ==
  ASSUME IInv, NEW a \in {"LOAD_MISSION", "VALIDATE_ONLY"}, NEW d \in Loads, PilotAsks(a, d)
  PROVE  IInv'
<1> DEFINE r == Ask(MH, a, d)
<1>0. /\ loads' = loads + 1 /\ told' = "nothing"
      /\ UNCHANGED <<scenario, replies, cur, missionVars, telemetryVars>>
      /\ UNCHANGED <<accepted, sample, lastMission, apMission, polled, last>>
  BY DEF PilotAsks, missionVars, telemetryVars
<1>c. loads' \in Nat /\ told' \in {"nothing", "ok", "rejected", "none"}
  <2>1. loads \in Nat
    BY DEF IInv, TypeOK
  <2> QED
    BY <1>0, <2>1
<1>d. UNCHANGED <<scenario, replies, cur, missionVars, telemetryVars>>
  BY <1>0
<1>1. /\ ME \in Threads /\ "platform" \in Threads \ {ME} /\ MH \in Components /\ MH # ME
      /\ {ME, MH, "telemetry"} \cap {"platform"} = {} /\ {ME, MH, "telemetry"} \subseteq Threads
      /\ MH \notin Sensors /\ MH # "limiter" /\ MH # "autopilot" /\ ME \in Components
  BY Facts, Answers DEF ME, MH
<1>2. r \in Request /\ r.topic = MH
  BY <1>1, Asks
<1>r. ProxyRequest("platform", r, inbox) \/
      /\ inbox' = [inbox EXCEPT ![ME] =
                     Append(@, [sender |-> "platform", corr |-> 0, request |-> r])]
      /\ UNCHANGED <<requests, pending, asked>>
  BY DEF PilotAsks
<1> HIDE DEF r
<1>3. GoodRequestNext(r)
  BY <1>1, <1>2 DEF GoodRequestNext
<1>4. CASE ProxyRequest("platform", r, inbox)
  <2>1. /\ Progress /\ Within(inbox', Components, GoodInbox')
        /\ requests' \in [Threads -> Nat] /\ pending' \in [Threads -> Nat]
        /\ asked' \in [Threads -> Request] /\ pending'["platform"] = requests'["platform"]
        /\ \A u \in Threads \ {"platform"} :
             /\ requests'[u] = requests[u]
             /\ pending'[u] = pending[u] /\ asked'[u] = asked[u]
    BY <1>0, <1>1, <1>2, <1>3, <1>4, ThreadAsks DEF IInv, Queues
  <2>2. Queues'
    BY <1>0, <2>1, BusTypes, Grows DEF IInv, Queues
  <2>3. Waits'
    <3>1. \A t \in Handlers : cur'[t] # NoMsg => cur'[t] \in GoodInbox'[t]
      BY <1>0, <2>1, WorkKept
    <3> QED
      BY <1>0, <1>1, <2>1, <3>1 DEF IInv, Waits
  <2>4. Polls' /\ FreshTelemetry'
    BY <1>0, <1>1, <2>1, PollKept
  <2>5. OtherTypes'
    BY <1>c, <1>d, <2>1, Facts DEF OtherTypes, missionVars, telemetryVars
  <2>6. FliesAcceptedOnly'
    BY <1>0 DEF IInv, FliesAcceptedOnly
  <2> QED
    BY <2>2, <2>3, <2>4, <2>5, <2>6, Together
<1>5. CASE /\ inbox' = [inbox EXCEPT ![ME] =
                          Append(@, [sender |-> "platform", corr |-> 0, request |-> r])]
           /\ UNCHANGED <<requests, pending, asked>>
  <2>1. Progress /\ GoodInbox' = GoodInbox /\ GoodReplies' = GoodReplies
    BY <1>0, <1>5, Still
  <2>2. Waits' /\ Polls' /\ FreshTelemetry'
    BY <1>0, <1>5, <2>1, MovesOnly
  <2> DEFINE m == [sender |-> "platform", corr |-> 0, request |-> r]
  <2>3. m \in Message /\ m.sender = "platform" /\ m.corr = 0 /\ m.request = r
    BY <1>1, <1>2 DEF Message
  <2>4. inbox' = [inbox EXCEPT ![ME] = Append(@, m)]
    BY <1>5
  <2>5. requests'["platform"] \in Nat
    BY <1>1, <1>5, BusTypes
  <2> HIDE DEF m
  <2>6. m \in GoodInbox'[ME]
    BY <1>1, <1>3, <2>3, <2>5, PutsMessage DEF NewestNext
  <2>7. Within(inbox, Components, GoodInbox') /\ Within(replies', Threads, GoodReplies')
    BY <1>0, <2>1 DEF IInv, Queues
  <2>8. Queues'
    BY <1>1, <2>4, <2>6, <2>7, WithinAppend DEF Queues
  <2>9. OtherTypes'
    BY <1>c, <1>d, <1>5, Facts DEF OtherTypes, missionVars, telemetryVars
  <2>10. FliesAcceptedOnly'
    BY <1>0 DEF IInv, FliesAcceptedOnly
  <2> QED
    BY <2>2, <2>8, <2>9, <2>10, Together
<1> QED
  BY <1>r, <1>4, <1>5

(* The platform is told.                                                    *)
LEMMA PilotReturnsStep ==
  ASSUME IInv, PilotReturns
  PROVE  IInv'
<1>0. /\ pending' = [pending EXCEPT !["platform"] = 0]
      /\ UNCHANGED <<scenario, inbox, requests, asked, cur, missionVars, loads, telemetryVars>>
      /\ UNCHANGED <<accepted, sample, lastMission, apMission, polled, last>>
  BY DEF PilotReturns, Forget, missionVars, telemetryVars
<1>a. PICK o \in Outcomes : /\ Returns("platform", o)
                            /\ told' = Result("platform", o).result
                            /\ replies' = Left("platform", o)
  BY DEF PilotReturns
<1>b. "platform" \in Threads /\ {ME, MH, "telemetry"} \subseteq Threads \ {"platform"}
  BY Facts DEF ME, MH
<1>1. Progress /\ GoodInbox' = GoodInbox /\ GoodReplies' = GoodReplies
  BY <1>0, Still
<1>2. Within(replies', Threads, GoodReplies') /\ Result("platform", o) \in Answer
  BY <1>1, <1>a, <1>b, AnswersHonestly
<1>3. Queues'
  BY <1>0, <1>1, <1>2 DEF IInv, Queues
<1>4. /\ pending' \in [Threads -> Nat] /\ pending'["platform"] = 0
      /\ \A t \in Threads \ {"platform"} : pending'[t] = pending[t]
  BY <1>0, <1>b, BusTypes
<1>5. Waits'
  <2>1. \A t \in Handlers : cur'[t] # NoMsg => cur'[t] \in GoodInbox'[t]
    BY <1>0, <1>1, WorkKept
  <2> QED
    BY <1>0, <1>4, <2>1 DEF IInv, Waits
<1>6. Polls' /\ FreshTelemetry'
  BY <1>0, <1>1, <1>b, <1>4, PollKept
<1>7. told' \in {"nothing", "ok", "rejected", "none"}
  BY <1>a, <1>2 DEF Answer
<1>8. OtherTypes'
  BY <1>0, <1>4, <1>7, Facts DEF OtherTypes, missionVars, telemetryVars
<1>9. FliesAcceptedOnly'
  BY <1>0 DEF IInv, FliesAcceptedOnly
<1> QED
  BY <1>3, <1>5, <1>6, <1>8, <1>9, Together

(* The mission handler asks the limiter.                                    *)
LEMMA HandleLoadMissionStep ==
  ASSUME IInv, HandleLoadMission
  PROVE  IInv'
<1> DEFINE n == Next1(MH)
           d == n.request.data
           r == Ask("limiter", "mission_load", d)
<1>0. /\ inbox[MH] # <<>> /\ d \in Missions /\ lastMission' = d /\ lastError' = ""
      /\ ProxyRequest(MH, r, Taken(MH)) /\ cur' = [cur EXCEPT ![MH] = n]
      /\ loaded' = NoMission
  BY DEF HandleLoadMission, Idle, Occupy
<1>a. /\ UNCHANGED <<scenario, replies, limMission, accepted, apMission,
                     pilotVars, telemetryVars>>
      /\ UNCHANGED <<sample, polled, last>>
  BY DEF HandleLoadMission, telemetryVars
<1>b. /\ MH \in Threads \ {ME} /\ MH \in Handlers /\ MH \in Components
      /\ {ME, "telemetry"} \subseteq Threads \ {MH} /\ ME \in Handlers \ {MH}
      /\ "limiter" \in Components /\ "limiter" \notin Sensors /\ "limiter" # ME
  BY Facts, Answers
<1>1. /\ n \in Message /\ n \in GoodInbox[MH] /\ Within(Taken(MH), Components, GoodInbox)
  BY <1>0, <1>b, Takes
<1>d. d \in Loads \cup {NoMission}
  BY <1>0 DEF Loads
<1> HIDE DEF d, n
<1>2. r \in Request /\ r.topic = "limiter" /\ r.data = d
  BY <1>b, <1>d, Asks
<1>3. GoodRequestNext(r)
  BY <1>0, <1>b, <1>2 DEF GoodRequestNext
<1> HIDE DEF r, d, n
<1>4. /\ Progress /\ Within(inbox', Components, GoodInbox')
      /\ requests' \in [Threads -> Nat] /\ pending' \in [Threads -> Nat]
      /\ asked' \in [Threads -> Request] /\ asked'[MH] = r
      /\ pending'[MH] = requests'[MH]
      /\ \A u \in Threads \ {MH} : /\ requests'[u] = requests[u]
                                   /\ pending'[u] = pending[u] /\ asked'[u] = asked[u]
  BY <1>0, <1>a, <1>b, <1>1, <1>2, <1>3, ThreadAsks
<1>5. Queues'
  BY <1>a, <1>4, BusTypes, Grows DEF IInv, Queues
<1>6. /\ cur' \in [Handlers -> Message \cup {NoMsg}] /\ cur'[MH] = n
      /\ \A t \in Handlers \ {MH} : cur'[t] = cur[t]
  BY <1>0, <1>b, <1>1, BusTypes
<1>7. Waits'
  <2>1. \A t \in Handlers : cur'[t] # NoMsg => cur'[t] \in GoodInbox'[t]
    BY <1>b, <1>1, <1>4, <1>6, BusTypes, WorkKept, Grows
  <2> QED
    BY <1>0, <1>b, <1>2, <1>4, <1>6, <2>1 DEF IInv, Waits
<1>8. Polls' /\ FreshTelemetry'
  BY <1>a, <1>b, <1>4, PollKept
<1>9. OtherTypes'
  BY <1>0, <1>a, <1>4, <1>6, Facts DEF OtherTypes, pilotVars, telemetryVars
<1>10. FliesAcceptedOnly'
  BY <1>a DEF IInv, FliesAcceptedOnly
<1> QED
  BY <1>5, <1>7, <1>8, <1>9, <1>10, Together

Errors == {"", "invalid", "limiter_no_response", "limiter_rejected",
           "autopilot_no_response", "autopilot_error"}

(* A handler other than the monitor answers after its request returned.      *)
LEMMA HandlerEnds ==
  ASSUME IInv, NEW t \in Handlers \ {ME}, cur[t] # NoMsg, NEW o \in Outcomes, Returns(t, o),
         NEW a \in Answer, Reply(cur[t], a, Left(t, o)), Forget(t), Finish(t),
         UNCHANGED <<inbox, requests, asked, scenario, lastMission, polled, last>>,
         HonestNext(cur[t].request, a), Progress
  PROVE  /\ Queues' /\ Waits' /\ Polls' /\ FreshTelemetry'
         /\ cur' \in [Handlers -> Message \cup {NoMsg}] /\ pending' \in [Threads -> Nat]
<1>b. t \in Threads /\ t \in Components \ {ME} /\ "telemetry" \in Threads /\ t # "telemetry"
      /\ {ME, MH} \subseteq Handlers /\ Handlers \subseteq Threads
  BY Facts DEF Handlers, MH, ME
<1>1. cur[t] \in GoodInbox[t] /\ Within(Left(t, o), Threads, GoodReplies)
  BY <1>b, AnswersHonestly DEF IInv, Waits
<1>2. Within(replies', Threads, GoodReplies')
  BY <1>b, <1>1, TargetReplies
<1>3. Queues'
  BY <1>2, BusTypes, Grows DEF IInv, Queues
<1>4. /\ cur' \in [Handlers -> Message \cup {NoMsg}] /\ cur'[t] = NoMsg
      /\ pending' \in [Threads -> Nat] /\ pending'[t] = 0
      /\ \A u \in Handlers \ {t} : cur'[u] = cur[u]
      /\ \A u \in Threads \ {t} : pending'[u] = pending[u]
  BY <1>b, BusTypes DEF Forget, Finish
<1>5. Waits'
  <2>1. \A u \in Handlers : cur'[u] # NoMsg => cur'[u] \in GoodInbox'[u]
    BY <1>4, WorkKept
  <2> QED
    BY <1>b, <1>4, <2>1 DEF IInv, Waits
<1>6. Polls' /\ FreshTelemetry'
  BY <1>b, <1>4, PollKept
<1> QED
  BY <1>3, <1>4, <1>5, <1>6

(* handleLoadMission ends, with or without an error.                         *)
LEMMA LoadEnds ==
  ASSUME IInv, cur[MH] # NoMsg, NEW o \in Outcomes, Returns(MH, o),
         NEW res \in {"ok", "rejected"}, Reply(cur[MH], AnswerOf(MH, res), Left(MH, o)),
         Forget(MH), Finish(MH), lastError' \in Errors, loaded' \in {loaded, lastMission},
         UNCHANGED <<inbox, requests, asked>>,
         UNCHANGED <<scenario, lastMission, limMission, accepted, apMission,
                     pilotVars, telemetryVars>>
  PROVE  IInv'
<1>a. UNCHANGED <<scenario, inbox, requests, asked, lastMission, accepted, apMission,
                  sample, polled, last>>
  BY DEF telemetryVars
<1>b. MH \in Handlers \ {ME} /\ MH \in Components
  BY Facts, Answers
<1>1. Progress
  BY <1>a, Still
<1>2. AnswerOf(MH, res) \in Answer /\ cur[MH].request.topic = MH
  <2>1. cur[MH] \in GoodInbox[MH]
    BY <1>b DEF IInv, Waits
  <2> QED
    BY <1>b, <2>1, Answers DEF GoodInbox
<1>3. HonestNext(cur[MH].request, AnswerOf(MH, res))
  BY <1>2, Answers DEF HonestNext
<1>4. /\ Queues' /\ Waits' /\ Polls' /\ FreshTelemetry'
      /\ cur' \in [Handlers -> Message \cup {NoMsg}] /\ pending' \in [Threads -> Nat]
  BY <1>a, <1>b, <1>1, <1>2, <1>3, HandlerEnds
<1>5. OtherTypes'
  BY <1>4, Facts DEF OtherTypes, pilotVars, telemetryVars, Errors
<1>6. FliesAcceptedOnly'
  BY <1>a DEF IInv, FliesAcceptedOnly
<1> QED
  BY <1>4, <1>5, <1>6, Together

(* The limiter's answer: the autopilot is asked only for what is accepted.    *)
LEMMA LimiterReturnsStep ==
  ASSUME IInv, LimiterReturns
  PROVE  IInv'
<1>0. /\ cur[MH] # NoMsg /\ asked[MH].topic = "limiter"
      /\ UNCHANGED <<scenario, lastMission, limMission, accepted, apMission,
                     pilotVars, telemetryVars>>
  BY DEF LimiterReturns, HasAsked
<1>a. UNCHANGED <<scenario, lastMission, accepted, apMission, sample, polled, last>>
  BY <1>0 DEF telemetryVars
<1>b. /\ MH \in Threads \ {ME} /\ MH \in Handlers /\ MH \in Components
      /\ {ME, "telemetry"} \subseteq Threads \ {MH} /\ ME \in Handlers \ {MH}
      /\ "autopilot" \in Components /\ "autopilot" \notin Sensors /\ "autopilot" # ME
  BY Facts, Answers
<1>c. PICK o \in Outcomes :
        /\ Returns(MH, o)
        /\ \/ /\ LimiterAgreed(Result(MH, o))
              /\ ProxyRequest(MH, Ask("autopilot", "mission_load", lastMission), inbox)
              /\ replies' = Left(MH, o)
              /\ UNCHANGED <<cur, lastError, loaded>>
           \/ /\ ~ LimiterAgreed(Result(MH, o))
              /\ LoadFails(IF Result(MH, o).result = "none" THEN "limiter_no_response"
                           ELSE "limiter_rejected", o)
  BY DEF LimiterReturns
<1>1. CASE /\ LimiterAgreed(Result(MH, o))
           /\ ProxyRequest(MH, Ask("autopilot", "mission_load", lastMission), inbox)
           /\ replies' = Left(MH, o)
           /\ UNCHANGED <<cur, lastError, loaded>>
  <2> DEFINE r == Ask("autopilot", "mission_load", lastMission)
  <2>1. lastMission \in Missions /\ asked[MH].data = lastMission
    BY <1>0 DEF IInv, Waits
  <2>2. Honest(asked[MH], Result(MH, o)) /\ Within(replies', Threads, GoodReplies)
    BY <1>b, <1>c, <1>1, AnswersHonestly
  <2>3. lastMission \in accepted
    BY <1>0, <1>1, <2>1, <2>2 DEF Honest, LimiterAgreed
  <2>4. r \in Request /\ r.topic = "autopilot" /\ r.data = lastMission
    BY <1>b, <2>1, Asks DEF Loads
  <2>5. ProxyRequest(MH, r, inbox)
    BY <1>1
  <2> HIDE DEF r
  <2>6. GoodRequestNext(r)
    BY <1>a, <1>b, <2>3, <2>4 DEF GoodRequestNext
  <2>7. /\ Progress /\ Within(inbox', Components, GoodInbox')
        /\ requests' \in [Threads -> Nat] /\ pending' \in [Threads -> Nat]
        /\ asked' \in [Threads -> Request] /\ asked'[MH] = r
        /\ pending'[MH] = requests'[MH]
        /\ \A u \in Threads \ {MH} : /\ requests'[u] = requests[u]
                                     /\ pending'[u] = pending[u] /\ asked'[u] = asked[u]
    BY <1>a, <1>b, <2>4, <2>5, <2>6, ThreadAsks DEF IInv, Queues
  <2>8. Queues'
    BY <2>2, <2>7, BusTypes, Grows, WithinGrows DEF Queues
  <2>9. Waits'
    <3>1. \A t \in Handlers : cur'[t] # NoMsg => cur'[t] \in GoodInbox'[t]
      BY <1>1, <2>7, WorkKept
    <3> QED
      BY <1>a, <1>b, <1>1, <2>1, <2>4, <2>7, <3>1 DEF IInv, Waits
  <2>10. Polls' /\ FreshTelemetry'
    BY <1>a, <1>b, <2>7, PollKept
  <2>11. OtherTypes'
    BY <1>0, <1>1, <2>7, Facts DEF OtherTypes, pilotVars, telemetryVars
  <2>12. FliesAcceptedOnly'
    BY <1>a DEF IInv, FliesAcceptedOnly
  <2> QED
    BY <2>8, <2>9, <2>10, <2>11, <2>12, Together
<1>2. CASE LoadFails(IF Result(MH, o).result = "none" THEN "limiter_no_response"
                     ELSE "limiter_rejected", o)
  BY <1>0, <1>c, <1>2, LoadEnds DEF LoadFails, Errors
<1> QED
  BY <1>c, <1>1, <1>2

(* The autopilot's answer.                                                  *)
LEMMA AutopilotReturnsStep ==
  ASSUME IInv, AutopilotReturns
  PROVE  IInv'
<1>0. /\ cur[MH] # NoMsg
      /\ UNCHANGED <<scenario, lastMission, limMission, accepted, apMission,
                     pilotVars, telemetryVars>>
  BY DEF AutopilotReturns, HasAsked
<1>c. PICK o \in Outcomes :
        /\ Returns(MH, o)
        /\ \/ /\ loaded' = lastMission
              /\ Reply(cur[MH], AnswerOf(MH, "ok"), Left(MH, o))
              /\ Forget(MH) /\ Finish(MH)
              /\ UNCHANGED <<inbox, requests, asked, lastError>>
           \/ LoadFails(IF Result(MH, o).result = "none" THEN "autopilot_no_response"
                        ELSE "autopilot_error", o)
  BY DEF AutopilotReturns
<1>1. CASE LoadFails(IF Result(MH, o).result = "none" THEN "autopilot_no_response"
                     ELSE "autopilot_error", o)
  BY <1>0, <1>c, <1>1, LoadEnds DEF LoadFails, Errors
<1>2. CASE /\ loaded' = lastMission
           /\ Reply(cur[MH], AnswerOf(MH, "ok"), Left(MH, o))
           /\ Forget(MH) /\ Finish(MH)
           /\ UNCHANGED <<inbox, requests, asked, lastError>>
  <2>1. lastError' \in Errors
    BY <1>2 DEF IInv, TypeOK, Errors
  <2> QED
    BY <1>0, <1>c, <1>2, <2>1, LoadEnds
<1> QED
  BY <1>c, <1>1, <1>2

-----------------------------------------------------------------------------
(* Limiter, ORVD, autopilot, telemetry *)

(* Accepting a mission is progress, and honest.                             *)
LEMMA Accepts ==
  ASSUME IInv, NEW m \in GoodInbox["limiter"], Accept(m.request.data),
         UNCHANGED <<sample, requests, asked, apMission>>
  PROVE  /\ Progress /\ accepted' \subseteq Missions /\ limMission' \in Missions
         /\ HonestNext(m.request, AnswerOf("limiter", "ok")) /\ FliesAcceptedOnly'
<1>1. "limiter" \in Components /\ "limiter" # ME /\ "limiter" \notin Sensors
  BY Facts, Answers
<1>2. m.request.topic = "limiter" /\ m.request.data \in Missions
  BY <1>1 DEF GoodInbox, GoodMessage, GoodRequest
<1>3. Progress /\ accepted' \subseteq Missions /\ limMission' \in Missions
  BY <1>2, BusTypes DEF Progress, Accept
<1>4. HonestNext(m.request, AnswerOf("limiter", "ok"))
  BY <1>1, <1>2 DEF HonestNext, Accept
<1>5. FliesAcceptedOnly'
  BY DEF IInv, FliesAcceptedOnly, Accept
<1> QED
  BY <1>3, <1>4, <1>5

(* The limiter refuses, accepts, or asks ORVD.                              *)
LEMMA LimiterLoadsStep ==
  ASSUME IInv, LimiterLoads
  PROVE  IInv'
<1> DEFINE n == Next1("limiter")
<1>0. /\ inbox["limiter"] # <<>>
      /\ UNCHANGED <<scenario, lastMission, lastError, apMission, loaded,
                     pilotVars, telemetryVars>>
  BY DEF LimiterLoads, Idle
<1>a. UNCHANGED <<scenario, lastMission, apMission, sample, polled, last>>
  BY <1>0 DEF telemetryVars
<1>b. /\ "limiter" \in Threads \ {ME} /\ "limiter" \in Handlers
      /\ "limiter" \in Components \ {ME} /\ "limiter" \notin Sensors
      /\ {ME, MH, "telemetry"} \subseteq Threads \ {"limiter"}
      /\ {ME, MH} \subseteq Handlers \ {"limiter"}
      /\ "orvd" \in Components /\ "orvd" \notin Sensors /\ "orvd" # ME
  BY Facts, Answers
<1>c. /\ n \in GoodInbox["limiter"] /\ n \in Message /\ n.request.topic = "limiter"
      /\ n.request \in Request /\ GoodMessage(n) /\ Within(Taken("limiter"), Components, GoodInbox)
  BY <1>0, <1>b, Takes
<1>d. \/ /\ inbox' = Taken("limiter")
         /\ Reply(n, AnswerOf("limiter", "rejected"), replies)
         /\ UNCHANGED <<requests, pending, asked, cur, limMission, accepted>>
      \/ /\ inbox' = Taken("limiter")
         /\ Accept(n.request.data)
         /\ Reply(n, AnswerOf("limiter", "ok"), replies)
         /\ UNCHANGED <<requests, pending, asked, cur>>
      \/ /\ cur' = [cur EXCEPT !["limiter"] = n]
         /\ ProxyRequest("limiter", Ask("orvd", "authorize", n.request.data), Taken("limiter"))
         /\ UNCHANGED <<replies, limMission, accepted>>
  BY DEF LimiterLoads, Occupy
<1>1. CASE /\ inbox' = Taken("limiter")
           /\ Reply(n, AnswerOf("limiter", "rejected"), replies)
           /\ UNCHANGED <<requests, pending, asked, cur, limMission, accepted>>
  <2>1. Progress
    BY <1>a, <1>1, Still
  <2>2. Waits' /\ Polls' /\ FreshTelemetry'
    BY <1>a, <1>1, <2>1, MovesOnly
  <2>3. AnswerOf("limiter", "rejected") \in Answer
        /\ HonestNext(n.request, AnswerOf("limiter", "rejected"))
    BY <1>b, <1>c, Answers DEF HonestNext
  <2>4. Queues'
    BY <1>0, <1>b, <1>1, <2>1, <2>3, ComponentReplies
  <2>5. OtherTypes'
    BY <1>0, <1>1, Facts DEF OtherTypes, pilotVars, telemetryVars
  <2>6. FliesAcceptedOnly'
    BY <1>a, <1>1 DEF IInv, FliesAcceptedOnly
  <2> QED
    BY <2>2, <2>4, <2>5, <2>6, Together
<1>2. CASE /\ inbox' = Taken("limiter")
           /\ Accept(n.request.data)
           /\ Reply(n, AnswerOf("limiter", "ok"), replies)
           /\ UNCHANGED <<requests, pending, asked, cur>>
  <2> HIDE DEF n
  <2>1. /\ Progress /\ accepted' \subseteq Missions /\ limMission' \in Missions
        /\ HonestNext(n.request, AnswerOf("limiter", "ok")) /\ FliesAcceptedOnly'
    BY <1>a, <1>c, <1>2, Accepts
  <2>2. Waits' /\ Polls' /\ FreshTelemetry'
    BY <1>a, <1>2, <2>1, MovesOnly
  <2>3. AnswerOf("limiter", "ok") \in Answer
    BY <1>b, Answers
  <2>4. Queues'
    BY <1>0, <1>b, <1>2, <2>1, <2>3, ComponentReplies DEF n
  <2>5. OtherTypes'
    BY <1>0, <1>2, <2>1, Facts DEF OtherTypes, pilotVars, telemetryVars
  <2> QED
    BY <2>1, <2>2, <2>4, <2>5, Together
<1>3. CASE /\ cur' = [cur EXCEPT !["limiter"] = n]
           /\ ProxyRequest("limiter", Ask("orvd", "authorize", n.request.data), Taken("limiter"))
           /\ UNCHANGED <<replies, limMission, accepted>>
  <2> DEFINE r == Ask("orvd", "authorize", n.request.data)
  <2>1. n.request.data \in Loads \cup {NoMission}
    BY <1>c DEF Request
  <2>2. r \in Request /\ r.topic = "orvd"
    BY <1>b, <2>1, Asks
  <2>3. ProxyRequest("limiter", r, Taken("limiter"))
    BY <1>3
  <2> HIDE DEF r, n
  <2>4. GoodRequestNext(r)
    BY <1>b, <2>2 DEF GoodRequestNext
  <2>5. /\ Progress /\ Within(inbox', Components, GoodInbox')
        /\ requests' \in [Threads -> Nat] /\ pending' \in [Threads -> Nat]
        /\ asked' \in [Threads -> Request] /\ pending'["limiter"] = requests'["limiter"]
        /\ \A u \in Threads \ {"limiter"} :
             /\ requests'[u] = requests[u]
             /\ pending'[u] = pending[u] /\ asked'[u] = asked[u]
    BY <1>a, <1>b, <1>c, <1>3, <2>2, <2>3, <2>4, ThreadAsks
  <2>6. Queues'
    BY <1>3, <2>5, BusTypes, Grows DEF IInv, Queues
  <2>7. /\ cur' \in [Handlers -> Message \cup {NoMsg}] /\ cur'["limiter"] = n
        /\ \A t \in Handlers \ {"limiter"} : cur'[t] = cur[t]
    BY <1>b, <1>c, <1>3, BusTypes
  <2>8. Waits'
    <3>1. \A t \in Handlers : cur'[t] # NoMsg => cur'[t] \in GoodInbox'[t]
      BY <1>b, <1>c, <2>5, <2>7, BusTypes, WorkKept, Grows
    <3> QED
      BY <1>a, <1>b, <2>5, <2>7, <3>1 DEF IInv, Waits
  <2>9. Polls' /\ FreshTelemetry'
    BY <1>a, <1>b, <2>5, PollKept
  <2>10. OtherTypes'
    BY <1>0, <1>3, <2>5, <2>7, Facts DEF OtherTypes, pilotVars, telemetryVars
  <2>11. FliesAcceptedOnly'
    BY <1>a, <1>3 DEF IInv, FliesAcceptedOnly
  <2> QED
    BY <2>6, <2>8, <2>9, <2>10, <2>11, Together
<1> QED
  BY <1>d, <1>1, <1>2, <1>3

(* ORVD's answer reaches the limiter, or does not.                           *)
LEMMA OrvdReturnsStep ==
  ASSUME IInv, OrvdReturns
  PROVE  IInv'
<1>0. /\ cur["limiter"] # NoMsg /\ Forget("limiter") /\ Finish("limiter")
      /\ UNCHANGED <<inbox, requests, asked>>
      /\ UNCHANGED <<scenario, lastMission, lastError, apMission, loaded,
                     pilotVars, telemetryVars>>
  BY DEF OrvdReturns
<1>a. UNCHANGED <<inbox, requests, asked, scenario, lastMission, apMission, sample, polled, last>>
  BY <1>0 DEF telemetryVars
<1>b. "limiter" \in Handlers \ {ME} /\ "limiter" \in Components /\ "limiter" \notin Sensors
  BY Facts, Answers
<1>c. cur["limiter"] \in GoodInbox["limiter"]
  BY <1>0, <1>b DEF IInv, Waits
<1>d. PICK o \in Outcomes :
        /\ Returns("limiter", o)
        /\ \/ /\ Accept(cur["limiter"].request.data)
              /\ Reply(cur["limiter"], AnswerOf("limiter", "ok"), Left("limiter", o))
           \/ /\ Reply(cur["limiter"], AnswerOf("limiter", "rejected"), Left("limiter", o))
              /\ UNCHANGED <<limMission, accepted>>
  BY DEF OrvdReturns
<1>1. CASE /\ Accept(cur["limiter"].request.data)
           /\ Reply(cur["limiter"], AnswerOf("limiter", "ok"), Left("limiter", o))
  <2>1. /\ Progress /\ accepted' \subseteq Missions /\ limMission' \in Missions
        /\ HonestNext(cur["limiter"].request, AnswerOf("limiter", "ok")) /\ FliesAcceptedOnly'
    BY <1>a, <1>c, <1>1, Accepts
  <2>2. AnswerOf("limiter", "ok") \in Answer
    BY <1>b, Answers
  <2>3. /\ Queues' /\ Waits' /\ Polls' /\ FreshTelemetry'
        /\ cur' \in [Handlers -> Message \cup {NoMsg}] /\ pending' \in [Threads -> Nat]
    BY <1>0, <1>a, <1>b, <1>d, <1>1, <2>1, <2>2, HandlerEnds
  <2>4. OtherTypes'
    BY <1>0, <2>1, <2>3, Facts DEF OtherTypes, pilotVars, telemetryVars
  <2> QED
    BY <2>1, <2>3, <2>4, Together
<1>2. CASE /\ Reply(cur["limiter"], AnswerOf("limiter", "rejected"), Left("limiter", o))
           /\ UNCHANGED <<limMission, accepted>>
  <2>1. Progress
    BY <1>a, <1>2, Still
  <2>2. /\ AnswerOf("limiter", "rejected") \in Answer
        /\ HonestNext(cur["limiter"].request, AnswerOf("limiter", "rejected"))
    <3>1. cur["limiter"].request.topic = "limiter"
      BY <1>b, <1>c DEF GoodInbox
    <3> QED
      BY <1>b, <3>1, Answers DEF HonestNext
  <2>3. /\ Queues' /\ Waits' /\ Polls' /\ FreshTelemetry'
        /\ cur' \in [Handlers -> Message \cup {NoMsg}] /\ pending' \in [Threads -> Nat]
    BY <1>0, <1>a, <1>b, <1>d, <1>2, <2>1, <2>2, HandlerEnds
  <2>4. OtherTypes'
    BY <1>0, <1>2, <2>3, Facts DEF OtherTypes, pilotVars, telemetryVars
  <2>5. FliesAcceptedOnly'
    BY <1>a, <1>2 DEF IInv, FliesAcceptedOnly
  <2> QED
    BY <2>3, <2>4, <2>5, Together
<1> QED
  BY <1>d, <1>1, <1>2

(* ORVD answers.                                                            *)
LEMMA OrvdAnswersStep ==
  ASSUME IInv, OrvdAnswers
  PROVE  IInv'
<1>0. /\ inbox["orvd"] # <<>> /\ inbox' = Taken("orvd")
      /\ UNCHANGED <<scenario, requests, pending, asked, cur,
                     missionVars, pilotVars, telemetryVars>>
  BY DEF OrvdAnswers
<1>a. PICK r \in {"ok", "rejected"} : Reply(Next1("orvd"), AnswerOf("orvd", r), replies)
  BY DEF OrvdAnswers
<1>b. "orvd" \in Components \ {ME} /\ "orvd" \notin Sensors
  BY Facts, Answers
<1>1. Progress
  BY <1>0, Still DEF missionVars, telemetryVars
<1>2. Waits' /\ Polls' /\ FreshTelemetry'
  BY <1>0, <1>1, MovesOnly DEF missionVars, telemetryVars
<1>3. Queues'
  <2>1. Next1("orvd").request.topic = "orvd"
    BY <1>0, <1>b, Takes
  <2>2. AnswerOf("orvd", r) \in Answer /\ HonestNext(Next1("orvd").request, AnswerOf("orvd", r))
    BY <1>b, <2>1, Answers DEF HonestNext
  <2> QED
    BY <1>0, <1>a, <1>b, <1>1, <2>2, ComponentReplies
<1>4. OtherTypes'
  BY <1>0, Facts DEF OtherTypes, missionVars, pilotVars, telemetryVars
<1>5. FliesAcceptedOnly'
  BY <1>0 DEF IInv, FliesAcceptedOnly, missionVars
<1> QED
  BY <1>2, <1>3, <1>4, <1>5, Together

(* The autopilot takes a mission: an accepted one.                           *)
LEMMA AutopilotLoadsStep ==
  ASSUME IInv, AutopilotLoads
  PROVE  IInv'
<1>0. /\ inbox["autopilot"] # <<>> /\ inbox' = Taken("autopilot")
      /\ apMission' = Next1("autopilot").request.data
      /\ Reply(Next1("autopilot"), AnswerOf("autopilot", "ok"), replies)
      /\ UNCHANGED <<scenario, requests, pending, asked, cur, lastMission, lastError,
                     limMission, accepted, loaded, pilotVars, telemetryVars>>
  BY DEF AutopilotLoads
<1>b. "autopilot" \in Components \ {ME} /\ "autopilot" \notin Sensors
  BY Facts, Answers
<1>1. Progress
  BY <1>0, Still DEF telemetryVars
<1>2. Waits' /\ Polls' /\ FreshTelemetry'
  BY <1>0, <1>1, MovesOnly DEF telemetryVars
<1>3. Next1("autopilot").request.topic = "autopilot" /\ GoodMessage(Next1("autopilot"))
  BY <1>0, <1>b, Takes
<1>4. apMission' \in accepted /\ accepted' = accepted /\ accepted \subseteq Missions
  BY <1>0, <1>3, BusTypes DEF GoodMessage, GoodRequest
<1>5. Queues'
  <2>1. /\ AnswerOf("autopilot", "ok") \in Answer
        /\ HonestNext(Next1("autopilot").request, AnswerOf("autopilot", "ok"))
    BY <1>b, <1>3, Answers DEF HonestNext
  <2> QED
    BY <1>0, <1>b, <1>1, <2>1, ComponentReplies
<1>6. OtherTypes'
  BY <1>0, <1>4, Facts DEF OtherTypes, pilotVars, telemetryVars
<1>7. FliesAcceptedOnly'
  BY <1>4 DEF FliesAcceptedOnly
<1> QED
  BY <1>2, <1>5, <1>6, <1>7, Together

(* A sensor's state changes.                                                *)
LEMMA SenseStep ==
  ASSUME IInv, NEW s \in Sensors, Sense(s)
  PROVE  IInv'
<1>0. /\ sample' = [sample EXCEPT ![s] = @ + 1]
      /\ UNCHANGED <<scenario, inbox, replies, requests, pending, asked, cur>>
      /\ UNCHANGED <<missionVars, pilotVars, polls, polled, last>>
      /\ UNCHANGED <<accepted, lastMission, apMission>>
  BY DEF Sense, busVars, missionVars
<1>1. sample' \in [Sensors -> Nat] /\ \A t \in Sensors : sample[t] <= sample'[t]
  BY <1>0, BusTypes
<1>2. Progress
  BY <1>0, <1>1, BusTypes DEF Progress
<1>3. Waits' /\ Polls' /\ FreshTelemetry'
  BY <1>0, <1>2, MovesOnly
<1>4. Queues'
  BY <1>0, <1>2, BusTypes, Grows DEF IInv, Queues
<1>5. OtherTypes'
  BY <1>0, <1>1, Facts DEF OtherTypes, missionVars, pilotVars
<1>6. FliesAcceptedOnly'
  BY <1>0 DEF IInv, FliesAcceptedOnly
<1> QED
  BY <1>3, <1>4, <1>5, <1>6, Together

(* A sensor answers with its current state.                                 *)
LEMMA HandleGetStateStep ==
  ASSUME IInv, NEW s \in Sensors, HandleGetState(s)
  PROVE  IInv'
<1> DEFINE a == [result |-> "ok", by |-> s, sample |-> sample[s]]
<1>0. /\ inbox[s] # <<>> /\ inbox' = Taken(s) /\ Reply(Next1(s), a, replies)
      /\ UNCHANGED <<scenario, requests, pending, asked, cur,
                     missionVars, pilotVars, telemetryVars>>
  BY DEF HandleGetState
<1>b. s \in Components \ {ME} /\ s # "limiter" /\ sample[s] \in Nat
  BY Facts, Answers, BusTypes
<1>c. a \in Answer /\ a.result = "ok" /\ a.by = s /\ a.sample = sample[s]
  BY <1>b DEF Answer
<1> HIDE DEF a
<1>1. Progress /\ sample' = sample
  BY <1>0, Still DEF missionVars, telemetryVars
<1>2. Waits' /\ Polls' /\ FreshTelemetry'
  BY <1>0, <1>1, MovesOnly DEF missionVars, telemetryVars
<1>3. Queues'
  <2>1. Next1(s).request.topic = s /\ GoodMessage(Next1(s))
    BY <1>0, <1>b, Takes
  <2>2. HonestNext(Next1(s).request, a)
    BY <1>b, <1>c, <1>1, <2>1 DEF HonestNext, FreshNext, GoodMessage, GoodRequest
  <2> QED
    BY <1>0, <1>b, <1>c, <1>1, <2>2, ComponentReplies
<1>4. OtherTypes'
  BY <1>0, Facts DEF OtherTypes, missionVars, pilotVars, telemetryVars
<1>5. FliesAcceptedOnly'
  BY <1>0 DEF IInv, FliesAcceptedOnly, missionVars
<1> QED
  BY <1>2, <1>3, <1>4, <1>5, Together

(* Telemetry asks the next component.                                       *)
LEMMA PollNextStep ==
  ASSUME IInv, PollNext
  PROVE  IInv'
<1> DEFINE s == scenario.pollOrder[Len(polled) + 1]
           r == Ask(s, "get_state", NoMission)
<1>0. /\ Len(polled) < Len(scenario.pollOrder) /\ ProxyRequest("telemetry", r, inbox)
      /\ UNCHANGED <<scenario, replies, cur, missionVars, pilotVars, telemetryVars>>
      /\ UNCHANGED <<accepted, sample, lastMission, apMission, polled, last>>
  BY DEF PollNext, missionVars, telemetryVars
<1>a. scenario.pollOrder \in Seq(Sensors) /\ polled \in Seq(Polled)
  BY MCConstants DEF IInv, TypeOK
<1>b. s \in Sensors
  BY <1>0, <1>a
<1>c. /\ "telemetry" \in Threads \ {ME} /\ {ME, MH} \subseteq Threads \ {"telemetry"}
      /\ {ME, MH} \subseteq Handlers
      /\ s \in Components \ {ME} /\ s # "limiter" /\ s # "autopilot" /\ sample[s] \in Nat
  BY <1>b, Facts, Answers, BusTypes
<1>1. r \in Request /\ r.topic = s /\ r.since = sample[s]
  BY <1>b, <1>c, Asks
<1> HIDE DEF r
<1>2. GoodRequestNext(r)
  BY <1>0, <1>c, <1>1 DEF GoodRequestNext
<1>3. /\ Progress /\ Within(inbox', Components, GoodInbox')
      /\ requests' \in [Threads -> Nat] /\ pending' \in [Threads -> Nat]
      /\ asked' \in [Threads -> Request] /\ asked'["telemetry"] = r
      /\ pending'["telemetry"] = requests'["telemetry"]
      /\ \A u \in Threads \ {"telemetry"} :
           /\ requests'[u] = requests[u]
           /\ pending'[u] = pending[u] /\ asked'[u] = asked[u]
  BY <1>0, <1>c, <1>1, <1>2, ThreadAsks DEF IInv, Queues
<1>4. Queues'
  BY <1>0, <1>3, BusTypes, Grows DEF IInv, Queues
<1>5. Waits'
  <2>1. \A t \in Handlers : cur'[t] # NoMsg => cur'[t] \in GoodInbox'[t]
    BY <1>0, <1>3, WorkKept
  <2> QED
    BY <1>0, <1>c, <1>3, <2>1 DEF IInv, Waits
<1>6. Polls' /\ FreshTelemetry'
  <2>1. Polls'
    BY <1>0, <1>1, <1>3 DEF IInv, Polls, Fresh
  <2>2. FreshTelemetry'
    BY <1>0 DEF IInv, FreshTelemetry
  <2> QED
    BY <2>1, <2>2
<1>7. OtherTypes'
  BY <1>0, <1>3, Facts DEF OtherTypes, missionVars, pilotVars, telemetryVars
<1>8. FliesAcceptedOnly'
  BY <1>0 DEF IInv, FliesAcceptedOnly
<1> QED
  BY <1>4, <1>5, <1>6, <1>7, <1>8, Together

(* Telemetry gets an answer to what it asked, or none.                       *)
LEMMA PollReturnsStep ==
  ASSUME IInv, PollReturns
  PROVE  IInv'
<1>0. /\ pending' = [pending EXCEPT !["telemetry"] = 0]
      /\ UNCHANGED <<scenario, inbox, requests, asked, cur, missionVars, pilotVars,
                     sample, polls, last>>
      /\ UNCHANGED <<accepted, lastMission, apMission>>
  BY DEF PollReturns, Forget, missionVars
<1>a. PICK o \in Outcomes :
        /\ Returns("telemetry", o)
        /\ polled' = Append(polled, [answer |-> Result("telemetry", o),
                                     since |-> asked["telemetry"].since])
        /\ replies' = Left("telemetry", o)
  BY DEF PollReturns
<1> DEFINE e == [answer |-> Result("telemetry", o), since |-> asked["telemetry"].since]
<1>b. "telemetry" \in Threads /\ {ME, MH} \subseteq Threads \ {"telemetry"}
  BY Facts, Answers
<1>1. Progress /\ GoodInbox' = GoodInbox /\ GoodReplies' = GoodReplies
  BY <1>0, Still
<1>2. /\ pending["telemetry"] # 0 /\ Result("telemetry", o) \in Answer
      /\ Honest(asked["telemetry"], Result("telemetry", o))
      /\ Within(replies', Threads, GoodReplies)
  BY <1>a, <1>b, AnswersHonestly
<1>3. Queues'
  BY <1>0, <1>1, <1>2 DEF IInv, Queues
<1>4. /\ pending' \in [Threads -> Nat] /\ pending'["telemetry"] = 0
      /\ \A t \in Threads \ {"telemetry"} : pending'[t] = pending[t]
  BY <1>0, <1>b, BusTypes
<1>5. Waits'
  <2>1. \A t \in Handlers : cur'[t] # NoMsg => cur'[t] \in GoodInbox'[t]
    BY <1>0, <1>1, WorkKept
  <2> QED
    BY <1>0, <1>b, <1>4, <2>1 DEF IInv, Waits
<1>6. e \in Polled /\ e.answer = Result("telemetry", o) /\ e.since = asked["telemetry"].since
  BY <1>b, <1>2, BusTypes DEF Polled, Request
<1>7. polled' = Append(polled, e)
  BY <1>a
<1> HIDE DEF e
<1>c. scenario.pollOrder \in Seq(Sensors) /\ polled \in Seq(Polled)
  BY MCConstants DEF IInv, TypeOK
<1>d. /\ polled' \in Seq(Polled) /\ Len(polled') = Len(polled) + 1
      /\ \A i \in 1..Len(polled) : polled'[i] = polled[i]
      /\ polled'[Len(polled) + 1] = e
  BY <1>6, <1>7, <1>c
<1>8. Polls'
  <2>1. /\ Len(polled) < Len(scenario.pollOrder)
        /\ asked["telemetry"].topic = scenario.pollOrder[Len(polled) + 1]
    BY <1>2 DEF IInv, Polls
  <2>2. scenario.pollOrder[Len(polled) + 1] \in Sensors
    BY <1>c, <2>1
  <2>3. e.answer.result # "none" => Fresh(scenario.pollOrder[Len(polled) + 1], e.since, e.answer)
    BY <1>2, <1>6, <2>1, <2>2 DEF Honest
  <2>4. \A i \in 1..Len(polled') :
          polled'[i].answer.result # "none" =>
            FreshNext(scenario.pollOrder[i], polled'[i].since, polled'[i].answer)
    <3>1. ASSUME NEW i \in 1..Len(polled'), polled'[i].answer.result # "none"
          PROVE  FreshNext(scenario.pollOrder[i], polled'[i].since, polled'[i].answer)
      <4>1. CASE i = Len(polled) + 1
        <5>1. polled'[i] = e
          BY <1>d, <4>1
        <5>2. e.answer.result # "none"
          BY <3>1, <5>1
        <5>3. Fresh(scenario.pollOrder[i], e.since, e.answer)
          BY <2>3, <4>1, <5>2
        <5> QED
          BY <1>0, <5>1, <5>3 DEF Fresh, FreshNext
      <4>2. CASE i # Len(polled) + 1
        <5>1. i \in 1..Len(polled)
          BY <1>c, <1>d, <3>1, <4>2
        <5> QED
          BY <1>0, <1>d, <3>1, <5>1 DEF IInv, Polls, Fresh, FreshNext
      <4> QED
        BY <4>1, <4>2
    <3> QED
      BY <3>1
  <2>5. Len(polled') <= Len(scenario'.pollOrder)
    BY <1>0, <1>c, <1>d, <2>1
  <2> QED
    BY <1>0, <1>4, <2>4, <2>5 DEF Polls, Fresh, FreshNext
<1>9. FreshTelemetry'
  BY <1>0 DEF IInv, FreshTelemetry
<1>10. OtherTypes'
  BY <1>0, <1>4, <1>d, Facts DEF OtherTypes, missionVars, pilotVars
<1>11. FliesAcceptedOnly'
  BY <1>0 DEF IInv, FliesAcceptedOnly
<1> QED
  BY <1>3, <1>5, <1>8, <1>9, <1>10, <1>11, Together

(* Telemetry stores what it got.                                            *)
LEMMA PollStoresStep ==
  ASSUME IInv, PollStores
  PROVE  IInv'
<1>0. /\ Len(polled) = Len(scenario.pollOrder) /\ polls' = polls + 1 /\ polled' = <<>>
      /\ last' = [s \in Sensors |->
           IF AnsweredFor(s) = {} THEN last[s]
           ELSE polled[CHOOSE i \in AnsweredFor(s) : TRUE]]
      /\ UNCHANGED <<scenario, inbox, replies, requests, pending, asked, cur>>
      /\ UNCHANGED <<missionVars, pilotVars, sample>>
      /\ UNCHANGED <<accepted, lastMission, apMission>>
  BY DEF PollStores, busVars, missionVars
<1>1. Progress /\ GoodInbox' = GoodInbox /\ GoodReplies' = GoodReplies
  BY <1>0, Still
<1>2. Queues'
  BY <1>0, <1>1 DEF IInv, Queues
<1>3. Waits'
  <2>1. \A t \in Handlers : cur'[t] # NoMsg => cur'[t] \in GoodInbox'[t]
    BY <1>0, <1>1, WorkKept
  <2> QED
    BY <1>0, <2>1 DEF IInv, Waits
<1>4. /\ scenario.pollOrder \in Seq(Sensors) /\ polled \in Seq(Polled) /\ polls \in Nat
      /\ last \in [Sensors -> Polled \cup {NoAnswer}]
  BY MCConstants DEF IInv, TypeOK
<1>5. Polls'
  <2>1. pending["telemetry"] = 0 /\ Len(polled') = 0 /\ Len(scenario.pollOrder) \in Nat
    BY <1>0, <1>4 DEF IInv, Polls
  <2> QED
    BY <1>0, <2>1 DEF Polls
<1>6. ASSUME NEW s \in Sensors
      PROVE  /\ last'[s] \in Polled \cup {NoAnswer}
             /\ last'[s] # NoAnswer => Fresh(s, last'[s].since, last'[s].answer)
  <2>1. CASE AnsweredFor(s) = {}
    BY <1>0, <1>4, <2>1 DEF IInv, FreshTelemetry, Fresh
  <2>2. CASE AnsweredFor(s) # {}
    <3>1. PICK i \in AnsweredFor(s) : last'[s] = polled[i]
      BY <1>0, <2>2
    <3>2. i \in 1..Len(polled) /\ scenario.pollOrder[i] = s /\ polled[i].answer.result # "none"
      BY <1>4, <3>1 DEF AnsweredFor
    <3>3. polled[i] \in Polled
      BY <1>4, <3>2
    <3> QED
      BY <3>1, <3>2, <3>3 DEF IInv, Polls
  <2> QED
    BY <2>1, <2>2
<1>7. FreshTelemetry'
  BY <1>0, <1>6 DEF FreshTelemetry, Fresh
<1>8. last' \in [Sensors -> Polled \cup {NoAnswer}]
  BY <1>0, <1>6
<1>9. polls' \in Nat /\ polled' \in Seq(Polled)
  BY <1>0, <1>4
<1>10. OtherTypes'
  BY <1>0, <1>8, <1>9, Facts DEF OtherTypes, missionVars, pilotVars
<1>11. FliesAcceptedOnly'
  BY <1>0 DEF IInv, FliesAcceptedOnly
<1> QED
  BY <1>2, <1>3, <1>5, <1>7, <1>10, <1>11, Together

-----------------------------------------------------------------------------
(* Initially nothing is in flight.                                          *)
LEMMA InitInv == Init => IInv
<1> SUFFICES ASSUME Init PROVE IInv
  OBVIOUS
<1>1. NoRequest \in Request
  BY DEF NoRequest, Request, Components, Threads, Handlers
<1>2. \A S : <<>> \in Seq(S)
  OBVIOUS
<1>3. Queues
  BY <1>2 DEF Init, Queues, Within
<1>4. Waits
  BY DEF Init, Waits, Threads, Handlers, ME, MH
<1>a. TypeOK
  <2>1. inbox \in [Components -> Seq(Message)] /\ replies \in [Threads -> Seq(ReplyMessage)]
    BY <1>2 DEF Init
  <2>2. polled \in Seq(Polled)
    BY <1>2 DEF Init
  <2>3. /\ requests \in [Threads -> Nat] /\ pending \in [Threads -> Nat]
        /\ asked \in [Threads -> Request] /\ cur \in [Handlers -> Message \cup {NoMsg}]
    BY <1>1 DEF Init
  <2>4. /\ {lastMission, limMission, apMission, loaded} \subseteq Missions \cup {NoMission}
        /\ lastError = "" /\ accepted \subseteq Missions
        /\ loads \in Nat /\ told = "nothing" /\ sample \in [Sensors -> Nat]
        /\ polls \in Nat /\ last \in [Sensors -> Polled \cup {NoAnswer}]
        /\ scenario \in Scenarios
    BY DEF Init
  <2> QED
    BY <2>1, <2>2, <2>3, <2>4 DEF TypeOK
<1>5. Polls
  <2>1. scenario.pollOrder \in Seq(Sensors)
    BY MCConstants DEF Init
  <2>2. polled = <<>> /\ pending["telemetry"] = 0
    BY DEF Init, Threads
  <2>3. Len(scenario.pollOrder) \in Nat
    BY <2>1
  <2>4. Len(polled) = 0
    BY <2>2
  <2> QED
    BY <2>2, <2>3, <2>4 DEF Polls
<1>6. FliesAcceptedOnly /\ FreshTelemetry
  BY DEF Init, FliesAcceptedOnly, FreshTelemetry
<1> QED
  BY <1>a, <1>3, <1>4, <1>5, <1>6 DEF IInv

(* Nothing changes.                                                         *)
LEMMA StutterStep ==
  ASSUME IInv, UNCHANGED vars
  PROVE  IInv'
<1>0. /\ UNCHANGED <<scenario, inbox, replies, requests, pending, asked, cur>>
      /\ UNCHANGED <<missionVars, pilotVars, telemetryVars>>
      /\ UNCHANGED <<accepted, sample, lastMission, apMission, polled, last>>
  BY DEF vars, busVars, missionVars, telemetryVars
<1>1. Progress /\ GoodInbox' = GoodInbox /\ GoodReplies' = GoodReplies
  BY <1>0, Still
<1>2. Waits' /\ Polls' /\ FreshTelemetry'
  BY <1>0, <1>1, MovesOnly
<1>3. Queues'
  BY <1>0, <1>1 DEF IInv, Queues
<1>4. OtherTypes'
  BY <1>0, Facts DEF OtherTypes, missionVars, pilotVars, telemetryVars
<1>5. FliesAcceptedOnly'
  BY <1>0 DEF IInv, FliesAcceptedOnly
<1> QED
  BY <1>2, <1>3, <1>4, <1>5, Together

(* Every step keeps the invariant.                                          *)
LEMMA NextInv ==
  ASSUME IInv, [Next]_vars
  PROVE  IInv'
<1>1. CASE \E t \in Threads : Drop(t)
  BY <1>1, DropStep
<1>2. CASE MonitorRuns
  BY <1>2, MonitorPublishesStep, MonitorRequestsStep, MonitorRefusesStep, MonitorReturnsStep
     DEF MonitorRuns
<1>3. CASE MissionHandlerRuns
  BY <1>3, InvalidMissionStep, HandleValidateOnlyStep, HandleLoadMissionStep,
     LimiterReturnsStep, AutopilotReturnsStep DEF MissionHandlerRuns
<1>4. CASE LimiterRuns
  BY <1>4, LimiterLoadsStep, OrvdReturnsStep DEF LimiterRuns
<1>5. CASE OrvdAnswers \/ AutopilotLoads
  BY <1>5, OrvdAnswersStep, AutopilotLoadsStep
<1>6. CASE TelemetryRuns
  BY <1>6, PollNextStep, PollReturnsStep, PollStoresStep DEF TelemetryRuns
<1>7. CASE \E s \in Sensors : HandleGetState(s) \/ Sense(s)
  BY <1>7, HandleGetStateStep, SenseStep
<1>8. CASE \E a \in {"LOAD_MISSION", "VALIDATE_ONLY"}, d \in Loads : PilotAsks(a, d)
  BY <1>8, PilotAsksStep
<1>9. CASE PilotReturns
  BY <1>9, PilotReturnsStep
<1>10. CASE UNCHANGED vars
  BY <1>10, StutterStep
<1> QED
  BY <1>1, <1>2, <1>3, <1>4, <1>5, <1>6, <1>7, <1>8, <1>9, <1>10 DEF Next

(* The invariant holds in every reachable state.                            *)
THEOREM ChainInvariant == Spec => []IInv
<1>1. IInv /\ [Next]_vars => IInv'
  BY NextInv
<1> QED
  BY <1>1, InitInv, PTL DEF Spec

(* The variables of bus, mission handler, limiter, autopilot and telemetry    *)
(* keep their types.                                                        *)
THEOREM TypeCorrect == Spec => []TypeOK
<1>1. IInv => TypeOK
  BY DEF IInv
<1> QED
  BY <1>1, ChainInvariant, PTL

(* handleLoadMission forwards a mission to the autopilot only after the       *)
(* limiter's own ok to this mission, whatever replies come late.             *)
THEOREM AcceptedOnly == Spec => []FliesAcceptedOnly
<1>1. IInv => FliesAcceptedOnly
  BY DEF IInv
<1> QED
  BY <1>1, ChainInvariant, PTL

(* pollOnce stores only answers of the component it asked, taken after it     *)
(* asked: the pending map of the bus keeps late replies out.                 *)
THEOREM TelemetryFresh == Spec => []FreshTelemetry
<1>1. IInv => FreshTelemetry
  BY DEF IInv
<1> QED
  BY <1>1, ChainInvariant, PTL

=============================================================================
