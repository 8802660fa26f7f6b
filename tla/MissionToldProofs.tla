------------------------- MODULE MissionToldProofs -------------------------
(***************************************************************************)
(* What the platform is told is true, for every set of missions, every       *)
(* scenario and every choice of timeouts, late replies and refusals.         *)
(*                                                                         *)
(* Two things make it so.  A reply counts only while its own request is      *)
(* waited for, on each of the two links between platform and mission         *)
(* handler.  And a load that the monitor waits for finds no ok of the        *)
(* limiter: that ok would have to come from the monitor, which answers       *)
(* nobody before it has given the load up.                                   *)
(***************************************************************************)
EXTENDS MissionOrderProofs

-----------------------------------------------------------------------------
(* The inductive invariant *)

PF == "platform"

(* The request that t waits for ...                                         *)
Open(t) == {m \in Message : m.sender = t /\ pending[t] # 0 /\ m.corr = pending[t]}

(* ... and, if it is one to the mission handler, the wrong replies to it.     *)
Lies(t) ==
  {r \in ReplyMessage : /\ pending[t] # 0 /\ r.corr = pending[t]
                        /\ asked[t].topic = MH /\ ~ TrueOf(asked[t], r.answer.result)}

(* A load that the monitor waits for waits itself, for no ok that has come.   *)
LoadUnanswered ==
  cur[MH] # NoMsg =>
    /\ cur[MH].request.action = "LOAD_MISSION"
    /\ cur[MH] \in Open(ME) => Free(replies[MH], NewOk(MH))

(* No wrong reply is under way to one who waits for it.                      *)
NoLies == Free(replies[ME], Lies(ME)) /\ Free(replies[PF], Lies(PF))

(* The platform asks the mission handler, and was told the truth.            *)
PilotKnows == (pending[PF] # 0 => asked[PF].topic = MH) /\ TrueOf(asked[PF], told)

ToldInv == LoadUnanswered /\ NoLies /\ PilotKnows

-----------------------------------------------------------------------------
(* Helpers *)

(* Names.                                                                   *)
LEMMA SanePF ==
  ASSUME IInv
  PROVE  /\ PF \in Threads /\ PF # ME /\ PF # MH /\ PF # "limiter" /\ PF # "telemetry"
         /\ replies \in [Threads -> Seq(ReplyMessage)]
         /\ inbox \in [Components -> Seq(Message)]
         /\ pending \in [Threads -> Nat]
BY DEF IInv, TypeOK, PF, Threads, Handlers, ME, MH

(* No answer is never wrong.                                                *)
LEMMA NoneIsTrue == \A q : TrueOf(q, "none") /\ TrueOf(q, "nothing")
BY DEF TrueOf

(* A request that is waited for is asked as it was.                         *)
LEMMA OpenIsAsked ==
  ASSUME IInv, NEW t \in Threads, NEW m \in Open(t), GoodMessage(m)
  PROVE  m.request = asked[t]
<1>1. m.sender = t /\ Newest(t, m.corr)
  BY DEF Open, IInv, Waits, Newest
<1> QED
  BY <1>1 DEF GoodMessage

(* While nothing is waited for, no reply is wrong.                          *)
LEMMA NothingOpenNext ==
  ASSUME NEW t, pending'[t] = 0
  PROVE  Open(t)' = {} /\ Lies(t)' = {}
BY DEF Open, Lies

LEMMA SameOpen ==
  ASSUME NEW t, pending'[t] = pending[t], asked'[t] = asked[t]
  PROVE  Open(t)' = Open(t) /\ Lies(t)' = Lies(t)
BY DEF Open, Lies, TrueOf, Validated

(* A request that is yet to be made has no reply.                           *)
LEMMA NothingOpenYet ==
  ASSUME IInv, NEW t \in Threads, requests'[t] = requests[t] + 1, pending'[t] = requests'[t]
  PROVE  /\ \A h \in Handlers : cur[h] # NoMsg => cur[h] \notin Open(t)'
         /\ Free(replies[t], Lies(t)')
<1>0. requests[t] \in Nat
  BY Sane
<1>1. \A h \in Handlers : cur[h] # NoMsg => cur[h] \notin Open(t)'
  <2>1. \A h \in Handlers : cur[h] # NoMsg => cur[h] \notin NewestOf(t)'
    BY NothingNewer
  <2>2. Open(t)' \subseteq NewestOf(t)'
    BY DEF Open, NewestOf, Newest
  <2> QED
    BY <2>1, <2>2
<1>2. Free(replies[t], Lies(t)')
  <2>1. replies[t] \in Seq(GoodReplies[t])
    BY DEF IInv, Queues, Within
  <2>2. \A i \in 1..Len(replies[t]) : replies[t][i] \in GoodReplies[t]
    BY <2>1
  <2>3. \A r \in GoodReplies[t] : r.corr \in Nat /\ r.corr <= requests[t]
    BY DEF GoodReplies, ReplyMessage
  <2>4. \A r \in GoodReplies[t] : r.corr # pending'[t]
    BY <1>0, <2>3
  <2>5. \A r \in Lies(t)' : r.corr = pending'[t]
    BY DEF Lies
  <2> QED
    BY <2>2, <2>4, <2>5 DEF Free
<1> QED
  BY <1>1, <1>2

(* The invariant in the next state.                                         *)
LEMMA ToldForms ==
  /\ LoadUnanswered' <=>
       (cur'[MH] # NoMsg =>
          /\ cur'[MH].request.action = "LOAD_MISSION"
          /\ cur'[MH] \in Open(ME)' => Free(replies'[MH], NewOk(MH)'))
  /\ NoLies' <=> Free(replies'[ME], Lies(ME)') /\ Free(replies'[PF], Lies(PF)')
  /\ PilotKnows' <=> /\ pending'[PF] # 0 => asked'[PF].topic = MH
                     /\ TrueOf(asked'[PF], told')
<1>1. LoadUnanswered' <=>
       (cur'[MH] # NoMsg =>
          /\ cur'[MH].request.action = "LOAD_MISSION"
          /\ cur'[MH] \in Open(ME)' => Free(replies'[MH], NewOk(MH)'))
  BY DEF LoadUnanswered, Free
<1>2. NoLies' <=> Free(replies'[ME], Lies(ME)') /\ Free(replies'[PF], Lies(PF)')
  BY DEF NoLies, Free
<1>3. PilotKnows' <=> /\ pending'[PF] # 0 => asked'[PF].topic = MH
                      /\ TrueOf(asked'[PF], told')
  BY DEF PilotKnows, TrueOf, Validated
<1> QED
  BY <1>1, <1>2, <1>3

(* Initially nobody waits and nobody was told anything.                      *)
LEMMA InitTold == Init => ToldInv
<1> SUFFICES ASSUME Init PROVE ToldInv
  OBVIOUS
<1>0. /\ replies[ME] = <<>> /\ replies[PF] = <<>> /\ cur[MH] = NoMsg
      /\ pending[PF] = 0 /\ told = "nothing"
  BY DEF Init, Threads, Handlers, PF
<1>1. \A B : Free(<<>>, B)
  BY DEF Free
<1> QED
  BY <1>0, <1>1, NoneIsTrue DEF ToldInv, LoadUnanswered, NoLies, PilotKnows

-----------------------------------------------------------------------------
(* Steps that change no question *)

(* A reply topic is trimmed, or grows by what is not in B.                   *)
Keeps(q, r, B) ==
  Trims(q, r) \/ \E e \in ReplyMessage : e \notin B /\ r = Append(q, e)

Quiet ==
  /\ \A t \in {ME, PF} : pending'[t] = pending[t] /\ asked'[t] = asked[t]
  /\ requests'[MH] = requests[MH] /\ cur'[MH] = cur[MH] /\ told' = told
  /\ Keeps(replies[MH], replies'[MH], NewOk(MH))
  /\ \A t \in {ME, PF} : Keeps(replies[t], replies'[t], Lies(t))

(* Such a step changes nothing for the platform.                            *)
LEMMA QuietKeeps ==
  ASSUME IInv, ToldInv, Quiet
  PROVE  ToldInv'
<1>1. /\ Open(ME)' = Open(ME) /\ Lies(ME)' = Lies(ME)
      /\ Lies(PF)' = Lies(PF) /\ NewOk(MH)' = NewOk(MH)
  BY SameOpen, SameNewest DEF Quiet
<1>2. \A t \in {ME, PF, MH} : replies[t] \in Seq(ReplyMessage)
  BY Sane, SanePF
<1>3. ASSUME NEW t \in {ME, PF, MH}, NEW B, Free(replies[t], B),
             Keeps(replies[t], replies'[t], B)
      PROVE  Free(replies'[t], B)
  BY <1>2, <1>3, FreeKept DEF Keeps
<1>4. LoadUnanswered'
  BY <1>1, <1>3, ToldForms DEF Quiet, ToldInv, LoadUnanswered
<1>5. NoLies'
  BY <1>1, <1>3, ToldForms DEF Quiet, ToldInv, NoLies
<1>6. PilotKnows'
  BY ToldForms DEF Quiet, ToldInv, PilotKnows
<1> QED
  BY <1>4, <1>5, <1>6 DEF ToldInv

(* An answer to the monitor that is true of the request, if the mission       *)
(* handler was asked.                                                       *)
LEMMA AnswersTruly ==
  ASSUME IInv, NEW m \in Message, GoodMessage(m), m.sender = ME, NEW a \in Answer,
         NEW b \in [Threads -> Seq(ReplyMessage)], Reply(m, a, b),
         m.request.topic = MH /\ m \in Open(ME) => TrueOf(m.request, a.result)
  PROVE  /\ \A t \in Threads \ {ME} : replies'[t] = b[t]
         /\ \/ replies'[ME] = b[ME]
            \/ \E r \in ReplyMessage : r \notin Lies(ME) /\ replies'[ME] = Append(b[ME], r)
<1>1. Answered(m, a, b)
  BY ReplyEffect
<1>2. \A t \in Threads \ {ME} : replies'[t] = b[t]
  BY <1>1 DEF Answered
<1>3. \/ replies'[ME] = b[ME]
      \/ \E r \in ReplyMessage : /\ r.corr = m.corr /\ r.answer = a
                                 /\ replies'[ME] = Append(b[ME], r)
  BY <1>1, Sane DEF Answered
<1>4. ASSUME NEW r \in ReplyMessage, r.corr = m.corr, r.answer = a
      PROVE  r \notin Lies(ME)
  <2>1. CASE m \notin Open(ME)
    BY <1>4, <2>1 DEF Lies, Open
  <2>2. CASE m \in Open(ME)
    <3>1. m.request = asked[ME]
      BY <2>2, OpenIsAsked, Sane
    <3> QED
      BY <1>4, <2>2, <3>1 DEF Lies
  <2> QED
    BY <2>1, <2>2
<1> QED
  BY <1>2, <1>3, <1>4

(* A component takes a message and answers at once.                         *)
LEMMA TakesQuietly ==
  ASSUME IInv, ToldInv, NEW c \in Components \ {ME}, inbox[c] # <<>>,
         NEW a \in Answer, Reply(Next1(c), a, replies),
         c = MH => TrueOf(Next1(c).request, a.result),
         UNCHANGED <<requests, pending, asked, cur, told>>
  PROVE  ToldInv'
<1>1. /\ Next1(c) \in Message /\ GoodMessage(Next1(c)) /\ Next1(c).sender = ME
      /\ Next1(c).request.topic = c
  BY Takes
<1>2. /\ \A t \in Threads \ {ME} : replies'[t] = replies[t]
      /\ \/ replies'[ME] = replies[ME]
         \/ \E r \in ReplyMessage : r \notin Lies(ME) /\ replies'[ME] = Append(replies[ME], r)
  <2>1. replies \in [Threads -> Seq(ReplyMessage)]
    BY SanePF
  <2>2. Next1(c).request.topic = MH => TrueOf(Next1(c).request, a.result)
    BY <1>1
  <2> QED
    BY <1>1, <2>1, <2>2, AnswersTruly
<1>3. MH \in Threads \ {ME} /\ PF \in Threads \ {ME}
  BY Sane, SanePF
<1>4. Quiet
  BY <1>2, <1>3 DEF Quiet, Keeps, Trims
<1> QED
  BY <1>4, QuietKeeps

(* Mission handler, ORVD, sensors and autopilot.                            *)
LEMMA TakeSteps ==
  ASSUME IInv, ToldInv,
         \/ InvalidMission \/ HandleValidateOnly \/ OrvdAnswers \/ AutopilotLoads
         \/ \E s \in Sensors : HandleGetState(s)
  PROVE  ToldInv'
<1>0. /\ {MH, "orvd", "autopilot"} \subseteq Components \ {ME}
      /\ Sensors \subseteq Components \ {ME} /\ MH \notin Sensors
      /\ {"orvd", "autopilot"} \cap {MH} = {}
  BY Sane, Facts, Answers DEF MH
<1>1. CASE InvalidMission
  <2>1. /\ inbox[MH] # <<>> /\ Next1(MH).request.data = BadMission
        /\ Reply(Next1(MH), AnswerOf(MH, "rejected"), replies)
        /\ UNCHANGED <<requests, pending, asked, cur, told>>
    BY <1>1 DEF InvalidMission, Idle, pilotVars
  <2>2. TrueOf(Next1(MH).request, "rejected")
    BY <2>1, MCConstants DEF TrueOf, Validated
  <2> QED
    BY <1>0, <2>1, <2>2, Answers, TakesQuietly
<1>2. CASE HandleValidateOnly
  <2>1. /\ inbox[MH] # <<>> /\ Next1(MH).request.data \in Missions
        /\ Next1(MH).request.action = "VALIDATE_ONLY"
        /\ Reply(Next1(MH), AnswerOf(MH, "ok"), replies)
        /\ UNCHANGED <<requests, pending, asked, cur, told>>
    BY <1>2 DEF HandleValidateOnly, Idle, pilotVars
  <2>2. TrueOf(Next1(MH).request, "ok")
    BY <2>1 DEF TrueOf, Validated
  <2> QED
    BY <1>0, <2>1, <2>2, Answers, TakesQuietly
<1>3. CASE OrvdAnswers \/ AutopilotLoads
  <2>1. PICK c \in {"orvd", "autopilot"}, r \in {"ok", "rejected"} :
          /\ inbox[c] # <<>> /\ Reply(Next1(c), AnswerOf(c, r), replies)
          /\ UNCHANGED <<requests, pending, asked, cur, told>>
    <3>1. CASE OrvdAnswers
      BY <3>1 DEF OrvdAnswers, missionVars, pilotVars
    <3>2. CASE AutopilotLoads
      BY <3>2 DEF AutopilotLoads, pilotVars
    <3> QED
      BY <1>3, <3>1, <3>2
  <2>2. c \in Components \ {ME} /\ c # MH /\ AnswerOf(c, r) \in Answer
    BY <1>0, Answers
  <2> QED
    BY <2>1, <2>2, TakesQuietly
<1>4. CASE \E s \in Sensors : HandleGetState(s)
  <2>1. PICK s \in Sensors : HandleGetState(s)
    BY <1>4
  <2> DEFINE a == [result |-> "ok", by |-> s, sample |-> sample[s]]
  <2>2. a \in Answer /\ s \in Components \ {ME} /\ s # MH
    BY <1>0, Facts, BusTypes DEF Answer
  <2>3. /\ inbox[s] # <<>> /\ Reply(Next1(s), a, replies)
        /\ UNCHANGED <<requests, pending, asked, cur, told>>
    BY <2>1 DEF HandleGetState, missionVars, pilotVars
  <2> HIDE DEF a
  <2> QED
    BY <2>2, <2>3, TakesQuietly
<1> QED
  BY <1>1, <1>2, <1>3, <1>4

(* Limiter and telemetry ask for something through the monitor.              *)
LEMMA AsksQuietly ==
  ASSUME IInv, ToldInv, NEW t \in {"limiter", "telemetry"}, NEW r \in Request, NEW b,
         ProxyRequest(t, r, b), cur'[MH] = cur[MH], UNCHANGED <<replies, told>>
  PROVE  ToldInv'
<1>1. /\ t \in Threads /\ ME \in Threads \ {t} /\ PF \in Threads \ {t} /\ MH \in Threads \ {t}
  BY Facts, Answers, SanePF
<1>2. Quiet
  <2>1. \A u \in Threads \ {t} : /\ requests'[u] = requests[u]
                                 /\ pending'[u] = pending[u] /\ asked'[u] = asked[u]
    BY <1>1, Numbers DEF ProxyRequest
  <2> QED
    BY <1>1, <2>1 DEF Quiet, Keeps, Trims
<1> QED
  BY <1>2, QuietKeeps

(* Telemetry, the dispatchers and the sensors.                              *)
LEMMA PollSteps ==
  ASSUME IInv, ToldInv,
         \/ PollNext \/ PollReturns \/ PollStores \/ UNCHANGED vars
         \/ \E s \in Sensors : Sense(s)
         \/ \E t \in Threads : Drop(t)
  PROVE  ToldInv'
<1>1. CASE PollNext
  <2> DEFINE s == scenario.pollOrder[Len(polled) + 1]
             r == Ask(s, "get_state", NoMission)
  <2>1. scenario.pollOrder \in Seq(Sensors) /\ polled \in Seq(Polled)
    BY MCConstants DEF IInv, TypeOK
  <2>2. /\ Len(polled) < Len(scenario.pollOrder) /\ ProxyRequest("telemetry", r, inbox)
        /\ UNCHANGED <<replies, cur, told>>
    BY <1>1 DEF PollNext, missionVars, pilotVars
  <2>3. s \in Sensors
    BY <2>1, <2>2
  <2> HIDE DEF s
  <2>4. r \in Request
    BY <2>3, Facts, Asks
  <2> HIDE DEF r
  <2> QED
    BY <2>2, <2>4, AsksQuietly
<1>2. CASE PollReturns
  <2>1. PICK o \in Outcomes : Returns("telemetry", o) /\ replies' = Left("telemetry", o)
    BY <1>2 DEF PollReturns
  <2>2. /\ UNCHANGED <<requests, asked, cur, told>>
        /\ pending' = [pending EXCEPT !["telemetry"] = 0]
    BY <1>2 DEF PollReturns, missionVars, pilotVars, Forget
  <2>3. "telemetry" \in Threads /\ "telemetry" # ME /\ "telemetry" # PF
    BY Facts, Answers DEF PF
  <2>4. \A u \in {ME, PF, MH} : Trims(replies[u], replies'[u])
    <3>1. {ME, PF, MH} \subseteq Threads
      BY Sane, SanePF
    <3> QED
      BY <2>1, <2>3, <3>1, LeftEffect
  <2>5. pending'[ME] = pending[ME] /\ pending'[PF] = pending[PF]
    BY <2>2, <2>3, Sane, SanePF
  <2>6. Quiet
    BY <2>2, <2>4, <2>5 DEF Quiet, Keeps
  <2> QED
    BY <2>6, QuietKeeps
<1>3. CASE PollStores \/ UNCHANGED vars \/ \E s \in Sensors : Sense(s)
  <2>1. UNCHANGED <<requests, pending, asked, replies, cur, told>>
    BY <1>3 DEF PollStores, Sense, vars, busVars, missionVars, pilotVars
  <2>2. Quiet
    BY <2>1 DEF Quiet, Keeps, Trims
  <2> QED
    BY <2>2, QuietKeeps
<1>4. CASE \E t \in Threads : Drop(t)
  <2>1. PICK t \in Threads : Drop(t)
    BY <1>4
  <2>2. /\ replies[t] # <<>> /\ replies' = [replies EXCEPT ![t] = Tail(@)]
        /\ UNCHANGED <<requests, pending, asked, cur, told>>
    BY <2>1 DEF Drop, missionVars, pilotVars
  <2>3. \A u \in Threads : Trims(replies[u], replies'[u])
    BY <2>2, SanePF DEF Trims
  <2>4. Quiet
    BY <2>2, <2>3, Sane, SanePF DEF Quiet, Keeps
  <2> QED
    BY <2>4, QuietKeeps
<1> QED
  BY <1>1, <1>2, <1>3, <1>4

(* The limiter.                                                             *)
LEMMA LimiterSteps ==
  ASSUME IInv, ToldInv, LimiterLoads \/ OrvdReturns
  PROVE  ToldInv'
<1> DEFINE c == "limiter"
<1>0. c \in Components \ {ME} /\ c \in Threads /\ c # MH /\ c # ME /\ c # PF
  BY Sane, SanePF
<1>1. CASE LimiterLoads
  <2>1. /\ inbox[c] # <<>>
        /\ \/ /\ \E r \in {"ok", "rejected"} : Reply(Next1(c), AnswerOf(c, r), replies)
              /\ UNCHANGED <<requests, pending, asked, cur, told>>
           \/ /\ ProxyRequest(c, Ask("orvd", "authorize", Next1(c).request.data), Taken(c))
              /\ Occupy(c) /\ UNCHANGED <<replies, told>>
    BY <1>1 DEF LimiterLoads, Idle, pilotVars
  <2>2. CASE /\ \E r \in {"ok", "rejected"} : Reply(Next1(c), AnswerOf(c, r), replies)
             /\ UNCHANGED <<requests, pending, asked, cur, told>>
    <3>1. \A r \in {"ok", "rejected"} : AnswerOf(c, r) \in Answer
      BY <1>0, Answers
    <3> QED
      BY <1>0, <2>1, <2>2, <3>1, TakesQuietly
  <2>3. CASE /\ ProxyRequest(c, Ask("orvd", "authorize", Next1(c).request.data), Taken(c))
             /\ Occupy(c) /\ UNCHANGED <<replies, told>>
    <3>1. Next1(c).request.data \in Loads \cup {NoMission} /\ "orvd" \in Components
      BY <1>0, <2>1, Takes, Facts DEF Request
    <3>2. Ask("orvd", "authorize", Next1(c).request.data) \in Request
      BY <3>1, Asks
    <3>3. cur'[MH] = cur[MH]
      BY <1>0, <2>3, Sane DEF Occupy
    <3> QED
      BY <2>3, <3>2, <3>3, AsksQuietly
  <2> QED
    BY <2>1, <2>2, <2>3
<1>2. CASE OrvdReturns
  <2> DEFINE n == cur[c]
  <2>0. /\ n # NoMsg /\ cur' = [cur EXCEPT ![c] = NoMsg]
        /\ pending' = [pending EXCEPT ![c] = 0] /\ UNCHANGED <<requests, asked, told>>
    BY <1>2 DEF OrvdReturns, Finish, Forget, pilotVars
  <2>1. PICK o \in Outcomes, r \in {"ok", "rejected"} :
          Returns(c, o) /\ Reply(n, AnswerOf(c, r), Left(c, o))
    BY <1>2 DEF OrvdReturns
  <2>2. n \in Message /\ GoodMessage(n) /\ n.sender = ME /\ n.request.topic = c
    <3>1. n \in GoodInbox[c] /\ c \in Components
      BY <1>0, <2>0, Sane DEF IInv, Waits
    <3> QED
      BY <1>0, <3>1 DEF GoodInbox
  <2>3. /\ Left(c, o) \in [Threads -> Seq(ReplyMessage)]
        /\ \A u \in {ME, MH, PF} : Left(c, o)[u] = replies[u]
    <3>1. {ME, MH, PF} \subseteq Threads \ {c}
      BY <1>0, Sane, SanePF
    <3> QED
      BY <1>0, <2>1, <3>1, LeftEffect
  <2>4. AnswerOf(c, r) \in Answer
    BY <1>0, Answers
  <2>5. /\ cur'[MH] = cur[MH] /\ pending'[ME] = pending[ME] /\ pending'[PF] = pending[PF]
    BY <1>0, <2>0, Sane, SanePF
  <2> HIDE DEF n
  <2>6. /\ \A t \in Threads \ {ME} : replies'[t] = Left(c, o)[t]
        /\ \/ replies'[ME] = Left(c, o)[ME]
           \/ \E x \in ReplyMessage : /\ x \notin Lies(ME)
                                      /\ replies'[ME] = Append(Left(c, o)[ME], x)
    BY <1>0, <2>1, <2>2, <2>3, <2>4, AnswersTruly
  <2>7. MH \in Threads \ {ME} /\ PF \in Threads \ {ME}
    BY Sane, SanePF
  <2>8. Quiet
    BY <2>0, <2>3, <2>5, <2>6, <2>7 DEF Quiet, Keeps, Trims
  <2> QED
    BY <2>8, QuietKeeps
<1> QED
  BY <1>1, <1>2

-----------------------------------------------------------------------------
(* The monitor *)

(* It publishes, or refuses with an error.                                  *)
LEMMA MonitorQuietTold ==
  ASSUME IInv, ToldInv, MonitorPublishes \/ MonitorRefuses
  PROVE  ToldInv'
<1>1. CASE MonitorPublishes
  <2>1. UNCHANGED <<requests, pending, asked, replies, cur, told>>
    BY <1>1 DEF MonitorPublishes, missionVars, pilotVars
  <2>2. Quiet
    BY <2>1 DEF Quiet, Keeps, Trims
  <2> QED
    BY <2>2, QuietKeeps
<1>2. CASE MonitorRefuses
  <2>1. /\ inbox[ME] # <<>> /\ Reply(Next1(ME), Failure, replies)
        /\ UNCHANGED <<requests, pending, asked, cur, told>>
    BY <1>2 DEF MonitorRefuses, Idle, missionVars, pilotVars
  <2>2. Next1(ME) \in Message
    BY <2>1, Takes, Sane
  <2>3. Answered(Next1(ME), Failure, replies)
    BY <2>1, <2>2, Answers, SanePF, ReplyEffect
  <2>4. \A t : \A r \in ReplyMessage : r.answer = Failure => r \notin Lies(t) \cup NewOk(t)
    BY Answers, NoneIsTrue DEF Lies, NewOk
  <2>5. {ME, MH, PF} \subseteq Threads
    BY Sane, SanePF
  <2>6. \A t \in {ME, MH, PF} : Keeps(replies[t], replies'[t], Lies(t) \cup NewOk(t))
    BY <2>3, <2>4, <2>5 DEF Answered, Keeps, Trims
  <2>7. Quiet
    BY <2>1, <2>6 DEF Quiet, Keeps
  <2> QED
    BY <2>7, QuietKeeps
<1> QED
  BY <1>1, <1>2

(* It asks what it was asked; nobody can have answered that yet.             *)
LEMMA MonitorRequestsTold ==
  ASSUME IInv, ToldInv, MonitorRequests
  PROVE  ToldInv'
<1> DEFINE n == Next1(ME)
<1>0. /\ inbox[ME] # <<>> /\ BusRequest(ME, n.request.topic, n.request, Taken(ME))
      /\ cur' = [cur EXCEPT ![ME] = n] /\ UNCHANGED <<replies, told>>
  BY DEF MonitorRequests, Idle, Occupy, missionVars, pilotVars
<1>1. n.request \in Request /\ ME \in Threads /\ PF \in Threads \ {ME} /\ MH \in Handlers
  BY <1>0, Takes, Sane, SanePF
<1>2. cur'[MH] = cur[MH]
  BY <1>0, Sane
<1> HIDE DEF n
<1>3. /\ requests'[ME] = requests[ME] + 1 /\ pending'[ME] = requests'[ME]
      /\ pending'[PF] = pending[PF] /\ asked'[PF] = asked[PF]
  BY <1>0, <1>1, Numbers
<1>4. /\ Free(replies[ME], Lies(ME)') /\ (cur[MH] # NoMsg => cur[MH] \notin Open(ME)')
      /\ Lies(PF)' = Lies(PF)
  BY <1>1, <1>3, NothingOpenYet, SameOpen
<1>5. LoadUnanswered'
  BY <1>2, <1>4, ToldForms DEF ToldInv, LoadUnanswered
<1>6. NoLies' /\ PilotKnows'
  BY <1>0, <1>3, <1>4, ToldForms DEF ToldInv, NoLies, PilotKnows
<1> QED
  BY <1>5, <1>6 DEF ToldInv

(* A request to the mission handler that returns returns the truth.          *)
LEMMA ReturnsTruly ==
  ASSUME IInv, NEW t \in Threads, Free(replies[t], Lies(t)), asked[t].topic = MH,
         NEW o \in Outcomes, Returns(t, o)
  PROVE  TrueOf(asked[t], Result(t, o).result)
<1>1. CASE o = "timeout"
  BY <1>1, Answers, NoneIsTrue DEF Result
<1>2. CASE o = "reply"
  <2>1. /\ replies[t] # <<>> /\ pending[t] # 0 /\ pending[t] = Head(replies[t]).corr
        /\ Result(t, o) = Head(replies[t]).answer
    BY <1>2 DEF Returns, HasReply, Matches, Result
  <2>2. replies[t] \in Seq(ReplyMessage) /\ Head(replies[t]) \in ReplyMessage
    BY <2>1, HeadTail, Sane
  <2>3. Head(replies[t]) \notin Lies(t)
    BY <2>1, <2>2, FreeTail
  <2> QED
    BY <2>1, <2>2, <2>3 DEF Lies
<1> QED
  BY <1>1, <1>2 DEF Outcomes

(* It passes on what it was answered, and waits no more.                    *)
LEMMA MonitorReturnsTold ==
  ASSUME IInv, ToldInv, MonitorReturns
  PROVE  ToldInv'
<1> USE Sane, SanePF
<1> DEFINE m == cur[ME]
<1>0. /\ m # NoMsg /\ cur' = [cur EXCEPT ![ME] = NoMsg]
      /\ pending' = [pending EXCEPT ![ME] = 0] /\ UNCHANGED <<requests, asked, told>>
  BY DEF MonitorReturns, Finish, Forget, missionVars, pilotVars
<1>1. PICK o \in Outcomes : Returns(ME, o) /\ Reply(m, Result(ME, o), Left(ME, o))
  BY DEF MonitorReturns
<1>2. m \in Message /\ GoodMessage(m) /\ asked[ME] = m.request
  <2>1. m \in GoodInbox[ME] /\ asked[ME] = m.request
    BY <1>0 DEF IInv, Waits
  <2> QED
    BY <2>1 DEF GoodInbox
<1>3. Left(ME, o) \in [Threads -> Seq(ReplyMessage)] /\ Left(ME, o)[PF] = replies[PF]
  BY <1>1, LeftEffect
<1>4. Answered(m, Result(ME, o), Left(ME, o))
  <2>1. Result(ME, o) \in Answer
    BY <1>1, AnswersHonestly
  <2> QED
    BY <1>1, <1>2, <1>3, <2>1, ReplyEffect
<1>5. cur'[MH] = cur[MH] /\ pending'[ME] = 0 /\ pending'[PF] = pending[PF]
  BY <1>0
<1>6. /\ Open(ME)' = {} /\ Lies(ME)' = {} /\ Lies(PF)' = Lies(PF)
  BY <1>0, <1>5, NothingOpenNext, SameOpen
<1> HIDE DEF m
<1>7. Free(replies'[PF], Lies(PF))
  <2>1. Free(replies[PF], Lies(PF)) /\ Free(replies[ME], Lies(ME))
    BY DEF ToldInv, NoLies
  <2>2. CASE replies'[PF] # replies[PF]
    <3>1. PICK r \in ReplyMessage :
            /\ m.sender = PF /\ r.corr = m.corr /\ r.answer = Result(ME, o)
            /\ replies'[PF] = Append(replies[PF], r)
      BY <1>3, <1>4, <2>2 DEF Answered
    <3>2. ASSUME r \in Lies(PF)
          PROVE  FALSE
      <4>1. m \in Open(PF)
        BY <1>2, <3>1, <3>2 DEF Lies, Open
      <4>2. m.request = asked[PF]
        BY <1>2, <4>1, OpenIsAsked
      <4>3. asked[PF].topic = MH /\ ~ TrueOf(asked[PF], Result(ME, o).result)
        BY <3>1, <3>2 DEF Lies
      <4>4. TrueOf(asked[ME], Result(ME, o).result)
        BY <1>1, <1>2, <2>1, <4>2, <4>3, ReturnsTruly
      <4> QED
        BY <1>2, <4>2, <4>3, <4>4
    <3>3. replies[PF] \in Seq(ReplyMessage)
      OBVIOUS
    <3> HIDE Sane, SanePF
    <3> QED
      BY <2>1, <3>1, <3>2, <3>3, FreeAppend
  <2> QED
    BY <2>1, <2>2
<1>8. Free(replies'[ME], {})
  BY DEF Free
<1>9. LoadUnanswered'
  BY <1>5, <1>6, ToldForms DEF ToldInv, LoadUnanswered
<1>10. NoLies' /\ PilotKnows'
  BY <1>0, <1>5, <1>6, <1>7, <1>8, ToldForms DEF ToldInv, PilotKnows
<1> QED
  BY <1>9, <1>10 DEF ToldInv

-----------------------------------------------------------------------------
(* The mission handler *)

(* It asks, for a load m that it takes or works on: no ok can be there yet.   *)
LEMMA HandlerAsksTold ==
  ASSUME IInv, ToldInv, NEW r \in Request, NEW b, ProxyRequest(MH, r, b),
         cur'[MH].request.action = "LOAD_MISSION", Trims(replies[MH], replies'[MH]),
         \A t \in {ME, PF} : replies'[t] = replies[t], UNCHANGED told
  PROVE  ToldInv'
<1>1. MH \in Threads /\ ME \in Threads \ {MH} /\ PF \in Threads \ {MH}
  BY Sane, SanePF
<1>2. /\ requests'[MH] = requests[MH] + 1
      /\ \A t \in {ME, PF} : pending'[t] = pending[t] /\ asked'[t] = asked[t]
  BY <1>1, Numbers DEF ProxyRequest
<1>3. Lies(ME)' = Lies(ME) /\ Lies(PF)' = Lies(PF)
  BY <1>2, SameOpen
<1>4. Free(replies'[MH], NewOk(MH)')
  <2>1. Free(replies[MH], NewOk(MH)') /\ replies[MH] \in Seq(ReplyMessage)
    BY <1>1, <1>2, NothingNewer, Sane
  <2> QED
    BY <2>1, FreeKept
<1>5. LoadUnanswered'
  BY <1>4, ToldForms
<1>6. NoLies' /\ PilotKnows'
  BY <1>2, <1>3, ToldForms DEF ToldInv, NoLies, PilotKnows
<1> QED
  BY <1>5, <1>6 DEF ToldInv

(* It takes a load.                                                         *)
LEMMA HandleLoadMissionTold ==
  ASSUME IInv, ToldInv, HandleLoadMission
  PROVE  ToldInv'
<1> DEFINE n == Next1(MH)
           r == Ask("limiter", "mission_load", n.request.data)
<1>0. /\ ProxyRequest(MH, r, Taken(MH)) /\ n.request.data \in Missions
      /\ n.request.action = "LOAD_MISSION"
      /\ cur' = [cur EXCEPT ![MH] = n] /\ UNCHANGED <<replies, told>>
  BY DEF HandleLoadMission, Occupy, pilotVars
<1>1. r \in Request
  <2>1. "limiter" \in Components /\ n.request.data \in Loads \cup {NoMission}
    BY <1>0, Facts DEF Loads
  <2> QED
    BY <2>1, Asks
<1>2. cur'[MH] = n
  BY <1>0, Sane
<1> HIDE DEF n, r
<1> QED
  BY <1>0, <1>1, <1>2, HandlerAsksTold DEF Trims

(* It ends a load: with ok only if nobody waits for the load any more.        *)
LEMMA HandlerEndsTold ==
  ASSUME IInv, ToldInv, cur[MH] # NoMsg, NEW o \in Outcomes, Returns(MH, o),
         NEW a \in Answer, Reply(cur[MH], a, Left(MH, o)), Finish(MH), Forget(MH),
         UNCHANGED <<asked, told>>, a.result = "ok" => Result(MH, o).result = "ok"
  PROVE  ToldInv'
<1> DEFINE m == cur[MH]
<1>0. MH \in Threads /\ ME \in Threads \ {MH} /\ PF \in Threads \ {MH, ME}
  BY Sane, SanePF
<1>1. m \in Message /\ GoodMessage(m) /\ m.sender = ME
  <2>1. m \in GoodInbox[MH] /\ MH \in Components /\ MH # ME
    BY Sane DEF IInv, Waits
  <2> QED
    BY <2>1 DEF GoodInbox
<1>2. /\ Left(MH, o) \in [Threads -> Seq(ReplyMessage)]
      /\ Left(MH, o)[ME] = replies[ME] /\ Left(MH, o)[PF] = replies[PF]
  BY <1>0, LeftEffect
<1>3. cur'[MH] = NoMsg /\ pending'[ME] = pending[ME] /\ pending'[PF] = pending[PF]
  BY <1>0, Sane, SanePF DEF Finish, Forget
<1>4. ASSUME m \in Open(ME)
      PROVE  TrueOf(m.request, a.result)
  <2>1. m.request.action = "LOAD_MISSION" /\ Free(replies[MH], NewOk(MH))
    BY <1>4 DEF ToldInv, LoadUnanswered
  <2>2. a.result # "ok"
    BY <1>0, <2>1, OkReturns
  <2> QED
    BY <2>1, <2>2 DEF TrueOf, Validated
<1>5. Reply(m, a, Left(MH, o))
  OBVIOUS
<1> HIDE DEF m
<1>6. /\ \A t \in Threads \ {ME} : replies'[t] = Left(MH, o)[t]
      /\ \/ replies'[ME] = Left(MH, o)[ME]
         \/ \E r \in ReplyMessage : /\ r \notin Lies(ME)
                                    /\ replies'[ME] = Append(Left(MH, o)[ME], r)
  BY <1>1, <1>2, <1>4, <1>5, AnswersTruly
<1>7. Lies(ME)' = Lies(ME) /\ Lies(PF)' = Lies(PF)
  BY <1>3, SameOpen
<1>8. Free(replies'[ME], Lies(ME)) /\ replies'[PF] = replies[PF]
  <2>1. Free(replies[ME], Lies(ME)) /\ replies[ME] \in Seq(ReplyMessage)
    BY Sane DEF ToldInv, NoLies
  <2>2. CASE replies'[ME] = Left(MH, o)[ME]
    BY <1>0, <1>2, <1>6, <2>1, <2>2
  <2>3. CASE \E r \in ReplyMessage : /\ r \notin Lies(ME)
                                     /\ replies'[ME] = Append(Left(MH, o)[ME], r)
    <3>1. PICK r \in ReplyMessage : r \notin Lies(ME) /\ replies'[ME] = Append(replies[ME], r)
      BY <1>2, <2>3
    <3>2. Free(replies'[ME], Lies(ME))
      BY <2>1, <3>1, FreeAppend
    <3> QED
      BY <1>0, <1>2, <1>6, <3>2
  <2> QED
    BY <1>6, <2>2, <2>3
<1>9. LoadUnanswered'
  BY <1>3, ToldForms
<1>10. NoLies' /\ PilotKnows'
  BY <1>3, <1>7, <1>8, ToldForms DEF ToldInv, NoLies, PilotKnows
<1> QED
  BY <1>9, <1>10 DEF ToldInv

(* The answers of limiter and autopilot.                                    *)
LEMMA HandlerReturnsTold ==
  ASSUME IInv, ToldInv, LimiterReturns \/ AutopilotReturns
  PROVE  ToldInv'
<1>0. cur[MH] # NoMsg /\ UNCHANGED told
  BY DEF LimiterReturns, AutopilotReturns, HasAsked, pilotVars
<1>1. PICK o \in Outcomes :
        /\ Returns(MH, o)
        /\ \/ /\ ProxyRequest(MH, Ask("autopilot", "mission_load", lastMission), inbox)
              /\ replies' = Left(MH, o) /\ UNCHANGED cur
           \/ /\ \E x \in {"ok", "rejected"} :
                   /\ Reply(cur[MH], AnswerOf(MH, x), Left(MH, o))
                   /\ x = "ok" => Result(MH, o).result = "ok"
              /\ Finish(MH) /\ Forget(MH) /\ UNCHANGED asked
  BY DEF LimiterReturns, AutopilotReturns, LoadFails, AutopilotAgreed
<1>2. CASE /\ ProxyRequest(MH, Ask("autopilot", "mission_load", lastMission), inbox)
           /\ replies' = Left(MH, o) /\ UNCHANGED cur
  <2>1. lastMission \in Loads \cup {NoMission} /\ "autopilot" \in Components
    BY <1>0, Facts DEF IInv, Waits, Loads
  <2>2. Ask("autopilot", "mission_load", lastMission) \in Request
    BY <2>1, Asks
  <2>3. cur'[MH].request.action = "LOAD_MISSION"
    BY <1>0, <1>2 DEF ToldInv, LoadUnanswered
  <2>4. Trims(replies[MH], replies'[MH]) /\ \A t \in {ME, PF} : replies'[t] = replies[t]
    <3>1. MH \in Threads /\ ME \in Threads \ {MH} /\ PF \in Threads \ {MH}
      BY Sane, SanePF
    <3>2. /\ Trims(replies[MH], Left(MH, o)[MH])
          /\ \A u \in Threads \ {MH} : Left(MH, o)[u] = replies[u]
      BY <1>1, <3>1, LeftEffect
    <3> QED
      BY <1>2, <3>1, <3>2
  <2> QED
    BY <1>0, <1>2, <2>2, <2>3, <2>4, HandlerAsksTold
<1>3. CASE /\ \E x \in {"ok", "rejected"} :
                /\ Reply(cur[MH], AnswerOf(MH, x), Left(MH, o))
                /\ x = "ok" => Result(MH, o).result = "ok"
           /\ Finish(MH) /\ Forget(MH) /\ UNCHANGED asked
  <2>1. PICK x \in {"ok", "rejected"} : /\ Reply(cur[MH], AnswerOf(MH, x), Left(MH, o))
                                        /\ x = "ok" => Result(MH, o).result = "ok"
    BY <1>3
  <2>2. AnswerOf(MH, x) \in Answer /\ AnswerOf(MH, x).result = x
    BY Answers, Sane
  <2> QED
    BY <1>0, <1>1, <1>3, <2>1, <2>2, HandlerEndsTold
<1> QED
  BY <1>1, <1>2, <1>3

-----------------------------------------------------------------------------
(* The platform *)

(* It asks again, and was told nothing yet.                                 *)
LEMMA PilotAsksTold ==
  ASSUME IInv, ToldInv, NEW a \in {"LOAD_MISSION", "VALIDATE_ONLY"}, NEW d \in Loads,
         PilotAsks(a, d)
  PROVE  ToldInv'
<1> DEFINE r == Ask(MH, a, d)
<1>0. /\ pending[PF] = 0 /\ told' = "nothing" /\ UNCHANGED <<replies, cur>>
      /\ ProxyRequest(PF, r, inbox) \/ UNCHANGED <<requests, pending, asked>>
  BY DEF PilotAsks, PF
<1>1. r \in Request /\ r.topic = MH
  <2>1. MH \in Components /\ d \in Loads \cup {NoMission}
    BY Sane
  <2> QED
    BY <2>1, Asks
<1> HIDE DEF r
<1>2. PF \in Threads /\ ME \in Threads \ {PF} /\ MH \in Threads \ {PF}
  BY Sane, SanePF
<1>3. /\ \A t \in {ME, MH} : /\ requests'[t] = requests[t]
                            /\ pending'[t] = pending[t] /\ asked'[t] = asked[t]
      /\ pending'[PF] # 0 => asked'[PF].topic = MH
      /\ Free(replies[PF], Lies(PF)')
  <2>1. CASE ProxyRequest(PF, r, inbox)
    <3>1. /\ \A t \in {ME, MH} : /\ requests'[t] = requests[t]
                                /\ pending'[t] = pending[t] /\ asked'[t] = asked[t]
          /\ requests'[PF] = requests[PF] + 1 /\ pending'[PF] = requests'[PF]
          /\ asked'[PF] = r
      BY <1>1, <1>2, <2>1, Numbers DEF ProxyRequest
    <3> QED
      BY <1>1, <1>2, <3>1, NothingOpenYet
  <2>2. CASE UNCHANGED <<requests, pending, asked>>
    <3>1. Lies(PF)' = {}
      BY <1>0, <2>2, NothingOpenNext
    <3> QED
      BY <1>0, <2>2, <3>1 DEF Free
  <2> QED
    BY <1>0, <2>1, <2>2
<1>4. Open(ME)' = Open(ME) /\ Lies(ME)' = Lies(ME) /\ NewOk(MH)' = NewOk(MH)
  BY <1>3, SameOpen, SameNewest
<1>5. LoadUnanswered'
  BY <1>0, <1>4, ToldForms DEF ToldInv, LoadUnanswered
<1>6. NoLies'
  BY <1>0, <1>3, <1>4, ToldForms DEF ToldInv, NoLies
<1>7. PilotKnows'
  BY <1>0, <1>3, NoneIsTrue, ToldForms
<1> QED
  BY <1>5, <1>6, <1>7 DEF ToldInv

(* It is told the answer it waited for.                                     *)
LEMMA PilotReturnsTold ==
  ASSUME IInv, ToldInv, PilotReturns
  PROVE  ToldInv'
<1>0. pending' = [pending EXCEPT ![PF] = 0] /\ UNCHANGED <<requests, asked, cur>>
  BY DEF PilotReturns, Forget, missionVars, PF
<1>1. PICK o \in Outcomes : /\ Returns(PF, o) /\ told' = Result(PF, o).result
                            /\ replies' = Left(PF, o)
  BY DEF PilotReturns, PF
<1>2. PF \in Threads /\ ME \in Threads \ {PF} /\ MH \in Threads \ {PF}
  BY Sane, SanePF
<1>3. replies'[ME] = replies[ME] /\ replies'[MH] = replies[MH]
  BY <1>1, <1>2, LeftEffect
<1>4. pending'[ME] = pending[ME] /\ pending'[PF] = 0
  BY <1>0, <1>2, SanePF
<1>5. /\ Lies(PF)' = {} /\ Open(ME)' = Open(ME) /\ Lies(ME)' = Lies(ME)
      /\ NewOk(MH)' = NewOk(MH)
  BY <1>0, <1>4, NothingOpenNext, SameOpen, SameNewest
<1>6. LoadUnanswered'
  BY <1>0, <1>3, <1>5, ToldForms DEF ToldInv, LoadUnanswered
<1>7. NoLies'
  <2>1. Free(replies'[PF], {})
    BY DEF Free
  <2> QED
    BY <1>3, <1>5, <2>1, ToldForms DEF ToldInv, NoLies
<1>8. TrueOf(asked[PF], told')
  <2>1. pending[PF] # 0
    BY <1>1, <1>2, AnswersHonestly
  <2>2. asked[PF].topic = MH /\ Free(replies[PF], Lies(PF))
    BY <2>1 DEF ToldInv, PilotKnows, NoLies
  <2> QED
    BY <1>1, <1>2, <2>2, ReturnsTruly
<1>9. PilotKnows'
  BY <1>0, <1>4, <1>8, ToldForms
<1> QED
  BY <1>6, <1>7, <1>9 DEF ToldInv

-----------------------------------------------------------------------------
(* Every step keeps the invariant.                                          *)
LEMMA NextTold ==
  ASSUME IInv, ToldInv, [Next]_vars
  PROVE  ToldInv'
<1>1. CASE MonitorRuns
  BY <1>1, MonitorQuietTold, MonitorRequestsTold, MonitorReturnsTold DEF MonitorRuns
<1>2. CASE MissionHandlerRuns
  BY <1>2, TakeSteps, HandleLoadMissionTold, HandlerReturnsTold DEF MissionHandlerRuns
<1>3. CASE LimiterRuns \/ AutopilotLoads \/ OrvdAnswers
  BY <1>3, LimiterSteps, TakeSteps DEF LimiterRuns
<1>4. CASE TelemetryRuns \/ \E s \in Sensors : HandleGetState(s) \/ Sense(s)
  BY <1>4, PollSteps, TakeSteps DEF TelemetryRuns
<1>5. CASE (\E t \in Threads : Drop(t)) \/ UNCHANGED vars
  BY <1>5, PollSteps
<1>6. CASE \E a \in {"LOAD_MISSION", "VALIDATE_ONLY"}, d \in Loads : PilotAsks(a, d)
  BY <1>6, PilotAsksTold
<1>7. CASE PilotReturns
  BY <1>7, PilotReturnsTold
<1> QED
  BY <1>1, <1>2, <1>3, <1>4, <1>5, <1>6, <1>7 DEF Next

(* What the platform is told by proxy_request is true of what it asked last:  *)
(* ok only for the validation of a valid mission, and rejected never for one. *)
(* So under no schedule, broker or timeout is a LOAD_MISSION answered ok to   *)
(* a platform that waits for the answer.                                    *)
THEOREM PlatformToldTruth == Spec => []ToldIsTrue
<1>1. IInv /\ ToldInv /\ [Next]_vars => IInv' /\ ToldInv'
  BY NextInv, NextTold
<1>2. Init => IInv /\ ToldInv
  BY InitInv, InitTold
<1>3. ToldInv => ToldIsTrue
  BY DEF ToldInv, PilotKnows, ToldIsTrue, PF
<1> QED
  BY <1>1, <1>2, <1>3, PTL DEF Spec

=============================================================================
