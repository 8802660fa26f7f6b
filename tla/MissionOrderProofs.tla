------------------------- MODULE MissionOrderProofs -------------------------
(***************************************************************************)
(* An ok to LOAD_MISSION is true: limiter and autopilot hold the mission,     *)
(* and no load that was given up earlier is left in a queue to replace it.   *)
(* For every set of missions, every scenario and every choice of timeouts,   *)
(* late replies and refusals.                                               *)
(*                                                                         *)
(* The argument is about order.  Loads reach limiter and autopilot only from  *)
(* the mission handler, through the monitor's topic and then their own, both *)
(* first in, first out; so the answer to the newest load comes after every   *)
(* older one was consumed.  The same order is what makes the chain implement *)
(* the abstract loading of missions.                                        *)
(***************************************************************************)
EXTENDS MissionChainProofs

-----------------------------------------------------------------------------
(* Order in a queue *)

(* No element of q is in B.                                                *)
Free(q, B) == \A i \in 1..Len(q) : q[i] \notin B

(* Behind an element of A there is none of B.                               *)
Ends(q, A, B) == \A i, j \in 1..Len(q) : i < j /\ q[i] \in A => q[j] \notin B

(* The indices of a tail and of a longer queue.                             *)
LEMMA Indices ==
  ASSUME NEW S, NEW q \in Seq(S), NEW e
  PROVE  /\ Len(q) \in Nat
         /\ Len(Append(q, e)) = Len(q) + 1 /\ Append(q, e)[Len(q) + 1] = e
         /\ \A i \in 1..Len(q) : Append(q, e)[i] = q[i]
         /\ q # <<>> => /\ Len(q) > 0 /\ Head(q) = q[1]
                        /\ Len(Tail(q)) = Len(q) - 1
                        /\ \A i \in 1..(Len(q) - 1) : Tail(q)[i] = q[i + 1]
OBVIOUS

(* Taking the head.                                                        *)
LEMMA FreeTail ==
  ASSUME NEW S, NEW q \in Seq(S), q # <<>>, NEW B, Free(q, B)
  PROVE  Head(q) \notin B /\ Free(Tail(q), B)
BY Indices DEF Free

(* Appending.                                                              *)
LEMMA FreeAppend ==
  ASSUME NEW S, NEW q \in Seq(S), NEW B, Free(q, B), NEW e, e \notin B
  PROVE  Free(Append(q, e), B)
<1>1. ASSUME NEW i \in 1..(Len(q) + 1)
      PROVE  Append(q, e)[i] \notin B
  <2>1. CASE i = Len(q) + 1
    BY <2>1, Indices
  <2>2. CASE i # Len(q) + 1
    <3>1. i \in 1..Len(q)
      BY <2>2, Indices
    <3> QED
      BY <3>1, Indices DEF Free
  <2> QED
    BY <2>1, <2>2
<1> QED
  BY <1>1, Indices DEF Free

(* What is behind the head, if the head is of A.                            *)
LEMMA EndsTail ==
  ASSUME NEW S, NEW q \in Seq(S), q # <<>>, NEW A, NEW B, Ends(q, A, B)
  PROVE  Ends(Tail(q), A, B) /\ (Head(q) \in A => Free(Tail(q), B))
<1>1. Ends(Tail(q), A, B)
  <2>1. ASSUME NEW i \in 1..Len(Tail(q)), NEW j \in 1..Len(Tail(q)), i < j, Tail(q)[i] \in A
        PROVE  Tail(q)[j] \notin B
    <3>1. i + 1 \in 1..Len(q) /\ j + 1 \in 1..Len(q) /\ i + 1 < j + 1
      BY <2>1, Indices
    <3>2. Tail(q)[i] = q[i + 1] /\ Tail(q)[j] = q[j + 1]
      BY <2>1, Indices
    <3> QED
      BY <2>1, <3>1, <3>2 DEF Ends
  <2> QED
    BY <2>1 DEF Ends
<1>2. ASSUME Head(q) \in A, NEW j \in 1..Len(Tail(q))
      PROVE  Tail(q)[j] \notin B
  <2>1. 1 \in 1..Len(q) /\ j + 1 \in 1..Len(q) /\ 1 < j + 1 /\ q[1] \in A
    BY <1>2, Indices
  <2>2. Tail(q)[j] = q[j + 1]
    BY <1>2, Indices
  <2> QED
    BY <2>1, <2>2 DEF Ends
<1> QED
  BY <1>1, <1>2 DEF Free

(* An element that is not of B may follow, and any if there is none of A.     *)
LEMMA EndsAppend ==
  ASSUME NEW S, NEW q \in Seq(S), NEW A, NEW B, NEW e,
         Free(q, A) \/ (Ends(q, A, B) /\ e \notin B)
  PROVE  Ends(Append(q, e), A, B)
<1>1. ASSUME NEW i \in 1..(Len(q) + 1), NEW j \in 1..(Len(q) + 1), i < j,
             Append(q, e)[i] \in A
      PROVE  Append(q, e)[j] \notin B
  <2>1. i \in 1..Len(q) /\ q[i] \in A
    BY <1>1, Indices
  <2>2. Ends(q, A, B) /\ e \notin B
    BY <2>1 DEF Free
  <2>3. CASE j = Len(q) + 1
    BY <2>2, <2>3, Indices
  <2>4. CASE j # Len(q) + 1
    <3>1. j \in 1..Len(q)
      BY <2>4, Indices
    <3> QED
      BY <1>1, <2>1, <2>2, <3>1, Indices DEF Ends
  <2> QED
    BY <2>3, <2>4
<1> QED
  BY <1>1, Indices DEF Ends

(* Consequences.                                                           *)
LEMMA FreeFacts ==
  ASSUME NEW S, NEW q \in Seq(S), NEW A, NEW B
  PROVE  /\ Free(q, A) => Ends(q, A, B)
         /\ Free(q, B) /\ A \subseteq B => Free(q, A)
         /\ Free(q, B) /\ S \subseteq B => q = <<>>
         /\ Free(<<>>, B) /\ Ends(<<>>, A, B)
<1>1. Free(q, A) => Ends(q, A, B)
  BY DEF Free, Ends
<1>2. Free(q, B) /\ A \subseteq B => Free(q, A)
  BY DEF Free
<1>3. Free(q, B) /\ S \subseteq B => q = <<>>
  BY Indices DEF Free
<1>4. Free(<<>>, B) /\ Ends(<<>>, A, B)
  BY DEF Free, Ends
<1> QED
  BY <1>1, <1>2, <1>3, <1>4

(* A queue of a family grows.                                               *)
LEMMA Puts ==
  ASSUME NEW D, NEW S, NEW b \in [D -> Seq(S)], NEW x \in D, NEW e, NEW f,
         f = [b EXCEPT ![x] = Append(@, e)]
  PROVE  f[x] = Append(b[x], e) /\ \A y \in D \ {x} : f[y] = b[y]
OBVIOUS

-----------------------------------------------------------------------------
(* The inductive invariant *)

(* The components that hold a mission.                                      *)
Links == {"limiter", "autopilot"}
Holds(c) == IF c = "limiter" THEN limMission ELSE apMission

FromMH == {m \in Message : m.sender = MH}
NewestOf(t) == {m \in Message : m.sender = t /\ Newest(t, m.corr)}
LoadsOf(c) == {m \in Message : m.request.topic = c}
NewOk(t) == {r \in ReplyMessage : Newest(t, r.corr) /\ r.answer.result = "ok"}

(* A load that somebody else sends, or that is published.                   *)
Stray == {m \in Message : m.request.topic \in Links /\ (m.sender # MH \/ m.corr = 0)}

(* Component c has worked off its topic and holds d ...                     *)
Done(c, d) == inbox[c] = <<>> /\ (c = "limiter" => cur[c] = NoMsg) /\ Holds(c) = d

(* ... and nothing more for it is in the monitor's topic.                   *)
Settled(c, d) == Free(inbox[ME], LoadsOf(c)) /\ Done(c, d)

(* Behind the newest request of the mission handler there is no other of it, *)
(* also when the monitor already works on it.                               *)
MonitorInOrder ==
  /\ Free(inbox[ME], Stray)
  /\ Ends(inbox[ME], NewestOf(MH), FromMH)
  /\ cur[ME] # NoMsg /\ cur[ME] \in NewestOf(MH) => Free(inbox[ME], FromMH)

(* The same for the newest request of the monitor.                          *)
LinksInOrder ==
  /\ \A c \in Links : Ends(inbox[c], NewestOf(ME), Message)
  /\ cur["limiter"] # NoMsg /\ cur["limiter"] \in NewestOf(ME) => inbox["limiter"] = <<>>

(* So an ok to the newest request tells the truth.                          *)
OkIsTrue ==
  /\ Free(replies[ME], NewOk(ME))
       \/ (asked[ME].topic \in Links => Done(asked[ME].topic, asked[ME].data))
  /\ Free(replies[MH], NewOk(MH))
       \/ (asked[MH].topic \in Links => Settled(asked[MH].topic, asked[MH].data))

LoadedInOrder ==
  /\ HasAsked("autopilot") => Settled("limiter", lastMission)
  /\ loaded # NoMission => cur[MH] = NoMsg /\ \A c \in Links : Settled(c, loaded)

OrderInv == MonitorInOrder /\ LinksInOrder /\ OkIsTrue /\ LoadedInOrder

-----------------------------------------------------------------------------
(* What the chain invariant gives.                                          *)
LEMMA Sane ==
  ASSUME IInv
  PROVE  /\ \A c \in Components : inbox[c] \in Seq(Message)
         /\ \A t \in Threads : replies[t] \in Seq(ReplyMessage)
         /\ requests \in [Threads -> Nat] /\ asked \in [Threads -> Request]
         /\ cur \in [Handlers -> Message \cup {NoMsg}]
         /\ Links \subseteq Components /\ {ME, MH, "limiter"} \subseteq Components
         /\ {ME, MH, "limiter"} \subseteq Threads /\ {ME, MH, "limiter"} \subseteq Handlers
         /\ ME # MH /\ ME # "limiter" /\ MH # "limiter" /\ ME \notin Links /\ MH \notin Links
         /\ "limiter" # "autopilot" /\ Sensors \cap Links = {} /\ "orvd" \notin Links
<1>1. /\ \A c \in Components : inbox[c] \in Seq(Message)
      /\ \A t \in Threads : replies[t] \in Seq(ReplyMessage)
      /\ requests \in [Threads -> Nat] /\ asked \in [Threads -> Request]
      /\ cur \in [Handlers -> Message \cup {NoMsg}]
  BY DEF IInv, TypeOK
<1> QED
  BY <1>1, MCConstants DEF Links, Components, Threads, Handlers, ME, MH

(* A request that is yet to be made is newer than all there is.              *)
LEMMA NothingNewer ==
  ASSUME IInv, NEW t \in Threads, requests'[t] = requests[t] + 1
  PROVE  /\ \A c \in Components : Free(inbox[c], NewestOf(t)')
         /\ \A h \in Handlers : cur[h] # NoMsg => cur[h] \notin NewestOf(t)'
         /\ Free(replies[t], NewOk(t)')
<1>0. t \in Threads /\ requests[t] \in Nat
  BY Sane
<1>1. ASSUME NEW m \in Message, GoodMessage(m)
      PROVE  m \notin NewestOf(t)'
  <2>1. m.corr \in Nat /\ (m.sender = t => m.corr <= requests[t])
    BY <1>1 DEF GoodMessage, Message
  <2> QED
    BY <1>0, <2>1 DEF NewestOf, Newest
<1>2. ASSUME NEW c \in Components
      PROVE  Free(inbox[c], NewestOf(t)')
  <2>1. inbox[c] \in Seq(GoodInbox[c])
    BY DEF IInv, Queues, Within
  <2>2. \A i \in 1..Len(inbox[c]) : inbox[c][i] \in GoodInbox[c]
    BY <2>1
  <2>3. \A m \in GoodInbox[c] : m \in Message /\ GoodMessage(m)
    BY DEF GoodInbox
  <2> QED
    BY <1>1, <2>2, <2>3 DEF Free
<1>3. ASSUME NEW h \in Handlers, cur[h] # NoMsg
      PROVE  cur[h] \notin NewestOf(t)'
  <2>1. cur[h] \in GoodInbox[h] /\ h \in Components
    BY <1>3, Facts DEF IInv, Waits
  <2>2. cur[h] \in Message /\ GoodMessage(cur[h])
    BY <2>1 DEF GoodInbox
  <2> QED
    BY <1>1, <2>2
<1>4. Free(replies[t], NewOk(t)')
  <2>1. replies[t] \in Seq(GoodReplies[t])
    BY <1>0 DEF IInv, Queues, Within
  <2>2. \A i \in 1..Len(replies[t]) : replies[t][i] \in GoodReplies[t]
    BY <2>1
  <2>3. \A r \in GoodReplies[t] : r.corr \in Nat /\ r.corr <= requests[t]
    BY <1>0 DEF GoodReplies, ReplyMessage
  <2>4. \A r \in GoodReplies[t] : r \notin NewOk(t)'
    BY <1>0, <2>3 DEF NewOk, Newest
  <2> QED
    BY <2>2, <2>4 DEF Free
<1> QED
  BY <1>2, <1>3, <1>4

(* Numbers that stay keep what is newest.                                   *)
LEMMA SameNewest ==
  ASSUME NEW t, requests'[t] = requests[t]
  PROVE  NewestOf(t)' = NewestOf(t) /\ NewOk(t)' = NewOk(t)
BY DEF NewestOf, NewOk, Newest

(* The same notions in the next state, of values of this one.               *)
HoldsNext(c) == IF c = "limiter" THEN limMission' ELSE apMission'
DoneNext(c, d) == inbox'[c] = <<>> /\ (c = "limiter" => cur'[c] = NoMsg) /\ HoldsNext(c) = d
SettledNext(c, d) == Free(inbox'[ME], LoadsOf(c)) /\ DoneNext(c, d)

(* They say what the primed ones say.                                       *)
LEMMA NextForms ==
  /\ OkIsTrue' <=>
       /\ \/ Free(replies'[ME], NewOk(ME)')
          \/ asked'[ME].topic \in Links => DoneNext(asked'[ME].topic, asked'[ME].data)
       /\ \/ Free(replies'[MH], NewOk(MH)')
          \/ asked'[MH].topic \in Links => SettledNext(asked'[MH].topic, asked'[MH].data)
  /\ LoadedInOrder' <=>
       /\ cur'[MH] # NoMsg /\ asked'[MH].topic = "autopilot"
            => SettledNext("limiter", lastMission')
       /\ loaded' # NoMission => cur'[MH] = NoMsg /\ \A c \in Links : SettledNext(c, loaded')
BY DEF OkIsTrue, LoadedInOrder, HasAsked, Done, DoneNext, Settled, SettledNext, Holds,
   HoldsNext, Free, LoadsOf, NewOk

(* Initially nothing is queued.                                             *)
LEMMA InitOrder == Init => OrderInv
<1> SUFFICES ASSUME Init PROVE OrderInv
  OBVIOUS
<1>0. /\ inbox[ME] = <<>> /\ inbox["limiter"] = <<>> /\ inbox["autopilot"] = <<>>
      /\ replies[ME] = <<>> /\ replies[MH] = <<>> /\ loaded = NoMission
      /\ cur[ME] = NoMsg /\ cur["limiter"] = NoMsg /\ cur[MH] = NoMsg
  BY DEF Init, Components, Threads, Handlers
<1>1. \A A, B : Free(<<>>, B) /\ Ends(<<>>, A, B)
  BY DEF Free, Ends
<1> QED
  BY <1>0, <1>1 DEF OrderInv, MonitorInOrder, LinksInOrder, OkIsTrue, LoadedInOrder,
     HasAsked, Links

-----------------------------------------------------------------------------
(* Steps that no load is part of *)

Trims(q, r) == r = q \/ (q # <<>> /\ r = Tail(q))

(* Foreign requests may enter the monitor's topic ...                       *)
MonitorAside ==
  /\ requests'[MH] = requests[MH] /\ cur'[ME] = cur[ME]
  /\ \/ Trims(inbox[ME], inbox'[ME])
     \/ \E e \in Message : /\ e.sender # MH /\ e.request.topic \notin Links
                           /\ inbox'[ME] = Append(inbox[ME], e)

(* ... and replies that are no ok to a load may come.                       *)
Aside ==
  /\ MonitorAside
  /\ \A t \in {ME, MH} : requests'[t] = requests[t] /\ asked'[t] = asked[t]
  /\ \A c \in Links : inbox'[c] = inbox[c]
  /\ cur'["limiter"] = cur["limiter"] /\ UNCHANGED <<limMission, apMission>>
  /\ \A t \in {ME, MH} :
       \/ Trims(replies[t], replies'[t])
       \/ \E r \in ReplyMessage :
            /\ replies'[t] = Append(replies[t], r)
            /\ r \in NewOk(t) => asked[t].topic \notin Links

Bystanding == Aside /\ cur'[MH] = cur[MH] /\ UNCHANGED <<lastMission, loaded>>

(* A queue that is trimmed, or grows by what is not in B, stays free of B.     *)
LEMMA FreeKept ==
  ASSUME NEW S, NEW q \in Seq(S), NEW r, NEW B, Free(q, B),
         Trims(q, r) \/ \E e : e \notin B /\ r = Append(q, e)
  PROVE  Free(r, B)
<1>1. CASE Trims(q, r)
  <2>1. CASE r = q
    BY <2>1
  <2>2. CASE q # <<>> /\ r = Tail(q)
    BY <2>2, FreeTail
  <2> QED
    BY <1>1, <2>1, <2>2 DEF Trims
<1>2. CASE \E e : e \notin B /\ r = Append(q, e)
  BY <1>2, FreeAppend
<1> QED
  BY <1>1, <1>2

(* The monitor's topic stays in order.                                      *)
LEMMA MonitorKept ==
  ASSUME IInv, OrderInv, MonitorAside
  PROVE  /\ MonitorInOrder'
         /\ \A c \in Links : Free(inbox[ME], LoadsOf(c)) => Free(inbox'[ME], LoadsOf(c))
<1> USE Sane
<1>1. NewestOf(MH)' = NewestOf(MH)
  BY SameNewest DEF MonitorAside
<1>2. inbox[ME] \in Seq(Message)
  OBVIOUS
<1>3. ASSUME NEW B, Free(inbox[ME], B),
             \A e \in Message : e.sender # MH /\ e.request.topic \notin Links => e \notin B
      PROVE  Free(inbox'[ME], B)
  BY <1>2, <1>3, FreeKept DEF MonitorAside
<1>4. /\ Free(inbox[ME], Stray) => Free(inbox'[ME], Stray)
      /\ Free(inbox[ME], FromMH) => Free(inbox'[ME], FromMH)
      /\ \A c \in Links : Free(inbox[ME], LoadsOf(c)) => Free(inbox'[ME], LoadsOf(c))
  <2>1. ASSUME NEW e \in Message, e.sender # MH, e.request.topic \notin Links
        PROVE  e \notin Stray /\ e \notin FromMH /\ \A c \in Links : e \notin LoadsOf(c)
    BY <2>1 DEF Stray, FromMH, LoadsOf
  <2> QED
    BY <1>3, <2>1
<1>5. Ends(inbox'[ME], NewestOf(MH), FromMH)
  <2>1. Ends(inbox[ME], NewestOf(MH), FromMH)
    BY DEF OrderInv, MonitorInOrder
  <2>2. CASE Trims(inbox[ME], inbox'[ME])
    BY <1>2, <2>1, <2>2, EndsTail DEF Trims
  <2>3. CASE \E e \in Message : e.sender # MH /\ inbox'[ME] = Append(inbox[ME], e)
    BY <1>2, <2>1, <2>3, EndsAppend DEF FromMH
  <2> QED
    BY <2>2, <2>3 DEF MonitorAside
<1>6. Free(inbox'[ME], Stray)
  BY <1>4 DEF OrderInv, MonitorInOrder
<1>7. cur'[ME] # NoMsg /\ cur'[ME] \in NewestOf(MH) => Free(inbox'[ME], FromMH)
  BY <1>4 DEF OrderInv, MonitorInOrder, MonitorAside
<1>8. MonitorInOrder'
  BY <1>1, <1>5, <1>6, <1>7 DEF MonitorInOrder, Stray, FromMH
<1> QED
  BY <1>4, <1>8

(* Such a step keeps the order ...                                          *)
LEMMA AsideKeeps ==
  ASSUME IInv, OrderInv, Aside
  PROVE  /\ MonitorInOrder' /\ LinksInOrder' /\ OkIsTrue'
         /\ \A c \in Links : \A d : Settled(c, d) => SettledNext(c, d)
<1> USE Sane
<1>1. /\ NewestOf(MH)' = NewestOf(MH) /\ NewestOf(ME)' = NewestOf(ME)
      /\ NewOk(MH)' = NewOk(MH) /\ NewOk(ME)' = NewOk(ME)
  BY SameNewest DEF Aside
<1>2. replies[ME] \in Seq(ReplyMessage) /\ replies[MH] \in Seq(ReplyMessage)
  OBVIOUS
<1>4. /\ MonitorInOrder'
      /\ \A c \in Links : Free(inbox[ME], LoadsOf(c)) => Free(inbox'[ME], LoadsOf(c))
  BY MonitorKept DEF Aside
<1>6. LinksInOrder'
  BY <1>1 DEF OrderInv, LinksInOrder, Aside, Links
<1>7. ASSUME NEW c \in Links, NEW d, Done(c, d)
      PROVE  DoneNext(c, d)
  BY <1>7 DEF Done, DoneNext, Holds, HoldsNext, Aside, Links
<1>8. ASSUME NEW c \in Links, NEW d, Settled(c, d)
      PROVE  SettledNext(c, d)
  BY <1>4, <1>7, <1>8 DEF Settled, SettledNext
<1>9. \A t \in {ME, MH} : \/ asked[t].topic \notin Links
                          \/ Free(replies[t], NewOk(t)) => Free(replies'[t], NewOk(t))
  <2>1. ASSUME NEW t \in {ME, MH}, asked[t].topic \in Links, Free(replies[t], NewOk(t))
        PROVE  Free(replies'[t], NewOk(t))
    <3>1. Trims(replies[t], replies'[t])
            \/ \E r : r \notin NewOk(t) /\ replies'[t] = Append(replies[t], r)
      BY <2>1 DEF Aside
    <3>2. replies[t] \in Seq(ReplyMessage)
      BY <1>2
    <3> QED
      BY <2>1, <3>1, <3>2, FreeKept
  <2> QED
    BY <2>1
<1>10. OkIsTrue'
  <2>0. asked'[ME] = asked[ME] /\ asked'[MH] = asked[MH]
    BY DEF Aside
  <2>1. \/ Free(replies'[ME], NewOk(ME))
        \/ asked[ME].topic \in Links => DoneNext(asked[ME].topic, asked[ME].data)
    BY <1>7, <1>9 DEF OrderInv, OkIsTrue
  <2>2. \/ Free(replies'[MH], NewOk(MH))
        \/ asked[MH].topic \in Links => SettledNext(asked[MH].topic, asked[MH].data)
    BY <1>8, <1>9 DEF OrderInv, OkIsTrue
  <2> QED
    BY <1>1, <2>0, <2>1, <2>2, NextForms
<1> QED
  BY <1>4, <1>6, <1>8, <1>10

(* What is settled stays so, and with it what is loaded.                     *)
LEMMA LoadedKept ==
  ASSUME OrderInv, \A c \in Links : \A d : Settled(c, d) => SettledNext(c, d),
         cur'[MH] = cur[MH], asked'[MH] = asked[MH], UNCHANGED <<lastMission, loaded>>
  PROVE  LoadedInOrder'
<1>1. "limiter" \in Links
  BY DEF Links
<1>2. cur'[MH] # NoMsg /\ asked'[MH].topic = "autopilot" => SettledNext("limiter", lastMission')
  BY <1>1 DEF OrderInv, LoadedInOrder, HasAsked
<1>3. loaded' # NoMission => cur'[MH] = NoMsg /\ \A c \in Links : SettledNext(c, loaded')
  BY DEF OrderInv, LoadedInOrder
<1> QED
  BY <1>2, <1>3, NextForms

(* ... altogether, if it is no step of a load.                              *)
LEMMA BystandingKeeps ==
  ASSUME IInv, OrderInv, Bystanding
  PROVE  OrderInv'
<1>1. /\ MonitorInOrder' /\ LinksInOrder' /\ OkIsTrue'
      /\ \A c \in Links : \A d : Settled(c, d) => SettledNext(c, d)
  BY AsideKeeps DEF Bystanding
<1>2. asked'[MH] = asked[MH]
  BY DEF Bystanding, Aside
<1>3. LoadedInOrder'
  BY <1>1, <1>2, LoadedKept DEF Bystanding
<1> QED
  BY <1>1, <1>3 DEF OrderInv

(* The reply topics b become those with the answer a to m.                   *)
Answered(m, a, b) ==
  \A t \in Threads :
    \/ replies'[t] = b[t]
    \/ /\ t = m.sender /\ m.corr # 0
       /\ \E r \in ReplyMessage :
            r.corr = m.corr /\ r.answer = a /\ replies'[t] = Append(b[t], r)

(* That is what a reply does.                                               *)
LEMMA ReplyEffect ==
  ASSUME NEW m \in Message, NEW a \in Answer, NEW b \in [Threads -> Seq(ReplyMessage)],
         Reply(m, a, b)
  PROVE  Answered(m, a, b)
<1>1. CASE m.corr = 0
  BY <1>1 DEF Reply, Answered
<1>2. CASE m.corr # 0
  <2> DEFINE r == [corr |-> m.corr, answer |-> a]
  <2>1. r \in ReplyMessage /\ r.corr = m.corr /\ r.answer = a /\ m.sender \in Threads
    BY DEF ReplyMessage, Message
  <2>2. replies' = [b EXCEPT ![m.sender] = Append(@, r)]
    BY <1>2 DEF Reply
  <2> HIDE DEF r
  <2> QED
    BY <1>2, <2>1, <2>2 DEF Answered
<1> QED
  BY <1>1, <1>2

(* A component that holds no mission takes a message and answers the monitor. *)
LEMMA StrangerAnswers ==
  ASSUME IInv, OrderInv, NEW c \in Components \ (Links \cup {ME}), inbox[c] # <<>>,
         NEW a \in Answer, inbox' = Taken(c), Reply(Next1(c), a, replies),
         UNCHANGED <<requests, asked, cur, limMission, apMission, lastMission, loaded>>
  PROVE  OrderInv'
<1> USE Sane
<1>1. /\ Next1(c) \in Message /\ GoodMessage(Next1(c)) /\ Next1(c).sender = ME
      /\ Next1(c).request.topic = c
  BY Takes
<1>2. replies \in [Threads -> Seq(ReplyMessage)] /\ inbox \in [Components -> Seq(Message)]
  BY DEF IInv, TypeOK
<1>3. inbox'[ME] = inbox[ME] /\ \A x \in Links : inbox'[x] = inbox[x]
  BY <1>2 DEF Taken
<1>4. \A t \in {ME, MH} :
        \/ Trims(replies[t], replies'[t])
        \/ \E r \in ReplyMessage :
             /\ replies'[t] = Append(replies[t], r)
             /\ r \in NewOk(t) => asked[t].topic \notin Links
  <2>1. ASSUME NEW t \in {ME, MH}, replies'[t] # replies[t]
        PROVE  \E r \in ReplyMessage :
                 /\ replies'[t] = Append(replies[t], r)
                 /\ r \in NewOk(t) => asked[t].topic \notin Links
    <3>1. t \in Threads
      OBVIOUS
    <3>2. PICK r \in ReplyMessage : /\ t = Next1(c).sender /\ r.corr = Next1(c).corr
                                    /\ replies'[t] = Append(replies[t], r)
      <4>1. Answered(Next1(c), a, replies)
        BY <1>1, <1>2, ReplyEffect
      <4> QED
        BY <2>1, <3>1, <4>1 DEF Answered
    <3>3. r \in NewOk(t) => asked[t] = Next1(c).request
      BY <1>1, <3>2 DEF NewOk, GoodMessage
    <3> QED
      BY <1>1, <3>2, <3>3
  <2> QED
    BY <2>1 DEF Trims
<1>5. Bystanding
  BY <1>3, <1>4 DEF Bystanding, Aside, MonitorAside, Trims
<1> QED
  BY <1>5, BystandingKeeps

(* Mission handler, ORVD and sensors, when no load goes on.                  *)
LEMMA StrangerSteps ==
  ASSUME IInv, OrderInv,
         \/ InvalidMission \/ HandleValidateOnly \/ OrvdAnswers
         \/ \E s \in Sensors : HandleGetState(s)
  PROVE  OrderInv'
<1> USE Sane
<1>0. /\ MH \in Components \ (Links \cup {ME}) /\ "orvd" \in Components \ (Links \cup {ME})
      /\ \A s \in Sensors : s \in Components \ (Links \cup {ME})
  BY Facts, Answers
<1>1. CASE InvalidMission \/ HandleValidateOnly
  <2>1. /\ inbox[MH] # <<>> /\ inbox' = Taken(MH)
        /\ \E r \in {"ok", "rejected"} : Reply(Next1(MH), AnswerOf(MH, r), replies)
        /\ UNCHANGED <<requests, asked, cur, limMission, apMission, lastMission, loaded>>
    BY <1>1 DEF InvalidMission, HandleValidateOnly, Idle
  <2> QED
    BY <1>0, <2>1, Answers, StrangerAnswers
<1>2. CASE OrvdAnswers
  <2>1. /\ inbox["orvd"] # <<>> /\ inbox' = Taken("orvd")
        /\ \E r \in {"ok", "rejected"} : Reply(Next1("orvd"), AnswerOf("orvd", r), replies)
        /\ UNCHANGED <<requests, asked, cur, limMission, apMission, lastMission, loaded>>
    BY <1>2 DEF OrvdAnswers, missionVars
  <2> QED
    BY <1>0, <2>1, Answers, StrangerAnswers
<1>3. CASE \E s \in Sensors : HandleGetState(s)
  <2>1. PICK s \in Sensors : HandleGetState(s)
    BY <1>3
  <2> DEFINE a == [result |-> "ok", by |-> s, sample |-> sample[s]]
  <2>2. a \in Answer
    BY Facts, BusTypes DEF Answer
  <2>3. /\ inbox[s] # <<>> /\ inbox' = Taken(s) /\ Reply(Next1(s), a, replies)
        /\ UNCHANGED <<requests, asked, cur, limMission, apMission, lastMission, loaded>>
    BY <2>1 DEF HandleGetState, missionVars
  <2> HIDE DEF a
  <2> QED
    BY <1>0, <2>2, <2>3, StrangerAnswers
<1> QED
  BY <1>1, <1>2, <1>3

(* Requests that return, and replies that are dropped.                      *)
LEMMA LeftEffect ==
  ASSUME IInv, NEW t \in Threads, NEW o \in Outcomes, Returns(t, o)
  PROVE  /\ Left(t, o) \in [Threads -> Seq(ReplyMessage)]
         /\ \A u \in Threads : Trims(replies[u], Left(t, o)[u])
         /\ \A u \in Threads \ {t} : Left(t, o)[u] = replies[u]
<1>1. replies \in [Threads -> Seq(ReplyMessage)]
  BY DEF IInv, TypeOK
<1>2. CASE o = "reply"
  <2>1. replies[t] # <<>> /\ Left(t, o) = [replies EXCEPT ![t] = Tail(@)]
    BY <1>2 DEF Returns, HasReply, Left
  <2>2. Tail(replies[t]) \in Seq(ReplyMessage)
    BY <1>1, <2>1, HeadTail
  <2> QED
    BY <1>1, <2>1, <2>2 DEF Trims
<1>3. CASE o = "timeout"
  BY <1>1, <1>3 DEF Left, Trims
<1> QED
  BY <1>2, <1>3 DEF Outcomes

(* Platform, telemetry and the dispatchers.                                 *)
LEMMA ReturnSteps ==
  ASSUME IInv, OrderInv,
         \/ \E t \in Threads : Drop(t)
         \/ PilotReturns \/ PollReturns \/ PollStores \/ UNCHANGED vars
         \/ \E s \in Sensors : Sense(s)
  PROVE  OrderInv'
<1> USE Sane
<1>1. CASE \E t \in Threads : Drop(t)
  <2>1. PICK t \in Threads : Drop(t)
    BY <1>1
  <2>2. /\ replies[t] # <<>> /\ replies' = [replies EXCEPT ![t] = Tail(@)]
        /\ UNCHANGED <<requests, asked, inbox, cur, limMission, apMission, lastMission, loaded>>
    BY <2>1 DEF Drop, missionVars
  <2>3. \A u \in Threads : Trims(replies[u], replies'[u])
    <3>1. replies \in [Threads -> Seq(ReplyMessage)]
      BY DEF IInv, TypeOK
    <3> QED
      BY <2>2, <3>1 DEF Trims
  <2>4. Bystanding
    BY <2>2, <2>3 DEF Bystanding, Aside, MonitorAside, Trims
  <2> QED
    BY <2>4, BystandingKeeps
<1>2. CASE PilotReturns \/ PollReturns
  <2>1. PICK t \in {"platform", "telemetry"}, o \in Outcomes :
          /\ Returns(t, o) /\ replies' = Left(t, o)
          /\ UNCHANGED <<requests, asked, inbox, cur, limMission, apMission, lastMission, loaded>>
    BY <1>2 DEF PilotReturns, PollReturns, missionVars
  <2>2. t \in Threads
    BY Facts
  <2>3. \A u \in Threads : Trims(replies[u], replies'[u])
    BY <2>1, <2>2, LeftEffect
  <2>4. Bystanding
    BY <2>1, <2>3 DEF Bystanding, Aside, MonitorAside, Trims
  <2> QED
    BY <2>4, BystandingKeeps
<1>3. CASE PollStores \/ UNCHANGED vars \/ \E s \in Sensors : Sense(s)
  <2>1. UNCHANGED <<requests, asked, inbox, replies, cur, limMission, apMission, lastMission,
                    loaded>>
    BY <1>3 DEF PollStores, Sense, vars, busVars, missionVars
  <2>2. Bystanding
    BY <2>1 DEF Bystanding, Aside, MonitorAside, Trims
  <2> QED
    BY <2>2, BystandingKeeps
<1> QED
  BY <1>1, <1>2, <1>3

(* The monitor publishes, which no load asks for, or refuses.               *)
LEMMA MonitorQuietSteps ==
  ASSUME IInv, OrderInv, MonitorPublishes \/ MonitorRefuses
  PROVE  OrderInv'
<1> USE Sane
<1> DEFINE n == Next1(ME)
<1>1. /\ inbox[ME] # <<>> /\ cur' = cur /\ requests' = requests /\ asked' = asked
      /\ UNCHANGED <<limMission, apMission, lastMission, loaded>>
  BY DEF MonitorPublishes, MonitorRefuses, Idle, missionVars
<1>2. /\ n \in Message /\ GoodMessage(n) /\ n.request.topic # ME /\ n.request.topic \in Components
      /\ n \notin Stray
  <2>1. n \in Message /\ GoodMessage(n) /\ n.request \in Request
    BY <1>1, Takes
  <2>2. n \notin Stray
    BY <1>1, FreeTail DEF OrderInv, MonitorInOrder, Next1
  <2> QED
    BY <2>1, <2>2 DEF GoodMessage, GoodRequest, Request
<1>3. inbox \in [Components -> Seq(Message)] /\ replies \in [Threads -> Seq(ReplyMessage)]
  BY DEF IInv, TypeOK
<1>4. CASE MonitorPublishes
  <2>1. /\ n.corr = 0 /\ replies' = replies
        /\ inbox' = [Taken(ME) EXCEPT ![n.request.topic] =
                       Append(@, [n EXCEPT !.sender = ME])]
    BY <1>4 DEF MonitorPublishes
  <2>2. n.request.topic \notin Links
    BY <1>2, <2>1 DEF Stray
  <2>3. inbox'[ME] = Tail(inbox[ME]) /\ \A c \in Links : inbox'[c] = inbox[c]
    BY <1>2, <1>3, <2>1, <2>2 DEF Taken
  <2>4. Bystanding
    BY <1>1, <2>1, <2>3 DEF Bystanding, Aside, MonitorAside, Trims
  <2> QED
    BY <2>4, BystandingKeeps
<1>5. CASE MonitorRefuses
  <2>1. inbox' = Taken(ME) /\ Reply(n, Failure, replies)
    BY <1>5 DEF MonitorRefuses
  <2>2. inbox'[ME] = Tail(inbox[ME]) /\ \A c \in Links : inbox'[c] = inbox[c]
    BY <1>3, <2>1 DEF Taken
  <2>3. Answered(n, Failure, replies)
    BY <1>2, <1>3, <2>1, Answers, ReplyEffect
  <2>4. \A t \in {ME, MH} :
          \/ replies'[t] = replies[t]
          \/ \E r \in ReplyMessage : /\ replies'[t] = Append(replies[t], r)
                                     /\ r \notin NewOk(t)
    BY <2>3, Answers DEF Answered, NewOk
  <2>5. Bystanding
    BY <1>1, <2>2, <2>4 DEF Bystanding, Aside, MonitorAside, Trims
  <2> QED
    BY <2>5, BystandingKeeps
<1> QED
  BY <1>4, <1>5

(* Somebody who is not the mission handler asks for no load.                 *)
LEMMA StrangerAsks ==
  ASSUME IInv, OrderInv, NEW e \in Message, e.sender # MH, e.request.topic \notin Links,
         inbox' = [inbox EXCEPT ![ME] = Append(@, e)],
         \A t \in {ME, MH} : requests'[t] = requests[t] /\ asked'[t] = asked[t],
         UNCHANGED <<replies, cur, limMission, apMission, lastMission, loaded>>
  PROVE  OrderInv'
<1>1. inbox \in [Components -> Seq(Message)]
  BY DEF IInv, TypeOK
<1>2. inbox'[ME] = Append(inbox[ME], e) /\ \A c \in Links : inbox'[c] = inbox[c]
  BY <1>1, Sane
<1>3. Bystanding
  BY <1>2 DEF Bystanding, Aside, MonitorAside, Trims
<1> QED
  BY <1>3, BystandingKeeps

(* The platform addresses the mission handler, telemetry the sensors.        *)
LEMMA AskSteps ==
  ASSUME IInv, OrderInv,
         \/ \E a \in {"LOAD_MISSION", "VALIDATE_ONLY"}, d \in Loads : PilotAsks(a, d)
         \/ PollNext
  PROVE  OrderInv'
<1> USE Sane
<1>1. ASSUME NEW t \in {"platform", "telemetry"}, NEW r \in Request, r.topic \notin Links,
             ProxyRequest(t, r, inbox),
             UNCHANGED <<replies, cur, limMission, apMission, lastMission, loaded>>
      PROVE  OrderInv'
  <2> DEFINE e == [sender |-> t, corr |-> requests[t] + 1, request |-> r]
  <2>1. t \in Threads /\ t # MH /\ ME \in Threads \ {t} /\ MH \in Threads \ {t}
    BY <1>1, Facts, Answers DEF MH, ME
  <2>2. \A u \in {ME, MH} : requests'[u] = requests[u] /\ asked'[u] = asked[u]
    BY <1>1, <2>1, Numbers DEF ProxyRequest
  <2>3. e \in Message /\ e.sender # MH /\ e.request.topic \notin Links
    BY <1>1, <2>1 DEF Message
  <2>4. inbox' = [inbox EXCEPT ![ME] = Append(@, e)]
    BY <1>1 DEF ProxyRequest, BusRequest
  <2> HIDE DEF e
  <2> QED
    BY <1>1, <2>2, <2>3, <2>4, StrangerAsks
<1>2. CASE \E a \in {"LOAD_MISSION", "VALIDATE_ONLY"}, d \in Loads : PilotAsks(a, d)
  <2>1. PICK a \in {"LOAD_MISSION", "VALIDATE_ONLY"}, d \in Loads : PilotAsks(a, d)
    BY <1>2
  <2> DEFINE r == Ask(MH, a, d)
  <2>2. r \in Request /\ r.topic \notin Links
    BY Asks, Answers
  <2>3. UNCHANGED <<replies, cur, limMission, apMission, lastMission, loaded>>
    BY <2>1 DEF PilotAsks, missionVars
  <2>4. CASE ProxyRequest("platform", r, inbox)
    BY <1>1, <2>2, <2>3, <2>4
  <2>5. CASE /\ inbox' = [inbox EXCEPT ![ME] =
                  Append(@, [sender |-> "platform", corr |-> 0, request |-> r])]
             /\ UNCHANGED <<requests, pending, asked>>
    <3> DEFINE e == [sender |-> "platform", corr |-> 0, request |-> r]
    <3>1. e \in Message /\ e.sender # MH /\ e.request.topic \notin Links
      BY <2>2, Facts DEF Message, MH
    <3> QED
      BY <2>3, <2>5, <3>1, StrangerAsks
  <2> QED
    BY <2>1, <2>4, <2>5 DEF PilotAsks
<1>3. CASE PollNext
  <2> DEFINE s == scenario.pollOrder[Len(polled) + 1]
             r == Ask(s, "get_state", NoMission)
  <2>1. scenario.pollOrder \in Seq(Sensors) /\ polled \in Seq(Polled)
    BY MCConstants DEF IInv, TypeOK
  <2>2. /\ Len(polled) < Len(scenario.pollOrder) /\ ProxyRequest("telemetry", r, inbox)
        /\ UNCHANGED <<replies, cur, limMission, apMission, lastMission, loaded>>
    BY <1>3 DEF PollNext, missionVars
  <2>3. s \in Sensors
    BY <2>1, <2>2
  <2> HIDE DEF s
  <2>4. r \in Request /\ r.topic = s /\ s \notin Links
    BY <2>3, Facts, Asks
  <2> QED
    BY <1>1, <2>2, <2>4
<1> QED
  BY <1>2, <1>3

-----------------------------------------------------------------------------
(* The components that hold a mission *)

(* Component c works.  It was not done before; if its answer is an ok to the  *)
(* newest request of the monitor, it is now.                                *)
LinkWorks(c) ==
  /\ inbox[c] # <<>> \/ (c = "limiter" /\ cur[c] # NoMsg)
  /\ MonitorAside /\ cur'[MH] = cur[MH] /\ UNCHANGED <<lastMission, loaded>>
  /\ \A t \in {ME, MH} : requests'[t] = requests[t] /\ asked'[t] = asked[t]
  /\ \A x \in Links \ {c} : /\ inbox'[x] = inbox[x] /\ HoldsNext(x) = Holds(x)
                            /\ x = "limiter" => cur'[x] = cur[x]
  /\ replies'[MH] = replies[MH]
  /\ \/ replies'[ME] = replies[ME]
     \/ \E r \in ReplyMessage :
          /\ replies'[ME] = Append(replies[ME], r)
          /\ r \in NewOk(ME) => asked[ME].topic = c /\ DoneNext(c, asked[ME].data)

(* Then the rest stays in order.                                            *)
LEMMA LinkWorksKeeps ==
  ASSUME IInv, OrderInv, NEW c \in Links, LinkWorks(c), LinksInOrder'
  PROVE  OrderInv'
<1> USE Sane
<1>1. NewOk(MH)' = NewOk(MH) /\ NewOk(ME)' = NewOk(ME)
  BY SameNewest DEF LinkWorks
<1>2. /\ MonitorInOrder'
      /\ \A x \in Links : Free(inbox[ME], LoadsOf(x)) => Free(inbox'[ME], LoadsOf(x))
  BY MonitorKept DEF LinkWorks
<1>3. ASSUME NEW x \in Links, NEW d, Done(x, d)
      PROVE  DoneNext(x, d)
  <2>1. x # c
    BY <1>3 DEF LinkWorks, Done
  <2> QED
    BY <1>3, <2>1 DEF LinkWorks, Done, DoneNext
<1>4. ASSUME NEW x \in Links, NEW d, Settled(x, d)
      PROVE  SettledNext(x, d)
  BY <1>2, <1>3, <1>4 DEF Settled, SettledNext
<1>5. OkIsTrue'
  <2>0. asked'[ME] = asked[ME] /\ asked'[MH] = asked[MH] /\ replies'[MH] = replies[MH]
    BY DEF LinkWorks
  <2>1. \/ Free(replies'[ME], NewOk(ME))
        \/ asked[ME].topic \in Links => DoneNext(asked[ME].topic, asked[ME].data)
    <3>1. CASE ~ Free(replies[ME], NewOk(ME))
      BY <1>3, <3>1 DEF OrderInv, OkIsTrue
    <3>2. CASE Free(replies[ME], NewOk(ME)) /\ replies'[ME] # replies[ME]
      <4>1. PICK r \in ReplyMessage :
              /\ replies'[ME] = Append(replies[ME], r)
              /\ r \in NewOk(ME) => asked[ME].topic = c /\ DoneNext(c, asked[ME].data)
        BY <3>2 DEF LinkWorks
      <4>2. replies[ME] \in Seq(ReplyMessage)
        OBVIOUS
      <4>3. r \notin NewOk(ME) => Free(replies'[ME], NewOk(ME))
        BY <3>2, <4>1, <4>2, FreeAppend
      <4> QED
        BY <4>1, <4>3
    <3> QED
      BY <3>1, <3>2
  <2>2. \/ Free(replies'[MH], NewOk(MH))
        \/ asked[MH].topic \in Links => SettledNext(asked[MH].topic, asked[MH].data)
    BY <1>4, <2>0 DEF OrderInv, OkIsTrue
  <2> QED
    BY <1>1, <2>0, <2>1, <2>2, NextForms
<1>6. LoadedInOrder'
  BY <1>4, LoadedKept DEF LinkWorks
<1> QED
  BY <1>2, <1>5, <1>6 DEF OrderInv

(* The message that c works on came from the monitor; after the newest one    *)
(* nothing is left.                                                         *)
LEMMA LinkTakes ==
  ASSUME IInv, OrderInv, NEW c \in Links, inbox[c] # <<>>
  PROVE  /\ Next1(c) \in Message /\ GoodMessage(Next1(c))
         /\ Next1(c).sender = ME /\ Next1(c).request.topic = c
         /\ Taken(c)[c] = Tail(inbox[c]) /\ \A x \in Components \ {c} : Taken(c)[x] = inbox[x]
         /\ Ends(Tail(inbox[c]), NewestOf(ME), Message)
         /\ Newest(ME, Next1(c).corr) =>
              asked[ME] = Next1(c).request /\ Tail(inbox[c]) = <<>>
<1> USE Sane
<1>1. /\ Next1(c) \in Message /\ GoodMessage(Next1(c))
      /\ Next1(c).sender = ME /\ Next1(c).request.topic = c
  BY Takes
<1>2. inbox \in [Components -> Seq(Message)] /\ inbox[c] \in Seq(Message)
  BY DEF IInv, TypeOK
<1>3. Taken(c)[c] = Tail(inbox[c]) /\ \A x \in Components \ {c} : Taken(c)[x] = inbox[x]
  BY <1>2 DEF Taken
<1>4. Ends(inbox[c], NewestOf(ME), Message)
  BY DEF OrderInv, LinksInOrder
<1>5. /\ Ends(Tail(inbox[c]), NewestOf(ME), Message)
      /\ Next1(c) \in NewestOf(ME) => Free(Tail(inbox[c]), Message)
  BY <1>2, <1>4, EndsTail DEF Next1
<1>6. Newest(ME, Next1(c).corr) => asked[ME] = Next1(c).request /\ Tail(inbox[c]) = <<>>
  <2>1. Tail(inbox[c]) \in Seq(Message)
    BY <1>2, HeadTail
  <2>2. Free(Tail(inbox[c]), Message) => Tail(inbox[c]) = <<>>
    BY <2>1, FreeFacts
  <2> QED
    BY <1>1, <1>5, <2>2 DEF GoodMessage, NewestOf
<1> QED
  BY <1>1, <1>3, <1>5, <1>6

(* The autopilot holds the newest mission when it answers the newest request. *)
LEMMA AutopilotLoadsOrder ==
  ASSUME IInv, OrderInv, AutopilotLoads
  PROVE  OrderInv'
<1> USE Sane
<1> DEFINE c == "autopilot"
           n == Next1(c)
           a == AnswerOf(c, "ok")
<1>0. /\ inbox[c] # <<>> /\ inbox' = Taken(c) /\ apMission' = n.request.data
      /\ Reply(n, a, replies)
      /\ UNCHANGED <<requests, asked, cur, limMission, lastMission, loaded>>
  BY DEF AutopilotLoads
<1>1. c \in Links /\ a \in Answer /\ a.result = "ok"
  BY Answers, Facts DEF Links
<1>2. /\ n \in Message /\ n.sender = ME /\ n.request.topic = c
      /\ inbox'[c] = Tail(inbox[c]) /\ \A x \in Components \ {c} : inbox'[x] = inbox[x]
      /\ Ends(Tail(inbox[c]), NewestOf(ME), Message)
      /\ Newest(ME, n.corr) => asked[ME] = n.request /\ Tail(inbox[c]) = <<>>
  BY <1>0, <1>1, LinkTakes
<1>3. Answered(n, a, replies)
  <2>1. replies \in [Threads -> Seq(ReplyMessage)]
    BY DEF IInv, TypeOK
  <2> QED
    BY <1>0, <1>1, <1>2, <2>1, ReplyEffect
<1>4. LinksInOrder'
  <2>1. NewestOf(ME)' = NewestOf(ME)
    BY <1>0, SameNewest
  <2> QED
    BY <1>0, <1>2, <2>1 DEF OrderInv, LinksInOrder, Links
<1> HIDE DEF n, a
<1>5. replies'[MH] = replies[MH]
  BY <1>2, <1>3 DEF Answered
<1>6. \/ replies'[ME] = replies[ME]
      \/ \E r \in ReplyMessage :
           /\ replies'[ME] = Append(replies[ME], r)
           /\ r \in NewOk(ME) => asked[ME].topic = c /\ DoneNext(c, asked[ME].data)
  <2>1. \/ replies'[ME] = replies[ME]
        \/ \E r \in ReplyMessage : r.corr = n.corr /\ replies'[ME] = Append(replies[ME], r)
    BY <1>3 DEF Answered
  <2>2. Newest(ME, n.corr) => asked[ME].topic = c /\ DoneNext(c, asked[ME].data)
    BY <1>0, <1>2 DEF DoneNext, HoldsNext
  <2>3. \A r \in NewOk(ME) : Newest(ME, r.corr)
    BY DEF NewOk
  <2> QED
    BY <2>1, <2>2, <2>3
<1>7. LinkWorks(c)
  BY <1>0, <1>2, <1>5, <1>6 DEF LinkWorks, MonitorAside, Trims, Links, Holds, HoldsNext
<1> QED
  BY <1>1, <1>4, <1>7, LinkWorksKeeps

(* The limiter answers a message m of the monitor with result r.             *)
LEMMA LimiterAnswers ==
  ASSUME IInv, OrderInv, NEW m \in Message, m.sender = ME, NEW r \in {"ok", "rejected"},
         NEW b \in [Threads -> Seq(ReplyMessage)], b[ME] = replies[ME], b[MH] = replies[MH],
         Reply(m, AnswerOf("limiter", r), b),
         Newest(ME, m.corr) /\ r = "ok" =>
           asked[ME].topic = "limiter" /\ DoneNext("limiter", asked[ME].data)
  PROVE  /\ replies'[MH] = replies[MH]
         /\ \/ replies'[ME] = replies[ME]
            \/ \E x \in ReplyMessage :
                 /\ replies'[ME] = Append(replies[ME], x)
                 /\ x \in NewOk(ME) =>
                      asked[ME].topic = "limiter" /\ DoneNext("limiter", asked[ME].data)
<1> DEFINE a == AnswerOf("limiter", r)
<1>1. a \in Answer /\ a.result = r
  BY Answers, Facts
<1>2. Answered(m, a, b)
  BY <1>1, ReplyEffect
<1> HIDE DEF a
<1>3. replies'[MH] = replies[MH]
  BY <1>2, Sane DEF Answered
<1>4. \/ replies'[ME] = replies[ME]
      \/ \E x \in ReplyMessage : /\ x.corr = m.corr /\ x.answer = a
                                 /\ replies'[ME] = Append(replies[ME], x)
  BY <1>2, Sane DEF Answered
<1>5. \A x \in NewOk(ME) : Newest(ME, x.corr) /\ x.answer.result = "ok"
  BY DEF NewOk
<1> QED
  BY <1>1, <1>3, <1>4, <1>5

(* handleMissionLoad of the limiter.                                        *)
LEMMA LimiterLoadsOrder ==
  ASSUME IInv, OrderInv, LimiterLoads
  PROVE  OrderInv'
<1> USE Sane
<1> DEFINE c == "limiter"
           n == Next1(c)
<1>0. inbox[c] # <<>> /\ cur[c] = NoMsg /\ UNCHANGED <<lastMission, apMission, loaded>>
  BY DEF LimiterLoads, Idle
<1>1. c \in Links /\ "autopilot" \in Components \ {c} /\ ME \in Components \ {c}
  BY Facts DEF Links
<1>2. /\ n \in Message /\ n.sender = ME /\ n.request.topic = c
      /\ Taken(c)[c] = Tail(inbox[c]) /\ \A x \in Components \ {c} : Taken(c)[x] = inbox[x]
      /\ Ends(Tail(inbox[c]), NewestOf(ME), Message)
      /\ Newest(ME, n.corr) => asked[ME] = n.request /\ Tail(inbox[c]) = <<>>
  BY <1>0, <1>1, LinkTakes
<1>3. replies \in [Threads -> Seq(ReplyMessage)] /\ cur \in [Handlers -> Message \cup {NoMsg}]
  BY DEF IInv, TypeOK
<1>4. CASE \E r \in {"ok", "rejected"} :
             /\ inbox' = Taken(c) /\ Reply(n, AnswerOf(c, r), replies)
             /\ UNCHANGED <<requests, asked, cur>>
             /\ r = "ok" => limMission' = n.request.data
  <2>1. PICK r \in {"ok", "rejected"} :
             /\ inbox' = Taken(c) /\ Reply(n, AnswerOf(c, r), replies)
             /\ UNCHANGED <<requests, asked, cur>>
             /\ r = "ok" => limMission' = n.request.data
    BY <1>4
  <2>2. LinksInOrder'
    <3>1. NewestOf(ME)' = NewestOf(ME)
      BY <2>1, SameNewest
    <3> QED
      BY <1>0, <1>1, <1>2, <2>1, <3>1 DEF OrderInv, LinksInOrder, Links
  <2>3. Newest(ME, n.corr) /\ r = "ok" =>
          asked[ME].topic = "limiter" /\ DoneNext("limiter", asked[ME].data)
    BY <1>0, <1>2, <2>1 DEF DoneNext, HoldsNext
  <2> HIDE DEF n
  <2>4. /\ replies'[MH] = replies[MH]
        /\ \/ replies'[ME] = replies[ME]
           \/ \E x \in ReplyMessage :
                /\ replies'[ME] = Append(replies[ME], x)
                /\ x \in NewOk(ME) =>
                     asked[ME].topic = "limiter" /\ DoneNext("limiter", asked[ME].data)
    BY <1>2, <1>3, <2>1, <2>3, LimiterAnswers
  <2>5. inbox'[ME] = inbox[ME] /\ inbox'["autopilot"] = inbox["autopilot"]
    BY <1>1, <1>2, <2>1
  <2>6. LinkWorks(c)
    BY <1>0, <2>1, <2>4, <2>5 DEF LinkWorks, MonitorAside, Trims, Links, Holds, HoldsNext
  <2> QED
    BY <1>1, <2>2, <2>6, LinkWorksKeeps
<1>5. CASE /\ Occupy(c) /\ ProxyRequest(c, Ask("orvd", "authorize", n.request.data), Taken(c))
           /\ UNCHANGED <<replies, limMission, accepted>>
  <2> DEFINE r == Ask("orvd", "authorize", n.request.data)
             e == [sender |-> c, corr |-> requests[c] + 1, request |-> r]
  <2>0. n.request \in Request /\ n.request.data \in Loads \cup {NoMission}
    BY <1>2 DEF Message, Request
  <2>1. r \in Request /\ r.topic = "orvd"
    BY <2>0, Facts, Asks
  <2>2. /\ requests'[ME] = requests[ME] /\ requests'[MH] = requests[MH]
        /\ asked'[ME] = asked[ME] /\ asked'[MH] = asked[MH]
    BY <1>5, <2>1, Numbers DEF ProxyRequest
  <2>3. e \in Message /\ e.sender # MH /\ e.request.topic \notin Links
    BY <2>1 DEF Message
  <2>4. inbox' = [Taken(c) EXCEPT ![ME] = Append(@, e)]
    BY <1>5 DEF ProxyRequest, BusRequest
  <2> HIDE DEF e
  <2>5. Taken(c) \in [Components -> Seq(Message)]
    <3>1. inbox \in [Components -> Seq(Message)] /\ inbox[c] \in Seq(Message)
      BY DEF IInv, TypeOK
    <3>2. Tail(inbox[c]) \in Seq(Message)
      BY <1>0, <3>1, HeadTail
    <3> QED
      BY <3>1, <3>2 DEF Taken
  <2>6. /\ inbox'[ME] = Append(inbox[ME], e) /\ inbox'["autopilot"] = inbox["autopilot"]
        /\ inbox'[c] = Tail(inbox[c])
    <3>1. /\ inbox'[ME] = Append(Taken(c)[ME], e)
          /\ \A x \in Components \ {ME} : inbox'[x] = Taken(c)[x]
      BY <1>1, <2>4, <2>5, Puts
    <3>2. c \in Components \ {ME} /\ "autopilot" \in Components \ {ME}
      BY <1>1, Answers
    <3> QED
      BY <1>1, <1>2, <3>1, <3>2
  <2>7. cur'[c] = n /\ cur'[ME] = cur[ME] /\ cur'[MH] = cur[MH]
    BY <1>3, <1>5 DEF Occupy
  <2>8. LinksInOrder'
    <3>1. NewestOf(ME)' = NewestOf(ME)
      BY <2>2, SameNewest
    <3>2. n \in NewestOf(ME) => Tail(inbox[c]) = <<>>
      BY <1>2 DEF NewestOf
    <3> HIDE DEF n
    <3> QED
      BY <1>2, <2>6, <2>7, <3>1, <3>2 DEF OrderInv, LinksInOrder, Links
  <2>9. LinkWorks(c)
    BY <1>0, <1>5, <2>2, <2>3, <2>6, <2>7
       DEF LinkWorks, MonitorAside, Links, Holds, HoldsNext
  <2> QED
    BY <1>1, <2>8, <2>9, LinkWorksKeeps
<1> QED
  BY <1>4, <1>5 DEF LimiterLoads, Accept

(* The limiter's answer after that of ORVD.                                 *)
LEMMA OrvdReturnsOrder ==
  ASSUME IInv, OrderInv, OrvdReturns
  PROVE  OrderInv'
<1> USE Sane
<1> DEFINE c == "limiter"
           n == cur[c]
<1>0. /\ n # NoMsg /\ cur' = [cur EXCEPT ![c] = NoMsg]
      /\ UNCHANGED <<inbox, requests, asked, lastMission, apMission, loaded>>
  BY DEF OrvdReturns, Finish
<1>1. PICK o \in Outcomes :
        /\ Returns(c, o)
        /\ \E r \in {"ok", "rejected"} :
             /\ Reply(n, AnswerOf(c, r), Left(c, o))
             /\ r = "ok" => limMission' = n.request.data
  BY DEF OrvdReturns, Accept
<1>2. PICK r \in {"ok", "rejected"} :
        Reply(n, AnswerOf(c, r), Left(c, o)) /\ (r = "ok" => limMission' = n.request.data)
  BY <1>1
<1>3. /\ n \in Message /\ GoodMessage(n) /\ n.sender = ME /\ n.request.topic = c
  <2>1. n \in GoodInbox[c] /\ c \in Components
    BY <1>0 DEF IInv, Waits
  <2> QED
    BY <2>1 DEF GoodInbox
<1>4. /\ Left(c, o) \in [Threads -> Seq(ReplyMessage)]
      /\ Left(c, o)[ME] = replies[ME] /\ Left(c, o)[MH] = replies[MH]
  BY <1>1, LeftEffect
<1>5. cur'[c] = NoMsg /\ cur'[ME] = cur[ME] /\ cur'[MH] = cur[MH]
  BY <1>0
<1>6. Newest(ME, n.corr) => asked[ME] = n.request /\ inbox[c] = <<>>
  BY <1>0, <1>3 DEF OrderInv, LinksInOrder, GoodMessage, NewestOf
<1>7. Newest(ME, n.corr) /\ r = "ok" =>
        asked[ME].topic = "limiter" /\ DoneNext("limiter", asked[ME].data)
  BY <1>0, <1>2, <1>3, <1>5, <1>6 DEF DoneNext, HoldsNext
<1>8. LinksInOrder'
  <2>1. NewestOf(ME)' = NewestOf(ME)
    BY <1>0, SameNewest
  <2> QED
    BY <1>0, <1>5, <2>1 DEF OrderInv, LinksInOrder, Links
<1>9. /\ replies'[MH] = replies[MH]
      /\ \/ replies'[ME] = replies[ME]
         \/ \E x \in ReplyMessage :
              /\ replies'[ME] = Append(replies[ME], x)
              /\ x \in NewOk(ME) =>
                   asked[ME].topic = "limiter" /\ DoneNext("limiter", asked[ME].data)
  <2> HIDE DEF n
  <2> QED
    BY <1>2, <1>3, <1>4, <1>7, LimiterAnswers
<1>10. LinkWorks(c)
  BY <1>0, <1>5, <1>9 DEF LinkWorks, MonitorAside, Trims, Links, Holds, HoldsNext
<1> QED
  BY <1>8, <1>10, LinkWorksKeeps DEF Links

-----------------------------------------------------------------------------
(* The monitor *)

(* It repeats the next request: behind the newest of the mission handler     *)
(* there is no other, and what is settled is not asked again.                *)
LEMMA MonitorRequestsOrder ==
  ASSUME IInv, OrderInv, MonitorRequests
  PROVE  OrderInv'
<1> USE Sane
<1> DEFINE n == Next1(ME)
           c == n.request.topic
           e == [sender |-> ME, corr |-> requests[ME] + 1, request |-> n.request]
<1>0. /\ inbox[ME] # <<>> /\ BusRequest(ME, c, n.request, Taken(ME))
      /\ cur' = [cur EXCEPT ![ME] = n]
      /\ UNCHANGED <<replies, limMission, apMission, lastMission, loaded>>
  BY DEF MonitorRequests, Idle, Occupy, missionVars
<1>1. n \in Message /\ n.request \in Request /\ GoodMessage(n)
  BY <1>0, Takes
<1>2. c \in Components /\ c # ME
  BY <1>1 DEF GoodMessage, GoodRequest, Request
<1>3. /\ requests'[ME] = requests[ME] + 1
      /\ requests'[MH] = requests[MH] /\ asked'[MH] = asked[MH]
  BY <1>0, <1>1, Numbers
<1>4. cur'[ME] = n /\ cur'[MH] = cur[MH] /\ cur'["limiter"] = cur["limiter"]
  BY <1>0
<1>5. inbox' = [Taken(ME) EXCEPT ![c] = Append(@, e)]
  BY <1>0 DEF BusRequest
<1>6. /\ inbox \in [Components -> Seq(Message)] /\ inbox[ME] \in Seq(Message)
      /\ Tail(inbox[ME]) \in Seq(Message) /\ Taken(ME) \in [Components -> Seq(Message)]
      /\ Taken(ME)[ME] = Tail(inbox[ME])
      /\ \A x \in Components \ {ME} : Taken(ME)[x] = inbox[x]
  <2>1. inbox \in [Components -> Seq(Message)] /\ inbox[ME] \in Seq(Message)
    BY DEF IInv, TypeOK
  <2>2. Tail(inbox[ME]) \in Seq(Message)
    BY <1>0, <2>1, HeadTail
  <2> QED
    BY <2>1, <2>2 DEF Taken
<1>n. n = Head(inbox[ME])
  BY DEF Next1
<1> HIDE DEF n, c, e
<1>7. /\ inbox'[c] = Append(Taken(ME)[c], e)
      /\ \A x \in Components \ {c} : inbox'[x] = Taken(ME)[x]
  BY <1>2, <1>5, <1>6, Puts
<1>8. /\ inbox'[ME] = Tail(inbox[ME]) /\ inbox'[c] = Append(inbox[c], e)
      /\ \A x \in Components \ {c, ME} : inbox'[x] = inbox[x]
  BY <1>2, <1>6, <1>7
<1>9. /\ \A x \in Components : Free(inbox[x], NewestOf(ME)')
      /\ \A h \in Handlers : cur[h] # NoMsg => cur[h] \notin NewestOf(ME)'
      /\ Free(replies[ME], NewOk(ME)')
  BY <1>3, NothingNewer
<1>10. NewestOf(MH)' = NewestOf(MH) /\ NewOk(MH)' = NewOk(MH)
  BY <1>3, SameNewest
<1>11. MonitorInOrder'
  <2>1. Free(inbox[ME], Stray) /\ Ends(inbox[ME], NewestOf(MH), FromMH)
    BY DEF OrderInv, MonitorInOrder
  <2>2. Free(Tail(inbox[ME]), Stray)
    BY <1>0, <1>6, <2>1, FreeTail
  <2>3. /\ Ends(Tail(inbox[ME]), NewestOf(MH), FromMH)
        /\ n \in NewestOf(MH) => Free(Tail(inbox[ME]), FromMH)
    BY <1>0, <1>6, <1>n, <2>1, EndsTail
  <2> QED
    BY <1>4, <1>8, <1>10, <2>2, <2>3 DEF MonitorInOrder, Stray, FromMH
<1>12. LinksInOrder'
  <2>1. ASSUME NEW x \in Links
        PROVE  Ends(inbox'[x], NewestOf(ME)', Message)
    <3>0. x \in Components \ {ME} /\ inbox[x] \in Seq(Message) /\ Free(inbox[x], NewestOf(ME)')
      BY <1>6, <1>9
    <3>1. CASE x = c
      <4>1. inbox'[x] = Append(inbox[x], e)
        BY <1>8, <3>1
      <4>2. Ends(Append(inbox[x], e), NewestOf(ME)', Message)
        BY <3>0, EndsAppend
      <4> QED
        BY <4>1, <4>2
    <3>2. CASE x # c
      <4>1. Ends(inbox[x], NewestOf(ME)', Message)
        BY <3>0, FreeFacts
      <4> QED
        BY <1>8, <3>0, <3>2, <4>1
    <3> QED
      BY <3>1, <3>2
  <2>2. cur'["limiter"] # NoMsg => cur'["limiter"] \notin NewestOf(ME)'
    BY <1>4, <1>9
  <2> QED
    BY <2>1, <2>2 DEF LinksInOrder
<1>13. ASSUME NEW x \in Links, NEW d, Settled(x, d)
       PROVE  SettledNext(x, d)
  <2>1. n \notin LoadsOf(x) /\ Free(Tail(inbox[ME]), LoadsOf(x))
    BY <1>0, <1>6, <1>n, <1>13, FreeTail DEF Settled
  <2>2. x # c
    BY <1>1, <2>1 DEF LoadsOf, c
  <2>3. inbox'[x] = inbox[x]
    BY <1>8, <2>2
  <2> QED
    BY <1>0, <1>4, <1>8, <1>13, <2>1, <2>3
       DEF Settled, SettledNext, Done, DoneNext, Holds, HoldsNext
<1>14. OkIsTrue'
  <2>1. \/ Free(replies'[MH], NewOk(MH))
        \/ asked[MH].topic \in Links => SettledNext(asked[MH].topic, asked[MH].data)
    BY <1>0, <1>13 DEF OrderInv, OkIsTrue
  <2> QED
    BY <1>0, <1>3, <1>9, <1>10, <2>1, NextForms
<1>15. LoadedInOrder'
  BY <1>0, <1>3, <1>4, <1>13, LoadedKept
<1> QED
  BY <1>11, <1>12, <1>14, <1>15 DEF OrderInv

(* A request that returns ok has met an ok to the newest request.            *)
LEMMA OkReturns ==
  ASSUME IInv, NEW t \in Threads, NEW o \in Outcomes, Returns(t, o), Result(t, o).result = "ok"
  PROVE  ~ Free(replies[t], NewOk(t))
<1>1. o = "reply"
  BY Answers DEF Outcomes, Result
<1>2. /\ replies[t] # <<>> /\ pending[t] # 0 /\ pending[t] = Head(replies[t]).corr
      /\ Head(replies[t]).answer.result = "ok"
  BY <1>1 DEF Returns, HasReply, Matches, Result
<1>3. replies[t] \in Seq(ReplyMessage) /\ Head(replies[t]) \in ReplyMessage
  BY <1>2, HeadTail, Sane
<1>4. Newest(t, Head(replies[t]).corr)
  BY <1>2 DEF IInv, Waits, Newest
<1>5. Head(replies[t]) \in NewOk(t)
  BY <1>2, <1>3, <1>4 DEF NewOk
<1> QED
  BY <1>2, <1>3, <1>5, FreeTail

(* It passes an ok on: the component is done, and behind the request there   *)
(* was none for it.                                                         *)
LEMMA MonitorReturnsOrder ==
  ASSUME IInv, OrderInv, MonitorReturns
  PROVE  OrderInv'
<1> USE Sane
<1> DEFINE m == cur[ME]
<1>0. /\ m # NoMsg /\ cur' = [cur EXCEPT ![ME] = NoMsg]
      /\ UNCHANGED <<inbox, requests, asked, limMission, apMission, lastMission, loaded>>
  BY DEF MonitorReturns, Finish, missionVars
<1>1. PICK o \in Outcomes : Returns(ME, o) /\ Reply(m, Result(ME, o), Left(ME, o))
  BY DEF MonitorReturns
<1>2. m \in Message /\ GoodMessage(m) /\ m.sender # ME /\ asked[ME] = m.request
  <2>1. m \in GoodInbox[ME] /\ asked[ME] = m.request
    BY <1>0 DEF IInv, Waits
  <2> QED
    BY <2>1 DEF GoodInbox
<1>3. Left(ME, o) \in [Threads -> Seq(ReplyMessage)] /\ Trims(replies[ME], Left(ME, o)[ME])
      /\ Left(ME, o)[MH] = replies[MH]
  BY <1>1, LeftEffect
<1>4. Answered(m, Result(ME, o), Left(ME, o))
  <2>1. Result(ME, o) \in Answer
    BY <1>1, AnswersHonestly
  <2> QED
    BY <1>1, <1>2, <1>3, <2>1, ReplyEffect
<1>5. cur'[ME] = NoMsg /\ cur'[MH] = cur[MH] /\ cur'["limiter"] = cur["limiter"]
  BY <1>0
<1>6. /\ NewestOf(MH)' = NewestOf(MH) /\ NewestOf(ME)' = NewestOf(ME)
      /\ NewOk(MH)' = NewOk(MH) /\ NewOk(ME)' = NewOk(ME)
  BY <1>0, SameNewest
<1> HIDE DEF m
<1>7. MonitorInOrder' /\ LinksInOrder'
  BY <1>0, <1>5, <1>6 DEF OrderInv, MonitorInOrder, LinksInOrder, Stray, FromMH, Links
<1>8. \A c \in Links : \A d : Done(c, d) => DoneNext(c, d)
  BY <1>0, <1>5 DEF Done, DoneNext, Holds, HoldsNext
<1>9. \A c \in Links : \A d : Settled(c, d) => SettledNext(c, d)
  BY <1>0, <1>8 DEF Settled, SettledNext
<1>10. \/ Free(replies'[ME], NewOk(ME))
       \/ asked[ME].topic \in Links => DoneNext(asked[ME].topic, asked[ME].data)
  <2>1. Trims(replies[ME], replies'[ME])
    BY <1>2, <1>3, <1>4 DEF Answered
  <2>2. replies[ME] \in Seq(ReplyMessage)
    OBVIOUS
  <2>3. Free(replies[ME], NewOk(ME)) => Free(replies'[ME], NewOk(ME))
    BY <2>1, <2>2, FreeKept
  <2> QED
    BY <1>8, <2>3 DEF OrderInv, OkIsTrue
<1>11. \/ Free(replies'[MH], NewOk(MH))
       \/ asked[MH].topic \in Links => SettledNext(asked[MH].topic, asked[MH].data)
  <2>1. CASE ~ Free(replies[MH], NewOk(MH)) \/ replies'[MH] = replies[MH]
    BY <1>9, <2>1 DEF OrderInv, OkIsTrue
  <2>2. CASE Free(replies[MH], NewOk(MH)) /\ replies'[MH] # replies[MH]
    <3>1. PICK r \in ReplyMessage :
            /\ m.sender = MH /\ r.corr = m.corr /\ r.answer = Result(ME, o)
            /\ replies'[MH] = Append(replies[MH], r)
      BY <1>3, <1>4, <2>2 DEF Answered
    <3>2. CASE r \notin NewOk(MH)
      <4>1. replies[MH] \in Seq(ReplyMessage)
        OBVIOUS
      <4> QED
        BY <2>2, <3>1, <3>2, <4>1, FreeAppend
    <3>3. CASE r \in NewOk(MH) /\ asked[MH].topic \in Links
      <4>1. Newest(MH, m.corr) /\ Result(ME, o).result = "ok"
        BY <3>1, <3>3 DEF NewOk
      <4>2. asked[MH] = m.request /\ m \in NewestOf(MH)
        BY <1>2, <3>1, <4>1 DEF GoodMessage, NewestOf
      <4>3. Done(asked[MH].topic, asked[MH].data)
        BY <1>1, <1>2, <3>3, <4>1, <4>2, OkReturns DEF OrderInv, OkIsTrue
      <4>4. Free(inbox[ME], FromMH) /\ Free(inbox[ME], Stray)
        BY <1>0, <4>2 DEF OrderInv, MonitorInOrder, m
      <4>5. Free(inbox[ME], LoadsOf(asked[MH].topic))
        <5>1. LoadsOf(asked[MH].topic) \subseteq FromMH \cup Stray
          BY <3>3 DEF LoadsOf, FromMH, Stray
        <5> QED
          BY <4>4, <5>1 DEF Free
      <4> QED
        BY <1>0, <1>8, <3>3, <4>3, <4>5 DEF SettledNext
    <3> QED
      BY <3>2, <3>3
  <2> QED
    BY <2>1, <2>2
<1>12. OkIsTrue'
  BY <1>0, <1>6, <1>10, <1>11, NextForms
<1>13. LoadedInOrder'
  BY <1>0, <1>5, <1>9, LoadedKept
<1> QED
  BY <1>7, <1>12, <1>13 DEF OrderInv

-----------------------------------------------------------------------------
(* The mission handler *)

(* It asks for a load: newer than everything, behind everything.             *)
LEMMA HandlerAsks ==
  ASSUME IInv, OrderInv, NEW r \in Request, NEW b \in [Components -> Seq(Message)],
         ProxyRequest(MH, r, b), \A x \in Links \cup {ME} : b[x] = inbox[x],
         Trims(replies[MH], replies'[MH]), replies'[ME] = replies[ME],
         cur'[ME] = cur[ME], cur'["limiter"] = cur["limiter"],
         UNCHANGED <<limMission, apMission>>
  PROVE  /\ MonitorInOrder' /\ LinksInOrder' /\ OkIsTrue' /\ asked'[MH] = r
         /\ \A c \in Links \ {r.topic} : \A d : Settled(c, d) => SettledNext(c, d)
<1> USE Sane
<1> DEFINE e == [sender |-> MH, corr |-> requests[MH] + 1, request |-> r]
<1>1. /\ requests'[MH] = requests[MH] + 1 /\ requests'[ME] = requests[ME]
      /\ asked'[ME] = asked[ME] /\ asked'[MH] = r
  BY Numbers DEF ProxyRequest
<1>2. e \in Message /\ e \notin Stray /\ \A c \in Links \ {r.topic} : e \notin LoadsOf(c)
  BY DEF Message, Stray, LoadsOf
<1>3. inbox' = [b EXCEPT ![ME] = Append(@, e)]
  BY DEF ProxyRequest, BusRequest
<1> HIDE DEF e
<1>4. inbox'[ME] = Append(inbox[ME], e) /\ \A c \in Links : inbox'[c] = inbox[c]
  <2>1. inbox'[ME] = Append(b[ME], e) /\ \A y \in Components \ {ME} : inbox'[y] = b[y]
    BY <1>3, Puts
  <2>2. b[ME] = inbox[ME] /\ \A c \in Links : b[c] = inbox[c] /\ c \in Components \ {ME}
    OBVIOUS
  <2> QED
    BY <2>1, <2>2
<1>5. /\ Free(inbox[ME], NewestOf(MH)') /\ Free(replies[MH], NewOk(MH)')
      /\ cur[ME] # NoMsg => cur[ME] \notin NewestOf(MH)'
  BY <1>1, NothingNewer
<1>6. NewestOf(ME)' = NewestOf(ME) /\ NewOk(ME)' = NewOk(ME)
  BY <1>1, SameNewest
<1>7. inbox[ME] \in Seq(Message) /\ replies[MH] \in Seq(ReplyMessage)
  OBVIOUS
<1>8. MonitorInOrder'
  <2>1. Free(inbox'[ME], Stray)
    BY <1>2, <1>4, <1>7, FreeAppend DEF OrderInv, MonitorInOrder
  <2>2. Ends(inbox'[ME], NewestOf(MH)', FromMH)
    BY <1>4, <1>5, <1>7, EndsAppend
  <2> QED
    BY <1>5, <2>1, <2>2 DEF MonitorInOrder, Stray, FromMH
<1>9. LinksInOrder'
  BY <1>4, <1>6 DEF OrderInv, LinksInOrder, Links
<1>10. \A c \in Links : \A d : Done(c, d) => DoneNext(c, d)
  BY <1>4 DEF Done, DoneNext, Holds, HoldsNext
<1>11. OkIsTrue'
  <2>1. Free(replies'[MH], NewOk(MH)')
    BY <1>5, <1>7, FreeKept
  <2>2. \/ Free(replies'[ME], NewOk(ME))
        \/ asked[ME].topic \in Links => DoneNext(asked[ME].topic, asked[ME].data)
    BY <1>10 DEF OrderInv, OkIsTrue
  <2> QED
    BY <1>1, <1>6, <2>1, <2>2, NextForms
<1>12. ASSUME NEW c \in Links \ {r.topic}, NEW d, Settled(c, d)
       PROVE  SettledNext(c, d)
  <2>1. Free(inbox'[ME], LoadsOf(c))
    BY <1>2, <1>4, <1>7, <1>12, FreeAppend DEF Settled
  <2> QED
    BY <1>10, <1>12, <2>1 DEF Settled, SettledNext
<1> QED
  BY <1>1, <1>8, <1>9, <1>11, <1>12

(* handleLoadMission asks the limiter; nothing counts as loaded.             *)
LEMMA HandleLoadMissionOrder ==
  ASSUME IInv, OrderInv, HandleLoadMission
  PROVE  OrderInv'
<1> USE Sane
<1> DEFINE n == Next1(MH)
           r == Ask("limiter", "mission_load", n.request.data)
<1>0. /\ inbox[MH] # <<>> /\ ProxyRequest(MH, r, Taken(MH)) /\ loaded' = NoMission
      /\ cur' = [cur EXCEPT ![MH] = n] /\ n.request.data \in Missions
      /\ UNCHANGED <<replies, limMission, apMission>>
  BY DEF HandleLoadMission, Idle, Occupy
<1>1. r \in Request /\ r.topic = "limiter"
  BY <1>0, Facts, Asks DEF Loads
<1>2. Taken(MH) \in [Components -> Seq(Message)] /\ \A x \in Links \cup {ME} : Taken(MH)[x] = inbox[x]
  <2>1. inbox \in [Components -> Seq(Message)] /\ inbox[MH] \in Seq(Message)
    BY DEF IInv, TypeOK
  <2>2. Tail(inbox[MH]) \in Seq(Message)
    BY <1>0, <2>1, HeadTail
  <2> QED
    BY <2>1, <2>2 DEF Taken
<1>3. cur'[ME] = cur[ME] /\ cur'["limiter"] = cur["limiter"]
  BY <1>0
<1> HIDE DEF n, r
<1>4. MonitorInOrder' /\ LinksInOrder' /\ OkIsTrue' /\ asked'[MH] = r
  BY <1>0, <1>1, <1>2, <1>3, HandlerAsks DEF Trims
<1>5. LoadedInOrder'
  BY <1>0, <1>1, <1>4, NextForms
<1> QED
  BY <1>4, <1>5 DEF OrderInv

(* handleLoadMission ends.                                                  *)
LEMMA HandlerReturns ==
  ASSUME IInv, OrderInv, cur[MH] # NoMsg, NEW o \in Outcomes, Returns(MH, o),
         NEW a \in Answer, Reply(cur[MH], a, Left(MH, o)), Finish(MH),
         UNCHANGED <<inbox, requests, asked, limMission, apMission>>,
         loaded' # loaded => loaded' = lastMission /\ HasAsked("autopilot")
                             /\ Result(MH, o).result = "ok"
  PROVE  OrderInv'
<1> USE Sane
<1> DEFINE m == cur[MH]
<1>1. m \in Message /\ GoodMessage(m) /\ m.sender = ME /\ m.request.topic = MH
  <2>1. m \in GoodInbox[MH] /\ MH \in Components
    BY DEF IInv, Waits
  <2> QED
    BY <2>1 DEF GoodInbox
<1>2. /\ Left(MH, o) \in [Threads -> Seq(ReplyMessage)]
      /\ Trims(replies[MH], Left(MH, o)[MH]) /\ Left(MH, o)[ME] = replies[ME]
  BY LeftEffect
<1>3. cur'[MH] = NoMsg /\ cur'[ME] = cur[ME] /\ cur'["limiter"] = cur["limiter"]
  BY DEF Finish
<1>a. Reply(m, a, Left(MH, o))
  OBVIOUS
<1> HIDE DEF m
<1>4. Answered(m, a, Left(MH, o))
  BY <1>1, <1>2, <1>a, ReplyEffect
<1>5. Aside
  <2>1. Trims(replies[MH], replies'[MH])
    BY <1>1, <1>2, <1>4 DEF Answered
  <2>2. \/ Trims(replies[ME], replies'[ME])
        \/ \E r \in ReplyMessage :
             /\ replies'[ME] = Append(replies[ME], r)
             /\ r \in NewOk(ME) => asked[ME].topic \notin Links
    <3>1. \/ replies'[ME] = replies[ME]
          \/ \E r \in ReplyMessage : r.corr = m.corr /\ replies'[ME] = Append(replies[ME], r)
      BY <1>2, <1>4 DEF Answered
    <3>2. Newest(ME, m.corr) => asked[ME].topic \notin Links
      BY <1>1 DEF GoodMessage
    <3>3. \A r \in NewOk(ME) : Newest(ME, r.corr)
      BY DEF NewOk
    <3> QED
      BY <3>1, <3>2, <3>3 DEF Trims
  <2> QED
    BY <1>3, <2>1, <2>2 DEF Aside, MonitorAside, Trims
<1>6. /\ MonitorInOrder' /\ LinksInOrder' /\ OkIsTrue'
      /\ \A c \in Links : \A d : Settled(c, d) => SettledNext(c, d)
  BY <1>5, AsideKeeps
<1>7. LoadedInOrder'
  <2>1. loaded' # NoMission => loaded' # loaded
    BY DEF OrderInv, LoadedInOrder
  <2>2. CASE loaded' # loaded
    <3>1. Settled("limiter", lastMission)
      BY <2>2 DEF OrderInv, LoadedInOrder
    <3>2. Settled("autopilot", lastMission)
      <4>1. ~ Free(replies[MH], NewOk(MH))
        BY <2>2, OkReturns
      <4>2. asked[MH].topic = "autopilot" /\ asked[MH].data = lastMission
        BY <2>2 DEF HasAsked, IInv, Waits
      <4> QED
        BY <4>1, <4>2 DEF OrderInv, OkIsTrue, Links
    <3>3. \A c \in Links : SettledNext(c, loaded')
      BY <1>6, <2>2, <3>1, <3>2 DEF Links
    <3> QED
      BY <1>3, <3>3, NextForms
  <2>3. CASE loaded' = loaded
    BY <1>3, <2>1, <2>3, NextForms
  <2> QED
    BY <2>2, <2>3
<1> QED
  BY <1>6, <1>7 DEF OrderInv

(* The limiter's ok settles the limiter; then the autopilot is asked.        *)
LEMMA LimiterReturnsOrder ==
  ASSUME IInv, OrderInv, LimiterReturns
  PROVE  OrderInv'
<1> USE Sane
<1>0. /\ cur[MH] # NoMsg /\ asked[MH].topic = "limiter"
      /\ UNCHANGED <<lastMission, limMission, apMission>>
  BY DEF LimiterReturns, HasAsked
<1>1. PICK o \in Outcomes :
        /\ Returns(MH, o)
        /\ \/ /\ Result(MH, o).result = "ok"
              /\ ProxyRequest(MH, Ask("autopilot", "mission_load", lastMission), inbox)
              /\ replies' = Left(MH, o) /\ UNCHANGED <<cur, loaded>>
           \/ /\ Reply(cur[MH], AnswerOf(MH, "rejected"), Left(MH, o)) /\ Finish(MH)
              /\ UNCHANGED <<inbox, requests, asked, loaded>>
  BY DEF LimiterReturns, LimiterAgreed, LoadFails
<1>2. CASE /\ Result(MH, o).result = "ok"
           /\ ProxyRequest(MH, Ask("autopilot", "mission_load", lastMission), inbox)
           /\ replies' = Left(MH, o) /\ UNCHANGED <<cur, loaded>>
  <2> DEFINE r == Ask("autopilot", "mission_load", lastMission)
  <2>1. lastMission \in Missions /\ asked[MH].data = lastMission
    BY <1>0 DEF IInv, Waits
  <2>2. r \in Request /\ r.topic = "autopilot"
    BY <2>1, Facts, Asks DEF Loads
  <2>3. ProxyRequest(MH, r, inbox) /\ inbox \in [Components -> Seq(Message)]
    BY <1>2 DEF IInv, TypeOK
  <2> HIDE DEF r
  <2>4. Trims(replies[MH], replies'[MH]) /\ replies'[ME] = replies[ME]
    BY <1>1, <1>2, LeftEffect
  <2>5. /\ MonitorInOrder' /\ LinksInOrder' /\ OkIsTrue' /\ asked'[MH] = r
        /\ \A c \in Links \ {r.topic} : \A d : Settled(c, d) => SettledNext(c, d)
    BY <1>0, <1>2, <2>2, <2>3, <2>4, HandlerAsks
  <2>6. Settled("limiter", lastMission)
    BY <1>0, <1>1, <1>2, <2>1, OkReturns DEF OrderInv, OkIsTrue, Links
  <2>7. SettledNext("limiter", lastMission')
    BY <1>0, <2>2, <2>5, <2>6 DEF Links
  <2>8. loaded' = NoMission
    BY <1>0, <1>2 DEF OrderInv, LoadedInOrder
  <2>9. LoadedInOrder'
    BY <2>7, <2>8, NextForms
  <2> QED
    BY <2>5, <2>9 DEF OrderInv
<1>3. CASE /\ Reply(cur[MH], AnswerOf(MH, "rejected"), Left(MH, o)) /\ Finish(MH)
           /\ UNCHANGED <<inbox, requests, asked, loaded>>
  BY <1>0, <1>1, <1>3, Answers, HandlerReturns
<1> QED
  BY <1>1, <1>2, <1>3

(* The autopilot's ok settles both.                                         *)
LEMMA AutopilotReturnsOrder ==
  ASSUME IInv, OrderInv, AutopilotReturns
  PROVE  OrderInv'
<1> USE Sane
<1>0. /\ cur[MH] # NoMsg /\ HasAsked("autopilot")
      /\ UNCHANGED <<lastMission, limMission, apMission>>
  BY DEF AutopilotReturns, HasAsked
<1>1. PICK o \in Outcomes :
        /\ Returns(MH, o)
        /\ \E x \in {"ok", "rejected"} : Reply(cur[MH], AnswerOf(MH, x), Left(MH, o))
        /\ Finish(MH) /\ UNCHANGED <<inbox, requests, asked>>
        /\ loaded' # loaded => loaded' = lastMission /\ Result(MH, o).result = "ok"
  BY DEF AutopilotReturns, AutopilotAgreed, LoadFails
<1>2. PICK x \in {"ok", "rejected"} : Reply(cur[MH], AnswerOf(MH, x), Left(MH, o))
  BY <1>1
<1> QED
  BY <1>0, <1>1, <1>2, Answers, HandlerReturns

-----------------------------------------------------------------------------
(* Every step keeps the order.                                              *)
LEMMA NextOrder ==
  ASSUME IInv, OrderInv, [Next]_vars
  PROVE  OrderInv'
<1>1. CASE MonitorRuns
  BY <1>1, MonitorQuietSteps, MonitorRequestsOrder, MonitorReturnsOrder DEF MonitorRuns
<1>2. CASE MissionHandlerRuns
  BY <1>2, StrangerSteps, HandleLoadMissionOrder, LimiterReturnsOrder, AutopilotReturnsOrder
     DEF MissionHandlerRuns
<1>3. CASE LimiterRuns \/ AutopilotLoads \/ OrvdAnswers
  BY <1>3, LimiterLoadsOrder, OrvdReturnsOrder, AutopilotLoadsOrder, StrangerSteps
     DEF LimiterRuns
<1>4. CASE TelemetryRuns \/ \E s \in Sensors : HandleGetState(s) \/ Sense(s)
  BY <1>4, AskSteps, ReturnSteps, StrangerSteps DEF TelemetryRuns
<1>5. CASE \/ \E t \in Threads : Drop(t)
           \/ PilotReturns \/ UNCHANGED vars
  BY <1>5, ReturnSteps
<1>6. CASE \E a \in {"LOAD_MISSION", "VALIDATE_ONLY"}, d \in Loads : PilotAsks(a, d)
  BY <1>6, AskSteps
<1> QED
  BY <1>1, <1>2, <1>3, <1>4, <1>5, <1>6 DEF Next

(* LOAD_MISSION answered ok means that limiter and autopilot hold this very   *)
(* mission until the mission handler starts the next load: a request that    *)
(* timed out stays in the topics of the bus and is carried out late, but     *)
(* never after the answer to a newer one.                                   *)
THEOREM OkIsLoaded == Spec => []OkMeansLoaded
<1>1. IInv /\ OrderInv /\ [Next]_vars => IInv' /\ OrderInv'
  BY NextInv, NextOrder
<1>2. Init => IInv /\ OrderInv
  BY InitInv, InitOrder
<1>3. OrderInv => OkMeansLoaded
  BY DEF OrderInv, LoadedInOrder, Settled, Done, Holds, Links, OkMeansLoaded
<1> QED
  BY <1>1, <1>2, <1>3, PTL DEF Spec

-----------------------------------------------------------------------------
(* The abstract loading *)

LoadingKept == UNCHANGED <<accepted, limMission, apMission, loaded>>

(* While an ok stands, limiter and autopilot have nothing to take.           *)
LEMMA NothingToTake ==
  ASSUME OrderInv,
         \/ inbox["limiter"] # <<>> \/ inbox["autopilot"] # <<>>
         \/ cur["limiter"] # NoMsg \/ cur[MH] # NoMsg
  PROVE  loaded = NoMission
BY DEF OrderInv, LoadedInOrder, Settled, Done, Links

(* The steps of limiter, autopilot and mission handler that take, accept or  *)
(* confirm a mission are those of the abstract loading.                     *)
LEMMA LoadingStep ==
  ASSUME IInv, OrderInv, [Next]_vars
  PROVE  LoadingKept \/ Loading!Next
<1> USE Sane
<1>1. CASE \/ \E t \in Threads : Drop(t)
           \/ MonitorRuns \/ OrvdAnswers \/ TelemetryRuns \/ PilotReturns \/ UNCHANGED vars
           \/ \E s \in Sensors : HandleGetState(s) \/ Sense(s)
           \/ \E a \in {"LOAD_MISSION", "VALIDATE_ONLY"}, d \in Loads : PilotAsks(a, d)
  <2>1. UNCHANGED missionVars
    BY <1>1 DEF Drop, MonitorRuns, MonitorPublishes, MonitorRequests, MonitorRefuses,
       MonitorReturns, OrvdAnswers, TelemetryRuns, PollNext, PollReturns, PollStores,
       PilotReturns, HandleGetState, Sense, PilotAsks, vars
  <2> QED
    BY <2>1 DEF missionVars, LoadingKept
<1>2. CASE InvalidMission \/ HandleValidateOnly \/ LimiterReturns
  BY <1>2 DEF InvalidMission, HandleValidateOnly, LimiterReturns, LoadFails, LoadingKept
<1>3. CASE HandleLoadMission
  BY <1>3 DEF HandleLoadMission, Loading!Next, Loading!Begin
<1>4. CASE LimiterLoads \/ OrvdReturns
  <2>1. loaded = NoMission /\ UNCHANGED <<apMission, loaded>>
    BY <1>4, NothingToTake DEF LimiterLoads, OrvdReturns, Idle
  <2>2. \/ UNCHANGED <<limMission, accepted>>
        \/ inbox["limiter"] # <<>> /\ Accept(Next1("limiter").request.data)
        \/ cur["limiter"] # NoMsg /\ Accept(cur["limiter"].request.data)
    BY <1>4 DEF LimiterLoads, OrvdReturns, Idle
  <2>3. \A m \in GoodInbox["limiter"] : m.request.data \in Missions
    BY DEF GoodInbox, GoodMessage, GoodRequest
  <2>4. UNCHANGED <<limMission, accepted>> \/ \E d \in Missions : Accept(d)
    <3>1. inbox["limiter"] # <<>> => Next1("limiter").request.data \in Missions
      BY <2>3, Takes
    <3>2. cur["limiter"] # NoMsg => cur["limiter"].request.data \in Missions
      BY <2>3 DEF IInv, Waits
    <3> QED
      BY <2>2, <3>1, <3>2
  <2> QED
    BY <2>1, <2>4 DEF LoadingKept, Accept, Loading!Next, Loading!Accept
<1>5. CASE AutopilotLoads
  <2> DEFINE d == Next1("autopilot").request.data
  <2>1. /\ inbox["autopilot"] # <<>> /\ apMission' = d
        /\ UNCHANGED <<accepted, limMission, loaded>>
    BY <1>5 DEF AutopilotLoads
  <2>2. d \in accepted
    <3>1. "autopilot" \in Components /\ "autopilot" # ME
      BY Facts, Answers
    <3> QED
      BY <2>1, <3>1, Takes DEF GoodMessage, GoodRequest
  <2>3. d \in Missions
    BY <2>2, BusTypes
  <2> HIDE DEF d
  <2> QED
    BY <2>1, <2>2, <2>3, NothingToTake DEF Loading!Next, Loading!Take
<1>6. CASE AutopilotReturns
  <2>1. /\ HasAsked("autopilot") /\ UNCHANGED <<accepted, limMission, apMission>>
        /\ \/ UNCHANGED loaded
           \/ \E o \in Outcomes : /\ Returns(MH, o) /\ Result(MH, o).result = "ok"
                                  /\ loaded' = lastMission
    BY <1>6 DEF AutopilotReturns, AutopilotAgreed, LoadFails
  <2>2. CASE \E o \in Outcomes : /\ Returns(MH, o) /\ Result(MH, o).result = "ok"
                                 /\ loaded' = lastMission
    <3>1. Settled("limiter", lastMission) /\ loaded = NoMission
      BY <2>1, NothingToTake DEF OrderInv, LoadedInOrder, HasAsked
    <3>2. ~ Free(replies[MH], NewOk(MH))
      BY <2>2, OkReturns
    <3>3. asked[MH].topic = "autopilot" /\ asked[MH].data = lastMission
      BY <2>1 DEF HasAsked, IInv, Waits
    <3>4. Settled("autopilot", lastMission)
      BY <3>2, <3>3 DEF OrderInv, OkIsTrue, Links
    <3>5. limMission = lastMission /\ apMission = lastMission
      BY <3>1, <3>4 DEF Settled, Done, Holds
    <3> QED
      BY <2>1, <2>2, <3>1, <3>5 DEF Loading!Next, Loading!Confirm
  <2> QED
    BY <2>1, <2>2 DEF LoadingKept
<1> QED
  BY <1>1, <1>2, <1>3, <1>4, <1>5, <1>6 DEF Next, MissionHandlerRuns, LimiterRuns

(* Bus, monitor, mission handler, limiter, ORVD and autopilot implement the  *)
(* abstract loading, through timeouts, late replies and refusals: no load     *)
(* that was given up is carried out while handleLoadMission's ok stands.     *)
THEOREM LoadingImplemented == Spec => ImplementsLoading
<1>1. IInv /\ OrderInv /\ [Next]_vars => IInv' /\ OrderInv'
  BY NextInv, NextOrder
<1>2. Init => IInv /\ OrderInv /\ Loading!Init
  BY InitInv, InitOrder DEF Init, Loading!Init
<1>3. IInv /\ OrderInv /\ [Next]_vars => [Loading!Next]_(Loading!lvars)
  BY LoadingStep DEF LoadingKept, Loading!lvars
<1> QED
  BY <1>1, <1>2, <1>3, PTL DEF Spec, ImplementsLoading, Loading!Spec

=============================================================================
