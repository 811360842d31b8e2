-------------------------- MODULE AmqpRouting_proofs --------------------------
(***************************************************************************)
(* Theorems of AmqpRouting, for any messages, ids and faults of the        *)
(* connection; the last ones are about connections that fail as a whole.   *)
(***************************************************************************)
EXTENDS AmqpRouting, AmqpLink_proofs

USE BoundsAssumption, FaultAssumption

HasRoute == {m \in Addressed : KindOf[m] \in HasId}

LEMMA RouteFacts ==
  /\ NoRoute \notin Messages /\ HasRoute \subseteq Messages /\ NoRoute \notin HasRoute
  /\ \A m \in Messages : IdOf[m] \in Ids /\ (KeepsRoute(m) => m \in HasRoute)
  BY RoutingAssumption DEF HasRoute, KeepsRoute

-----------------------------------------------------------------------------
(***************************************************************************)
(* The types, variable by variable.                                        *)
(***************************************************************************)

\* The messages, apart from the two flags and the connection.
MessagesType ==
  /\ phase \in [Messages -> Phases]
  /\ routes \in [Ids -> HasRoute \union {NoRoute}]
  /\ age \in [Ids -> 0 .. MessageTTL + 1]
  /\ replies \in SUBSET (Messages \X Messages)
  /\ badTags \in SUBSET Dials

RoutingType == TypeOK /\ MessagesType

FlagType == crashed \in BOOLEAN

LEMMA RoutingTypeParts == RoutingTypeOK <=> MessagesType /\ FlagType
  BY Zenon DEF RoutingTypeOK, MessagesType, HasRoute, FlagType

LEMMA SetPhaseType ==
  ASSUME MessagesType, NEW m \in Messages, NEW p \in Phases, SetPhase(m, p)
  PROVE  /\ phase' \in [Messages -> Phases] /\ phase'[m] = p
         /\ \A n \in Messages \ {m} : phase'[n] = phase[n]
  BY DEF MessagesType, SetPhase

LEMMA StoreRouteType ==
  ASSUME MessagesType, NEW m \in Messages, StoreRoute(m)
  PROVE  /\ routes' \in [Ids -> HasRoute \union {NoRoute}]
         /\ age' \in [Ids -> 0 .. MessageTTL + 1]
         /\ \A i \in Ids : \/ routes'[i] = routes[i]
                           \/ routes'[i] = m /\ i = IdOf[m] /\ m \in HasRoute
<1>1. routes \in [Ids -> HasRoute \union {NoRoute}] /\ age \in [Ids -> 0 .. MessageTTL + 1]
  BY DEF MessagesType
<1>2. IdOf[m] \in Ids /\ (KeepsRoute(m) => m \in HasRoute) /\ 0 \in 0 .. MessageTTL + 1
  BY RouteFacts, RoutingAssumption
<1>3. CASE KeepsRoute(m)
  <2>1. routes' = [routes EXCEPT ![IdOf[m]] = m] /\ age' = [age EXCEPT ![IdOf[m]] = 0]
    BY <1>3 DEF StoreRoute
  <2> QED BY <1>1, <1>2, <1>3, <2>1
<1>4. CASE ~KeepsRoute(m)
  BY <1>1, <1>4 DEF StoreRoute
<1> QED BY <1>3, <1>4

LEMMA RemoveRoutesType ==
  ASSUME MessagesType, NEW I, RemoveRoutes(I)
  PROVE  /\ routes' \in [Ids -> HasRoute \union {NoRoute}]
         /\ age' \in [Ids -> 0 .. MessageTTL + 1]
         /\ \A i \in Ids : routes'[i] = IF i \in I THEN NoRoute ELSE routes[i]
<1>1. 0 \in 0 .. MessageTTL + 1
  BY RoutingAssumption
<1> QED BY <1>1 DEF RemoveRoutes, MessagesType

LEMMA SettleType ==
  ASSUME RoutingType, NEW c, SettleDelivery(c)
  PROVE  badTags' \in SUBSET Dials
<1>1. CanUse(channel) => channel \in Dials
  BY DEF CanUse, RoutingType, TypeOK, NullOr, Dials
<1> QED BY <1>1 DEF SettleDelivery, RoutingType, MessagesType

\* Every step leaves a message where it is or moves it on; queued messages go
\* with their queue.
QueuedAreLost ==
  phase' = IF QueueGone
             THEN [m \in Messages |-> IF phase[m] = "queued" THEN "lost" ELSE phase[m]]
             ELSE phase

LEMMA LostType ==
  ASSUME MessagesType, QueuedAreLost
  PROVE  /\ phase' \in [Messages -> Phases]
         /\ \A m \in Messages : phase'[m] = phase[m] \/ (phase[m] = "queued" /\ phase'[m] = "lost")
  BY DEF QueuedAreLost, MessagesType, Phases

\* A channel closed for a bad tag.
LEMMA TagStepType ==
  ASSUME TypeOK, NEW c \in Dials, BadTagClosesChannel(c)
  PROVE  TypeOK'
<1>1. ChannelClosed(c) /\ faults' = faults
  BY Zenon DEF BadTagClosesChannel
<1> QED BY <1>1, EventType, CloseAwaitLostType, RejectDialsType, BrokerType
  DEF ChannelClosed, TypeOK

LEMMA VarsUnchangedType == ASSUME TypeOK, UNCHANGED vars PROVE TypeOK'
  BY NextType

LEMMA InitRouting == RoutingInit => RoutingType /\ FlagType
<1> SUFFICES ASSUME RoutingInit PROVE RoutingType /\ FlagType
  OBVIOUS
<1>1. TypeOK
  BY InitType DEF RoutingInit
<1>2. MessagesType
  BY RoutingAssumption DEF RoutingInit, MessagesType, Phases
<1>3. FlagType
  BY Zenon DEF RoutingInit, FlagType
<1> QED BY <1>1, <1>2, <1>3 DEF RoutingType

\* What a step on message m does to the messages.
LEMMA MessageStepType ==
  ASSUME RoutingType, NEW m \in Messages, MessageStep(m)
  PROVE  RoutingType'
<1>1. TypeOK' /\ MessagesType
  <2>1. UNCHANGED vars
    BY Zenon DEF MessageStep, ClientPublishes, Broadcast, Deliver, Answer, Cancel
  <2> QED BY <2>1, VarsUnchangedType DEF RoutingType
<1>2. /\ phase \in [Messages -> Phases] /\ routes \in [Ids -> HasRoute \union {NoRoute}]
      /\ age \in [Ids -> 0 .. MessageTTL + 1] /\ replies \in SUBSET (Messages \X Messages)
      /\ badTags \in SUBSET Dials
  BY <1>1 DEF MessagesType
<1>3. phase' \in [Messages -> Phases]
  <2>1. \E p \in Phases : SetPhase(m, p)
    BY DEF MessageStep, ClientPublishes, Broadcast, Route, Deliver, Accept, Answer, Cancel, Phases
  <2> QED BY <1>1, <2>1, SetPhaseType
<1>4. CASE ClientPublishes(m) \/ Broadcast(m) \/ Cancel(m)
  <2>1. UNCHANGED <<routes, age, replies, badTags>>
    BY <1>4, Zenon DEF ClientPublishes, Broadcast, Cancel
  <2> QED BY <1>1, <1>2, <1>3, <2>1 DEF RoutingType, MessagesType
<1>5. ASSUME NEW c \in Dials, Deliver(m, c) PROVE RoutingType'
  <2>1. replies' = replies
    BY <1>5 DEF Deliver
  <2>2. StoreRoute(m) \/ UNCHANGED <<routes, age>>
    BY <1>5, Zenon DEF Deliver, Accept
  <2>3. SettleDelivery(c) \/ badTags' = badTags
    BY <1>5, Zenon DEF Deliver
  <2>4. routes' \in [Ids -> HasRoute \union {NoRoute}] /\ age' \in [Ids -> 0 .. MessageTTL + 1]
    BY <1>1, <1>2, <2>2, StoreRouteType
  <2>5. badTags' \in SUBSET Dials
    BY <1>2, <2>3, SettleType
  <2> QED BY <1>1, <1>2, <1>3, <2>1, <2>4, <2>5 DEF RoutingType, MessagesType
<1>6. CASE Answer(m)
  <2>1. badTags' = badTags
    BY <1>6, Zenon DEF Answer
  <2>2. RemoveRoutes(AnsweredRoutes(m)) \/ UNCHANGED <<routes, age>>
    BY <1>6, Zenon DEF Answer
  <2>3. routes' \in [Ids -> HasRoute \union {NoRoute}] /\ age' \in [Ids -> 0 .. MessageTTL + 1]
    BY <1>1, <1>2, <2>2, RemoveRoutesType
  <2>4. \/ replies' = replies
        \/ routes[IdOf[m]] # NoRoute /\ replies' = replies \union {<<m, routes[IdOf[m]]>>}
    BY <1>6, Zenon DEF Answer
  <2>5. replies' \in SUBSET (Messages \X Messages)
    BY <1>2, <2>4, RouteFacts
  <2> QED BY <1>1, <1>2, <1>3, <2>1, <2>3, <2>5 DEF RoutingType, MessagesType
<1> QED BY <1>4, <1>5, <1>6, Zenon DEF MessageStep

LEMMA NextRouting ==
  ASSUME RoutingType, [RoutingNext]_<<vars, routingVars>>
  PROVE  RoutingType'
<1>1. /\ phase \in [Messages -> Phases] /\ routes \in [Ids -> HasRoute \union {NoRoute}]
      /\ age \in [Ids -> 0 .. MessageTTL + 1] /\ replies \in SUBSET (Messages \X Messages)
      /\ badTags \in SUBSET Dials /\ TypeOK /\ MessagesType
  BY DEF RoutingType, MessagesType
<1>2. CASE LinkStep
  <2>1. Next /\ QueuedAreLost /\ UNCHANGED <<routes, age, replies, badTags>>
    BY <1>2, Zenon DEF LinkStep, QueuedAreLost
  <2>2. TypeOK'
    BY <1>1, <2>1, NextType
  <2> QED BY <1>1, <2>1, <2>2, LostType DEF RoutingType, MessagesType
<1>3. CASE TagStep
  <2>1. PICK c \in Dials : BadTagClosesChannel(c)
    BY <1>3, Zenon DEF TagStep
  <2>2. QueuedAreLost
    BY <1>3, Zenon DEF TagStep, QueuedAreLost
  <2>3. badTags' = badTags \ {c} /\ UNCHANGED <<routes, age, replies>>
    BY <2>1, Zenon DEF BadTagClosesChannel
  <2>4. TypeOK'
    BY <1>1, <2>1, TagStepType
  <2> QED BY <1>1, <2>2, <2>3, <2>4, LostType DEF RoutingType, MessagesType
<1>4. CASE Tick
  <2>1. /\ age' = [i \in Ids |-> IF i \in Stored /\ age[i] <= MessageTTL
                                   THEN age[i] + 1 ELSE age[i]]
        /\ UNCHANGED <<vars, phase, routes, replies, badTags>>
    BY <1>4, Zenon DEF Tick
  <2>2. age' \in [Ids -> 0 .. MessageTTL + 1]
    BY <1>1, <2>1, RoutingAssumption
  <2>3. TypeOK'
    BY <1>1, <2>1, VarsUnchangedType
  <2> QED BY <1>1, <2>1, <2>2, <2>3 DEF RoutingType, MessagesType
<1>5. CASE Cleanup
  <2>1. RemoveRoutes(Expired) /\ UNCHANGED <<vars, phase, replies, badTags>>
    BY <1>5, Zenon DEF Cleanup
  <2>2. TypeOK'
    BY <1>1, <2>1, VarsUnchangedType
  <2> QED BY <1>1, <2>1, <2>2, RemoveRoutesType DEF RoutingType, MessagesType
<1>6. ASSUME NEW m \in Messages, MessageStep(m) PROVE RoutingType'
  BY <1>6, MessageStepType
<1>7. CASE UNCHANGED <<vars, routingVars>>
  <2>1. UNCHANGED <<vars, phase, routes, age, replies, badTags>>
    BY <1>7, Zenon DEF routingVars
  <2>2. TypeOK'
    BY <1>1, <2>1, VarsUnchangedType
  <2> QED BY <1>1, <2>1, <2>2 DEF RoutingType, MessagesType
<1> QED BY <1>2, <1>3, <1>4, <1>5, <1>6, <1>7, Zenon DEF RoutingNext

\* The one flag of the messages, apart from the other variables.
LEMMA CrashedType ==
  ASSUME FlagType, [RoutingNext]_<<vars, routingVars>>
  PROVE  FlagType'
<1>1. crashed' = crashed \/ crashed' = TRUE
  <2>1. ASSUME NEW m \in Messages, MessageStep(m) PROVE crashed' = crashed \/ crashed' = TRUE
    BY <2>1, Zenon
    DEF MessageStep, ClientPublishes, Broadcast, Deliver, SettleDelivery, Answer, Cancel
  <2>2. LinkStep \/ TagStep \/ Tick \/ Cleanup => crashed' = crashed
    BY Zenon DEF LinkStep, TagStep, BadTagClosesChannel, Tick, Cleanup
  <2>3. UNCHANGED <<vars, routingVars>> => crashed' = crashed
    BY Zenon DEF routingVars
  <2> QED BY <2>1, <2>2, <2>3, Zenon DEF RoutingNext
<1> QED BY <1>1, Zenon DEF FlagType

\* Types for every message mix: routing information is only ever kept of messages
\* that can be answered, and channels with a bad tag are channels of dials.
THEOREM RoutingTypeCorrect == RoutingSpec => []RoutingTypeOK
<1>1. RoutingInit => RoutingType /\ FlagType
  BY InitRouting
<1>2. RoutingType /\ FlagType /\ [RoutingNext]_<<vars, routingVars>>
        => RoutingType' /\ FlagType'
  BY NextRouting, CrashedType
<1>3. RoutingType /\ FlagType => RoutingTypeOK
  BY RoutingTypeParts, Zenon DEF RoutingType
<1> QED BY <1>1, <1>2, <1>3, PTL DEF RoutingSpec

-----------------------------------------------------------------------------
(***************************************************************************)
(* Answers.  A route in the store is of a delivered message and under that *)
(* message's own id; one that was used is gone for good, since a message   *)
(* is delivered once.                                                      *)
(***************************************************************************)

Delivered(m) == phase[m] \notin {"new", "queued"}

RoutesKnown ==
  \A i \in Ids : routes[i] # NoRoute => IdOf[routes[i]] = i /\ Delivered(routes[i])

UsedAreGone ==
  \A x \in replies : Delivered(x[2]) /\ \A i \in Ids : routes[i] # x[2]

RepliesAreAnswers == \A x \in replies : phase[x[1]] = "answered"

AnswersInv ==
  RoutingType /\ RoutesKnown /\ UsedAreGone /\ RepliesAreAnswers /\ AtMostOneReply

LEMMA DeliveredStays ==
  ASSUME RoutingType, [RoutingNext]_<<vars, routingVars>>, NEW n \in Messages, Delivered(n)
  PROVE  Delivered(n)'
<1>1. phase \in [Messages -> Phases] /\ MessagesType
  BY DEF RoutingType, MessagesType
<1>2. CASE LinkStep \/ TagStep
  <2>1. QueuedAreLost
    BY <1>2, Zenon DEF LinkStep, TagStep, QueuedAreLost
  <2> QED BY <1>1, <2>1, LostType DEF Delivered
<1>3. CASE Tick \/ Cleanup \/ UNCHANGED <<vars, routingVars>>
  BY <1>3 DEF Tick, Cleanup, routingVars, Delivered
<1>4. ASSUME NEW m \in Messages, MessageStep(m) PROVE Delivered(n)'
  <2>1. PICK p \in Phases : /\ SetPhase(m, p)
                            /\ Delivered(m) => p \notin {"new", "queued"}
    BY <1>4 DEF MessageStep, ClientPublishes, Broadcast, Route, Deliver, Accept, Answer, Cancel,
                Phases, Delivered
  <2> QED BY <1>1, <2>1, SetPhaseType DEF Delivered
<1> QED BY <1>2, <1>3, <1>4, Zenon DEF RoutingNext

\* A request that was answered is not answered again.
LEMMA AnsweredStays ==
  ASSUME RoutingType, [RoutingNext]_<<vars, routingVars>>, NEW n \in Messages,
         phase[n] = "answered"
  PROVE  phase'[n] = "answered"
<1>1. phase \in [Messages -> Phases] /\ MessagesType
  BY DEF RoutingType, MessagesType
<1>2. CASE LinkStep \/ TagStep
  <2>1. QueuedAreLost
    BY <1>2, Zenon DEF LinkStep, TagStep, QueuedAreLost
  <2> QED BY <1>1, <2>1, LostType
<1>3. CASE Tick \/ Cleanup \/ UNCHANGED <<vars, routingVars>>
  BY <1>3 DEF Tick, Cleanup, routingVars
<1>4. ASSUME NEW m \in Messages, MessageStep(m) PROVE phase'[n] = "answered"
  <2>1. PICK p \in Phases : SetPhase(m, p) /\ phase[m] # "answered"
    BY <1>4 DEF MessageStep, ClientPublishes, Broadcast, Route, Deliver, Accept, Answer, Cancel,
                Phases
  <2> QED BY <1>1, <2>1, SetPhaseType
<1> QED BY <1>2, <1>3, <1>4, Zenon DEF RoutingNext

LEMMA SameReplies ==
  ASSUME AnswersInv, [RoutingNext]_<<vars, routingVars>>, replies' = replies
  PROVE  RepliesAreAnswers' /\ AtMostOneReply'
<1>1. replies \in SUBSET (Messages \X Messages) /\ RoutingType
  BY DEF AnswersInv, RoutingType, MessagesType
<1>2. RepliesAreAnswers'
  BY <1>1, AnsweredStays DEF AnswersInv, RepliesAreAnswers
<1>3. AtMostOneReply'
  BY Zenon DEF AnswersInv, AtMostOneReply
<1> QED BY <1>2, <1>3

LEMMA AnswersSame ==
  ASSUME AnswersInv, [RoutingNext]_<<vars, routingVars>>, routes' = routes, replies' = replies
  PROVE  RoutesKnown' /\ UsedAreGone' /\ RepliesAreAnswers' /\ AtMostOneReply'
<1>1. /\ routes \in [Ids -> HasRoute \union {NoRoute}] /\ replies \in SUBSET (Messages \X Messages)
      /\ RoutingType
  BY DEF AnswersInv, RoutingType, MessagesType
<1>2. RoutesKnown'
  BY <1>1, RouteFacts, DeliveredStays DEF AnswersInv, RoutesKnown
<1>3. UsedAreGone'
  BY <1>1, DeliveredStays DEF AnswersInv, UsedAreGone
<1> QED BY <1>2, <1>3, SameReplies

\* Routes that go take nothing with them.
LEMMA RoutesRemoved ==
  ASSUME AnswersInv, [RoutingNext]_<<vars, routingVars>>, NEW I, RemoveRoutes(I), replies' = replies
  PROVE  RoutesKnown' /\ UsedAreGone' /\ RepliesAreAnswers' /\ AtMostOneReply'
<1>1. /\ routes \in [Ids -> HasRoute \union {NoRoute}] /\ replies \in SUBSET (Messages \X Messages)
      /\ RoutingType /\ MessagesType
  BY DEF AnswersInv, RoutingType, MessagesType
<1>2. \A i \in Ids : routes'[i] = IF i \in I THEN NoRoute ELSE routes[i]
  BY <1>1, RemoveRoutesType
<1>3. RoutesKnown'
  BY <1>1, <1>2, RouteFacts, DeliveredStays DEF AnswersInv, RoutesKnown
<1>4. UsedAreGone'
  BY <1>1, <1>2, RouteFacts, DeliveredStays DEF AnswersInv, UsedAreGone
<1> QED BY <1>3, <1>4, SameReplies

LEMMA DeliverAnswers ==
  ASSUME AnswersInv, NEW m \in Messages, NEW c \in Dials, Deliver(m, c), ~crashed,
         [RoutingNext]_<<vars, routingVars>>
  PROVE  RoutesKnown' /\ UsedAreGone' /\ RepliesAreAnswers' /\ AtMostOneReply'
<1>1. /\ routes \in [Ids -> HasRoute \union {NoRoute}] /\ replies \in SUBSET (Messages \X Messages)
      /\ RoutingType /\ MessagesType
  BY DEF AnswersInv, RoutingType, MessagesType
<1>2. replies' = replies /\ phase[m] = "queued"
  BY Zenon DEF Deliver
<1>3. CASE UNCHANGED <<routes, age>>
  BY <1>2, <1>3, AnswersSame
<1>4. CASE Accept(m)
  <2>1. \A i \in Ids : routes'[i] = routes[i] \/ (routes'[i] = m /\ i = IdOf[m])
    BY <1>1, <1>4, StoreRouteType DEF Accept
  <2>2. ~Delivered(m) /\ Delivered(m)'
    <3>1. PICK p \in {"handling", "consumed"} : SetPhase(m, p)
      BY <1>4 DEF Accept
    <3>2. p \in Phases
      BY DEF Phases
    <3> QED BY <1>1, <1>2, <3>1, <3>2, SetPhaseType DEF Delivered
  <2>3. RoutesKnown'
    <3> SUFFICES ASSUME NEW i \in Ids, routes'[i] # NoRoute
                 PROVE  IdOf[routes'[i]] = i /\ phase'[routes'[i]] \notin {"new", "queued"}
      BY Zenon DEF RoutesKnown, Delivered
    <3>1. CASE routes'[i] = routes[i]
      <4>1. routes[i] \in Messages /\ IdOf[routes[i]] = i /\ Delivered(routes[i])
        BY <1>1, <3>1, RouteFacts DEF AnswersInv, RoutesKnown
      <4>2. PICK k \in Messages : k = routes[i]
        BY <4>1
      <4>3. Delivered(k)'
        BY <1>1, <4>1, <4>2, DeliveredStays
      <4> QED BY <3>1, <4>1, <4>2, <4>3 DEF Delivered
    <3>2. CASE routes'[i] = m /\ i = IdOf[m]
      BY <2>2, <3>2 DEF Delivered
    <3> QED BY <2>1, <3>1, <3>2
  <2>4. UsedAreGone'
    BY <1>1, <1>2, <2>1, <2>2, DeliveredStays DEF AnswersInv, UsedAreGone
  <2> QED BY <1>2, <2>3, <2>4, SameReplies
<1> QED BY <1>3, <1>4, Zenon DEF Deliver

LEMMA AnswerAnswers ==
  ASSUME AnswersInv, NEW m \in Messages, Answer(m), ~crashed,
         [RoutingNext]_<<vars, routingVars>>
  PROVE  RoutesKnown' /\ UsedAreGone' /\ RepliesAreAnswers' /\ AtMostOneReply'
<1>1. /\ routes \in [Ids -> HasRoute \union {NoRoute}] /\ replies \in SUBSET (Messages \X Messages)
      /\ RoutingType /\ MessagesType
  BY DEF AnswersInv, RoutingType, MessagesType
<1>2. CASE UNCHANGED <<routes, age, replies>>
  BY <1>2, AnswersSame
<1>3. CASE RemoveRoutes({IdOf[m]}) /\ replies' = replies
  BY <1>3, RoutesRemoved
<1>4. CASE /\ routes[IdOf[m]] # NoRoute /\ RemoveRoutes({IdOf[m]})
           /\ replies' = replies \union {<<m, routes[IdOf[m]]>>}
           /\ phase[m] = "handling" /\ SetPhase(m, "answered")
  <2>1. PICK r \in Messages : r = routes[IdOf[m]]
    BY <1>1, <1>4, RouteFacts
  <2>2. IdOf[r] = IdOf[m] /\ Delivered(r)
    BY <1>4, <2>1, RouteFacts DEF AnswersInv, RoutesKnown
  <2>3. \A i \in Ids : routes'[i] = IF i = IdOf[m] THEN NoRoute ELSE routes[i]
    BY <1>1, <1>4, RemoveRoutesType
  <2>4. replies' = replies \union {<<m, r>>}
    BY <1>4, <2>1
  <2>5. \A i \in Ids : routes'[i] # r
    BY <1>1, <2>2, <2>3, RouteFacts DEF AnswersInv, RoutesKnown
  <2>6. \A x \in replies : x[2] # r
    BY <2>1, RouteFacts DEF AnswersInv, UsedAreGone
  <2>7. RoutesKnown'
    BY <1>1, <2>3, RouteFacts, DeliveredStays DEF AnswersInv, RoutesKnown
  <2>8. UsedAreGone'
    <3>1. \A x \in replies : Delivered(x[2])' /\ \A i \in Ids : routes'[i] # x[2]
      BY <1>1, <2>3, RouteFacts, DeliveredStays DEF AnswersInv, UsedAreGone
    <3>2. Delivered(r)'
      BY <1>1, <2>2, DeliveredStays
    <3> QED BY <2>4, <2>5, <3>1, <3>2 DEF UsedAreGone, Delivered
  <2>9. RepliesAreAnswers'
    <3>1. \A x \in replies : phase'[x[1]] = "answered"
      BY <1>1, AnsweredStays DEF AnswersInv, RepliesAreAnswers
    <3>2. phase'[m] = "answered"
      BY <1>1, <1>4 DEF SetPhase, RoutingType, MessagesType
    <3> QED BY <2>4, <3>1, <3>2 DEF RepliesAreAnswers
  <2>10. AtMostOneReply'
    <3>1. \A x \in replies : x[1] # m
      BY <1>4 DEF AnswersInv, RepliesAreAnswers
    <3> QED BY <2>4, <2>6, <3>1 DEF AnswersInv, AtMostOneReply
  <2> QED BY <2>7, <2>8, <2>9, <2>10
<1> QED BY <1>2, <1>3, <1>4, Zenon DEF Answer, AnsweredRoutes

LEMMA InitAnswers == RoutingInit => AnswersInv
<1> SUFFICES ASSUME RoutingInit PROVE AnswersInv
  OBVIOUS
<1>1. RoutesKnown /\ UsedAreGone /\ RepliesAreAnswers /\ AtMostOneReply
  BY DEF RoutingInit, RoutesKnown, UsedAreGone, RepliesAreAnswers, AtMostOneReply
<1> QED BY <1>1, InitRouting DEF AnswersInv

LEMMA NextAnswers == AnswersInv /\ [RoutingNext]_<<vars, routingVars>> => AnswersInv'
<1> SUFFICES ASSUME AnswersInv, [RoutingNext]_<<vars, routingVars>> PROVE AnswersInv'
  OBVIOUS
<1>1. RoutingType'
  BY NextRouting DEF AnswersInv
<1>2. CASE LinkStep \/ TagStep \/ Tick \/ UNCHANGED <<vars, routingVars>>
  <2>1. routes' = routes /\ replies' = replies
    BY <1>2, Zenon DEF LinkStep, TagStep, BadTagClosesChannel, Tick, routingVars
  <2> QED BY <1>1, <2>1, AnswersSame, Zenon DEF AnswersInv
<1>3. CASE Cleanup
  <2>1. RemoveRoutes(Expired) /\ replies' = replies
    BY <1>3, Zenon DEF Cleanup
  <2> QED BY <1>1, <2>1, RoutesRemoved, Zenon DEF AnswersInv
<1>4. ASSUME NEW m \in Messages, MessageStep(m), ~crashed PROVE AnswersInv'
  <2>1. CASE ClientPublishes(m) \/ Broadcast(m) \/ Cancel(m)
    <3>1. routes' = routes /\ replies' = replies
      BY <2>1, Zenon DEF ClientPublishes, Broadcast, Cancel
    <3> QED BY <1>1, <3>1, AnswersSame, Zenon DEF AnswersInv
  <2>2. ASSUME NEW c \in Dials, Deliver(m, c) PROVE AnswersInv'
    BY <1>1, <1>4, <2>2, DeliverAnswers, Zenon DEF AnswersInv
  <2>3. CASE Answer(m)
    BY <1>1, <1>4, <2>3, AnswerAnswers, Zenon DEF AnswersInv
  <2> QED BY <1>4, <2>1, <2>2, <2>3, Zenon DEF MessageStep
<1> QED BY <1>2, <1>3, <1>4, Zenon DEF RoutingNext

\* Nobody gets two answers to one request, whatever ids the clients use, and
\* whatever fails.
THEOREM AtMostOneReplyHolds == RoutingSpec => []AtMostOneReply
<1>1. AnswersInv => AtMostOneReply
  BY DEF AnswersInv
<1> QED BY <1>1, InitAnswers, NextAnswers, PTL DEF RoutingSpec

\* Routing information leaves the store only when its message is answered, and the
\* send() may be in vain, or when it has outlived the message TTL.
THEOREM RoutesLastHolds == RoutingSpec => RoutesLast
<1> DEFINE Lasts ==
      \A i \in Ids :
        (routes[i] # NoRoute /\ routes'[i] = NoRoute)
          => \/ age[i] > MessageTTL
             \/ \E m \in Messages : IdOf[m] = i /\ phase[m] = "handling" /\ phase'[m] # "handling"
<1>1. RoutingType /\ [RoutingNext]_<<vars, routingVars>> => [Lasts]_<<vars, routingVars>>
  <2> SUFFICES ASSUME RoutingType, RoutingNext PROVE Lasts
    BY Zenon
  <2>1. MessagesType
    BY DEF RoutingType
  <2>2. CASE routes' = routes
    BY <2>2
  <2>3. CASE Cleanup
    <3>1. RemoveRoutes(Expired)
      BY <2>3, Zenon DEF Cleanup
    <3> QED BY <2>1, <3>1, RemoveRoutesType DEF Expired
  <2>4. ASSUME NEW m \in Messages, NEW c \in Dials, Deliver(m, c), routes' # routes PROVE Lasts
    <3>1. StoreRoute(m)
      BY <2>4, Zenon DEF Deliver, Accept
    <3>2. \A i \in Ids : routes'[i] = routes[i] \/ routes'[i] = m
      BY <2>1, <3>1, StoreRouteType
    <3> QED BY <3>2, RouteFacts
  <2>5. ASSUME NEW m \in Messages, Answer(m), routes' # routes PROVE Lasts
    <3>1. /\ RemoveRoutes({IdOf[m]}) /\ phase[m] = "handling"
          /\ SetPhase(m, "answered") \/ SetPhase(m, "unanswered")
      BY <2>5, Zenon DEF Answer, AnsweredRoutes
    <3>2. phase'[m] # "handling"
      BY <2>1, <3>1, SetPhaseType DEF Phases
    <3>3. \A i \in Ids : routes'[i] = IF i \in {IdOf[m]} THEN NoRoute ELSE routes[i]
      BY <2>1, <3>1, RemoveRoutesType
    <3> QED BY <3>1, <3>2, <3>3
  <2>6. LinkStep \/ TagStep \/ Tick => routes' = routes
    BY Zenon DEF LinkStep, TagStep, BadTagClosesChannel, Tick
  <2>7. \A m \in Messages : ClientPublishes(m) \/ Broadcast(m) \/ Cancel(m) => routes' = routes
    BY Zenon DEF ClientPublishes, Broadcast, Cancel
  <2> QED BY <2>2, <2>3, <2>4, <2>5, <2>6, <2>7, Zenon DEF RoutingNext, MessageStep
<1>2. RoutingSpec => []RoutingType
  <2>1. RoutingInit => RoutingType
    BY InitRouting
  <2>2. RoutingType /\ [RoutingNext]_<<vars, routingVars>> => RoutingType'
    BY NextRouting
  <2> QED BY <2>1, <2>2, PTL DEF RoutingSpec
<1> QED BY <1>1, <1>2, PTL DEF RoutingSpec, RoutesLast

-----------------------------------------------------------------------------
(***************************************************************************)
(* Answers reach those who asked, as long as ids are used in turn; then    *)
(* the entry under the id of a request being handled is its own, or none.  *)
(***************************************************************************)

DistinctIds ==
  \A m, n \in Messages :
    KindOf[m] \in HasId /\ KindOf[n] \in HasId /\ IdOf[m] = IdOf[n] => m = n

\* Only requests are handled.
HandlesRequests == \A m \in Messages : phase[m] = "handling" => KindOf[m] = "request"

LEMMA NextHandles ==
  ASSUME RoutingType, HandlesRequests, [RoutingNext]_<<vars, routingVars>>
  PROVE  HandlesRequests'
<1>1. MessagesType
  BY DEF RoutingType
<1>2. CASE LinkStep \/ TagStep
  <2>1. QueuedAreLost
    BY <1>2, Zenon DEF LinkStep, TagStep, QueuedAreLost
  <2> QED BY <1>1, <2>1, LostType DEF HandlesRequests
<1>3. CASE Tick \/ Cleanup \/ UNCHANGED <<vars, routingVars>>
  BY <1>3 DEF Tick, Cleanup, routingVars, HandlesRequests
<1>4. ASSUME NEW m \in Messages, MessageStep(m) PROVE HandlesRequests'
  <2>1. PICK p \in Phases : SetPhase(m, p) /\ (p = "handling" => KindOf[m] = "request")
    BY <1>4
    DEF MessageStep, ClientPublishes, Broadcast, Route, Deliver, Accept, Answer, Cancel, Phases
  <2> QED BY <1>1, <2>1, SetPhaseType DEF HandlesRequests
<1> QED BY <1>2, <1>3, <1>4, Zenon DEF RoutingNext

RouteIsOwn(m) ==
  phase[m] = "handling" =>
    \/ routes[IdOf[m]] = NoRoute
    \/ routes[IdOf[m]] = m /\ m \in Addressed

RoutesAreOwn == \A m \in Messages : RouteIsOwn(m)

LEMMA AcceptOwn ==
  ASSUME RoutingType, RoutesAreOwn, InTurn, NEW m \in Messages, phase[m] = "queued", Accept(m)
  PROVE  RoutesAreOwn'
<1>1. MessagesType /\ phase \in [Messages -> Phases] /\ routes \in [Ids -> HasRoute \union {NoRoute}]
  BY DEF RoutingType, MessagesType
<1>2. PICK p \in {"handling", "consumed"} :
        SetPhase(m, p) /\ (p = "handling" => KindOf[m] = "request")
  BY DEF Accept
<1>3. p \in Phases
  BY DEF Phases
<1>4. \A n \in Messages : phase'[n] = IF n = m THEN p ELSE phase[n]
  BY <1>1, <1>2, <1>3, SetPhaseType
<1>5. ComesInTurn(m)
  BY <1>2, <1>4 DEF InTurn
<1>6. CASE KeepsRoute(m)
  <2>1. /\ routes' = [routes EXCEPT ![IdOf[m]] = m] /\ m \in Addressed
        /\ \A n \in Messages : phase[n] = "handling" => IdOf[n] # IdOf[m]
    BY <1>5, <1>6, Zenon DEF Accept, StoreRoute, KeepsRoute, ComesInTurn
  <2>2. \A i \in Ids : routes'[i] = IF i = IdOf[m] THEN m ELSE routes[i]
    BY <1>1, <2>1
  <2> QED BY <1>4, <2>1, <2>2, RouteFacts DEF RoutesAreOwn, RouteIsOwn
<1>7. CASE ~KeepsRoute(m)
  <2>1. routes' = routes
    BY <1>7, Zenon DEF Accept, StoreRoute
  <2>2. p = "handling" => routes[IdOf[m]] = NoRoute
    BY <1>2, <1>5, <1>7 DEF KeepsRoute, ComesInTurn, HasId
  <2> QED BY <1>4, <2>1, <2>2 DEF RoutesAreOwn, RouteIsOwn
<1> QED BY <1>6, <1>7

\* Entries that go, and requests that are answered or given up, leave the others.
LEMMA FewerOwn ==
  ASSUME RoutesAreOwn,
         \A m \in Messages : phase'[m] = "handling" => phase[m] = "handling",
         \A i \in Ids : routes'[i] = routes[i] \/ routes'[i] = NoRoute
  PROVE  RoutesAreOwn'
  BY RouteFacts DEF RoutesAreOwn, RouteIsOwn

LEMMA NextOwn ==
  ASSUME RoutingType, RoutesAreOwn, [RoutingNext /\ InTurn]_<<vars, routingVars>>
  PROVE  RoutesAreOwn'
<1>1. MessagesType /\ phase \in [Messages -> Phases] /\ routes \in [Ids -> HasRoute \union {NoRoute}]
  BY DEF RoutingType, MessagesType
<1>2. CASE LinkStep \/ TagStep
  <2>1. QueuedAreLost /\ routes' = routes
    BY <1>2, Zenon DEF LinkStep, TagStep, BadTagClosesChannel, QueuedAreLost
  <2>2. \A m \in Messages : phase'[m] = "handling" => phase[m] = "handling"
    BY <1>1, <2>1, LostType
  <2> QED BY <2>1, <2>2, FewerOwn
<1>3. CASE Tick \/ UNCHANGED <<vars, routingVars>>
  <2>1. phase' = phase /\ routes' = routes
    BY <1>3, Zenon DEF Tick, routingVars
  <2> QED BY <2>1, FewerOwn
<1>4. CASE Cleanup
  <2>1. phase' = phase /\ RemoveRoutes(Expired)
    BY <1>4, Zenon DEF Cleanup
  <2>2. \A i \in Ids : routes'[i] = routes[i] \/ routes'[i] = NoRoute
    BY <1>1, <2>1, RemoveRoutesType
  <2> QED BY <2>1, <2>2, FewerOwn
<1>5. ASSUME NEW m \in Messages, MessageStep(m), InTurn PROVE RoutesAreOwn'
  <2>1. CASE ClientPublishes(m) \/ Broadcast(m) \/ Cancel(m)
    <3>1. routes' = routes /\ \E p \in Phases \ {"handling"} : SetPhase(m, p)
      BY <2>1 DEF ClientPublishes, Broadcast, Route, Cancel, Phases
    <3>2. \A n \in Messages : phase'[n] = "handling" => phase[n] = "handling"
      BY <1>1, <3>1, SetPhaseType
    <3> QED BY <3>1, <3>2, FewerOwn
  <2>2. ASSUME NEW c \in Dials, Deliver(m, c) PROVE RoutesAreOwn'
    <3>1. CASE Accept(m)
      BY <1>5, <2>2, <3>1, AcceptOwn DEF Deliver
    <3>2. CASE ~Accept(m)
      <4>1. routes' = routes /\ \E p \in Phases \ {"handling"} : SetPhase(m, p)
        BY <2>2, <3>2 DEF Deliver, Phases
      <4>2. \A n \in Messages : phase'[n] = "handling" => phase[n] = "handling"
        BY <1>1, <4>1, SetPhaseType
      <4> QED BY <4>1, <4>2, FewerOwn
    <3> QED BY <3>1, <3>2
  <2>3. CASE Answer(m)
    <3>1. /\ routes' = routes \/ RemoveRoutes({IdOf[m]})
          /\ \E p \in Phases \ {"handling"} : SetPhase(m, p)
      BY <2>3 DEF Answer, AnsweredRoutes, Phases
    <3>2. \A n \in Messages : phase'[n] = "handling" => phase[n] = "handling"
      BY <1>1, <3>1, SetPhaseType
    <3>3. \A i \in Ids : routes'[i] = routes[i] \/ routes'[i] = NoRoute
      BY <1>1, <3>1, RemoveRoutesType
    <3> QED BY <3>2, <3>3, FewerOwn
  <2> QED BY <1>5, <2>1, <2>2, <2>3, Zenon DEF MessageStep
<1> QED BY <1>2, <1>3, <1>4, <1>5, Zenon DEF RoutingNext

LEMMA NextReaches ==
  ASSUME RoutesAreOwn, RepliesReachAsker, [RoutingNext]_<<vars, routingVars>>
  PROVE  RepliesReachAsker'
<1>1. CASE replies' = replies
  BY <1>1, Zenon DEF RepliesReachAsker
<1>2. ASSUME NEW m \in Messages, Answer(m), replies' # replies PROVE RepliesReachAsker'
  <2>1. /\ phase[m] = "handling" /\ routes[IdOf[m]] # NoRoute
        /\ replies' = replies \union {<<m, routes[IdOf[m]]>>}
    BY <1>2, Zenon DEF Answer
  <2>2. routes[IdOf[m]] = m /\ m \in Addressed
    BY <2>1, Zenon DEF RoutesAreOwn, RouteIsOwn
  <2> QED BY <2>1, <2>2 DEF RepliesReachAsker
<1>3. \A m \in Messages : MessageStep(m) => Answer(m) \/ replies' = replies
  BY Zenon DEF MessageStep, ClientPublishes, Broadcast, Deliver, Cancel
<1>4. LinkStep \/ TagStep \/ Tick \/ Cleanup \/ UNCHANGED <<vars, routingVars>>
        => replies' = replies
  BY Zenon DEF LinkStep, TagStep, BadTagClosesChannel, Tick, Cleanup, routingVars
<1> QED BY <1>1, <1>2, <1>3, <1>4, Zenon DEF RoutingNext

\* The answer to a request goes to the queue that request named, and to nobody
\* else, as long as ids are used in turn: clients may count from the same number,
\* and use a number again, unless two requests under one id meet at the server.
\* Connections and channels may fail meanwhile, and entries expire.
THEOREM AnswersInTurn ==
  RoutingSpec /\ [][InTurn]_<<vars, routingVars>> => []RepliesReachAsker
<1> DEFINE OwnInv  == RoutingType /\ RoutesAreOwn /\ RepliesReachAsker
           Steps   == [RoutingNext]_<<vars, routingVars>>
           Turns   == [InTurn]_<<vars, routingVars>>
<1>1. RoutingInit => OwnInv
  <2>1. RoutingInit => RoutesAreOwn /\ RepliesReachAsker
    BY DEF RoutingInit, RoutesAreOwn, RouteIsOwn, RepliesReachAsker
  <2> QED BY <2>1, InitRouting
<1>2. OwnInv /\ Steps /\ Turns => OwnInv'
  <2> SUFFICES ASSUME OwnInv, Steps, Turns PROVE OwnInv'
    OBVIOUS
  <2>1. RoutingType'
    BY NextRouting
  <2>2. RoutesAreOwn'
    <3>1. [RoutingNext /\ InTurn]_<<vars, routingVars>>
      BY Zenon
    <3> QED BY <3>1, NextOwn
  <2>3. RepliesReachAsker'
    BY NextReaches
  <2> QED BY <2>1, <2>2, <2>3
<1> QED BY <1>1, <1>2, PTL DEF RoutingSpec

\* Ids that are never shared are used in turn.
LEMMA DistinctInTurn ==
  ASSUME DistinctIds, AnswersInv, HandlesRequests, [RoutingNext]_<<vars, routingVars>>
  PROVE  InTurn
<1> SUFFICES ASSUME NEW m \in Messages, phase[m] = "queued" PROVE ComesInTurn(m)
  BY DEF InTurn
<1>1. ASSUME KeepsRoute(m), NEW n \in Messages, phase[n] = "handling", IdOf[n] = IdOf[m]
      PROVE  FALSE
  <2>1. n = m
    BY <1>1 DEF DistinctIds, HandlesRequests, KeepsRoute, HasId
  <2> QED BY <1>1, <2>1
<1>2. ASSUME KindOf[m] = "request", routes[IdOf[m]] # NoRoute PROVE FALSE
  <2>1. PICK r \in HasRoute : r = routes[IdOf[m]]
    BY <1>2, RouteFacts DEF AnswersInv, RoutingType, MessagesType
  <2>2. IdOf[r] = IdOf[m] /\ Delivered(r)
    BY <1>2, <2>1, RouteFacts DEF AnswersInv, RoutesKnown
  <2>3. r = m
    BY <1>2, <2>1, <2>2, RouteFacts DEF DistinctIds, HasRoute, HasId
  <2> QED BY <2>2, <2>3 DEF Delivered
<1> QED BY <1>1, <1>2, Zenon DEF ComesInTurn

\* In particular answers reach those who asked if no two messages that await an
\* answer share a JSON-RPC id.
THEOREM RepliesReachAskerHolds ==
  ASSUME DistinctIds
  PROVE  RoutingSpec => []RepliesReachAsker
<1> DEFINE HandledInv == AnswersInv /\ HandlesRequests
<1>1. RoutingInit => HandledInv
  <2>1. RoutingInit => HandlesRequests
    BY DEF RoutingInit, HandlesRequests
  <2> QED BY <2>1, InitAnswers
<1>2. HandledInv /\ [RoutingNext]_<<vars, routingVars>> => HandledInv'
  BY NextAnswers, NextHandles DEF AnswersInv
<1>3. HandledInv /\ [RoutingNext]_<<vars, routingVars>> => [InTurn]_<<vars, routingVars>>
  BY DistinctInTurn
<1> QED BY <1>1, <1>2, <1>3, AnswersInTurn, PTL DEF RoutingSpec

-----------------------------------------------------------------------------
(***************************************************************************)
(* What AmqpTransport promises holds with messages too, although an        *)
(* acknowledgement can close a channel, and a step of the connection then  *)
(* comes that Next does not have.                                          *)
(***************************************************************************)

LEMMA TagFailure == ASSUME NEW c \in Dials, BadTagClosesChannel(c) PROVE Failure(c)
  BY Zenon DEF BadTagClosesChannel, CanUse, ChannelFails, Failure

LEMMA RoutingMoves ==
  ASSUME [RoutingNext]_<<vars, routingVars>>
  PROVE  [Next]_vars \/ \E c \in Dials : Failure(c)
<1>1. ASSUME NEW m \in Messages, MessageStep(m) PROVE UNCHANGED vars
  BY <1>1, Zenon DEF MessageStep, ClientPublishes, Broadcast, Deliver, Answer, Cancel
<1>2. LinkStep \/ Tick \/ Cleanup \/ UNCHANGED <<vars, routingVars>> => Next \/ UNCHANGED vars
  BY Zenon DEF LinkStep, Tick, Cleanup
<1>3. TagStep => \E c \in Dials : Failure(c)
  BY TagFailure, Zenon DEF TagStep
<1> QED BY <1>1, <1>2, <1>3, Zenon DEF RoutingNext

RoutingLinkInv == RoutingType /\ LinkInv

LEMMA NextRoutingLink == RoutingLinkInv /\ [RoutingNext]_<<vars, routingVars>> => RoutingLinkInv'
<1> SUFFICES ASSUME RoutingLinkInv, [RoutingNext]_<<vars, routingVars>> PROVE RoutingLinkInv'
  OBVIOUS
<1>1. RoutingType' /\ TypeOK'
  BY NextRouting DEF RoutingLinkInv, RoutingType
<1>2. LinkInv'
  BY <1>1, RoutingMoves, NextLink, FailureLink, Zenon DEF RoutingLinkInv
<1> QED BY <1>1, <1>2 DEF RoutingLinkInv

LEMMA RoutingLinkHolds == RoutingSpec => []RoutingLinkInv
<1>1. RoutingInit => RoutingLinkInv
  BY InitRouting, InitLink DEF RoutingInit, RoutingLinkInv
<1> QED BY <1>1, NextRoutingLink, PTL DEF RoutingSpec

\* A transport that serves messages is never stranded, whatever they do to its
\* channels.
THEOREM RoutingNeverStranded == RoutingSpec => []NeverStranded
<1>1. RoutingLinkInv => NeverStranded
  BY DEF RoutingLinkInv, LinkInv, SafetyInv
<1> QED BY <1>1, RoutingLinkHolds, PTL

\* Nor does a channel that an acknowledgement closed make a closed transport dial.
THEOREM RoutingNoReconnectAfterClose == RoutingSpec => NoReconnectAfterClose
<1>1. RoutingLinkInv /\ [RoutingNext]_<<vars, routingVars>>
        => [closing => ~reconnectTimer' /\ dials' = dials]_vars
  <2> SUFFICES ASSUME RoutingLinkInv, [RoutingNext]_<<vars, routingVars>>
               PROVE  [closing => ~reconnectTimer' /\ dials' = dials]_vars
    OBVIOUS
  <2>1. SafetyInv /\ TypeOK
    BY DEF RoutingLinkInv, LinkInv, SafetyInv
  <2>2. CASE [Next]_vars
    BY <2>1, <2>2, QuietStep
  <2>3. ASSUME NEW c \in Dials, Failure(c), closing PROVE ~reconnectTimer' /\ dials' = dials
    BY <2>1, <2>3, FailureStep, Zenon DEF SafetyInv, ClosedIsQuiet
  <2> QED BY <2>2, <2>3, RoutingMoves, Zenon
<1> QED BY <1>1, RoutingLinkHolds, PTL DEF RoutingSpec, NoReconnectAfterClose

\* The transport with its messages does to its owner what AmqpLink promises, which
\* is all the adapter relies on.
THEOREM RoutingImplementsLink == RoutingSpec => ImplementsLink
<1>1. RoutingInit => Link!Init
  BY Zenon DEF RoutingInit, Init, Link!Init, Link!FreshLink
<1>2. RoutingLinkInv /\ [RoutingNext]_<<vars, routingVars>> => LinkMove
  <2> SUFFICES ASSUME RoutingLinkInv, [RoutingNext]_<<vars, routingVars>> PROVE LinkMove
    OBVIOUS
  <2>1. LinkInv
    BY DEF RoutingLinkInv
  <2>2. CASE [Next]_vars
    BY <2>1, <2>2, StepMaps, MapsMove, Zenon
  <2>3. ASSUME NEW c \in Dials, Failure(c) PROVE LinkMove
    BY <2>1, <2>3, FailureStarted, FailureMaps, MapsMove, Zenon
  <2> QED BY <2>2, <2>3, RoutingMoves, Zenon
<1> QED BY <1>1, <1>2, RoutingLinkHolds, PTL DEF RoutingSpec, ImplementsLink, Link!Spec, LinkMove

-----------------------------------------------------------------------------
(***************************************************************************)
(* Connections that fail as a whole.  A channel then never closes but with *)
(* its connection or by close(), so that the fields hold the one           *)
(* connection and the one channel that are open, and these are of the last *)
(* dial.                                                                   *)
(***************************************************************************)

WholeFaults == ~ChannelFaults /\ ~SplitEvents

\* Only the last dial can be in flight or have its connection open.
LastDial ==
  \A d \in Dials :
    /\ d > dials => dial[d] = "unused" /\ conn[d] = "none" /\ chan[d] = "none"
    /\ d < dials => dial[d] = "ended" /\ conn[d] # "open"
    /\ dial[d] = "unused" => d > dials

\* What is open is what the fields hold.
FieldsHold ==
  /\ \A d \in Dials :
       /\ conn[d] # "erred"
       /\ conn[d] = "open" => connection = d
       /\ chan[d] = "open" => conn[d] = "open" /\ channel = d
  /\ \A d \in consumers : chan[d] = "open"
  /\ owner # 0 => conn[owner] = "open"

DialPhases ==
  \A d \in InFlight :
    /\ dial[d] = "dialing" <=> conn[d] # "open"
    /\ dial[d] = "dialing" => conn[d] = "none"
    /\ dial[d] \in {"dialing", "opening"} => chan[d] = "none"
    /\ dial[d] \in {"declaring", "subscribing"} => chan[d] = "open" /\ rpc[d] = d
    /\ owner = IF dial[d] = "subscribing" THEN d ELSE 0

\* A dial, a timer and an established connection exclude each other.
OneAtATime ==
  /\ InFlight # {} => ~connected /\ ~reconnectTimer /\ consumers = {}
  /\ reconnectTimer => ~connected

ConnectedIsOpen ==
  ~closing /\ connected =>
    dials > 0 /\ chan[dials] = "open" /\ owner = dials /\ consumers = {dials}

IdleIsClosed ==
  ~closing /\ ~connected /\ InFlight = {} => \A d \in Dials : conn[d] # "open"

NotifiedIsOver ==
  ~closing /\ closeNotified => ~connected /\ ~reconnectTimer /\ InFlight = {}

\* What close() finds open it closes, but for the dials in flight.
CloseReaches ==
  closing =>
    /\ InFlight \subseteq lateDials
    /\ \A d \in Dials : conn[d] = "open" /\ d \notin lateDials
                          => closeCall \in {"channel", "connection"} /\ closeOn = d

Whole ==
  /\ LastDial /\ FieldsHold /\ DialPhases /\ OneAtATime
  /\ ConnectedIsOpen /\ IdleIsClosed /\ NotifiedIsOver /\ CloseReaches

WholeInv == LinkInv /\ Whole

LEMMA InitWhole == Init => WholeInv
<1> SUFFICES ASSUME Init PROVE WholeInv
  OBVIOUS
<1>1. LinkInv
  BY InitLink
<1>2. /\ ~connected /\ ~closing /\ ~reconnectTimer /\ ~closeNotified
      /\ InFlight = {} /\ dials = 0 /\ owner = 0 /\ consumers = {}
      /\ \A d \in Dials : dial[d] = "unused" /\ conn[d] = "none" /\ chan[d] = "none"
  <2>1. ~connected /\ ~closing /\ ~reconnectTimer /\ ~closeNotified
    BY Zenon DEF Init
  <2> QED BY <2>1 DEF Init, InFlight, InFlightPhases
<1>3. LastDial
  BY <1>2 DEF LastDial, Dials
<1>4. FieldsHold /\ DialPhases
  BY <1>2 DEF FieldsHold, DialPhases
<1>5. OneAtATime /\ ConnectedIsOpen /\ IdleIsClosed /\ NotifiedIsOver /\ CloseReaches
  BY <1>2 DEF OneAtATime, ConnectedIsOpen, IdleIsClosed, NotifiedIsOver, CloseReaches
<1> QED BY <1>1, <1>3, <1>4, <1>5 DEF WholeInv, Whole

\* What is in flight or open is of the last dial.
LEMMA OfLastDial ==
  ASSUME WholeInv
  PROVE  /\ \A d \in InFlight : d = dials
         /\ \A d \in Dials : conn[d] = "open" \/ chan[d] = "open" => d = dials
         /\ dials \in Nat
         /\ \A d \in consumers : d = dials
         /\ owner # 0 => owner = dials /\ owner \in Dials
<1>1. TypeOK /\ LastDial /\ FieldsHold
  BY DEF WholeInv, Whole, LinkInv, SafetyInv
<1>2. dials \in Nat /\ consumers \in SUBSET Dials /\ owner \in NullOr
  BY <1>1 DEF TypeOK, NullOr
<1>3. \A d \in Dials : d > dials \/ d < dials \/ d = dials
  BY <1>2 DEF Dials
<1>4. \A d \in InFlight : d = dials
  BY <1>1, <1>3 DEF LastDial, InFlight, InFlightPhases
<1>5. \A d \in Dials : conn[d] = "open" \/ chan[d] = "open" => d = dials
  BY <1>1, <1>3 DEF LastDial, FieldsHold
<1>6. \A d \in consumers : d = dials
  BY <1>1, <1>2, <1>5 DEF FieldsHold
<1>7. owner # 0 => owner = dials /\ owner \in Dials
  BY <1>1, <1>2, <1>5 DEF FieldsHold, NullOr, Dials
<1> QED BY <1>2, <1>4, <1>5, <1>6, <1>7

\* The parts that speak of the broker and the dials alone.
LEMMA WholeParts ==
  ASSUME WholeInv
  PROVE  /\ TypeOK /\ LastDial /\ FieldsHold /\ DialPhases
         /\ (closeCall # "no" => closing)
         /\ (closing => closeCall # "no")
         /\ (closing => ~reconnectTimer)
  BY Zenon DEF WholeInv, Whole, LinkInv, SafetyInv, ClosingIsCalled, CloseIsClosing, ClosedIsQuiet

\* scheduleReconnect() arms the timer or reports the closure, not both.
LEMMA ScheduleEither ==
  ASSUME ScheduleReconnect, ~closing, ~closeNotified
  PROVE  closeNotified' => ~reconnectTimer'
  BY Zenon DEF ScheduleReconnect, ReconnectBlocked, GiveUp, ArmReconnectTimer

LEMMA NotNotified ==
  ASSUME WholeInv, ~closing, InFlight # {} \/ \E c \in Dials : conn[c] = "open"
  PROVE  ~closeNotified
<1>1. IdleIsClosed /\ NotifiedIsOver
  BY Zenon DEF WholeInv, Whole
<1> QED BY <1>1, Zenon DEF IdleIsClosed, NotifiedIsOver

LEMMA StartWhole == ASSUME WholeInv, Start PROVE Whole'
<1>1. /\ startCall = "no" /\ BeginDial /\ ~closing' /\ ~closeNotified'
      /\ UNCHANGED <<connected, reconnectTimer, rpc, conn, chan, owner, consumers,
                     connection, channel>>
  BY Zenon DEF Start, brokerVars
<1>2. /\ dials = 0 /\ ~reconnectTimer /\ ~connected
      /\ \A d \in Dials : dial[d] = "unused" /\ conn[d] = "none" /\ chan[d] = "none"
  BY <1>1, Zenon DEF WholeInv, LinkInv, BeforeStart
<1>3. TypeOK /\ FieldsHold
  BY WholeParts
<1>4. consumers = {} /\ owner = 0
  BY <1>2, <1>3 DEF TypeOK, FieldsHold, NullOr, Dials
<1>5. ~reconnectTimer' /\ ~connected'
  BY <1>1, <1>2, Zenon
<1>6. /\ dials' = 1 /\ dial'[1] = "dialing"
      /\ \A d \in Dials \ {1} : dial'[d] = "unused"
  BY <1>1, <1>2, <1>3, OneIsDial DEF TypeOK, BeginDial
<1>7. InFlight' = {1}
  BY <1>6, OneIsDial DEF InFlight, InFlightPhases
<1>8. LastDial'
  BY <1>1, <1>2, <1>6 DEF LastDial, Dials
<1>9. FieldsHold' /\ DialPhases'
  <2>1. FieldsHold'
    BY <1>1, <1>3, <1>4 DEF FieldsHold
  <2>2. DialPhases'
    BY <1>1, <1>2, <1>4, <1>6, <1>7, OneIsDial DEF DialPhases
  <2> QED BY <2>1, <2>2
<1>10. OneAtATime'
  BY <1>1, <1>4, <1>5 DEF OneAtATime
<1>11. ConnectedIsOpen' /\ IdleIsClosed' /\ NotifiedIsOver' /\ CloseReaches'
  BY <1>1, <1>5, <1>7 DEF ConnectedIsOpen, IdleIsClosed, NotifiedIsOver, CloseReaches
<1> QED BY <1>8, <1>9, <1>10, <1>11 DEF Whole

LEMMA TimerWhole == ASSUME WholeInv, ReconnectTimerFires PROVE Whole'
<1>1. /\ reconnectTimer /\ ~reconnectTimer' /\ (~closing => BeginDial)
      /\ UNCHANGED <<connected, closing, closeNotified, rpc, conn, chan, owner, consumers,
                     connection, channel, closeCall, closeOn, lateDials>>
  BY Zenon DEF ReconnectTimerFires, TimerConsumed, brokerVars
<1>2. TypeOK /\ LastDial /\ FieldsHold /\ ~closing
  BY <1>1, WholeParts
<1>3. ~connected /\ InFlight = {}
  BY <1>1, Zenon DEF WholeInv, Whole, OneAtATime
<1>4. \A d \in Dials : conn[d] # "open" /\ chan[d] # "open"
  BY <1>2, <1>3 DEF WholeInv, Whole, IdleIsClosed, FieldsHold
<1>5. consumers = {} /\ owner = 0
  BY <1>2, <1>4 DEF TypeOK, FieldsHold, NullOr, Dials
<1>6. ~closeNotified
  BY <1>1, <1>2, Zenon DEF WholeInv, Whole, NotifiedIsOver
<1>7. ~closing' /\ ~closeNotified' /\ ~connected'
  BY <1>1, <1>2, <1>3, <1>6, Zenon
<1>8. /\ dials' = dials + 1 /\ dials' \in Dials /\ dials \in Nat
      /\ dial'[dials'] = "dialing"
      /\ \A d \in Dials \ {dials'} : dial'[d] = dial[d]
  BY <1>1, <1>2, BeginDialType DEF TypeOK, BeginDial, NullOr
<1>9. \A d \in Dials : dial[d] \in {"unused", "ended"}
  BY <1>2, <1>3 DEF TypeOK, InFlight
<1>10. InFlight' = {dials'}
  BY <1>8, <1>9 DEF InFlight, InFlightPhases
<1>11. LastDial'
  BY <1>1, <1>2, <1>4, <1>8, <1>9 DEF LastDial, Dials
<1>12. FieldsHold'
  BY <1>1, <1>2, <1>5 DEF FieldsHold
<1>13. conn[dials'] = "none" /\ chan[dials'] = "none"
  BY <1>2, <1>8 DEF LastDial
<1>14. DialPhases'
  BY <1>1, <1>4, <1>5, <1>8, <1>10, <1>13 DEF DialPhases
<1>15. OneAtATime'
  BY <1>1, <1>5, <1>7 DEF OneAtATime
<1>16. ConnectedIsOpen' /\ IdleIsClosed' /\ NotifiedIsOver' /\ CloseReaches'
  BY <1>7, <1>10 DEF ConnectedIsOpen, IdleIsClosed, NotifiedIsOver, CloseReaches
<1> QED BY <1>11, <1>12, <1>14, <1>15, <1>16 DEF Whole

LEMMA DialOkWhole == ASSUME WholeInv, NEW d \in Dials, DialOk(d) PROVE Whole'
<1>1. /\ dial[d] = "dialing" /\ dial' = [dial EXCEPT ![d] = "opening"]
      /\ conn' = [conn EXCEPT ![d] = "open"] /\ connection' = d
      /\ UNCHANGED <<connected, closing, closeNotified, reconnectTimer, dials, rpc, chan,
                     channel, owner, consumers, closeCall, closeOn, lateDials>>
  BY Zenon DEF DialOk
<1>2. TypeOK /\ LastDial /\ FieldsHold /\ DialPhases
  BY WholeParts
<1>3. d \in InFlight /\ d = dials
  BY <1>1, OfLastDial DEF InFlight, InFlightPhases
<1>4. /\ dial'[d] = "opening" /\ conn'[d] = "open"
      /\ \A e \in Dials \ {d} : dial'[e] = dial[e] /\ conn'[e] = conn[e]
  BY <1>1, <1>2 DEF TypeOK
<1>5. InFlight' = InFlight
  BY <1>3, <1>4 DEF InFlight, InFlightPhases
<1>6. /\ chan[d] = "none" /\ conn[d] = "none" /\ owner = 0
      /\ \A e \in Dials : conn[e] # "open" /\ chan[e] # "open"
  BY <1>1, <1>2, <1>3, OfLastDial DEF DialPhases, FieldsHold
<1>7. consumers = {}
  BY <1>2, <1>6 DEF TypeOK, FieldsHold
<1>8. LastDial'
  BY <1>1, <1>2, <1>3, <1>4 DEF LastDial, Dials, NullOr, TypeOK
<1>9. FieldsHold'
  BY <1>1, <1>2, <1>4, <1>6, <1>7 DEF FieldsHold
<1>10. \A e \in InFlight : e = d
  BY <1>3, OfLastDial
<1>11. DialPhases'
  BY <1>1, <1>4, <1>5, <1>6, <1>10 DEF DialPhases
<1>12. OneAtATime'
  BY <1>1, <1>5, Zenon DEF WholeInv, Whole, OneAtATime
<1>13. ~connected'
  BY <1>1, <1>3, Zenon DEF WholeInv, Whole, OneAtATime
<1>14. ConnectedIsOpen' /\ IdleIsClosed'
  BY <1>3, <1>5, <1>13 DEF ConnectedIsOpen, IdleIsClosed
<1>15. NotifiedIsOver'
  BY <1>1, <1>5, Zenon DEF WholeInv, Whole, NotifiedIsOver
<1>16. CloseReaches'
  <2>1. closing' => closing /\ InFlight \subseteq lateDials
    BY <1>1, Zenon DEF WholeInv, Whole, CloseReaches
  <2> QED BY <1>1, <1>3, <1>4, <1>5, <1>6, <2>1 DEF CloseReaches
<1> QED BY <1>8, <1>9, <1>11, <1>12, <1>14, <1>15, <1>16 DEF Whole

\* The steps of the last dial, the fields, timers and connections staying.
LEMMA DialMovesOn ==
  ASSUME WholeInv, NEW d \in Dials, dial[d] \in InFlightPhases, dials' = dials,
         NEW p \in InFlightPhases, dial' = [dial EXCEPT ![d] = p], conn' = conn
  PROVE  /\ d = dials /\ d \in InFlight /\ InFlight' = InFlight
         /\ \A e \in InFlight : e = d
         /\ dial'[d] = p /\ \A e \in Dials \ {d} : dial'[e] = dial[e]
<1>1. d \in InFlight
  BY DEF InFlight
<1>2. dial'[d] = p /\ \A e \in Dials \ {d} : dial'[e] = dial[e]
  BY WholeParts DEF TypeOK
<1>3. InFlight' = InFlight
  BY <1>1, <1>2 DEF InFlight
<1> QED BY <1>1, <1>2, <1>3, OfLastDial

LEMMA FlagsStay ==
  ASSUME WholeInv, InFlight' = InFlight, InFlight # {}, conn' = conn, consumers' = consumers,
         UNCHANGED <<connected, closing, closeNotified, reconnectTimer,
                     closeCall, closeOn, lateDials>>
  PROVE  OneAtATime' /\ ConnectedIsOpen' /\ IdleIsClosed' /\ NotifiedIsOver' /\ CloseReaches'
<1>1. OneAtATime'
  BY Zenon DEF WholeInv, Whole, OneAtATime
<1>2. ~connected'
  BY Zenon DEF WholeInv, Whole, OneAtATime
<1>3. ConnectedIsOpen' /\ IdleIsClosed'
  BY <1>2 DEF ConnectedIsOpen, IdleIsClosed
<1>4. NotifiedIsOver' /\ CloseReaches'
  BY Zenon DEF WholeInv, Whole, NotifiedIsOver, CloseReaches
<1> QED BY <1>1, <1>3, <1>4

LEMMA OpenChannelWhole == ASSUME WholeInv, NEW d \in Dials, OpenChannel(d) PROVE Whole'
<1>1. /\ dial[d] = "opening" /\ dial' = [dial EXCEPT ![d] = "declaring"]
      /\ rpc' = [rpc EXCEPT ![d] = d] /\ chan' = [chan EXCEPT ![d] = "open"]
      /\ channel' = d /\ conn[d] = "open"
      /\ UNCHANGED <<connected, closing, closeNotified, reconnectTimer, dials, conn,
                     connection, owner, consumers, closeCall, closeOn, lateDials>>
  BY Zenon DEF OpenChannel
<1>2. TypeOK /\ LastDial /\ FieldsHold /\ DialPhases
  BY WholeParts
<1>3. /\ d = dials /\ d \in InFlight /\ InFlight' = InFlight
      /\ \A e \in InFlight : e = d
      /\ dial'[d] = "declaring" /\ \A e \in Dials \ {d} : dial'[e] = dial[e]
  BY <1>1, DialMovesOn DEF InFlightPhases
<1>4. /\ chan'[d] = "open" /\ rpc'[d] = d
      /\ \A e \in Dials \ {d} : chan'[e] = chan[e]
  BY <1>1, <1>2 DEF TypeOK
<1>5. owner = 0 /\ \A e \in Dials : chan[e] # "open"
  BY <1>1, <1>2, <1>3, OfLastDial DEF DialPhases
<1>6. LastDial'
  BY <1>1, <1>2, <1>3, <1>4 DEF LastDial, TypeOK, NullOr, Dials
<1>7. FieldsHold'
  BY <1>1, <1>2, <1>3, <1>4, <1>5 DEF FieldsHold, TypeOK
<1>8. DialPhases'
  BY <1>1, <1>3, <1>4, <1>5 DEF DialPhases
<1> QED BY <1>1, <1>3, <1>6, <1>7, <1>8, FlagsStay, Zenon DEF Whole

LEMMA DeclareQueueWhole == ASSUME WholeInv, NEW d \in Dials, DeclareQueue(d) PROVE Whole'
<1>1. /\ dial[d] = "declaring" /\ dial' = [dial EXCEPT ![d] = "subscribing"]
      /\ rpc' = [rpc EXCEPT ![d] = channel] /\ owner' = rpc[d]
      /\ UNCHANGED <<connected, closing, closeNotified, reconnectTimer, dials, conn, chan,
                     connection, channel, consumers, closeCall, closeOn, lateDials>>
  BY Zenon DEF DeclareQueue, fieldVars
<1>2. TypeOK /\ LastDial /\ FieldsHold /\ DialPhases
  BY WholeParts
<1>3. /\ d = dials /\ d \in InFlight /\ InFlight' = InFlight
      /\ \A e \in InFlight : e = d
      /\ dial'[d] = "subscribing" /\ \A e \in Dials \ {d} : dial'[e] = dial[e]
  BY <1>1, DialMovesOn DEF InFlightPhases
<1>4. rpc[d] = d /\ chan[d] = "open" /\ channel = d /\ conn[d] = "open"
  BY <1>1, <1>2, <1>3 DEF DialPhases, FieldsHold
<1>5. rpc'[d] = d /\ owner' = d
  BY <1>1, <1>2, <1>4 DEF TypeOK
<1>6. LastDial'
  BY <1>1, <1>2, <1>3 DEF LastDial, TypeOK, NullOr, Dials
<1>7. FieldsHold'
  BY <1>1, <1>2, <1>4, <1>5 DEF FieldsHold
<1>8. DialPhases'
  BY <1>1, <1>3, <1>4, <1>5 DEF DialPhases
<1> QED BY <1>1, <1>3, <1>6, <1>7, <1>8, FlagsStay, Zenon DEF Whole

\* The steps that end the last dial.
LEMMA DialGone ==
  ASSUME WholeInv, NEW d \in Dials, dial[d] \in InFlightPhases,
         dial' = [dial EXCEPT ![d] = "ended"],
         UNCHANGED <<dials, conn, chan>>
  PROVE  d = dials /\ d \in InFlight /\ InFlight' = {} /\ LastDial'
<1>1. TypeOK /\ LastDial
  BY WholeParts
<1>2. d \in InFlight /\ \A e \in InFlight : e = d /\ d = dials
  BY OfLastDial DEF InFlight
<1>3. dial'[d] = "ended" /\ \A e \in Dials \ {d} : dial'[e] = dial[e]
  BY <1>1 DEF TypeOK
<1>4. InFlight' = {}
  BY <1>2, <1>3 DEF InFlight, InFlightPhases
<1>5. LastDial'
  BY <1>1, <1>2, <1>3 DEF LastDial, TypeOK, NullOr, Dials
<1> QED BY <1>2, <1>4, <1>5

LEMMA SubscribeWhole == ASSUME WholeInv, NEW d \in Dials, Subscribe(d) PROVE Whole'
<1>1. /\ dial[d] = "subscribing" /\ dial' = [dial EXCEPT ![d] = "ended"]
      /\ consumers' = consumers \union {rpc[d]} /\ connected'
      /\ UNCHANGED <<closing, closeNotified, reconnectTimer, dials, conn, chan, rpc,
                     connection, channel, owner, closeCall, closeOn, lateDials>>
  BY Zenon DEF Subscribe
<1>2. TypeOK /\ LastDial /\ FieldsHold /\ DialPhases
  BY WholeParts
<1>3. d = dials /\ d \in InFlight /\ InFlight' = {} /\ LastDial'
  BY <1>1, DialGone DEF InFlightPhases
<1>4. rpc[d] = d /\ chan[d] = "open" /\ owner = d
  BY <1>1, <1>2, <1>3 DEF DialPhases
<1>5. ~reconnectTimer /\ consumers = {}
  BY <1>3, Zenon DEF WholeInv, Whole, OneAtATime
<1>6. ~reconnectTimer' /\ consumers' = {d}
  <2>1. ~reconnectTimer'
    BY <1>1, <1>5, Zenon
  <2> QED BY <1>1, <1>4, <1>5, <2>1
<1>7. FieldsHold'
  BY <1>1, <1>2, <1>4, <1>6 DEF FieldsHold
<1>8. DialPhases' /\ OneAtATime'
  BY <1>3, <1>6 DEF DialPhases, OneAtATime
<1>9. ConnectedIsOpen' /\ IdleIsClosed'
  <2>1. dials > 0
    BY <1>3 DEF Dials
  <2>2. ConnectedIsOpen'
    BY <1>1, <1>3, <1>4, <1>6, <2>1 DEF ConnectedIsOpen
  <2>3. IdleIsClosed'
    BY <1>1, Zenon DEF IdleIsClosed
  <2> QED BY <2>2, <2>3
<1>10. NotifiedIsOver'
  <2>1. ~closing => ~closeNotified
    BY <1>3, NotNotified
  <2> QED BY <1>1, <2>1, Zenon DEF NotifiedIsOver
<1>11. CloseReaches'
  <2>1. closing' => closing
    BY <1>1, Zenon
  <2> QED BY <1>1, <1>3, <2>1 DEF WholeInv, Whole, CloseReaches
<1> QED BY <1>3, <1>7, <1>8, <1>9, <1>10, <1>11 DEF Whole

LEMMA DialFailsWhole ==
  ASSUME WholeFaults, WholeInv, NEW d \in Dials, DialFails(d)
  PROVE  Whole'
<1>1. /\ dial' = [dial EXCEPT ![d] = "ended"]
      /\ (dial[d] = "dialing" /\ UNCHANGED owner) \/ (dial[d] = "declaring" /\ ~ChannelTakes)
      /\ UNCHANGED <<connected, closing, dials, conn, chan, rpc,
                     connection, channel, consumers, closeCall, closeOn, lateDials>>
      /\ UNCHANGED <<attempts, reconnectTimer, closeNotified>> \/ ScheduleReconnect
  BY Zenon DEF DialFails, SetupThrows, WholeFaults, RetryRejected
<1>2. TypeOK /\ LastDial /\ FieldsHold /\ DialPhases /\ (closing => ~reconnectTimer)
  BY WholeParts
<1>3. d = dials /\ d \in InFlight /\ InFlight' = {} /\ LastDial'
  BY <1>1, DialGone DEF InFlightPhases
<1>4. dial[d] = "dialing" /\ UNCHANGED owner
  <2>1. dial[d] = "declaring" => ChannelTakes
    BY <1>2, <1>3, OneIsDial DEF DialPhases, FieldsHold, ChannelTakes, Dials
  <2> QED BY <1>1, <2>1
<1>5. \A e \in Dials : conn[e] # "open"
  BY <1>2, <1>3, <1>4, OfLastDial DEF DialPhases
<1>6. ~connected /\ ~reconnectTimer
  BY <1>3, Zenon DEF WholeInv, Whole, OneAtATime
<1>7. ~connected'
  BY <1>1, <1>6, Zenon
<1>8. FieldsHold'
  BY <1>1, <1>2, <1>4 DEF FieldsHold
<1>9. DialPhases' /\ OneAtATime'
  BY <1>3, <1>7 DEF DialPhases, OneAtATime
<1>10. ConnectedIsOpen' /\ IdleIsClosed'
  BY <1>1, <1>4, <1>5, <1>7 DEF ConnectedIsOpen, IdleIsClosed
<1>11. NotifiedIsOver'
  <2>1. ~closing => ~closeNotified
    BY <1>3, NotNotified
  <2>2. ~closing' /\ closeNotified' => ~reconnectTimer'
    BY <1>1, <1>6, <2>1, ScheduleEither, Zenon
  <2> QED BY <1>3, <1>7, <2>2, Zenon DEF NotifiedIsOver
<1>12. CloseReaches'
  BY <1>1, <1>3, <1>5 DEF CloseReaches
<1> QED BY <1>3, <1>8, <1>9, <1>10, <1>11, <1>12 DEF Whole

\* The end of the one open connection ends the dial on it.
LEMMA ConnectionGone ==
  ASSUME WholeInv, NEW c \in Dials, conn[c] = "open",
         DropConnection(c), RejectDials(WaitOnConnection(c)), dials' = dials
  PROVE  /\ InFlight' = {} /\ LastDial'
         /\ \A e \in Dials : conn'[e] \notin {"open", "erred"} /\ chan'[e] # "open"
         /\ consumers' = {} /\ owner' = 0
<1>1. TypeOK /\ LastDial /\ FieldsHold /\ DialPhases
  BY WholeParts
<1>2. /\ c = dials /\ \A d \in InFlight : d = c
      /\ \A d \in consumers : d = c
      /\ owner # 0 => owner = c
  BY OfLastDial
<1>3. /\ conn'[c] = "closed" /\ chan'[c] # "open"
      /\ chan'[c] # chan[c] => chan[c] = "open"
      /\ \A e \in Dials \ {c} : conn'[e] = conn[e] /\ chan'[e] = chan[e]
  BY <1>1 DEF DropConnection, TypeOK
<1>4. consumers' = {} /\ owner' = 0
  BY <1>2 DEF DropConnection
<1>5. \A e \in Dials : conn'[e] \notin {"open", "erred"} /\ chan'[e] # "open"
  BY <1>1, <1>2, <1>3, OfLastDial DEF FieldsHold
<1>6. \A d \in InFlight : d \in WaitOnConnection(c)
  <2> SUFFICES ASSUME NEW d \in InFlight PROVE d \in WaitOnConnection(c)
    OBVIOUS
  <2>1. d = c /\ dial[d] # "dialing" /\ dial[d] \in InFlightPhases
    BY <1>1, <1>2 DEF DialPhases, InFlight
  <2>2. dial[d] \in {"declaring", "subscribing"} => rpc[d] = c
    BY <1>1, <2>1 DEF DialPhases
  <2> QED BY <2>1, <2>2 DEF WaitOnConnection, WaitOnChannel, InFlightPhases
<1>7. WaitOnConnection(c) \subseteq InFlight
  BY Waiting
<1>8. \A d \in Dials : dial'[d] = IF d \in InFlight THEN "ended" ELSE dial[d]
  BY <1>6, <1>7 DEF RejectDials
<1>9. InFlight' = {}
  BY <1>8 DEF InFlight, InFlightPhases
<1>10. LastDial'
  BY <1>1, <1>2, <1>3, <1>8 DEF LastDial, InFlight, InFlightPhases, TypeOK, NullOr, Dials
<1> QED BY <1>4, <1>5, <1>9, <1>10

\* With nothing open and nothing in flight only the flags are left to look at.
LEMMA NothingOpen ==
  ASSUME InFlight' = {}, LastDial', consumers' = {}, owner' = 0, ~connected',
         \A e \in Dials : conn'[e] \notin {"open", "erred"} /\ chan'[e] # "open",
         ~closing' => NotifiedIsOver'
  PROVE  Whole'
<1>1. FieldsHold' /\ DialPhases'
  BY DEF FieldsHold, DialPhases
<1>2. OneAtATime' /\ ConnectedIsOpen' /\ IdleIsClosed'
  BY DEF OneAtATime, ConnectedIsOpen, IdleIsClosed
<1>3. NotifiedIsOver'
  BY Zenon DEF NotifiedIsOver
<1>4. CloseReaches'
  BY DEF CloseReaches
<1> QED BY <1>1, <1>2, <1>3, <1>4 DEF Whole

LEMMA ConnectionClosedWhole ==
  ASSUME WholeInv, NEW c \in Dials, ConnectionClosed(c)
  PROVE  Whole'
<1>1. /\ conn[c] = "erred" \/ conn[c] = "open"
      /\ DropConnection(c) /\ RejectDials(WaitOnConnection(c)) /\ CloseAwaitLost({c})
      /\ dials' = dials /\ closing' = closing
  BY Zenon DEF ConnectionClosed
<1>2. conn[c] = "open" /\ (closeCall # "no" => closing)
  BY <1>1, WholeParts DEF FieldsHold
<1>3. /\ InFlight' = {} /\ LastDial'
      /\ \A e \in Dials : conn'[e] \notin {"open", "erred"} /\ chan'[e] # "open"
      /\ consumers' = {} /\ owner' = 0
  BY <1>1, <1>2, ConnectionGone
<1>4. ~connected'
  BY <1>1, Zenon DEF CloseAwaitLost, HandleConnectionEvent
<1>5. ~closing' => NotifiedIsOver'
  <2> SUFFICES ASSUME ~closing PROVE NotifiedIsOver'
    BY <1>1, Zenon
  <2>1. closeCall = "no"
    BY <1>2
  <2>2. ~CloseRejectedBy({c})
    BY <2>1 DEF CloseRejectedBy
  <2>3. ScheduleReconnect
    BY <1>1, <2>2, Zenon DEF CloseAwaitLost, HandleConnectionEvent
  <2>4. ~closeNotified
    BY <1>2, NotNotified
  <2>5. closeNotified' => ~reconnectTimer'
    BY <2>3, <2>4, ScheduleEither
  <2> QED BY <1>3, <1>4, <2>5, Zenon DEF NotifiedIsOver
<1> QED BY <1>3, <1>4, <1>5, NothingOpen

\* Nothing but its connection or close() closes a channel.
LEMMA NoChannelError ==
  ASSUME WholeFaults, WholeInv, NEW c \in Dials
  PROVE  ~ChannelError(c) /\ ~ConnectionError(c)
<1>1. DialPhases
  BY WholeParts
<1>2. \A d \in WaitOnChannel(c) : ~Conflict(d)
  <2> SUFFICES ASSUME NEW d \in WaitOnChannel(c) PROVE ~Conflict(d)
    OBVIOUS
  <2>1. d \in InFlight /\ dial[d] \in {"declaring", "subscribing"}
    BY DEF WaitOnChannel
  <2> QED BY <1>1, <2>1 DEF DialPhases, Conflict
<1> QED BY <1>2 DEF ChannelError, ConnectionError, WholeFaults

LEMMA CloseWhole == ASSUME WholeInv, Close PROVE Whole'
<1>1. /\ closeCall = "no" /\ closing' /\ ~connected' /\ ~reconnectTimer' /\ lateDials' = InFlight
      /\ UNCHANGED <<connection, channel, dials, dial, rpc, conn, chan, owner, consumers>>
      /\ \/ /\ channel # 0 /\ chan[channel] = "open"
            /\ closeCall' = "channel" /\ closeOn' = channel
         \/ channel # 0 /\ chan[channel] # "open"
         \/ channel = 0 /\ CloseConnectionNext
  BY Zenon DEF Close, CloseFields, brokerVars
<1>2. TypeOK /\ LastDial /\ FieldsHold /\ DialPhases /\ ~closing
  BY <1>1, WholeParts
<1>3. InFlight' = InFlight
  BY <1>1 DEF InFlight
<1>4. LastDial' /\ FieldsHold'
  BY <1>1, <1>2 DEF LastDial, FieldsHold
<1>5. DialPhases'
  BY <1>1, <1>2, <1>3 DEF DialPhases
<1>6. OneAtATime'
  <2>1. InFlight # {} => consumers = {}
    BY DEF WholeInv, Whole, OneAtATime
  <2> QED BY <1>1, <1>3, <2>1 DEF OneAtATime
<1>7. ConnectedIsOpen' /\ IdleIsClosed' /\ NotifiedIsOver'
  BY <1>1, Zenon DEF ConnectedIsOpen, IdleIsClosed, NotifiedIsOver
<1>8. ASSUME NEW d \in Dials, conn[d] = "open", d \notin InFlight
      PROVE  closeCall' \in {"channel", "connection"} /\ closeOn' = d
  <2>1. d = dials /\ connection = d /\ d # 0
    BY <1>2, <1>8, OfLastDial DEF FieldsHold, Dials
  <2>2. InFlight = {}
    BY <1>8, <2>1, OfLastDial
  <2>3. connected
    BY <1>2, <1>8, <2>2, Zenon DEF WholeInv, Whole, IdleIsClosed
  <2>4. chan[d] = "open"
    BY <1>2, <2>1, <2>3, Zenon DEF WholeInv, Whole, ConnectedIsOpen
  <2>5. channel = d
    BY <1>2, <2>4 DEF FieldsHold
  <2> QED BY <1>1, <2>1, <2>4, <2>5
<1>9. CloseReaches'
  BY <1>1, <1>3, <1>8 DEF CloseReaches
<1> QED BY <1>4, <1>5, <1>6, <1>7, <1>9 DEF Whole

LEMMA CloseChannelDoneWhole == ASSUME WholeInv, CloseChannelDone PROVE Whole'
<1>1. /\ closeCall = "channel" /\ CanUse(closeOn)
      /\ DropChannels({closeOn}) /\ RejectDials(WaitOnChannel(closeOn))
      /\ channel' = 0 /\ CloseConnectionNext
      /\ UNCHANGED <<connected, closing, reconnectTimer, connection, dials, rpc, conn, lateDials>>
  BY Zenon DEF CloseChannelDone
<1>2. TypeOK /\ LastDial /\ FieldsHold /\ DialPhases /\ closing /\ ~reconnectTimer
  BY <1>1, WholeParts
<1>3. closeOn \in Dials /\ closeOn = dials /\ conn[closeOn] = "open" /\ chan[closeOn] = "open"
  BY <1>1, <1>2, OfLastDial DEF CanUse, TypeOK, NullOr, Dials
<1>4. /\ \A e \in Dials : chan'[e] # "open"
      /\ \A e \in Dials \ {closeOn} : chan'[e] = chan[e]
  BY <1>1, <1>2, <1>3, OfLastDial DEF DropChannels, TypeOK
<1>5. consumers' = {} /\ (owner' = owner \/ owner' = 0)
  BY <1>1, <1>3, OfLastDial DEF DropChannels
<1>6. \A d \in InFlight : d \in WaitOnChannel(closeOn)
  <2> SUFFICES ASSUME NEW d \in InFlight PROVE d \in WaitOnChannel(closeOn)
    OBVIOUS
  <2>1. d = closeOn /\ dial[d] \notin {"dialing", "opening"} /\ dial[d] \in InFlightPhases
    BY <1>2, <1>3, OfLastDial DEF DialPhases, InFlight
  <2>2. rpc[d] = closeOn /\ dial[d] \in {"declaring", "subscribing"}
    BY <1>2, <2>1 DEF DialPhases, InFlightPhases
  <2> QED BY <2>2 DEF WaitOnChannel
<1>7. \A d \in Dials : dial'[d] = IF d \in InFlight THEN "ended" ELSE dial[d]
  BY <1>1, <1>6, Waiting DEF RejectDials
<1>8. InFlight' = {}
  BY <1>7 DEF InFlight, InFlightPhases
<1>9. LastDial'
  BY <1>1, <1>2, <1>3, <1>4, <1>7, OfLastDial
  DEF LastDial, InFlight, InFlightPhases, TypeOK, NullOr, Dials
<1>10. FieldsHold'
  BY <1>1, <1>2, <1>4, <1>5 DEF FieldsHold
<1>11. DialPhases'
  BY <1>8 DEF DialPhases
<1>12. OneAtATime' /\ ConnectedIsOpen' /\ IdleIsClosed' /\ NotifiedIsOver'
  <2>1. closing' /\ ~reconnectTimer'
    BY <1>1, <1>2, Zenon
  <2> QED BY <1>8, <2>1 DEF OneAtATime, ConnectedIsOpen, IdleIsClosed, NotifiedIsOver
<1>13. CloseReaches'
  <2>1. connection = dials /\ connection # 0 /\ conn[connection] = "open"
    BY <1>2, <1>3 DEF FieldsHold, Dials
  <2>2. closeCall' = "connection" /\ closeOn' = dials
    BY <1>1, <2>1 DEF CloseConnectionNext
  <2> QED BY <1>1, <1>8, <2>2, OfLastDial DEF CloseReaches
<1> QED BY <1>9, <1>10, <1>11, <1>12, <1>13 DEF Whole

LEMMA CloseConnectionDoneWhole == ASSUME WholeInv, CloseConnectionDone PROVE Whole'
<1>1. /\ closeCall = "connection" /\ closeOn # 0 /\ conn[closeOn] = "open"
      /\ DropConnection(closeOn) /\ RejectDials(WaitOnConnection(closeOn))
      /\ ~connected' /\ dials' = dials /\ closing' = closing
  BY Zenon DEF CloseConnectionDone
<1>2. TypeOK /\ closing
  BY <1>1, WholeParts
<1>3. closeOn \in Dials
  BY <1>1, <1>2 DEF TypeOK, NullOr, Dials
<1>4. /\ InFlight' = {} /\ LastDial'
      /\ \A e \in Dials : conn'[e] \notin {"open", "erred"} /\ chan'[e] # "open"
      /\ consumers' = {} /\ owner' = 0
  BY <1>1, <1>3, ConnectionGone
<1>5. closing'
  BY <1>1, <1>2, Zenon
<1> QED BY <1>1, <1>4, <1>5, NothingOpen

LEMMA NextWhole ==
  ASSUME WholeFaults, WholeInv, [Next]_vars
  PROVE  WholeInv'
<1>1. LinkInv'
  BY NextLink, Zenon DEF WholeInv
<1>2. CASE UNCHANGED vars
  <2>1. /\ dials' = dials /\ dial' = dial /\ conn' = conn /\ chan' = chan /\ rpc' = rpc
        /\ connection' = connection /\ channel' = channel /\ owner' = owner
        /\ consumers' = consumers /\ closeCall' = closeCall /\ closeOn' = closeOn
        /\ lateDials' = lateDials
        /\ UNCHANGED <<connected, closing, closeNotified, reconnectTimer>>
    BY <1>2, Zenon DEF vars, fieldVars, callVars, brokerVars
  <2>2. InFlight' = InFlight
    BY <2>1, Zenon DEF InFlight
  <2>3. LastDial' /\ FieldsHold' /\ DialPhases' /\ OneAtATime'
    BY <2>1, <2>2, Zenon DEF WholeInv, Whole, LastDial, FieldsHold, DialPhases, OneAtATime
  <2>4. ConnectedIsOpen' /\ IdleIsClosed' /\ NotifiedIsOver' /\ CloseReaches'
    BY <2>1, <2>2, Zenon
    DEF WholeInv, Whole, ConnectedIsOpen, IdleIsClosed, NotifiedIsOver, CloseReaches
  <2> QED BY <1>1, <2>3, <2>4 DEF WholeInv, Whole
<1>3. CASE Close \/ Start \/ ReconnectTimerFires \/ CloseChannelDone \/ CloseConnectionDone
  BY <1>1, <1>3, CloseWhole, StartWhole, TimerWhole, CloseChannelDoneWhole,
     CloseConnectionDoneWhole, Zenon DEF WholeInv
<1>4. ASSUME NEW d \in Dials, DialStep(d) PROVE WholeInv'
  BY <1>1, <1>4, DialOkWhole, OpenChannelWhole, DeclareQueueWhole, SubscribeWhole,
     DialFailsWhole, Zenon DEF WholeInv, DialStep
<1>5. ASSUME NEW c \in Dials, Event(c) PROVE WholeInv'
  BY <1>1, <1>5, NoChannelError, ConnectionClosedWhole, Zenon DEF WholeInv, Event
<1> QED BY <1>2, <1>3, <1>4, <1>5, Zenon DEF Next

\* What the invariant says of the transport.
LEMMA WholeSays ==
  ASSUME WholeInv
  PROVE  OneDialAtATime /\ ConnectedIsLive /\ CloseReleasesBroker /\ ClosureIsPermanent
<1>1. TypeOK /\ FieldsHold /\ (closeCall # "no" => closing)
  BY WholeParts
<1>2. OneDialAtATime
  <2>1. \A d, e \in InFlight : d = e
    BY OfLastDial
  <2>2. reconnectTimer => InFlight = {}
    BY Zenon DEF WholeInv, Whole, OneAtATime
  <2> QED BY <2>1, <2>2, Zenon DEF OneDialAtATime
<1>3. ConnectedIsLive
  <2> SUFFICES ASSUME connected, ~closing
               PROVE  /\ CanUse(channel) /\ connection = channel
                      /\ owner = channel /\ consumers = {channel}
    BY Zenon DEF ConnectedIsLive
  <2>1. dials > 0 /\ chan[dials] = "open" /\ owner = dials /\ consumers = {dials}
    BY DEF WholeInv, Whole, ConnectedIsOpen
  <2>2. dials \in Dials
    BY <1>1, <2>1 DEF TypeOK, NullOr, Dials
  <2>3. conn[dials] = "open" /\ channel = dials /\ connection = dials
    BY <1>1, <2>1, <2>2 DEF FieldsHold
  <2> QED BY <2>1, <2>3 DEF CanUse
<1>4. CloseReleasesBroker
  <2> SUFFICES ASSUME closeCall = "done", NEW d \in Dials, conn[d] = "open"
               PROVE  d \in lateDials
    BY DEF CloseReleasesBroker
  <2>1. CloseReaches /\ closing
    BY <1>1 DEF WholeInv, Whole
  <2> QED BY <2>1 DEF CloseReaches
<1>5. ClosureIsPermanent
  BY Zenon DEF WholeInv, Whole, NotifiedIsOver, ClosureIsPermanent
<1> QED BY <1>2, <1>3, <1>4, <1>5

\* Every delivery is made on the channel that settles it: the fields hold the
\* channel that has the consumer.
NoneUnsettled ==
  /\ ~crashed /\ badTags = {}
  /\ \A m \in Messages : phase[m] # "unacked"

SettleInv == RoutingType /\ WholeInv /\ NoneUnsettled

LEMMA DeliverSettles ==
  ASSUME SettleInv, NEW m \in Messages, NEW c \in Dials, Deliver(m, c)
  PROVE  NoneUnsettled'
<1>1. ~crashed /\ badTags = {} /\ phase \in [Messages -> Phases]
      /\ \A n \in Messages : phase[n] # "unacked"
  BY DEF SettleInv, NoneUnsettled, RoutingType, MessagesType
<1>2. c \in consumers /\ FieldsHold
  BY WholeParts DEF SettleInv, Deliver
<1>3. channel = c /\ channel # 0 /\ CanUse(channel)
  BY <1>2, OneIsDial DEF FieldsHold, CanUse
<1>4. SettleDelivery(c) /\ (SetPhase(m, "refused") \/ Accept(m))
  BY <1>3, Zenon DEF Deliver
<1>5. badTags' = badTags /\ crashed' = crashed
  BY <1>3, <1>4, Zenon DEF SettleDelivery
<1>6. \A n \in Messages : phase'[n] # "unacked"
  <2>1. \E p \in Phases \ {"unacked"} : SetPhase(m, p)
    BY <1>4 DEF Accept, Phases
  <2> QED BY <1>1, <2>1 DEF SetPhase
<1>7. ~crashed' /\ badTags' = {}
  <2>1. ~crashed'
    BY <1>1, <1>5, Zenon
  <2> QED BY <1>1, <1>5, <2>1
<1> QED BY <1>6, <1>7 DEF NoneUnsettled

LEMMA NextSettle ==
  ASSUME WholeFaults, SettleInv, [RoutingNext]_<<vars, routingVars>>
  PROVE  SettleInv'
<1>1. /\ RoutingType /\ WholeInv /\ NoneUnsettled /\ MessagesType
      /\ ~crashed /\ badTags = {} /\ phase \in [Messages -> Phases]
      /\ \A n \in Messages : phase[n] # "unacked"
  BY DEF SettleInv, NoneUnsettled, RoutingType, MessagesType
<1>2. RoutingType'
  BY <1>1, NextRouting
<1>3. ~TagStep
  BY <1>1, Zenon DEF TagStep, BadTagClosesChannel
<1>4. [Next]_vars
  <2>1. ASSUME NEW m \in Messages, MessageStep(m) PROVE UNCHANGED vars
    BY <2>1, Zenon DEF MessageStep, ClientPublishes, Broadcast, Deliver, Answer, Cancel
  <2>2. LinkStep \/ Tick \/ Cleanup \/ UNCHANGED <<vars, routingVars>> => Next \/ UNCHANGED vars
    BY Zenon DEF LinkStep, Tick, Cleanup
  <2> QED BY <1>3, <2>1, <2>2, Zenon DEF RoutingNext
<1>5. WholeInv'
  BY <1>1, <1>4, NextWhole
<1>6. NoneUnsettled'
  <2>1. CASE LinkStep
    <3>1. QueuedAreLost /\ badTags' = badTags /\ crashed' = crashed
      BY <2>1, Zenon DEF LinkStep, QueuedAreLost
    <3>2. \A n \in Messages : phase'[n] # "unacked"
      BY <1>1, <3>1, LostType
    <3> QED BY <1>1, <3>1, <3>2, Zenon DEF NoneUnsettled
  <2>2. CASE Tick \/ Cleanup \/ UNCHANGED <<vars, routingVars>>
    <3>1. phase' = phase /\ badTags' = badTags /\ crashed' = crashed
      BY <2>2, Zenon DEF Tick, Cleanup, routingVars
    <3> QED BY <1>1, <3>1, Zenon DEF NoneUnsettled
  <2>3. ASSUME NEW m \in Messages, ClientPublishes(m) \/ Broadcast(m) \/ Answer(m) \/ Cancel(m)
        PROVE  NoneUnsettled'
    <3>1. badTags' = badTags /\ crashed' = crashed
      BY <2>3, Zenon DEF ClientPublishes, Broadcast, Answer, Cancel
    <3>2. \E p \in Phases \ {"unacked"} : SetPhase(m, p)
      BY <2>3 DEF ClientPublishes, Broadcast, Route, Answer, Cancel, Phases
    <3>3. \A n \in Messages : phase'[n] # "unacked"
      BY <1>1, <3>2 DEF SetPhase
    <3> QED BY <1>1, <3>1, <3>3, Zenon DEF NoneUnsettled
  <2> QED BY <1>3, <2>1, <2>2, <2>3, DeliverSettles, Zenon DEF RoutingNext, MessageStep
<1> QED BY <1>2, <1>5, <1>6 DEF SettleInv

LEMMA InitSettle == RoutingInit => SettleInv
<1> SUFFICES ASSUME RoutingInit PROVE SettleInv
  OBVIOUS
<1>1. RoutingType /\ WholeInv
  BY InitRouting, InitWhole DEF RoutingInit
<1>2. NoneUnsettled
  <2>1. ~crashed
    BY Zenon DEF RoutingInit
  <2> QED BY <2>1 DEF RoutingInit, NoneUnsettled
<1> QED BY <1>1, <1>2 DEF SettleInv

\* With connections that fail as a whole at most one connect() is in flight and
\* none while a timer is armed, however the events of old connections and the
\* rejections of their dials fall.
THEOREM OneDialAtATimeHolds ==
  ASSUME WholeFaults PROVE RoutingSpec => []OneDialAtATime
<1>1. SettleInv /\ [RoutingNext]_<<vars, routingVars>> => SettleInv'
  BY NextSettle
<1>2. SettleInv => OneDialAtATime
  BY WholeSays DEF SettleInv
<1> QED BY InitSettle, <1>1, <1>2, PTL DEF RoutingSpec

\* Under the same faults `connected' is the truth.
THEOREM ConnectedIsLiveHolds ==
  ASSUME WholeFaults PROVE RoutingSpec => []ConnectedIsLive
<1>1. SettleInv /\ [RoutingNext]_<<vars, routingVars>> => SettleInv'
  BY NextSettle
<1>2. SettleInv => ConnectedIsLive
  BY WholeSays DEF SettleInv
<1> QED BY InitSettle, <1>1, <1>2, PTL DEF RoutingSpec

\* Under the same faults what close() leaves open is of the dials it came upon.
THEOREM CloseReleasesBrokerHolds ==
  ASSUME WholeFaults PROVE RoutingSpec => []CloseReleasesBroker
<1>1. SettleInv /\ [RoutingNext]_<<vars, routingVars>> => SettleInv'
  BY NextSettle
<1>2. SettleInv => CloseReleasesBroker
  BY WholeSays DEF SettleInv
<1> QED BY InitSettle, <1>1, <1>2, PTL DEF RoutingSpec

\* Under the same faults a reported closure is permanent.
THEOREM ClosureIsPermanentHolds ==
  ASSUME WholeFaults PROVE RoutingSpec => []ClosureIsPermanent
<1>1. SettleInv /\ [RoutingNext]_<<vars, routingVars>> => SettleInv'
  BY NextSettle
<1>2. SettleInv => ClosureIsPermanent
  BY WholeSays DEF SettleInv
<1> QED BY InitSettle, <1>1, <1>2, PTL DEF RoutingSpec

\* Under the same faults no delivery meets a channel that cannot settle it, and
\* handleIncomingMessage() never rejects.
THEOREM DeliveriesSettleHolds ==
  ASSUME WholeFaults PROVE RoutingSpec => []DeliveriesSettle
<1>1. SettleInv /\ [RoutingNext]_<<vars, routingVars>> => SettleInv'
  BY NextSettle
<1>2. SettleInv => DeliveriesSettle
  BY Zenon DEF SettleInv, NoneUnsettled, DeliveriesSettle
<1> QED BY InitSettle, <1>1, <1>2, PTL DEF RoutingSpec
=============================================================================
