----------------------------- MODULE AmqpRouting -----------------------------
(***************************************************************************)
(* The messages of AmqpServerTransport on top of its connection: the       *)
(* request queue, handleIncomingMessage(), send(), handleResponseMessage() *)
(* and the cleanup of routingInfoStore.  EXTENDS brings in every state and *)
(* step of the connection, so that a message can meet any of its failures: *)
(* a delivery is acknowledged on this.channel, which need not be the       *)
(* channel it came on.                                                     *)
(*                                                                         *)
(* A message is a model value, its correlationId and its replyTo queue are *)
(* its own.  Its JSON-RPC id need not be: every client counts from zero.   *)
(***************************************************************************)
EXTENDS AmqpTransport

CONSTANTS
  Messages,   \* the messages published in one behaviour
  Ids,        \* JSON-RPC ids
  NoRoute,    \* the absence of an entry in routingInfoStore
  KindOf,     \* what each message is, once parsed and validated
  IdOf,       \* the JSON-RPC id of each message that has one
  Addressed,  \* the messages with both a correlationId and a replyTo
  MessageTTL  \* options.messageTTL, in ticks

Kinds == {"request", "response", "notification", "broadcast", "malformed"}
HasId == {"request", "response"}

ASSUME RoutingAssumption ==
  /\ NoRoute \notin Messages
  /\ KindOf \in [Messages -> Kinds]
  /\ IdOf \in [Messages -> Ids]
  /\ Addressed \subseteq Messages
  /\ MessageTTL \in Nat

VARIABLES
  phase,   \* how far each message has come
  routes,  \* routingInfoStore: the message whose routing information it holds
  age,     \* ticks since each entry was stored
  replies, \* <<m, r>>: the answer to m was sent to the replyTo of r
  badTags, \* channels that got an ack of a delivery they never made
  crashed  \* handleIncomingMessage() rejected, and nobody handles that

routingVars == <<phase, routes, age, replies, badTags, crashed>>

Phases ==
  {"new", "queued", "lost", "refused", "unacked", "consumed",
   "handling", "answered", "unanswered", "cancelled"}

RoutingTypeOK ==
  /\ phase \in [Messages -> Phases]
  /\ routes \in [Ids -> {m \in Addressed : KindOf[m] \in HasId} \union {NoRoute}]
  /\ age \in [Ids -> 0 .. MessageTTL + 1]
  /\ replies \in SUBSET (Messages \X Messages)
  /\ badTags \in SUBSET Dials
  /\ crashed \in BOOLEAN

RoutingInit ==
  /\ Init
  /\ phase = [m \in Messages |-> "new"]
  /\ routes = [i \in Ids |-> NoRoute]
  /\ age = [i \in Ids |-> 0]
  /\ replies = {}
  /\ badTags = {}
  /\ crashed = FALSE

SetPhase(m, p) == phase' = [phase EXCEPT ![m] = p]

-----------------------------------------------------------------------------
(***************************************************************************)
(* Publishing.  The queue is bound to the exchange between its declaration *)
(* and its consumer; what no queue is bound for is dropped by the broker.  *)
(***************************************************************************)

Route(m) ==
  \/ owner # 0 /\ SetPhase(m, "queued")
  \/ consumers = {} /\ SetPhase(m, "lost")

ClientPublishes(m) ==
  /\ phase[m] = "new" /\ KindOf[m] # "broadcast"
  /\ Route(m)
  /\ UNCHANGED <<vars, routes, age, replies, badTags, crashed>>

\* send() of a notification: the exchange routes it to the server's own queue
\* too, which is bound to every notification.
Broadcast(m) ==
  /\ phase[m] = "new" /\ KindOf[m] = "broadcast"
  /\ connected /\ CanUse(channel)
  /\ Route(m)
  /\ UNCHANGED <<vars, routes, age, replies, badTags, crashed>>

-----------------------------------------------------------------------------
(***************************************************************************)
(* handleIncomingMessage(), one turn of the event loop.                    *)
(***************************************************************************)

\* ack() or nack() on this.channel.  A channel that is closed throws, and the
\* nack() of the catch clause throws again; an open one that did not make the
\* delivery is closed by the broker, later.
SettleDelivery(c) ==
  \/ channel = c /\ UNCHANGED <<badTags, crashed>>
  \/ channel # c /\ CanUse(channel) /\ badTags' = badTags \union {channel} /\ UNCHANGED crashed
  \/ ~CanUse(channel) /\ crashed' = TRUE /\ UNCHANGED badTags

\* Routing information is kept for a message that says where its answer goes.
KeepsRoute_Mutant(m) == KindOf[m] \in HasId
KeepsRoute_Mutant2(m) == m \in Addressed
KeepsRoute(m) == KindOf[m] \in HasId /\ m \in Addressed

StoreRoute(m) ==
  IF KeepsRoute(m)
    THEN /\ routes' = [routes EXCEPT ![IdOf[m]] = m]
         /\ age' = [age EXCEPT ![IdOf[m]] = 0]
    ELSE UNCHANGED <<routes, age>>

\* The server answers requests and nothing else.
Accept(m) ==
  /\ StoreRoute(m)
  /\ SetPhase(m, IF KindOf[m] = "request" THEN "handling" ELSE "consumed")

Deliver(m, c) ==
  /\ phase[m] = "queued"
  /\ c \in consumers /\ CanUse(c)
  /\ \/ /\ channel = 0
        /\ SetPhase(m, "unacked")
        /\ UNCHANGED <<routes, age, badTags, crashed>>
     \/ /\ channel # 0 /\ KindOf[m] = "malformed"
        /\ SetPhase(m, "refused")
        /\ SettleDelivery(c)
        /\ UNCHANGED <<routes, age>>
     \/ /\ channel # 0 /\ KindOf[m] # "malformed"
        /\ Accept(m)
        /\ SettleDelivery(c)
  /\ UNCHANGED <<vars, replies>>

\* The broker answers an unknown delivery tag with a channel error.
BadTagClosesChannel(c) ==
  /\ c \in badTags /\ CanUse(c)
  /\ ChannelClosed(c)
  /\ badTags' = badTags \ {c}
  /\ UNCHANGED <<faults, routes, age, replies, crashed>>

-----------------------------------------------------------------------------
(***************************************************************************)
(* Answers.                                                                *)
(***************************************************************************)

RemoveRoutes(I) ==
  /\ routes' = [i \in Ids |-> IF i \in I THEN NoRoute ELSE routes[i]]
  /\ age' = [i \in Ids |-> IF i \in I THEN 0 ELSE age[i]]

AnsweredRoutes_Mutant(m) == {}
AnsweredRoutes(m) == {IdOf[m]}

\* send() of a response.  A request the server was told to cancel gets none.
Answer(m) ==
  /\ phase[m] = "handling"
  /\ \/ /\ ~connected \/ channel = 0 \/ routes[IdOf[m]] = NoRoute
        /\ SetPhase(m, "unanswered")
        /\ UNCHANGED <<routes, age, replies>>
     \/ /\ connected /\ channel # 0 /\ routes[IdOf[m]] # NoRoute
        /\ RemoveRoutes(AnsweredRoutes(m))
        /\ IF CanUse(channel)
             THEN /\ replies' = replies \union {<<m, routes[IdOf[m]]>>}
                  /\ SetPhase(m, "answered")
             ELSE /\ SetPhase(m, "unanswered")   \* sendToQueue() throws
                  /\ UNCHANGED replies
  /\ UNCHANGED <<vars, badTags, crashed>>

Cancel(m) ==
  /\ phase[m] = "handling"
  /\ SetPhase(m, "cancelled")
  /\ UNCHANGED <<vars, routes, age, replies, badTags, crashed>>

-----------------------------------------------------------------------------
(***************************************************************************)
(* Time and the cleanup interval.                                          *)
(***************************************************************************)

Stored == {i \in Ids : routes[i] # NoRoute}

Tick ==
  /\ \E i \in Stored : age[i] <= MessageTTL
  /\ age' = [i \in Ids |-> IF i \in Stored /\ age[i] <= MessageTTL THEN age[i] + 1 ELSE age[i]]
  /\ UNCHANGED <<vars, phase, routes, replies, badTags, crashed>>

Expired_Mutant == {i \in Stored : age[i] >= MessageTTL}
Expired_Mutant2 == {i \in Stored : age[i] < MessageTTL}
Expired == {i \in Stored : age[i] > MessageTTL}

Cleanup ==
  /\ cleanupTimer
  /\ Expired # {}
  /\ RemoveRoutes(Expired)
  /\ UNCHANGED <<vars, phase, replies, badTags, crashed>>

-----------------------------------------------------------------------------
\* What the connection does to the messages: the queue is exclusive and
\* auto-deleted, and its messages go with it.
QueueGone == owner # 0 /\ owner' # owner

LinkStep ==
  /\ Next
  /\ phase' = IF QueueGone
                THEN [m \in Messages |-> IF phase[m] = "queued" THEN "lost" ELSE phase[m]]
                ELSE phase
  /\ UNCHANGED <<routes, age, replies, badTags, crashed>>

TagStep ==
  /\ \E c \in Dials : BadTagClosesChannel(c)
  /\ phase' = IF QueueGone
                THEN [m \in Messages |-> IF phase[m] = "queued" THEN "lost" ELSE phase[m]]
                ELSE phase

MessageStep(m) ==
  \/ ClientPublishes(m) \/ Broadcast(m)
  \/ \E c \in Dials : Deliver(m, c)
  \/ Answer(m) \/ Cancel(m)

RoutingNext ==
  /\ ~crashed
  /\ LinkStep \/ TagStep \/ Tick \/ Cleanup \/ \E m \in Messages : MessageStep(m)

RoutingSpec == RoutingInit /\ [][RoutingNext]_<<vars, routingVars>>

\* Time passes and the interval fires.
RoutingFairSpec ==
  /\ RoutingSpec
  /\ WF_<<vars, routingVars>>(~crashed /\ Tick)
  /\ WF_<<vars, routingVars>>(~crashed /\ Cleanup)

-----------------------------------------------------------------------------
(***************************************************************************)
(* Properties.                                                             *)
(***************************************************************************)

\* The answer to a request goes to the replyTo of that request, with its
\* correlationId, and a request without them gets none, as long as no two
\* messages that await an answer share an id.
RepliesReachAsker == \A x \in replies : x[1] = x[2] /\ x[1] \in Addressed

\* Ids may be used again in turn: while a request is handled no other message is
\* stored under its id, and a request that does not say where its answer goes
\* comes when none is stored under its own.
ComesInTurn(m) ==
  /\ KeepsRoute(m) => \A n \in Messages : phase[n] = "handling" => IdOf[n] # IdOf[m]
  /\ KindOf[m] = "request" /\ m \notin Addressed => routes[IdOf[m]] = NoRoute

InTurn ==
  \A m \in Messages :
    phase[m] = "queued" /\ phase'[m] \in {"handling", "consumed"} => ComesInTurn(m)

\* Routing information is used once: nobody gets two answers, and no request is
\* answered twice, even when clients share ids and overwrite each other's entries.
AtMostOneReply ==
  \A x, y \in replies : x[1] = y[1] \/ x[2] = y[2] => x = y

\* An entry goes when it is used or when it has outlived the message TTL, not
\* before: a request that is answered within the TTL finds its way back.
RoutesLast ==
  [][\A i \in Ids :
       (routes[i] # NoRoute /\ routes'[i] = NoRoute)
         => \/ age[i] > MessageTTL
            \/ \E m \in Messages : IdOf[m] = i /\ phase[m] = "handling" /\ phase'[m] # "handling"
    ]_<<vars, routingVars>>

\* Every delivery is settled, or the transport is closing: with connections
\* that fail as a whole no delivery meets a channel that cannot settle it.
DeliveriesSettle ==
  /\ ~crashed /\ badTags = {}
  /\ \A m \in Messages : phase[m] = "unacked" => closing

\* Entries nobody answers do not stay: each is replaced or removed in time,
\* unless close() has stopped the cleanup or the process has gone down.
RoutesExpire ==
  \A i \in Ids : []<>(routes[i] = NoRoute \/ closing \/ crashed \/ age[i] <= MessageTTL)
=============================================================================
