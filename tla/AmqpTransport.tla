--------------------------- MODULE AmqpTransport ---------------------------
(***************************************************************************)
(* AmqpServerTransport: start(), close(), connect() and the reconnect      *)
(* timer, against a broker that can fail between any two awaits.           *)
(*                                                                         *)
(* Every call of connect() is a dial, numbered in the order the calls are  *)
(* made: dial 1 belongs to start(), every later one to a reconnect timer.  *)
(* Connection d and channel d are the ones dial d creates.  The fields     *)
(* `connection' and `channel' hold such a number, 0 being null, so that a  *)
(* dial can overwrite what another one assigned and an event of an old     *)
(* connection is told apart from one of the current connection, as the     *)
(* code does not.                                                          *)
(***************************************************************************)
EXTENDS Naturals

CONSTANTS
  MaxReconnectAttempts, \* options.maxReconnectAttempts
  MaxDials,             \* bound: calls of connect() in one behaviour
  MaxFaults,            \* bound: failures the network or the broker causes
  ChannelFaults,        \* a channel may be closed by the broker on its own
  SplitEvents           \* `error' and `close' of a connection may come apart

ASSUME BoundsAssumption ==
  /\ MaxReconnectAttempts \in Nat
  /\ MaxDials \in Nat \ {0}
  /\ MaxFaults \in Nat

ASSUME FaultAssumption == ChannelFaults \in BOOLEAN /\ SplitEvents \in BOOLEAN

VARIABLES
  startCall,      \* the promise of start()
  closeCall,      \* the await close() is at
  closeOn,        \* the channel or connection that await is about
  connected,      \* connectionState.connected
  attempts,       \* connectionState.reconnectAttempts
  closing,        \* this.closing
  closeNotified,  \* this.closeNotified
  reconnectTimer, \* this.reconnectTimer # null
  cleanupTimer,   \* this.cleanupTimer # null
  connection,     \* this.connection
  channel,        \* this.channel
  dials,          \* number of connect() calls made so far
  dial,           \* the await each connect() call is at
  rpc,            \* the channel that await is about
  conn,           \* the state of each connection
  chan,           \* the state of each channel
  owner,          \* the connection that holds the exclusive request queue
  consumers,      \* the channels with a consumer on that queue
  faults,         \* faults so far
  lateDials       \* the dials in flight when close() was called

fieldVars  == <<connected, attempts, closing, closeNotified,
                reconnectTimer, cleanupTimer, connection, channel>>
callVars   == <<startCall, closeCall, closeOn, dials, dial, rpc>>
brokerVars == <<conn, chan, owner, consumers>>
vars       == <<fieldVars, callVars, brokerVars, faults, lateDials>>

Dials    == 1 .. MaxDials
NullOr   == 0 .. MaxDials
InFlightPhases == {"dialing", "opening", "declaring", "subscribing"}

TypeOK ==
  /\ startCall \in {"no", "pending", "resolved", "rejected"}
  /\ closeCall \in {"no", "channel", "connection", "done"}
  /\ closeOn \in NullOr
  /\ connected \in BOOLEAN
  /\ attempts \in 0 .. MaxReconnectAttempts
  /\ closing \in BOOLEAN
  /\ closeNotified \in BOOLEAN
  /\ reconnectTimer \in BOOLEAN
  /\ cleanupTimer \in BOOLEAN
  /\ connection \in NullOr
  /\ channel \in NullOr
  /\ dials \in NullOr
  /\ dial \in [Dials -> InFlightPhases \union {"unused", "ended"}]
  /\ rpc \in [Dials -> NullOr]
  /\ conn \in [Dials -> {"none", "open", "erred", "closed"}]
  /\ chan \in [Dials -> {"none", "open", "closed"}]
  /\ owner \in NullOr
  /\ consumers \in SUBSET Dials
  /\ faults \in 0 .. MaxFaults
  /\ lateDials \in SUBSET Dials

Init ==
  /\ startCall = "no" /\ closeCall = "no" /\ closeOn = 0
  /\ connected = FALSE /\ attempts = 0
  /\ closing = FALSE /\ closeNotified = FALSE
  /\ reconnectTimer = FALSE /\ cleanupTimer = FALSE
  /\ connection = 0 /\ channel = 0
  /\ dials = 0
  /\ dial = [d \in Dials |-> "unused"]
  /\ rpc = [d \in Dials |-> 0]
  /\ conn = [d \in Dials |-> "none"]
  /\ chan = [d \in Dials |-> "none"]
  /\ owner = 0 /\ consumers = {}
  /\ faults = 0 /\ lateDials = {}

InFlight == {d \in Dials : dial[d] \in InFlightPhases}

\* The dials whose pending request dies with channel c, with connection c.
WaitOnChannel(c)    == {d \in InFlight : dial[d] \in {"declaring", "subscribing"} /\ rpc[d] = c}
WaitOnConnection(c) == WaitOnChannel(c) \union {d \in InFlight : dial[d] = "opening" /\ d = c}

-----------------------------------------------------------------------------
(***************************************************************************)
(* The code's helpers.                                                     *)
(***************************************************************************)

\* scheduleReconnect() does nothing once the transport closes, or twice.
ReconnectBlocked_Mutant == reconnectTimer
ReconnectBlocked == closing \/ reconnectTimer

AttemptsExhausted_Mutant == attempts > MaxReconnectAttempts
AttemptsExhausted == attempts >= MaxReconnectAttempts

\* It reports the closure to the owner and leaves the rest as it is.
GiveUp_Mutant == closeNotified' = TRUE /\ reconnectTimer' = TRUE /\ UNCHANGED attempts
GiveUp == closeNotified' = TRUE /\ UNCHANGED <<attempts, reconnectTimer>>

ArmReconnectTimer ==
  /\ attempts' = attempts + 1
  /\ reconnectTimer' = TRUE
  /\ UNCHANGED closeNotified

ScheduleReconnect ==
  \/ ReconnectBlocked /\ UNCHANGED <<attempts, reconnectTimer, closeNotified>>
  \/ ~ReconnectBlocked /\ AttemptsExhausted /\ GiveUp
  \/ ~ReconnectBlocked /\ ~AttemptsExhausted /\ ArmReconnectTimer

\* handleConnectionError() and handleConnectionClosed() do the same to the
\* fields modelled here, whichever connection or channel the event is from.
HandleConnectionEvent_Mutant == ScheduleReconnect /\ UNCHANGED connected
HandleConnectionEvent ==
  /\ connected' = FALSE
  /\ IF closing THEN UNCHANGED <<attempts, reconnectTimer, closeNotified>>
                ELSE ScheduleReconnect

\* The catch of a reconnect timer's connect().
RetryRejected_Mutant == UNCHANGED <<attempts, reconnectTimer, closeNotified>>
RetryRejected == ScheduleReconnect

\* The next call of connect(), up to its first await.
BeginDial ==
  /\ dials < MaxDials
  /\ dials' = dials + 1
  /\ dial' = [dial EXCEPT ![dials + 1] = "dialing"]

\* The rejections of the pending requests of the dials in D.  The catch of a
\* retry calls scheduleReconnect() too: after the event that caused the
\* rejection it finds the timer armed, the transport closing or the closure
\* reported, and changes nothing.
RejectDials(D) ==
  /\ dial' = [d \in Dials |-> IF d \in D THEN "ended" ELSE dial[d]]
  /\ startCall' = IF 1 \in D THEN "rejected" ELSE startCall

\* The finally clause of close(), reached when the await on c ends.
CloseRejectedBy(S) == closeCall \in {"channel", "connection"} /\ closeOn \in S

Fault == faults < MaxFaults /\ faults' = faults + 1

\* The broker deletes the queue with its connection, and with its last consumer.
DropChannels(C) ==
  LET left == consumers \ C
  IN  /\ chan' = [c \in Dials |-> IF c \in C /\ chan[c] = "open" THEN "closed" ELSE chan[c]]
      /\ consumers' = left
      /\ owner' = IF consumers # {} /\ left = {} THEN 0 ELSE owner

DropConnection(c) ==
  /\ conn' = [conn EXCEPT ![c] = "closed"]
  /\ chan' = [chan EXCEPT ![c] = IF @ = "open" THEN "closed" ELSE @]
  /\ consumers' = consumers \ {c}
  /\ owner' = IF owner = c THEN 0 ELSE owner

-----------------------------------------------------------------------------
(***************************************************************************)
(* start() and connect().                                                  *)
(***************************************************************************)

Start ==
  /\ startCall = "no"
  /\ startCall' = "pending"
  /\ closing' = FALSE /\ closeNotified' = FALSE
  /\ BeginDial
  /\ UNCHANGED <<connected, attempts, reconnectTimer, cleanupTimer, connection, channel,
                 closeCall, closeOn, rpc, brokerVars, faults, lateDials>>

\* `await connectFn(url)' resolves: the field is overwritten, whatever it held.
DialOk(d) ==
  /\ dial[d] = "dialing"
  /\ dial' = [dial EXCEPT ![d] = "opening"]
  /\ conn' = [conn EXCEPT ![d] = "open"]
  /\ connection' = d
  /\ UNCHANGED <<connected, attempts, closing, closeNotified, reconnectTimer, cleanupTimer,
                 channel, startCall, closeCall, closeOn, dials, rpc,
                 chan, owner, consumers, faults, lateDials>>

\* `await createChannel()' and prefetch; assertExchange is sent on this.channel,
\* which is still the channel just assigned.
OpenChannel(d) ==
  /\ dial[d] = "opening" /\ conn[d] = "open"
  /\ dial' = [dial EXCEPT ![d] = "declaring"]
  /\ rpc' = [rpc EXCEPT ![d] = d]
  /\ chan' = [chan EXCEPT ![d] = "open"]
  /\ channel' = d
  /\ UNCHANGED <<connected, attempts, closing, closeNotified, reconnectTimer, cleanupTimer,
                 connection, startCall, closeCall, closeOn, dials,
                 conn, owner, consumers, faults, lateDials>>

CanUse(c) == c # 0 /\ chan[c] = "open" /\ conn[c] = "open"

\* this.channel takes requests; on null and on a closed channel they throw at once.
ChannelTakes == channel # 0 /\ chan[channel] = "open"

\* assertQueue: exclusive, so it is granted to one connection at a time.  The
\* bindings and the consumer are then asked of this.channel as it is by now.
DeclareQueue(d) ==
  /\ dial[d] = "declaring" /\ CanUse(rpc[d])
  /\ owner \in {0, rpc[d]}
  /\ ChannelTakes
  /\ owner' = rpc[d]
  /\ dial' = [dial EXCEPT ![d] = "subscribing"]
  /\ rpc' = [rpc EXCEPT ![d] = channel]
  /\ UNCHANGED <<fieldVars, startCall, closeCall, closeOn, dials,
                 conn, chan, consumers, faults, lateDials>>

\* consume resolves and so does connect(): start() or the retry's then() runs.
Subscribe(d) ==
  /\ dial[d] = "subscribing" /\ CanUse(rpc[d]) /\ owner = rpc[d]
  /\ consumers' = consumers \union {rpc[d]}
  /\ dial' = [dial EXCEPT ![d] = "ended"]
  /\ connected' = TRUE
  /\ attempts' = 0
  /\ IF d = 1 THEN startCall' = "resolved" /\ cleanupTimer' = TRUE
              ELSE UNCHANGED <<startCall, cleanupTimer>>
  /\ UNCHANGED <<closing, closeNotified, reconnectTimer, connection, channel,
                 closeCall, closeOn, dials, rpc, conn, chan, owner, faults, lateDials>>

\* assertQueue or, with the queue declared, the binding after it throws: close() has
\* set this.channel to null, or it is a closed channel of another dial.
SetupThrows(d) ==
  /\ dial[d] = "declaring" /\ CanUse(rpc[d]) /\ ~ChannelTakes
  /\ \/ UNCHANGED owner
     \/ owner \in {0, rpc[d]} /\ owner' = rpc[d]

\* connect() rejects without an event: the broker cannot be reached or refuses the
\* channel, or the setup throws.
DialFails(d) ==
  /\ \/ dial[d] = "dialing" /\ Fault /\ UNCHANGED owner
     \/ dial[d] = "opening" /\ ChannelFaults /\ Fault /\ UNCHANGED owner
     \/ SetupThrows(d) /\ UNCHANGED faults
  /\ dial' = [dial EXCEPT ![d] = "ended"]
  /\ IF d = 1
       THEN startCall' = "rejected" /\ UNCHANGED <<attempts, reconnectTimer, closeNotified>>
       ELSE RetryRejected /\ UNCHANGED startCall
  /\ UNCHANGED <<connected, closing, cleanupTimer, connection, channel,
                 closeCall, closeOn, dials, rpc, conn, chan, consumers, lateDials>>

TimerConsumed_Mutant == UNCHANGED reconnectTimer
TimerConsumed == reconnectTimer' = FALSE

\* The reconnect timer fires.
ReconnectTimerFires ==
  /\ reconnectTimer
  /\ TimerConsumed
  /\ IF closing THEN UNCHANGED <<dials, dial>> ELSE BeginDial
  /\ UNCHANGED <<connected, attempts, closing, closeNotified, cleanupTimer, connection,
                 channel, startCall, closeCall, closeOn, rpc, brokerVars, faults, lateDials>>

-----------------------------------------------------------------------------
(***************************************************************************)
(* Events of connections and channels.  The promises that an event rejects *)
(* are settled in the turn of the event.                                   *)
(***************************************************************************)

\* What close() does when the await it is at is rejected by the loss of S.
CloseAwaitLost(S) ==
  IF CloseRejectedBy(S)
    THEN /\ closeCall' = "done" /\ closeNotified' = TRUE /\ connected' = FALSE
         /\ UNCHANGED <<closeOn, attempts, reconnectTimer>>
    ELSE /\ HandleConnectionEvent
         /\ UNCHANGED <<closeCall, closeOn>>

\* The broker refuses a request: the queue is locked by another connection.
Conflict(d) ==
  \/ dial[d] = "declaring" /\ owner \notin {0, rpc[d]}
  \/ dial[d] = "subscribing" /\ owner # rpc[d]

\* The broker closes channel c with an error and leaves its connection open.
ChannelClosed(c) ==
  /\ DropChannels({c})
  /\ RejectDials(WaitOnChannel(c))
  /\ IF closeCall = "channel" /\ closeOn = c
       THEN CloseAwaitLost({c})
       ELSE HandleConnectionEvent /\ UNCHANGED <<closeCall, closeOn>>
  /\ UNCHANGED <<closing, cleanupTimer, connection, channel, dials, rpc, conn, lateDials>>

ChannelError(c) ==
  /\ chan[c] = "open" /\ conn[c] = "open"
  /\ \/ \E d \in WaitOnChannel(c) : Conflict(d) /\ UNCHANGED faults
     \/ ChannelFaults /\ Fault
  /\ ChannelClosed(c)

\* The `error' event of a connection whose `close' event is still to come.
ConnectionError(c) ==
  /\ SplitEvents
  /\ conn[c] = "open" /\ Fault
  /\ conn' = [conn EXCEPT ![c] = "erred"]
  /\ HandleConnectionEvent
  /\ UNCHANGED <<closing, cleanupTimer, connection, channel, callVars,
                 chan, owner, consumers, lateDials>>

\* The `close' event, after an `error' event of its own turn or of an earlier one.
ConnectionClosed(c) ==
  /\ \/ conn[c] = "erred" /\ UNCHANGED faults
     \/ conn[c] = "open" /\ Fault
  /\ DropConnection(c)
  /\ RejectDials(WaitOnConnection(c))
  /\ CloseAwaitLost({c})
  /\ UNCHANGED <<closing, cleanupTimer, connection, channel, dials, rpc, lateDials>>

-----------------------------------------------------------------------------
(***************************************************************************)
(* close().                                                                *)
(***************************************************************************)

\* The await close() enters once it is done with the channel: connection.close(),
\* which throws at once on a connection that is not open.
CloseEnds == closeCall' = "done" /\ closeOn' = 0 /\ closeNotified' = TRUE

CloseConnectionNext_Mutant == CloseEnds
CloseConnectionNext ==
  IF connection # 0 /\ conn[connection] = "open"
    THEN closeCall' = "connection" /\ closeOn' = connection /\ UNCHANGED closeNotified
    ELSE CloseEnds

\* The fields close() resets before its first await.
CloseFields_Mutant ==
  closing' = TRUE /\ reconnectTimer' = FALSE /\ cleanupTimer' = FALSE /\ UNCHANGED connected
CloseFields ==
  closing' = TRUE /\ reconnectTimer' = FALSE /\ cleanupTimer' = FALSE /\ connected' = FALSE

Close ==
  /\ startCall \in {"resolved", "rejected"} /\ closeCall = "no"
  /\ CloseFields
  /\ lateDials' = InFlight
  /\ \/ /\ channel # 0 /\ chan[channel] = "open"
        /\ closeCall' = "channel" /\ closeOn' = channel /\ UNCHANGED closeNotified
     \/ channel # 0 /\ chan[channel] # "open" /\ CloseEnds  \* channel.close() throws
     \/ channel = 0 /\ CloseConnectionNext
  /\ UNCHANGED <<attempts, connection, channel, startCall, dials, dial, rpc,
                 brokerVars, faults>>

\* `await channel.close()' resolves; the field is nulled, whatever it holds by now.
CloseChannelDone ==
  /\ closeCall = "channel" /\ CanUse(closeOn)
  /\ DropChannels({closeOn})
  /\ RejectDials(WaitOnChannel(closeOn))
  /\ channel' = 0
  /\ CloseConnectionNext
  /\ UNCHANGED <<connected, attempts, closing, reconnectTimer, cleanupTimer, connection,
                 dials, rpc, conn, faults, lateDials>>

\* `await connection.close()' resolves; the connection emits `close' first.
CloseConnectionDone ==
  /\ closeCall = "connection" /\ closeOn # 0 /\ conn[closeOn] = "open"
  /\ DropConnection(closeOn)
  /\ RejectDials(WaitOnConnection(closeOn))
  /\ connection' = 0
  /\ connected' = FALSE
  /\ closeCall' = "done" /\ closeNotified' = TRUE
  /\ UNCHANGED <<attempts, closing, reconnectTimer, cleanupTimer, channel, closeOn,
                 dials, rpc, faults, lateDials>>

-----------------------------------------------------------------------------
\* A rejected start() is followed by close() in the same turn (attachTransport).
OwnerMustClose == startCall = "rejected" /\ closeCall = "no"

DialStep(d) == DialOk(d) \/ OpenChannel(d) \/ DeclareQueue(d) \/ Subscribe(d) \/ DialFails(d)
Event(c)    == ChannelError(c) \/ ConnectionError(c) \/ ConnectionClosed(c)

Next ==
  \/ Close
  \/ /\ ~OwnerMustClose
     /\ \/ Start
        \/ ReconnectTimerFires
        \/ CloseChannelDone
        \/ CloseConnectionDone
        \/ \E d \in Dials : DialStep(d)
        \/ \E c \in Dials : Event(c)

Spec == Init /\ [][Next]_vars

\* Timers fire, the broker answers or refuses what it was asked, a connection
\* that reported an error also closes.  Nothing obliges a fault, or close().
Fairness ==
  /\ WF_vars(~OwnerMustClose /\ ReconnectTimerFires)
  /\ WF_vars(~OwnerMustClose /\ (CloseChannelDone \/ CloseConnectionDone))
  /\ WF_vars(OwnerMustClose /\ Close)
  /\ \A d \in Dials :
       /\ WF_vars(~OwnerMustClose /\ DialStep(d))
       /\ WF_vars(~OwnerMustClose /\ conn[d] = "erred" /\ ConnectionClosed(d))
       /\ WF_vars(~OwnerMustClose /\ (\E e \in WaitOnChannel(d) : Conflict(e)) /\ ChannelError(d))

FairSpec == Spec /\ Fairness

-----------------------------------------------------------------------------
(***************************************************************************)
(* Properties.                                                             *)
(***************************************************************************)

\* A transport that lost its connection always has a reconnect under way: a
\* timer armed or a dial in flight, until it is closed or has reported its
\* closure.  scheduleReconnect() returns early in three places and is called
\* from four; none of the orders in which these meet may strand the transport.
NeverStranded ==
  (startCall = "resolved" /\ ~connected /\ ~closing /\ ~closeNotified)
    => (reconnectTimer \/ InFlight # {})

\* Once close() was called no reconnect is armed and none is begun, whatever
\* events and rejections arrive after it.
NoReconnectAfterClose ==
  [][closing => ~reconnectTimer' /\ dials' = dials]_vars

\* The transport does what AmqpLink promises its owner: start() never resolves
\* after the closure was reported, and the closure is reported once.
Link == INSTANCE AmqpLink WITH
          link <- [started |-> startCall, up |-> connected,
                   closing |-> closing, notified |-> closeNotified]

ImplementsLink == Link!Spec

\* With connections that fail as a whole (no SplitEvents, no ChannelFaults) at
\* most one dial is in flight, and none while a timer is armed.
OneDialAtATime ==
  /\ \A d, e \in InFlight : d = e
  /\ reconnectTimer => InFlight = {}

\* Under the same faults `connected' is the truth: connection and channel are
\* the same, open, and consume the request queue their connection holds.
ConnectedIsLive ==
  (connected /\ ~closing)
    => /\ CanUse(channel) /\ connection = channel
       /\ owner = channel /\ consumers = {channel}

\* Under the same faults close() leaves no connection open but those of dials
\* that were in flight when it was called: these connect() calls go on, and
\* nothing closes what they open.
CloseReleasesBroker ==
  closeCall = "done" => {c \in Dials : conn[c] = "open"} \subseteq lateDials

\* The closure is reported once reconnecting is hopeless, and is then permanent.
ClosureIsPermanent ==
  (startCall = "resolved" /\ closeNotified /\ ~closing) => ~connected

\* A transport that is not connected connects again or reports its closure.
EventuallySettled == []<>(startCall = "no" \/ connected \/ closeNotified)
=============================================================================
