------------------------ MODULE AmqpTransport_proofs ------------------------
(***************************************************************************)
(* Proofs about AmqpTransport, for every limit and every mix of faults.    *)
(***************************************************************************)
EXTENDS AmqpTransport, TLAPS

USE BoundsAssumption, FaultAssumption

\* TypeOK in two parts, because no single prover deals with both at once.
FlagsType ==
  /\ connected \in BOOLEAN
  /\ closing \in BOOLEAN
  /\ closeNotified \in BOOLEAN
  /\ reconnectTimer \in BOOLEAN
  /\ cleanupTimer \in BOOLEAN

DataType ==
  /\ startCall \in {"no", "pending", "resolved", "rejected"}
  /\ closeCall \in {"no", "channel", "connection", "done"}
  /\ closeOn \in NullOr
  /\ attempts \in 0 .. MaxReconnectAttempts
  /\ connection \in NullOr
  /\ channel \in NullOr
  /\ dials \in NullOr
  /\ dial \in [Dials -> InFlightPhases \union {"unused", "ended"}]
  /\ rpc \in [Dials -> NullOr]
  /\ conn \in [Dials -> {"none", "open", "erred", "closed"}]
  /\ chan \in [Dials -> {"none", "open", "closed"}]
  /\ owner \in NullOr
  /\ consumers \in SUBSET Dials
  /\ faults \in 0 .. MaxFaults
  /\ lateDials \in SUBSET Dials

LEMMA TypeParts == TypeOK <=> FlagsType /\ DataType
  BY Zenon DEF TypeOK, FlagsType, DataType

\* The helpers that change fields keep their types; a step is any of them under
\* the field values that hold before it.
LEMMA ScheduleReconnectType ==
  ASSUME TypeOK, ScheduleReconnect
  PROVE  /\ attempts' \in 0 .. MaxReconnectAttempts
         /\ reconnectTimer' \in BOOLEAN
         /\ closeNotified' \in BOOLEAN
<1>1. attempts' \in 0 .. MaxReconnectAttempts
  BY DEF TypeOK, ScheduleReconnect, AttemptsExhausted, GiveUp, ArmReconnectTimer
<1>2. reconnectTimer' \in BOOLEAN /\ closeNotified' \in BOOLEAN
  BY Zenon DEF TypeOK, ScheduleReconnect, GiveUp, ArmReconnectTimer
<1>3. QED
  BY <1>1, <1>2

LEMMA EventType ==
  ASSUME TypeOK, HandleConnectionEvent
  PROVE  /\ connected' \in BOOLEAN
         /\ attempts' \in 0 .. MaxReconnectAttempts
         /\ reconnectTimer' \in BOOLEAN
         /\ closeNotified' \in BOOLEAN
<1>1. CASE closing
  BY <1>1 DEF HandleConnectionEvent, TypeOK
<1>2. CASE ~closing
  BY <1>2, ScheduleReconnectType DEF HandleConnectionEvent
<1>3. QED
  BY <1>1, <1>2

LEMMA CloseAwaitLostType ==
  ASSUME TypeOK, NEW S, CloseAwaitLost(S)
  PROVE  /\ connected' \in BOOLEAN
         /\ attempts' \in 0 .. MaxReconnectAttempts
         /\ reconnectTimer' \in BOOLEAN
         /\ closeNotified' \in BOOLEAN
         /\ closeCall' \in {"no", "channel", "connection", "done"}
         /\ closeOn' \in NullOr
<1>1. CASE CloseRejectedBy(S)
  BY <1>1 DEF CloseAwaitLost, TypeOK
<1>2. CASE ~CloseRejectedBy(S)
  BY <1>2, EventType DEF CloseAwaitLost, TypeOK
<1>3. QED
  BY <1>1, <1>2

LEMMA RejectDialsType ==
  ASSUME TypeOK, NEW D, RejectDials(D)
  PROVE  /\ dial' \in [Dials -> InFlightPhases \union {"unused", "ended"}]
         /\ startCall' \in {"no", "pending", "resolved", "rejected"}
  BY DEF RejectDials, TypeOK

LEMMA BrokerType ==
  ASSUME TypeOK, NEW c \in Dials
  PROVE  /\ DropChannels({c}) => /\ chan' \in [Dials -> {"none", "open", "closed"}]
                                 /\ consumers' \in SUBSET Dials
                                 /\ owner' \in NullOr
         /\ DropConnection(c) => /\ conn' \in [Dials -> {"none", "open", "erred", "closed"}]
                                 /\ chan' \in [Dials -> {"none", "open", "closed"}]
                                 /\ consumers' \in SUBSET Dials
                                 /\ owner' \in NullOr
<1>1. 0 \in NullOr
  BY DEF NullOr
<1>2. QED
  BY <1>1 DEF DropChannels, DropConnection, TypeOK

LEMMA BeginDialType ==
  ASSUME TypeOK, BeginDial
  PROVE  /\ dials' \in NullOr
         /\ dials + 1 \in Dials
         /\ dial' \in [Dials -> InFlightPhases \union {"unused", "ended"}]
         /\ dial'[dials + 1] = "dialing"
  BY DEF BeginDial, TypeOK, NullOr, Dials, InFlightPhases

LEMMA CloseNextType ==
  ASSUME TypeOK, CloseConnectionNext
  PROVE  /\ closeCall' \in {"no", "channel", "connection", "done"}
         /\ closeOn' \in NullOr
         /\ closeNotified' \in BOOLEAN
<1>1. 0 \in NullOr
  BY DEF NullOr
<1>2. closeCall' \in {"no", "channel", "connection", "done"} /\ closeOn' \in NullOr
  BY <1>1 DEF CloseConnectionNext, CloseEnds, TypeOK
<1>3. closeNotified' \in BOOLEAN
  BY Zenon DEF CloseConnectionNext, CloseEnds, TypeOK
<1>4. QED
  BY <1>2, <1>3

-----------------------------------------------------------------------------
LEMMA InitType == Init => TypeOK
<1> SUFFICES ASSUME Init PROVE TypeOK
  OBVIOUS
<1>1. FlagsType
  BY Zenon DEF Init, FlagsType
<1>2. DataType
  BY DEF Init, DataType, NullOr, Dials, InFlightPhases
<1>3. QED
  BY <1>1, <1>2, TypeParts

LEMMA NextType == TypeOK /\ [Next]_vars => TypeOK'
<1> SUFFICES ASSUME TypeOK, [Next]_vars PROVE TypeOK'
  OBVIOUS
<1>1. CASE Close
  <2>1. FlagsType'
    BY <1>1, CloseNextType, Zenon DEF Close, CloseFields, CloseEnds, TypeOK, FlagsType
  <2>2. DataType'
    BY <1>1, CloseNextType
    DEF Close, CloseEnds, TypeOK, DataType, brokerVars, InFlight, NullOr
  <2>3. QED
    BY <2>1, <2>2, TypeParts, PTL
<1>2. CASE Start
  BY <1>2, BeginDialType DEF Start, TypeOK, brokerVars
<1>3. CASE ReconnectTimerFires
  BY <1>3, BeginDialType DEF ReconnectTimerFires, TimerConsumed, TypeOK, brokerVars
<1>4. CASE CloseChannelDone
  <2>1. closeOn \in Dials
    BY <1>4 DEF CloseChannelDone, CanUse, TypeOK, NullOr, Dials
  <2>2. QED
    BY <1>4, <2>1, CloseNextType, RejectDialsType, BrokerType
    DEF CloseChannelDone, TypeOK, NullOr
<1>5. CASE CloseConnectionDone
  <2>1. closeOn \in Dials
    BY <1>5 DEF CloseConnectionDone, TypeOK, NullOr, Dials
  <2>2. FlagsType'
    BY <1>5, Zenon DEF CloseConnectionDone, TypeOK, FlagsType
  <2>3. DataType'
    <3>1. /\ closeCall' \in {"no", "channel", "connection", "done"}
          /\ connection' \in NullOr
      BY <1>5 DEF CloseConnectionDone, NullOr
    <3>2. QED
      BY <1>5, <2>1, <3>1, RejectDialsType, BrokerType DEF CloseConnectionDone, TypeOK, DataType
  <2>4. QED
    BY <2>2, <2>3, TypeParts, PTL
<1>6. ASSUME NEW d \in Dials, DialStep(d) PROVE TypeOK'
  <2>1. CASE DialOk(d)
    BY <2>1 DEF DialOk, TypeOK, NullOr, Dials, InFlightPhases
  <2>2. CASE OpenChannel(d)
    BY <2>2 DEF OpenChannel, TypeOK, NullOr, Dials, InFlightPhases
  <2>3. CASE DeclareQueue(d)
    BY <2>3 DEF DeclareQueue, fieldVars, TypeOK, NullOr, Dials, InFlightPhases
  <2>4. CASE Subscribe(d)
    <3>1. FlagsType'
      BY <2>4, Zenon DEF Subscribe, TypeOK, FlagsType
    <3>2. DataType'
      <4>1. consumers' \in SUBSET Dials
        <5>1. CanUse(rpc[d]) /\ consumers' = consumers \union {rpc[d]}
          BY <2>4, Zenon DEF Subscribe
        <5>2. rpc[d] \in Dials
          BY <5>1 DEF CanUse, TypeOK, NullOr, Dials
        <5>3. QED
          BY <5>1, <5>2 DEF TypeOK
      <4>2. attempts' \in 0 .. MaxReconnectAttempts
        <5>1. attempts' = 0
          BY <2>4, Zenon DEF Subscribe
        <5>2. QED
          BY <5>1
      <4>3. startCall' \in {"no", "pending", "resolved", "rejected"}
        BY <2>4, Zenon DEF Subscribe, TypeOK
      <4>4. dial' \in [Dials -> InFlightPhases \union {"unused", "ended"}]
        BY <2>4 DEF Subscribe, TypeOK
      <4>5. QED
        BY <2>4, <4>1, <4>2, <4>3, <4>4, Zenon DEF Subscribe, TypeOK, DataType
    <3>3. QED
      BY <3>1, <3>2, TypeParts, PTL
  <2>5. CASE DialFails(d)
    <3>1. /\ attempts' \in 0 .. MaxReconnectAttempts
          /\ reconnectTimer' \in BOOLEAN
          /\ closeNotified' \in BOOLEAN
      BY <2>5, ScheduleReconnectType DEF DialFails, RetryRejected, TypeOK
    <3>2. faults' \in 0 .. MaxFaults
      BY <2>5 DEF DialFails, SetupThrows, Fault, TypeOK
    <3>3. QED
      <4>1. owner' \in NullOr
        BY <2>5 DEF DialFails, SetupThrows, TypeOK
      <4>2. QED
        BY <2>5, <3>1, <3>2, <4>1 DEF DialFails, TypeOK, InFlightPhases
  <2>6. QED
    BY <1>6, <2>1, <2>2, <2>3, <2>4, <2>5 DEF DialStep
<1>7. ASSUME NEW c \in Dials, Event(c) PROVE TypeOK'
  <2>1. CASE ChannelError(c)
    <3>1. faults' \in 0 .. MaxFaults
      BY <2>1 DEF ChannelError, ChannelClosed, Fault, TypeOK
    <3>2. QED
      BY <2>1, <3>1, EventType, CloseAwaitLostType, RejectDialsType, BrokerType
      DEF ChannelError, ChannelClosed, TypeOK
  <2>2. CASE ConnectionError(c)
    BY <2>2, EventType DEF ConnectionError, Fault, callVars, TypeOK
  <2>3. CASE ConnectionClosed(c)
    <3>1. faults' \in 0 .. MaxFaults
      BY <2>3 DEF ConnectionClosed, Fault, TypeOK
    <3>2. QED
      BY <2>3, <3>1, CloseAwaitLostType, RejectDialsType, BrokerType
      DEF ConnectionClosed, TypeOK
  <2>4. QED
    BY <1>7, <2>1, <2>2, <2>3 DEF Event
<1>8. CASE UNCHANGED vars
  BY <1>8 DEF vars, fieldVars, callVars, brokerVars, TypeOK
<1>9. QED
  BY <1>1, <1>2, <1>3, <1>4, <1>5, <1>6, <1>7, <1>8 DEF Next

\* Every field, call and broker object keeps its type; in particular no order of
\* events counts more reconnect attempts than maxReconnectAttempts.
THEOREM TypeCorrect == Spec => []TypeOK
<1>1. QED
  BY InitType, NextType, PTL DEF Spec

-----------------------------------------------------------------------------
(***************************************************************************)
(* Safety.  NeverStranded is not inductive by itself: a step of close()    *)
(* must be known to run with `closing' set, and start() must be known to   *)
(* come before close().                                                    *)
(***************************************************************************)

CloseIsClosing == closeCall # "no" => closing

ClosedIsQuiet == closing => ~reconnectTimer /\ startCall # "no"

SafetyInv ==
  /\ TypeOK
  /\ NeverStranded
  /\ CloseIsClosing
  /\ ClosedIsQuiet

\* scheduleReconnect() leaves a transport that is not closing with a timer or
\* with its closure reported, and never arms the timer of a closing one.
LEMMA ScheduleReconnectKeeps ==
  ASSUME TypeOK, ScheduleReconnect
  PROVE  /\ ~closing => reconnectTimer' \/ closeNotified'
         /\ closing => reconnectTimer' = reconnectTimer
  BY DEF ScheduleReconnect, ReconnectBlocked, GiveUp, ArmReconnectTimer

LEMMA EventKeeps ==
  ASSUME TypeOK, HandleConnectionEvent
  PROVE  /\ ~closing => reconnectTimer' \/ closeNotified'
         /\ closing => reconnectTimer' = reconnectTimer
  BY ScheduleReconnectKeeps, Zenon DEF HandleConnectionEvent

LEMMA CloseAwaitLostKeeps ==
  ASSUME TypeOK, NEW S, CloseAwaitLost(S)
  PROVE  /\ ~closing => reconnectTimer' \/ closeNotified'
         /\ closing => reconnectTimer' = reconnectTimer
         /\ closeCall = "no" => closeCall' = "no"
  BY EventKeeps, Zenon DEF CloseAwaitLost, CloseRejectedBy

\* A channel the broker closes, whatever the reason.  The messages of AmqpRouting
\* know one more than Next: an acknowledgement the channel did not expect.
ChannelFails(c) == chan[c] = "open" /\ conn[c] = "open" /\ ChannelClosed(c)

Failure(c) == ChannelFails(c) \/ ConnectionError(c) \/ ConnectionClosed(c)

LEMMA EventIsFailure == ASSUME NEW c \in Dials, Event(c) PROVE Failure(c)
  BY Zenon DEF Event, Failure, ChannelError, ChannelFails

\* One step of a connection or channel event, of whichever connection.
LEMMA FailureStep ==
  ASSUME TypeOK, NEW c \in Dials, Failure(c)
  PROVE  /\ ~closing => reconnectTimer' \/ closeNotified'
         /\ closing => reconnectTimer' = reconnectTimer
         /\ closeCall = "no" => closeCall' = "no"
         /\ startCall # "no" => startCall' # "no"
         /\ closing' = closing /\ dials' = dials
<1>1. CASE ChannelFails(c)
  BY <1>1, EventKeeps, CloseAwaitLostKeeps, Zenon DEF ChannelFails, ChannelClosed, RejectDials
<1>2. CASE ConnectionError(c)
  BY <1>2, EventKeeps, Zenon DEF ConnectionError, callVars
<1>3. CASE ConnectionClosed(c)
  BY <1>3, CloseAwaitLostKeeps, Zenon DEF ConnectionClosed, RejectDials
<1>4. QED
  BY <1>1, <1>2, <1>3, Zenon DEF Failure

LEMMA FailureSafe ==
  ASSUME SafetyInv, TypeOK', NEW c \in Dials, Failure(c)
  PROVE  SafetyInv'
  BY FailureStep, Zenon DEF SafetyInv, NeverStranded, CloseIsClosing, ClosedIsQuiet

LEMMA InitSafety == Init => SafetyInv
  BY InitType, Zenon DEF Init, SafetyInv, NeverStranded, CloseIsClosing, ClosedIsQuiet

LEMMA NextSafety == SafetyInv /\ [Next]_vars => SafetyInv'
<1> SUFFICES ASSUME SafetyInv, [Next]_vars PROVE SafetyInv'
  OBVIOUS
<1> USE DEF SafetyInv
<1>t. TypeOK'
  BY NextType
<1>1. CASE Close
  BY <1>1, <1>t, Zenon DEF Close, CloseFields, NeverStranded, CloseIsClosing, ClosedIsQuiet
<1>2. CASE Start
  BY <1>2, <1>t, Zenon DEF Start, NeverStranded, CloseIsClosing, ClosedIsQuiet
<1>3. CASE ReconnectTimerFires
  <2>1. ~closing => InFlight' # {}
    BY <1>3, BeginDialType DEF ReconnectTimerFires, InFlight, InFlightPhases
  <2>2. QED
    BY <1>3, <2>1, <1>t, Zenon
    DEF ReconnectTimerFires, TimerConsumed, NeverStranded, CloseIsClosing, ClosedIsQuiet
<1>4. CASE CloseChannelDone
  BY <1>4, <1>t, Zenon
  DEF CloseChannelDone, RejectDials, NeverStranded, CloseIsClosing, ClosedIsQuiet
<1>5. CASE CloseConnectionDone
  BY <1>5, <1>t, Zenon
  DEF CloseConnectionDone, RejectDials, NeverStranded, CloseIsClosing, ClosedIsQuiet
<1>6. ASSUME NEW d \in Dials, DialStep(d) PROVE SafetyInv'
  <2>1. CASE DialOk(d) \/ OpenChannel(d) \/ DeclareQueue(d)
    <3>1. dial'[d] \in InFlightPhases
      BY <2>1 DEF DialOk, OpenChannel, DeclareQueue, TypeOK, InFlightPhases
    <3>2. InFlight' # {}
      BY <3>1, Zenon DEF InFlight
    <3>3. QED
      BY <2>1, <3>2, <1>t
      DEF DialOk, OpenChannel, DeclareQueue, fieldVars, NeverStranded, CloseIsClosing,
          ClosedIsQuiet
  <2>2. CASE Subscribe(d)
    BY <2>2, <1>t, Zenon DEF Subscribe, NeverStranded, CloseIsClosing, ClosedIsQuiet
  <2>3. CASE DialFails(d)
    BY <2>3, <1>t, ScheduleReconnectKeeps
    DEF DialFails, RetryRejected, NeverStranded, CloseIsClosing, ClosedIsQuiet
  <2>4. QED
    BY <1>6, <2>1, <2>2, <2>3, Zenon DEF DialStep
<1>7. ASSUME NEW c \in Dials, Event(c) PROVE SafetyInv'
  BY <1>7, <1>t, EventIsFailure, FailureSafe, Zenon
<1>8. CASE UNCHANGED vars
  BY <1>8, <1>t, Zenon
  DEF vars, fieldVars, callVars, NeverStranded, CloseIsClosing, ClosedIsQuiet, InFlight
<1>9. QED
  BY <1>1, <1>2, <1>3, <1>4, <1>5, <1>6, <1>7, <1>8, Zenon DEF Next

LEMMA SafetyHolds == Spec => []SafetyInv
  BY InitSafety, NextSafety, PTL DEF Spec

\* Whatever order errors, closures and rejections arrive in, a transport that lost
\* its connection has a reconnect under way, was closed or reported its closure.
THEOREM NeverStrandedHolds == Spec => []NeverStranded
<1>1. SafetyInv => NeverStranded
  BY DEF SafetyInv
<1>2. QED
  BY <1>1, SafetyHolds, PTL

LEMMA QuietStep ==
  ASSUME SafetyInv, [Next]_vars
  PROVE  [closing => ~reconnectTimer' /\ dials' = dials]_vars
<1> SUFFICES ASSUME Next, closing
             PROVE  ~reconnectTimer' /\ dials' = dials
  BY Zenon
<1>q. ~reconnectTimer /\ startCall # "no" /\ TypeOK
  BY Zenon DEF SafetyInv, ClosedIsQuiet
<1>1. CASE Close
  BY <1>1, Zenon DEF Close, CloseFields
<1>2. CASE Start
  BY <1>2, <1>q, Zenon DEF Start
<1>3. CASE ReconnectTimerFires
  BY <1>3, <1>q, Zenon DEF ReconnectTimerFires
<1>4. CASE CloseChannelDone \/ CloseConnectionDone
  <2>1. UNCHANGED <<reconnectTimer, dials>>
    BY <1>4, Zenon DEF CloseChannelDone, CloseConnectionDone
  <2>2. QED
    BY <1>q, <2>1
<1>5. ASSUME NEW d \in Dials, DialStep(d) PROVE ~reconnectTimer' /\ dials' = dials
  <2>1. CASE DialOk(d) \/ OpenChannel(d) \/ DeclareQueue(d) \/ Subscribe(d)
    <3>1. UNCHANGED <<reconnectTimer, dials>>
      BY <2>1, Zenon DEF DialOk, OpenChannel, DeclareQueue, Subscribe, fieldVars
    <3>2. QED
      BY <1>q, <3>1
  <2>2. CASE DialFails(d)
    BY <2>2, <1>q, ScheduleReconnectKeeps DEF DialFails, RetryRejected
  <2>3. QED
    BY <1>5, <2>1, <2>2, Zenon DEF DialStep
<1>6. ASSUME NEW c \in Dials, Event(c) PROVE ~reconnectTimer' /\ dials' = dials
  BY <1>6, <1>q, EventIsFailure, FailureStep, Zenon
<1>7. QED
  BY <1>1, <1>2, <1>3, <1>4, <1>5, <1>6, Zenon DEF Next

\* No event or rejection that arrives after close() arms a timer or dials again.
THEOREM NoReconnectAfterCloseHolds == Spec => NoReconnectAfterClose
<1>1. SafetyInv /\ [Next]_vars => [closing => ~reconnectTimer' /\ dials' = dials]_vars
  BY QuietStep
<1>2. QED
  BY <1>1, SafetyHolds, PTL DEF Spec, NoReconnectAfterClose
=============================================================================
