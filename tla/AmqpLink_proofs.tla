--------------------------- MODULE AmqpLink_proofs ---------------------------
(***************************************************************************)
(* AmqpTransport implements AmqpLink, for every limit and every mix of     *)
(* faults.                                                                 *)
(***************************************************************************)
EXTENDS AmqpTransport_proofs

USE BoundsAssumption, FaultAssumption

-----------------------------------------------------------------------------
(***************************************************************************)
(* The refinement needs more than SafetyInv: nothing happens before        *)
(* start(), close() comes after start() settled, and dial 1 is start()'s   *)
(* own and alone until its connection reports an error, from which it does *)
(* not recover.                                                            *)
(***************************************************************************)

Settled == startCall \in {"resolved", "rejected"}

BeforeStart ==
  startCall = "no" =>
    /\ dials = 0 /\ ~reconnectTimer /\ ~closeNotified /\ ~closing /\ ~connected
    /\ \A d \in Dials : dial[d] = "unused" /\ conn[d] = "none" /\ chan[d] = "none"

ClosingIsCalled == closing => closeCall # "no" /\ Settled

\* Nothing happened yet but what dial 1 did.
Undisturbed ==
  /\ dials = 1 /\ ~reconnectTimer /\ ~closeNotified
  /\ \A d \in Dials \ {1} : dial[d] = "unused" /\ conn[d] = "none" /\ chan[d] = "none"
  /\ dial[1] \in {"dialing", "opening"} => chan[1] = "none"
  /\ dial[1] = "dialing" => conn[1] = "none"
  /\ dial[1] \in {"declaring", "subscribing"} => rpc[1] = 1 /\ channel = 1

\* Connection 1 reported an error: dial 1 waits for its rejection.
Doomed ==
  /\ conn[1] = "erred" /\ dial[1] # "dialing"
  /\ dial[1] \in {"declaring", "subscribing"} => rpc[1] = 1

FirstDial ==
  /\ startCall # "no" => dials > 0
  /\ startCall = "pending" => dial[1] \in InFlightPhases /\ (Undisturbed \/ Doomed)
  /\ Settled => dial[1] = "ended"

LinkInv == SafetyInv /\ BeforeStart /\ ClosingIsCalled /\ FirstDial

LEMMA OneIsDial == 1 \in Dials /\ 0 \notin Dials
  BY DEF Dials

LEMMA InitLink == Init => LinkInv
<1> SUFFICES ASSUME Init PROVE LinkInv
  OBVIOUS
<1>1. BeforeStart
  BY DEF Init, BeforeStart
<1>2. ClosingIsCalled
  BY Zenon DEF Init, ClosingIsCalled
<1>3. FirstDial
  BY DEF Init, FirstDial, Settled
<1> QED BY <1>1, <1>2, <1>3, InitSafety DEF LinkInv

\* Before start() is called nothing else can happen.
LEMMA OnlyStart == ASSUME LinkInv, startCall = "no", Next PROVE Start
<1>1. /\ ~reconnectTimer /\ ~closing
      /\ \A d \in Dials : dial[d] = "unused" /\ conn[d] = "none" /\ chan[d] = "none"
  BY Zenon DEF LinkInv, BeforeStart
<1>2. closeCall = "no"
  BY <1>1, Zenon DEF LinkInv, SafetyInv, CloseIsClosing
<1>3. ~Close /\ ~CloseChannelDone /\ ~CloseConnectionDone
  BY <1>2 DEF Close, CloseChannelDone, CloseConnectionDone
<1>4. ~ReconnectTimerFires
  BY <1>1, Zenon DEF ReconnectTimerFires
<1>5. \A d \in Dials : ~DialStep(d)
  BY <1>1 DEF DialStep, DialOk, OpenChannel, DeclareQueue, Subscribe, DialFails, SetupThrows
<1>6. \A c \in Dials : ~Event(c)
  BY <1>1 DEF Event, ChannelError, ConnectionError, ConnectionClosed
<1> QED BY <1>3, <1>4, <1>5, <1>6, Zenon DEF Next

LEMMA StartLink == ASSUME LinkInv, Start PROVE FirstDial' /\ ClosingIsCalled'
<1>1. /\ startCall = "no" /\ startCall' = "pending" /\ BeginDial /\ ~closing' /\ ~closeNotified'
      /\ UNCHANGED <<reconnectTimer, rpc, conn, chan>>
  BY Zenon DEF Start, brokerVars
<1>2. /\ dials = 0 /\ ~reconnectTimer
      /\ \A d \in Dials : dial[d] = "unused" /\ conn[d] = "none" /\ chan[d] = "none"
  BY <1>1, Zenon DEF LinkInv, BeforeStart
<1>3. /\ dials' = 1 /\ dial'[1] = "dialing"
      /\ \A d \in Dials \ {1} : dial'[d] = "unused"
  <2>1. dial \in [Dials -> InFlightPhases \union {"unused", "ended"}]
    BY DEF LinkInv, SafetyInv, TypeOK
  <2> QED BY <1>1, <1>2, <2>1, OneIsDial DEF BeginDial
<1>4. ~reconnectTimer'
  BY <1>1, <1>2, Zenon
<1>5. Undisturbed'
  BY <1>1, <1>2, <1>3, <1>4, OneIsDial DEF Undisturbed
<1>6. dial'[1] \in InFlightPhases
  BY <1>3 DEF InFlightPhases
<1>7. FirstDial'
  BY <1>1, <1>3, <1>5, <1>6 DEF FirstDial, Settled
<1>8. ClosingIsCalled'
  BY <1>1, Zenon DEF ClosingIsCalled
<1> QED BY <1>7, <1>8

\* Once start() settled its dial is over, and only close() sets `closing'.
LEMMA RejectDialsKeeps ==
  ASSUME NEW D, RejectDials(D), D \subseteq InFlight, dial[1] = "ended"
  PROVE  startCall' = startCall /\ dial'[1] = "ended"
<1>1. 1 \notin D
  BY DEF InFlight, InFlightPhases
<1> QED BY <1>1, OneIsDial DEF RejectDials

LEMMA Waiting ==
  ASSUME NEW c
  PROVE  WaitOnChannel(c) \subseteq InFlight /\ WaitOnConnection(c) \subseteq InFlight
  BY DEF WaitOnChannel, WaitOnConnection

LEMMA BeginDialKeeps ==
  ASSUME TypeOK, BeginDial, dials > 0
  PROVE  dials' > 0 /\ dials' = dials + 1 /\ \A d \in 1 .. dials : d \in Dials => dial'[d] = dial[d]
<1>1. dials \in Nat /\ dial \in [Dials -> InFlightPhases \union {"unused", "ended"}]
  BY DEF TypeOK, NullOr
<1> QED BY <1>1 DEF BeginDial

LEMMA SettledFailure ==
  ASSUME LinkInv, Settled, NEW c \in Dials, Failure(c)
  PROVE  /\ startCall' = startCall /\ dial'[1] = "ended" /\ dials' > 0
         /\ closing' => closeCall' # "no"
<1>1. /\ startCall # "no" /\ dial[1] = "ended" /\ dials > 0
      /\ TypeOK /\ (closing => closeCall # "no")
  BY DEF LinkInv, Settled, FirstDial, ClosingIsCalled, SafetyInv
<1>2. closing' = closing /\ dials' = dials
  BY <1>1, FailureStep, Zenon
<1>3. closeCall # "no" => closeCall' # "no"
  <2>1. closeCall' = closeCall \/ closeCall' = "done"
    BY Zenon DEF Failure, ChannelFails, ChannelClosed, ConnectionError, ConnectionClosed,
                 CloseAwaitLost, callVars
  <2> QED BY <2>1
<1>4. startCall' = startCall /\ dial'[1] = "ended"
  <2>1. CASE ChannelFails(c)
    <3>1. RejectDials(WaitOnChannel(c))
      BY <2>1, Zenon DEF ChannelFails, ChannelClosed
    <3> QED BY <1>1, <3>1, RejectDialsKeeps, Waiting, Zenon
  <2>2. CASE ConnectionError(c)
    BY <1>1, <2>2, Zenon DEF ConnectionError, callVars
  <2>3. CASE ConnectionClosed(c)
    <3>1. RejectDials(WaitOnConnection(c))
      BY <2>3, Zenon DEF ConnectionClosed
    <3> QED BY <1>1, <3>1, RejectDialsKeeps, Waiting, Zenon
  <2> QED BY <2>1, <2>2, <2>3, Zenon DEF Failure
<1> QED BY <1>1, <1>2, <1>3, <1>4, Zenon

LEMMA SettledStep ==
  ASSUME LinkInv, Settled, Next
  PROVE  /\ startCall' = startCall /\ dial'[1] = "ended" /\ dials' > 0
         /\ closing' => closeCall' # "no"
<1>1. /\ startCall # "no" /\ startCall # "pending" /\ dial[1] = "ended" /\ dials > 0
      /\ TypeOK /\ (closing => closeCall # "no")
  BY DEF LinkInv, Settled, FirstDial, ClosingIsCalled, SafetyInv
<1>2. CASE Close
  <2>1. startCall' = startCall /\ dial' = dial /\ dials' = dials
    BY <1>2, Zenon DEF Close
  <2>2. closeCall' # "no"
    BY <1>2 DEF Close, CloseConnectionNext, CloseEnds
  <2> QED BY <1>1, <2>1, <2>2
<1>3. CASE Start
  BY <1>1, <1>3 DEF Start
<1>4. CASE ReconnectTimerFires
  <2>1. startCall' = startCall /\ closing' = closing /\ closeCall' = closeCall
        /\ (UNCHANGED <<dials, dial>> \/ BeginDial)
    BY <1>4, Zenon DEF ReconnectTimerFires
  <2>2. dial'[1] = "ended" /\ dials' > 0
    <3>1. CASE UNCHANGED <<dials, dial>>
      BY <1>1, <3>1
    <3>2. CASE BeginDial
      <4>1. 1 \in 1 .. dials
        BY <1>1 DEF TypeOK, NullOr
      <4> QED BY <1>1, <3>2, <4>1, BeginDialKeeps, OneIsDial
    <3> QED BY <2>1, <3>1, <3>2
  <2> QED BY <1>1, <2>1, <2>2, Zenon
<1>5. CASE CloseChannelDone
  <2>1. RejectDials(WaitOnChannel(closeOn)) /\ CloseConnectionNext /\ dials' = dials
    BY <1>5, Zenon DEF CloseChannelDone
  <2>2. closeCall' # "no"
    BY <2>1 DEF CloseConnectionNext, CloseEnds
  <2> QED BY <1>1, <2>1, <2>2, RejectDialsKeeps, Waiting, Zenon
<1>6. CASE CloseConnectionDone
  <2>1. RejectDials(WaitOnConnection(closeOn)) /\ closeCall' = "done" /\ dials' = dials
    BY <1>6, Zenon DEF CloseConnectionDone
  <2>2. closeCall' # "no"
    BY <2>1
  <2> QED BY <1>1, <2>1, <2>2, RejectDialsKeeps, Waiting, Zenon
<1>7. ASSUME NEW d \in Dials, DialStep(d)
      PROVE  /\ startCall' = startCall /\ dial'[1] = "ended" /\ dials' > 0
             /\ closing' => closeCall' # "no"
  <2>1. d # 1
    BY <1>1, <1>7 DEF DialStep, DialOk, OpenChannel, DeclareQueue, Subscribe, DialFails, SetupThrows
  <2>2. dials' = dials /\ closing' = closing /\ closeCall' = closeCall
    BY <1>7, Zenon DEF DialStep, DialOk, OpenChannel, DeclareQueue, Subscribe, DialFails, fieldVars
  <2>3. startCall' = startCall
    BY <1>7, <2>1, Zenon
    DEF DialStep, DialOk, OpenChannel, DeclareQueue, Subscribe, DialFails, RetryRejected
  <2>4. \E v : dial' = [dial EXCEPT ![d] = v]
    BY <1>7, Zenon DEF DialStep, DialOk, OpenChannel, DeclareQueue, Subscribe, DialFails
  <2>5. dial'[1] = dial[1]
    BY <1>1, <2>1, <2>4, OneIsDial DEF TypeOK
  <2> QED BY <1>1, <2>2, <2>3, <2>5, Zenon
<1>8. ASSUME NEW c \in Dials, Event(c)
      PROVE  /\ startCall' = startCall /\ dial'[1] = "ended" /\ dials' > 0
             /\ closing' => closeCall' # "no"
  BY <1>8, EventIsFailure, SettledFailure, Zenon
<1> QED BY <1>2, <1>3, <1>4, <1>5, <1>6, <1>7, <1>8, Zenon DEF Next

\* While start() is pending, what becomes of dial 1.
FirstDialGoesOn ==
  \/ startCall' = "pending" /\ dial'[1] \in InFlightPhases /\ (Undisturbed' \/ Doomed')
  \/ Settled' /\ dial'[1] = "ended"

LEMMA PendingFacts ==
  ASSUME LinkInv, startCall = "pending"
  PROVE  /\ ~closing /\ closeCall = "no" /\ dials > 0 /\ TypeOK
         /\ dial[1] \in InFlightPhases /\ (Undisturbed \/ Doomed)
<1>1. ~closing
  BY DEF LinkInv, ClosingIsCalled, Settled
<1>2. closeCall = "no"
  BY <1>1, Zenon DEF LinkInv, SafetyInv, CloseIsClosing
<1> QED BY <1>1, <1>2 DEF LinkInv, SafetyInv, FirstDial

\* Events that reject dial 1 settle start(); the others leave it as it is.
LEMMA RejectFirst ==
  ASSUME NEW D, RejectDials(D)
  PROVE  /\ 1 \in D => Settled' /\ dial'[1] = "ended"
         /\ 1 \notin D => startCall' = startCall /\ dial'[1] = dial[1]
  BY OneIsDial DEF RejectDials, Settled

LEMMA UndisturbedDial ==
  ASSUME TypeOK, startCall = "pending", dial[1] \in InFlightPhases, Undisturbed,
         NEW d \in Dials, DialStep(d)
  PROVE  FirstDialGoesOn
<1>1. d = 1
  BY DEF Undisturbed, DialStep, DialOk, OpenChannel, DeclareQueue, Subscribe, DialFails, SetupThrows
<1>2. /\ dial \in [Dials -> InFlightPhases \union {"unused", "ended"}]
      /\ rpc \in [Dials -> NullOr]
      /\ conn \in [Dials -> {"none", "open", "erred", "closed"}]
      /\ chan \in [Dials -> {"none", "open", "closed"}]
  BY DEF TypeOK
<1>3. /\ dials = 1 /\ ~reconnectTimer /\ ~closeNotified
      /\ \A e \in Dials \ {1} : dial[e] = "unused" /\ conn[e] = "none" /\ chan[e] = "none"
      /\ dial[1] \in {"dialing", "opening"} => chan[1] = "none"
      /\ dial[1] = "dialing" => conn[1] = "none"
      /\ dial[1] \in {"declaring", "subscribing"} => rpc[1] = 1 /\ channel = 1
  BY DEF Undisturbed
<1>4. CASE DialOk(1)
  <2>1. /\ dial' = [dial EXCEPT ![1] = "opening"] /\ conn' = [conn EXCEPT ![1] = "open"]
        /\ chan' = chan /\ dials' = dials /\ startCall' = startCall
        /\ ~reconnectTimer' /\ ~closeNotified' /\ dial[1] = "dialing"
    BY <1>3, <1>4, Zenon DEF DialOk
  <2>2. Undisturbed' /\ dial'[1] \in InFlightPhases
    BY <1>2, <1>3, <2>1, OneIsDial DEF Undisturbed, InFlightPhases
  <2> QED BY <2>1, <2>2 DEF FirstDialGoesOn
<1>5. CASE OpenChannel(1)
  <2>1. /\ dial' = [dial EXCEPT ![1] = "declaring"] /\ chan' = [chan EXCEPT ![1] = "open"]
        /\ rpc' = [rpc EXCEPT ![1] = 1] /\ channel' = 1
        /\ conn' = conn /\ dials' = dials /\ startCall' = startCall
        /\ ~reconnectTimer' /\ ~closeNotified'
    BY <1>3, <1>5, Zenon DEF OpenChannel
  <2>2. Undisturbed' /\ dial'[1] \in InFlightPhases
    BY <1>2, <1>3, <2>1, OneIsDial DEF Undisturbed, InFlightPhases
  <2> QED BY <2>1, <2>2 DEF FirstDialGoesOn
<1>6. CASE DeclareQueue(1)
  <2>1. /\ dial' = [dial EXCEPT ![1] = "subscribing"] /\ rpc' = [rpc EXCEPT ![1] = channel]
        /\ conn' = conn /\ chan' = chan /\ dials' = dials /\ startCall' = startCall
        /\ channel' = channel /\ ~reconnectTimer' /\ ~closeNotified' /\ dial[1] = "declaring"
    BY <1>3, <1>6, Zenon DEF DeclareQueue, fieldVars
  <2>2. Undisturbed' /\ dial'[1] \in InFlightPhases
    BY <1>2, <1>3, <2>1, OneIsDial DEF Undisturbed, InFlightPhases
  <2> QED BY <2>1, <2>2 DEF FirstDialGoesOn
<1>7. CASE Subscribe(1) \/ DialFails(1)
  <2>1. dial' = [dial EXCEPT ![1] = "ended"] /\ startCall' \in {"resolved", "rejected"}
    <3>1. /\ dial' = [dial EXCEPT ![1] = "ended"]
          /\ startCall' = "resolved" \/ startCall' = "rejected"
      BY <1>7, Zenon DEF Subscribe, DialFails
    <3> QED BY <3>1
  <2>2. dial'[1] = "ended"
    BY <1>2, <2>1, OneIsDial
  <2> QED BY <2>1, <2>2 DEF FirstDialGoesOn, Settled
<1> QED BY <1>1, <1>4, <1>5, <1>6, <1>7, Zenon DEF DialStep

\* A dial that uses connection 1 cannot go on once that has reported an error.
LEMMA DoomedDial ==
  ASSUME TypeOK, startCall = "pending", dial[1] \in InFlightPhases, Doomed,
         NEW d \in Dials, DialStep(d)
  PROVE  FirstDialGoesOn
<1>1. /\ dial \in [Dials -> InFlightPhases \union {"unused", "ended"}]
      /\ rpc \in [Dials -> NullOr]
      /\ conn \in [Dials -> {"none", "open", "erred", "closed"}]
  BY DEF TypeOK
<1>2. /\ conn[1] = "erred" /\ dial[1] # "dialing"
      /\ dial[1] \in {"declaring", "subscribing"} => rpc[1] = 1
  BY DEF Doomed
<1>3. CASE d = 1
  <2>1. ~DialOk(1) /\ ~OpenChannel(1)
    BY <1>2 DEF DialOk, OpenChannel
  <2>2. ~DeclareQueue(1) /\ ~Subscribe(1)
    BY <1>2 DEF DeclareQueue, Subscribe, CanUse
  <2>3. DialFails(1)
    BY <1>3, <2>1, <2>2, Zenon DEF DialStep
  <2>4. dial' = [dial EXCEPT ![1] = "ended"] /\ startCall' = "rejected"
    BY <2>3, Zenon DEF DialFails
  <2>5. dial'[1] = "ended"
    BY <1>1, <2>4, OneIsDial
  <2> QED BY <2>4, <2>5 DEF FirstDialGoesOn, Settled
<1>4. CASE d # 1
  <2>1. startCall' = startCall
    BY <1>4, Zenon DEF DialStep, DialOk, OpenChannel, DeclareQueue, Subscribe, DialFails, RetryRejected
  <2>2. /\ \E v : dial' = [dial EXCEPT ![d] = v]
        /\ rpc' = rpc \/ \E v : rpc' = [rpc EXCEPT ![d] = v]
        /\ conn' = conn \/ \E v : conn' = [conn EXCEPT ![d] = v]
    BY Zenon DEF DialStep, DialOk, OpenChannel, DeclareQueue, Subscribe, DialFails, brokerVars
  <2>3. dial'[1] = dial[1] /\ rpc'[1] = rpc[1] /\ conn'[1] = conn[1]
    BY <1>1, <1>4, <2>2, OneIsDial
  <2>4. Doomed' /\ dial'[1] \in InFlightPhases
    BY <1>2, <2>3 DEF Doomed
  <2> QED BY <2>1, <2>4, Zenon DEF FirstDialGoesOn
<1> QED BY <1>3, <1>4

LEMMA UndisturbedFailure ==
  ASSUME TypeOK, startCall = "pending", dial[1] \in InFlightPhases, Undisturbed,
         NEW c \in Dials, Failure(c)
  PROVE  FirstDialGoesOn
<1>1. c = 1
  BY DEF Undisturbed, Failure, ChannelFails, ConnectionError, ConnectionClosed
<1>2. CASE ChannelFails(1)
  <2>1. RejectDials(WaitOnChannel(1)) /\ chan[1] = "open"
    BY <1>2, Zenon DEF ChannelFails, ChannelClosed
  <2>2. dial[1] \in {"declaring", "subscribing"} /\ rpc[1] = 1
    BY <2>1 DEF Undisturbed, InFlightPhases
  <2>3. 1 \in WaitOnChannel(1)
    BY <2>2, OneIsDial DEF WaitOnChannel, InFlight
  <2> QED BY <2>1, <2>3, RejectFirst, Zenon DEF FirstDialGoesOn
<1>3. CASE ConnectionError(1)
  <2>1. conn[1] = "open" /\ conn' = [conn EXCEPT ![1] = "erred"]
        /\ startCall' = startCall /\ dial' = dial /\ rpc' = rpc
    BY <1>3, Zenon DEF ConnectionError, callVars
  <2>2. conn'[1] = "erred"
    BY <2>1, OneIsDial DEF TypeOK
  <2>3. Doomed' /\ dial'[1] \in InFlightPhases
    BY <2>1, <2>2 DEF Undisturbed, Doomed
  <2> QED BY <2>1, <2>3, Zenon DEF FirstDialGoesOn
<1>4. CASE ConnectionClosed(1)
  <2>1. RejectDials(WaitOnConnection(1)) /\ (conn[1] = "erred" \/ conn[1] = "open")
    BY <1>4, Zenon DEF ConnectionClosed
  <2>2. dial[1] = "opening" \/ (dial[1] \in {"declaring", "subscribing"} /\ rpc[1] = 1)
    BY <2>1 DEF Undisturbed, InFlightPhases
  <2>3. 1 \in WaitOnConnection(1)
    BY <2>2, OneIsDial DEF WaitOnConnection, WaitOnChannel, InFlight
  <2> QED BY <2>1, <2>3, RejectFirst, Zenon DEF FirstDialGoesOn
<1> QED BY <1>1, <1>2, <1>3, <1>4, Zenon DEF Failure

LEMMA DoomedFailure ==
  ASSUME TypeOK, startCall = "pending", dial[1] \in InFlightPhases, Doomed,
         NEW c \in Dials, Failure(c)
  PROVE  FirstDialGoesOn
<1>1. /\ conn[1] = "erred" /\ dial[1] # "dialing"
      /\ dial[1] \in {"declaring", "subscribing"} => rpc[1] = 1
  BY DEF Doomed
<1>2. rpc' = rpc
  BY Zenon DEF Failure, ChannelFails, ChannelClosed, ConnectionError, ConnectionClosed, callVars
<1>3. CASE c = 1
  <2>1. ConnectionClosed(1)
    BY <1>1, <1>3 DEF Failure, ChannelFails, ConnectionError
  <2>2. RejectDials(WaitOnConnection(1))
    BY <2>1, Zenon DEF ConnectionClosed
  <2>3. 1 \in WaitOnConnection(1)
    BY <1>1, OneIsDial DEF WaitOnConnection, WaitOnChannel, InFlight, InFlightPhases
  <2> QED BY <2>2, <2>3, RejectFirst, Zenon DEF FirstDialGoesOn
<1>4. CASE c # 1
  <2>1. conn'[1] = conn[1]
    BY <1>4, OneIsDial
    DEF Failure, ChannelFails, ChannelClosed, ConnectionError, ConnectionClosed, DropConnection, TypeOK
  <2>2. startCall' = startCall /\ dial'[1] = dial[1]
    <3>1. 1 \notin WaitOnChannel(c) /\ 1 \notin WaitOnConnection(c)
      BY <1>1, <1>4 DEF WaitOnConnection, WaitOnChannel
    <3>2. \/ RejectDials(WaitOnChannel(c))
          \/ RejectDials(WaitOnConnection(c))
          \/ startCall' = startCall /\ dial' = dial
      BY Zenon DEF Failure, ChannelFails, ChannelClosed, ConnectionError, ConnectionClosed, callVars
    <3> QED BY <3>1, <3>2, RejectFirst, Zenon
  <2>3. Doomed' /\ dial'[1] \in InFlightPhases
    BY <1>1, <1>2, <2>1, <2>2 DEF Doomed
  <2> QED BY <2>2, <2>3, Zenon DEF FirstDialGoesOn
<1> QED BY <1>3, <1>4

LEMMA PendingFailure ==
  ASSUME LinkInv, startCall = "pending", NEW c \in Dials, Failure(c)
  PROVE  FirstDialGoesOn /\ dials' > 0 /\ ~closing'
<1>1. /\ ~closing /\ dials > 0 /\ TypeOK
      /\ dial[1] \in InFlightPhases /\ (Undisturbed \/ Doomed)
  BY PendingFacts, Zenon
<1>2. dials' = dials /\ closing' = closing
  BY <1>1, FailureStep, Zenon
<1>3. FirstDialGoesOn
  BY <1>1, UndisturbedFailure, DoomedFailure, Zenon
<1> QED BY <1>1, <1>2, <1>3, Zenon

LEMMA PendingStep ==
  ASSUME LinkInv, startCall = "pending", Next
  PROVE  FirstDialGoesOn /\ dials' > 0 /\ ~closing'
<1>1. /\ ~closing /\ closeCall = "no" /\ dials > 0 /\ TypeOK
      /\ dial[1] \in InFlightPhases /\ (Undisturbed \/ Doomed)
  BY PendingFacts, Zenon
<1>2. ~Close /\ ~Start /\ ~CloseChannelDone /\ ~CloseConnectionDone
  BY <1>1 DEF Close, Start, CloseChannelDone, CloseConnectionDone
<1>3. CASE ReconnectTimerFires
  <2>1. /\ BeginDial /\ reconnectTimer /\ ~closing' /\ startCall' = startCall
        /\ rpc' = rpc /\ conn' = conn
    BY <1>1, <1>3, Zenon DEF ReconnectTimerFires, brokerVars
  <2>2. Doomed
    BY <1>1, <2>1, Zenon DEF Undisturbed
  <2>3. dial'[1] = dial[1] /\ dials' > 0
    <3>1. 1 \in 1 .. dials
      BY <1>1 DEF TypeOK, NullOr
    <3> QED BY <1>1, <2>1, <3>1, BeginDialKeeps, OneIsDial
  <2>4. Doomed' /\ dial'[1] \in InFlightPhases
    BY <1>1, <2>1, <2>2, <2>3 DEF Doomed
  <2> QED BY <2>1, <2>3, <2>4, Zenon DEF FirstDialGoesOn
<1>4. ASSUME NEW d \in Dials, DialStep(d) PROVE FirstDialGoesOn /\ dials' > 0 /\ ~closing'
  <2>1. dials' = dials /\ closing' = closing
    BY <1>4, Zenon DEF DialStep, DialOk, OpenChannel, DeclareQueue, Subscribe, DialFails, fieldVars
  <2>2. FirstDialGoesOn
    BY <1>1, <1>4, UndisturbedDial, DoomedDial, Zenon
  <2> QED BY <1>1, <2>1, <2>2, Zenon
<1>5. ASSUME NEW c \in Dials, Event(c) PROVE FirstDialGoesOn /\ dials' > 0 /\ ~closing'
  BY <1>5, EventIsFailure, PendingFailure, Zenon
<1> QED BY <1>2, <1>3, <1>4, <1>5, Zenon DEF Next

\* Nothing fails before start().
LEMMA FailureStarted ==
  ASSUME LinkInv, NEW c \in Dials, Failure(c)
  PROVE  startCall # "no"
<1>1. conn[c] = "open" \/ conn[c] = "erred"
  BY Zenon DEF Failure, ChannelFails, ConnectionError, ConnectionClosed
<1> QED BY <1>1 DEF LinkInv, BeforeStart

LEMMA FailureLink ==
  ASSUME LinkInv, TypeOK', NEW c \in Dials, Failure(c)
  PROVE  LinkInv'
<1>1. SafetyInv'
  BY FailureSafe, Zenon DEF LinkInv
<1>2. startCall # "no"
  BY FailureStarted
<1>3. CASE startCall = "pending"
  <2>1. FirstDialGoesOn /\ dials' > 0 /\ ~closing'
    BY <1>3, PendingFailure
  <2>2. startCall' # "no" /\ FirstDial'
    BY <2>1 DEF FirstDialGoesOn, FirstDial, Settled
  <2>3. BeforeStart'
    BY <2>2 DEF BeforeStart
  <2>4. ClosingIsCalled'
    BY <2>1, Zenon DEF ClosingIsCalled
  <2> QED BY <1>1, <2>2, <2>3, <2>4, Zenon DEF LinkInv
<1>4. CASE Settled
  <2>1. startCall' = startCall /\ dial'[1] = "ended" /\ dials' > 0 /\ (closing' => closeCall' # "no")
    BY <1>4, SettledFailure
  <2>2. Settled' /\ startCall' # "no" /\ startCall' # "pending"
    BY <1>4, <2>1 DEF Settled
  <2>3. BeforeStart'
    BY <2>2 DEF BeforeStart
  <2>4. ClosingIsCalled' /\ FirstDial'
    BY <2>1, <2>2, Zenon DEF ClosingIsCalled, FirstDial
  <2> QED BY <1>1, <2>3, <2>4, Zenon DEF LinkInv
<1>5. startCall = "pending" \/ Settled
  BY <1>2 DEF LinkInv, SafetyInv, TypeOK, Settled
<1> QED BY <1>3, <1>4, <1>5

LEMMA NextLink == LinkInv /\ [Next]_vars => LinkInv'
<1> SUFFICES ASSUME LinkInv, [Next]_vars PROVE LinkInv'
  OBVIOUS
<1>1. SafetyInv'
  BY NextSafety, Zenon DEF LinkInv
<1>2. CASE UNCHANGED vars
  <2>1. /\ startCall' = startCall /\ closeCall' = closeCall /\ dials' = dials /\ dial' = dial
        /\ rpc' = rpc /\ conn' = conn /\ chan' = chan /\ channel' = channel
        /\ connected' = connected /\ closing' = closing /\ closeNotified' = closeNotified
        /\ reconnectTimer' = reconnectTimer
    BY <1>2, Zenon DEF vars, fieldVars, callVars, brokerVars
  <2>2. BeforeStart' /\ ClosingIsCalled'
    BY <2>1, Zenon DEF LinkInv, BeforeStart, ClosingIsCalled, Settled
  <2>3. FirstDial'
    BY <2>1, Zenon DEF LinkInv, FirstDial, Settled, Undisturbed, Doomed
  <2> QED BY <1>1, <2>2, <2>3, Zenon DEF LinkInv
<1>3. CASE Next /\ startCall = "no"
  <2>1. Start
    BY <1>3, OnlyStart
  <2>2. startCall' # "no"
    BY <2>1 DEF Start
  <2>3. BeforeStart'
    BY <2>2 DEF BeforeStart
  <2> QED BY <1>1, <2>1, <2>3, StartLink, Zenon DEF LinkInv
<1>4. CASE Next /\ startCall = "pending"
  <2>1. FirstDialGoesOn /\ dials' > 0 /\ ~closing'
    BY <1>4, PendingStep
  <2>2. startCall' # "no" /\ FirstDial'
    BY <2>1 DEF FirstDialGoesOn, FirstDial, Settled
  <2>3. BeforeStart'
    BY <2>2 DEF BeforeStart
  <2>4. ClosingIsCalled'
    BY <2>1, Zenon DEF ClosingIsCalled
  <2> QED BY <1>1, <2>2, <2>3, <2>4, Zenon DEF LinkInv
<1>5. CASE Next /\ Settled
  <2>1. startCall' = startCall /\ dial'[1] = "ended" /\ dials' > 0 /\ (closing' => closeCall' # "no")
    BY <1>5, SettledStep
  <2>2. Settled' /\ startCall' # "no" /\ startCall' # "pending"
    BY <1>5, <2>1 DEF Settled
  <2>3. BeforeStart'
    BY <2>2 DEF BeforeStart
  <2>4. ClosingIsCalled' /\ FirstDial'
    BY <2>1, <2>2, Zenon DEF ClosingIsCalled, FirstDial
  <2> QED BY <1>1, <2>3, <2>4, Zenon DEF LinkInv
<1>6. startCall = "no" \/ startCall = "pending" \/ Settled
  BY DEF LinkInv, SafetyInv, TypeOK, Settled
<1> QED BY <1>2, <1>3, <1>4, <1>5, <1>6, Zenon

-----------------------------------------------------------------------------
(***************************************************************************)
(* The refinement: every step is one of the steps of the link, or changes  *)
(* nothing of it.                                                          *)
(***************************************************************************)

Rec(s, u, c, n) == [started |-> s, up |-> u, closing |-> c, notified |-> n]

\* A step after which the link is as given.
Moved(s, u, c, n) ==
  startCall' = s /\ connected' = u /\ closing' = c /\ closeNotified' = n

Stutters == Moved(startCall, connected, closing, closeNotified)

MapsToLink == Link!Next \/ Stutters

\* What each change of the link does to its fields.  A truth value gets a name
\* first, as the value of a field.
LEMMA StartCalledIs ==
  ASSUME NEW s, NEW u, NEW c, NEW n
  PROVE  Link!StartCalled(Rec(s, u, c, n)) = Rec("pending", u, c, n)
<1>1. Link!StartCalled(Rec(s, u, c, n)) = [Rec(s, u, c, n) EXCEPT !.started = "pending"]
  BY Zenon DEF Link!StartCalled
<1>2. [Rec(s, u, c, n) EXCEPT !.started = "pending"] = Rec("pending", u, c, n)
  BY DEF Rec
<1> QED BY <1>1, <1>2, Zenon

LEMMA StartRejectedIs ==
  ASSUME NEW s, NEW u, NEW c, NEW n
  PROVE  Link!StartRejected(Rec(s, u, c, n)) = Rec("rejected", u, c, n)
<1>1. Link!StartRejected(Rec(s, u, c, n)) = [Rec(s, u, c, n) EXCEPT !.started = "rejected"]
  BY Zenon DEF Link!StartRejected
<1>2. [Rec(s, u, c, n) EXCEPT !.started = "rejected"] = Rec("rejected", u, c, n)
  BY DEF Rec
<1> QED BY <1>1, <1>2, Zenon

LEMMA LinkLostIs ==
  ASSUME NEW s, NEW u, NEW c, NEW n
  PROVE  Link!LinkLost(Rec(s, u, c, n)) = Rec(s, FALSE, c, n)
<1> DEFINE x == FALSE
<1>1. Link!LinkLost(Rec(s, u, c, n)) = [Rec(s, u, c, n) EXCEPT !.up = x]
  BY Zenon DEF Link!LinkLost
<1> HIDE DEF x
<1>2. [Rec(s, u, c, n) EXCEPT !.up = x] = Rec(s, x, c, n)
  BY DEF Rec
<1> QED BY <1>1, <1>2, Zenon DEF x

LEMMA LinkRegainedIs ==
  ASSUME NEW s, NEW u, NEW c, NEW n
  PROVE  Link!LinkRegained(Rec(s, u, c, n)) = Rec(s, TRUE, c, n)
<1> DEFINE x == TRUE
<1>1. Link!LinkRegained(Rec(s, u, c, n)) = [Rec(s, u, c, n) EXCEPT !.up = x]
  BY Zenon DEF Link!LinkRegained
<1> HIDE DEF x
<1>2. [Rec(s, u, c, n) EXCEPT !.up = x] = Rec(s, x, c, n)
  BY DEF Rec
<1> QED BY <1>1, <1>2, Zenon DEF x

LEMMA GaveUpIs ==
  ASSUME NEW s, NEW u, NEW c, NEW n
  PROVE  Link!GaveUp(Rec(s, u, c, n)) = Rec(s, u, c, TRUE)
<1> DEFINE x == TRUE
<1>1. Link!GaveUp(Rec(s, u, c, n)) = [Rec(s, u, c, n) EXCEPT !.notified = x]
  BY Zenon DEF Link!GaveUp
<1> HIDE DEF x
<1>2. [Rec(s, u, c, n) EXCEPT !.notified = x] = Rec(s, u, c, x)
  BY DEF Rec
<1> QED BY <1>1, <1>2, Zenon DEF x

LEMMA CloseFinishedIs ==
  ASSUME NEW s, NEW u, NEW c, NEW n
  PROVE  Link!CloseFinished(Rec(s, u, c, n)) = Rec(s, u, c, TRUE)
<1> DEFINE x == TRUE
<1>1. Link!CloseFinished(Rec(s, u, c, n)) = [Rec(s, u, c, n) EXCEPT !.notified = x]
  BY Zenon DEF Link!CloseFinished
<1> HIDE DEF x
<1>2. [Rec(s, u, c, n) EXCEPT !.notified = x] = Rec(s, u, c, x)
  BY DEF Rec
<1> QED BY <1>1, <1>2, Zenon DEF x

LEMMA StartResolvedIs ==
  ASSUME NEW s, NEW u, NEW c, NEW n
  PROVE  Link!StartResolved(Rec(s, u, c, n)) = Rec("resolved", TRUE, c, n)
<1> DEFINE x == TRUE
           R == Rec(s, u, c, n)
<1>1. Link!StartResolved(R) = [R EXCEPT !.started = "resolved", !.up = x]
  BY Zenon DEF Link!StartResolved
<1> HIDE DEF x
<1>2. [R EXCEPT !.started = "resolved", !.up = x]
        = [[R EXCEPT !.started = "resolved"] EXCEPT !.up = x]
  BY DEF Rec
<1>3. [R EXCEPT !.started = "resolved"] = Rec("resolved", u, c, n)
  BY DEF Rec
<1>4. [Rec("resolved", u, c, n) EXCEPT !.up = x] = Rec("resolved", x, c, n)
  BY DEF Rec
<1> QED BY <1>1, <1>2, <1>3, <1>4, Zenon DEF x

LEMMA CloseCalledIs ==
  ASSUME NEW s, NEW u, NEW c, NEW n
  PROVE  Link!CloseCalled(Rec(s, u, c, n)) = Rec(s, FALSE, TRUE, n)
<1> DEFINE x == TRUE
           y == FALSE
           R == Rec(s, u, c, n)
<1>1. Link!CloseCalled(R) = [R EXCEPT !.closing = x, !.up = y]
  BY Zenon DEF Link!CloseCalled
<1> HIDE DEF x, y
<1>2. [R EXCEPT !.closing = x, !.up = y] = [[R EXCEPT !.closing = x] EXCEPT !.up = y]
  BY DEF Rec
<1>3. [R EXCEPT !.closing = x] = Rec(s, u, x, n)
  BY DEF Rec
<1>4. [Rec(s, u, x, n) EXCEPT !.up = y] = Rec(s, y, x, n)
  BY DEF Rec
<1> QED BY <1>1, <1>2, <1>3, <1>4, Zenon DEF x, y

\* The steps of the link, in terms of the fields.
LEMMA LinkMoves ==
  ASSUME TypeOK
  PROVE  /\ startCall = "no" /\ Moved("pending", connected, closing, closeNotified) => MapsToLink
         /\ startCall = "pending" /\ ~closeNotified
              /\ Moved("resolved", TRUE, closing, closeNotified) => MapsToLink
         /\ startCall = "pending" /\ Moved("rejected", connected, closing, closeNotified) => MapsToLink
         /\ startCall = "pending" /\ Moved("rejected", FALSE, closing, closeNotified) => MapsToLink
         /\ Moved(startCall, FALSE, closing, closeNotified) => MapsToLink
         /\ startCall # "no" /\ Moved(startCall, TRUE, closing, closeNotified) => MapsToLink
         /\ startCall = "pending" /\ ~closing /\ Moved("rejected", FALSE, closing, TRUE) => MapsToLink
         /\ startCall # "no" /\ Moved(startCall, FALSE, closing, TRUE) => MapsToLink
         /\ startCall # "no" /\ Moved(startCall, connected, closing, TRUE) => MapsToLink
         /\ Settled /\ ~closing /\ Moved(startCall, FALSE, TRUE, closeNotified) => MapsToLink
         /\ Settled /\ ~closing /\ Moved(startCall, FALSE, TRUE, TRUE) => MapsToLink
<1> DEFINE L == Rec(startCall, connected, closing, closeNotified)
<1>1. /\ connected = TRUE \/ connected = FALSE
      /\ closing = TRUE \/ closing = FALSE
      /\ closeNotified = TRUE \/ closeNotified = FALSE
  BY Zenon DEF TypeOK
<1>2. ASSUME NEW s, NEW u, NEW c, NEW n, Moved(s, u, c, n),
             \/ Link!CanStart(L) /\ Rec(s, u, c, n) = Link!StartCalled(L)
             \/ Link!CanResolve(L) /\ Rec(s, u, c, n) = Link!StartResolved(L)
             \/ Link!CanReject(L) /\ Rec(s, u, c, n) = Link!StartRejected(L)
             \/ Link!CanReject(L) /\ Rec(s, u, c, n) = Link!StartRejected(Link!LinkLost(L))
             \/ Link!CanLose(L) /\ Rec(s, u, c, n) = Link!LinkLost(L)
             \/ Link!CanRegain(L) /\ Rec(s, u, c, n) = Link!LinkRegained(L)
             \/ Link!CanGiveUp(L) /\ Rec(s, u, c, n) = Link!GaveUp(L)
             \/ Link!CanGiveUp(L) /\ Rec(s, u, c, n) = Link!LinkLost(Link!GaveUp(L))
             \/ /\ Link!CanGiveUp(L) /\ Link!CanReject(L)
                /\ Rec(s, u, c, n) = Link!StartRejected(Link!LinkLost(Link!GaveUp(L)))
             \/ Link!CanClose(L) /\ Rec(s, u, c, n) = Link!CloseCalled(L)
             \/ Link!CanClose(L) /\ Rec(s, u, c, n) = Link!CloseFinished(Link!CloseCalled(L))
             \/ Link!CanFinishClose(L) /\ Rec(s, u, c, n) = Link!CloseFinished(L)
             \/ /\ Link!CanFinishClose(L)
                /\ Rec(s, u, c, n) = Link!LinkLost(Link!CloseFinished(L))
      PROVE  MapsToLink
  <2>1. Rec(startCall', connected', closing', closeNotified') = Rec(s, u, c, n)
    BY <1>2, Zenon DEF Moved
  <2> QED BY <1>2, <2>1, Zenon
    DEF MapsToLink, Rec, Link!Next, Link!Start, Link!Resolve, Link!Reject, Link!LoseStart,
        Link!Lose, Link!Regain, Link!GiveUp, Link!Close, Link!FinishClose
<1> HIDE DEF L
<1>3. /\ Link!CanStart(L) <=> startCall = "no"
      /\ Link!CanResolve(L) <=> startCall = "pending" /\ ~closeNotified
      /\ Link!CanReject(L) <=> startCall = "pending"
      /\ Link!CanLose(L) <=> connected
      /\ Link!CanRegain(L) <=> startCall # "no" /\ ~connected
      /\ Link!CanGiveUp(L) <=> startCall # "no" /\ ~closing /\ ~closeNotified
      /\ Link!CanClose(L) <=> Settled /\ ~closing
      /\ Link!CanFinishClose(L) <=> closing /\ ~closeNotified
  BY Zenon
  DEF L, Rec, Settled, Link!CanStart, Link!CanResolve, Link!CanReject, Link!CanLose,
      Link!CanRegain, Link!CanGiveUp, Link!CanClose, Link!CanFinishClose
<1>4a. Link!StartCalled(L) = Rec("pending", connected, closing, closeNotified)
  BY StartCalledIs DEF L
<1>4b. Link!StartResolved(L) = Rec("resolved", TRUE, closing, closeNotified)
  <2> DEFINE x == TRUE
  <2>1. \A s, u, c, n : Link!StartResolved(Rec(s, u, c, n)) = Rec("resolved", x, c, n)
    BY StartResolvedIs
  <2> HIDE DEF x
  <2>2. Link!StartResolved(L) = Rec("resolved", x, closing, closeNotified)
    BY <2>1 DEF L
  <2> QED BY <2>2, Zenon DEF x
<1>4c. Link!StartRejected(L) = Rec("rejected", connected, closing, closeNotified)
  BY StartRejectedIs DEF L
<1>lost. \A b, n :
           Link!LinkLost(Rec(startCall, b, closing, n)) = Rec(startCall, FALSE, closing, n)
  <2> DEFINE x == FALSE
  <2>1. \A s, u, c, n : Link!LinkLost(Rec(s, u, c, n)) = Rec(s, x, c, n)
    BY LinkLostIs
  <2> HIDE DEF x
  <2>2. \A b, n : Link!LinkLost(Rec(startCall, b, closing, n)) = Rec(startCall, x, closing, n)
    BY <2>1, Zenon
  <2> QED BY <2>2, Zenon DEF x
<1>4d. Link!LinkLost(L) = Rec(startCall, FALSE, closing, closeNotified)
  BY <1>lost, Zenon DEF L
<1>4e. Link!LinkRegained(L) = Rec(startCall, TRUE, closing, closeNotified)
  BY LinkRegainedIs DEF L
<1>4f. Link!GaveUp(L) = Rec(startCall, connected, closing, TRUE)
  BY GaveUpIs DEF L
<1>4g. Link!CloseCalled(L) = Rec(startCall, FALSE, TRUE, closeNotified)
  BY CloseCalledIs DEF L
<1>4h. Link!CloseFinished(L) = Rec(startCall, connected, closing, TRUE)
  BY CloseFinishedIs DEF L
<1>4i. Link!StartRejected(Link!LinkLost(L)) = Rec("rejected", FALSE, closing, closeNotified)
  <2> DEFINE x == FALSE
  <2>1. Link!LinkLost(L) = Rec(startCall, x, closing, closeNotified)
    BY <1>4d
  <2> HIDE DEF x
  <2>2. Link!StartRejected(Rec(startCall, x, closing, closeNotified))
          = Rec("rejected", x, closing, closeNotified)
    BY StartRejectedIs
  <2> QED BY <2>1, <2>2, Zenon DEF x
<1>4j. Link!LinkLost(Link!GaveUp(L)) = Rec(startCall, FALSE, closing, TRUE)
  <2> DEFINE x == TRUE
  <2>1. Link!GaveUp(L) = Rec(startCall, connected, closing, x)
    BY <1>4f
  <2> HIDE DEF x
  <2>2. Link!LinkLost(Rec(startCall, connected, closing, x)) = Rec(startCall, FALSE, closing, x)
    BY <1>lost, Zenon
  <2> QED BY <2>1, <2>2, Zenon DEF x
<1>4k. Link!StartRejected(Link!LinkLost(Link!GaveUp(L))) = Rec("rejected", FALSE, closing, TRUE)
  <2> DEFINE x == TRUE
             y == FALSE
  <2>1. Link!LinkLost(Link!GaveUp(L)) = Rec(startCall, y, closing, x)
    BY <1>4j
  <2> HIDE DEF x, y
  <2>2. Link!StartRejected(Rec(startCall, y, closing, x)) = Rec("rejected", y, closing, x)
    BY StartRejectedIs
  <2> QED BY <2>1, <2>2, Zenon DEF x, y
<1>4l. Link!CloseFinished(Link!CloseCalled(L)) = Rec(startCall, FALSE, TRUE, TRUE)
  BY <1>4g, CloseFinishedIs
<1>4m. Link!LinkLost(Link!CloseFinished(L)) = Rec(startCall, FALSE, closing, TRUE)
  <2> DEFINE x == TRUE
  <2>1. Link!CloseFinished(L) = Rec(startCall, connected, closing, x)
    BY <1>4h
  <2> HIDE DEF x
  <2>2. Link!LinkLost(Rec(startCall, connected, closing, x)) = Rec(startCall, FALSE, closing, x)
    BY <1>lost, Zenon
  <2> QED BY <2>1, <2>2, Zenon DEF x
<1>5. startCall = "pending" => startCall # "no"
  OBVIOUS
<1>a. startCall = "no" /\ Moved("pending", connected, closing, closeNotified) => MapsToLink
  BY <1>2, <1>3, <1>4a, Zenon
<1>b. startCall = "pending" /\ ~closeNotified
        /\ Moved("resolved", TRUE, closing, closeNotified) => MapsToLink
  BY <1>2, <1>3, <1>4b, Zenon
<1>c. startCall = "pending" /\ Moved("rejected", connected, closing, closeNotified) => MapsToLink
  BY <1>2, <1>3, <1>4c, Zenon
<1>d. startCall = "pending" /\ Moved("rejected", FALSE, closing, closeNotified) => MapsToLink
  BY <1>2, <1>3, <1>4i, Zenon
<1>e. Moved(startCall, FALSE, closing, closeNotified) => MapsToLink
  <2>1. CASE connected
    BY <1>2, <1>3, <1>4d, <2>1, Zenon
  <2>2. CASE connected = FALSE
    BY <2>2, Zenon DEF MapsToLink, Stutters, Moved
  <2> QED BY <1>1, <2>1, <2>2, Zenon
<1>f. startCall # "no" /\ Moved(startCall, TRUE, closing, closeNotified) => MapsToLink
  <2>1. CASE ~connected
    BY <1>2, <1>3, <1>4e, <2>1, Zenon
  <2>2. CASE connected = TRUE
    BY <2>2, Zenon DEF MapsToLink, Stutters, Moved
  <2> QED BY <1>1, <2>1, <2>2, Zenon
<1>g. startCall = "pending" /\ ~closing /\ Moved("rejected", FALSE, closing, TRUE) => MapsToLink
  <2>1. CASE ~closeNotified
    BY <1>2, <1>3, <1>4k, <1>5, <2>1, Zenon
  <2>2. CASE closeNotified = TRUE
    BY <1>d, <2>2, Zenon DEF Moved
  <2> QED BY <1>1, <2>1, <2>2, Zenon
<1>h. startCall # "no" /\ Moved(startCall, FALSE, closing, TRUE) => MapsToLink
  <2>1. CASE ~closeNotified /\ ~closing
    BY <1>2, <1>3, <1>4j, <2>1, Zenon
  <2>2. CASE ~closeNotified /\ closing
    BY <1>2, <1>3, <1>4m, <2>2, Zenon
  <2>3. CASE closeNotified = TRUE
    BY <1>e, <2>3, Zenon DEF Moved
  <2> QED BY <1>1, <2>1, <2>2, <2>3, Zenon
<1>i. startCall # "no" /\ Moved(startCall, connected, closing, TRUE) => MapsToLink
  <2>1. CASE ~closeNotified /\ ~closing
    BY <1>2, <1>3, <1>4f, <2>1, Zenon
  <2>2. CASE ~closeNotified /\ closing
    BY <1>2, <1>3, <1>4h, <2>2, Zenon
  <2>3. CASE closeNotified = TRUE
    BY <2>3, Zenon DEF MapsToLink, Stutters, Moved
  <2> QED BY <1>1, <2>1, <2>2, <2>3, Zenon
<1>j. Settled /\ ~closing /\ Moved(startCall, FALSE, TRUE, closeNotified) => MapsToLink
  BY <1>2, <1>3, <1>4g, Zenon
<1>k. Settled /\ ~closing /\ Moved(startCall, FALSE, TRUE, TRUE) => MapsToLink
  BY <1>2, <1>3, <1>4l, Zenon
<1> QED BY <1>a, <1>b, <1>c, <1>d, <1>e, <1>f, <1>g, <1>h, <1>i, <1>j, <1>k, Zenon

\* The dial in flight that is start()'s own.
LEMMA FirstInFlight == ASSUME LinkInv, dial[1] \in InFlightPhases PROVE startCall = "pending"
<1>1. startCall # "no"
  BY OneIsDial DEF LinkInv, BeforeStart, InFlightPhases
<1>2. ~Settled
  BY DEF LinkInv, FirstDial, InFlightPhases
<1> QED BY <1>1, <1>2 DEF LinkInv, SafetyInv, TypeOK, Settled

LEMMA RejectedIsPending ==
  ASSUME LinkInv, NEW D, D \subseteq InFlight, RejectDials(D)
  PROVE  startCall' = startCall \/ (startCall = "pending" /\ startCall' = "rejected")
<1>1. CASE 1 \in D
  <2>1. startCall = "pending"
    BY <1>1, FirstInFlight DEF InFlight
  <2> QED BY <1>1, <2>1 DEF RejectDials
<1>2. CASE 1 \notin D
  BY <1>2 DEF RejectDials
<1> QED BY <1>1, <1>2

LEMMA StartMaps == ASSUME LinkInv, Start PROVE MapsToLink
<1>1. /\ startCall = "no" /\ startCall' = "pending" /\ connected' = connected
      /\ closing' = FALSE /\ closeNotified' = FALSE
  BY Zenon DEF Start
<1>2. ~closing /\ ~closeNotified /\ TypeOK
  BY <1>1, Zenon DEF LinkInv, SafetyInv, BeforeStart
<1>3. closing = FALSE /\ closeNotified = FALSE
  BY <1>2, Zenon DEF TypeOK
<1>4. Moved("pending", connected, closing, closeNotified)
  BY <1>1, <1>3, Zenon DEF Moved
<1> QED BY <1>1, <1>2, <1>4, LinkMoves, Zenon

LEMMA CloseMaps == ASSUME LinkInv, Close PROVE MapsToLink
<1>1. /\ startCall \in {"resolved", "rejected"} /\ closeCall = "no" /\ startCall' = startCall
      /\ connected' = FALSE /\ closing' = TRUE
      /\ closeNotified' = closeNotified \/ closeNotified' = TRUE
  BY Zenon DEF Close, CloseFields, CloseConnectionNext, CloseEnds
<1>2. TypeOK /\ Settled /\ ~closing
  BY <1>1, Zenon DEF LinkInv, SafetyInv, ClosingIsCalled, Settled
<1>3. Moved(startCall, FALSE, TRUE, closeNotified) \/ Moved(startCall, FALSE, TRUE, TRUE)
  BY <1>1, Zenon DEF Moved
<1> QED BY <1>2, <1>3, LinkMoves, Zenon

\* close() reports the closure once; what it loses was lost.
LEMMA CloseDoneMaps ==
  ASSUME LinkInv, startCall # "no", CloseChannelDone \/ CloseConnectionDone PROVE MapsToLink
<1>1. closeCall # "no"
  BY DEF CloseChannelDone, CloseConnectionDone
<1>2. Settled
  BY <1>1, Zenon DEF LinkInv, SafetyInv, CloseIsClosing, ClosingIsCalled
<1>3. TypeOK
  BY Zenon DEF LinkInv, SafetyInv
<1>4. startCall' = startCall
  <2>1. \/ RejectDials(WaitOnChannel(closeOn))
        \/ RejectDials(WaitOnConnection(closeOn))
    BY Zenon DEF CloseChannelDone, CloseConnectionDone
  <2>2. startCall # "pending"
    BY <1>2 DEF Settled
  <2> QED BY <2>1, <2>2, RejectedIsPending, Waiting, Zenon
<1>5. CASE CloseChannelDone
  <2>1. /\ connected' = connected /\ closing' = closing
        /\ closeNotified' = closeNotified \/ closeNotified' = TRUE
    BY <1>5, Zenon DEF CloseChannelDone, CloseConnectionNext, CloseEnds
  <2>2. Stutters \/ Moved(startCall, connected, closing, TRUE)
    BY <1>4, <2>1, Zenon DEF Stutters, Moved
  <2> QED BY <1>3, <2>2, LinkMoves, Zenon DEF MapsToLink
<1>6. CASE CloseConnectionDone
  <2>1. Moved(startCall, FALSE, closing, TRUE)
    BY <1>4, <1>6, Zenon DEF CloseConnectionDone, Moved
  <2> QED BY <1>3, <2>1, LinkMoves, Zenon
<1> QED BY <1>5, <1>6

LEMMA DialMaps ==
  ASSUME LinkInv, startCall # "no", NEW d \in Dials, DialStep(d) PROVE MapsToLink
<1>1. TypeOK
  BY Zenon DEF LinkInv, SafetyInv
<1>2. CASE DialOk(d) \/ OpenChannel(d) \/ DeclareQueue(d)
  BY <1>2, Zenon DEF DialOk, OpenChannel, DeclareQueue, fieldVars, MapsToLink, Stutters, Moved
<1>3. CASE Subscribe(d)
  <2>1. /\ connected' = TRUE /\ closing' = closing /\ closeNotified' = closeNotified
        /\ d = 1 => startCall' = "resolved"
        /\ d # 1 => startCall' = startCall
    BY <1>3, Zenon DEF Subscribe
  <2>2. CASE d # 1
    <3>1. Moved(startCall, TRUE, closing, closeNotified)
      BY <2>1, <2>2, Zenon DEF Moved
    <3> QED BY <1>1, <3>1, LinkMoves, Zenon
  <2>3. CASE d = 1
    <3>1. dial[1] = "subscribing" /\ CanUse(rpc[1])
      BY <1>3, <2>3, Zenon DEF Subscribe
    <3>2. startCall = "pending"
      BY <3>1, FirstInFlight DEF InFlightPhases
    <3>3. ~Doomed
      BY <3>1 DEF Doomed, CanUse
    <3>4. ~closeNotified
      BY <3>2, <3>3, PendingFacts, Zenon DEF Undisturbed
    <3>5. Moved("resolved", TRUE, closing, closeNotified)
      BY <2>1, <2>3, Zenon DEF Moved
    <3> QED BY <1>1, <3>2, <3>4, <3>5, LinkMoves, Zenon
  <2> QED BY <2>2, <2>3
<1>4. CASE DialFails(d)
  <2>1. /\ connected' = connected /\ closing' = closing
        /\ closeNotified' = closeNotified \/ closeNotified' = TRUE
        /\ d = 1 => startCall' = "rejected" /\ closeNotified' = closeNotified
        /\ d # 1 => startCall' = startCall
    BY <1>4, Zenon DEF DialFails, RetryRejected, ScheduleReconnect, GiveUp, ArmReconnectTimer
  <2>2. CASE d # 1
    <3>1. Stutters \/ Moved(startCall, connected, closing, TRUE)
      BY <2>1, <2>2, Zenon DEF Stutters, Moved
    <3> QED BY <1>1, <3>1, LinkMoves, Zenon DEF MapsToLink
  <2>3. CASE d = 1
    <3>1. dial[1] \in InFlightPhases
      BY <1>4, <2>3 DEF DialFails, SetupThrows, InFlightPhases
    <3>2. startCall = "pending"
      BY <3>1, FirstInFlight
    <3>3. Moved("rejected", connected, closing, closeNotified)
      BY <2>1, <2>3, Zenon DEF Moved
    <3> QED BY <1>1, <3>2, <3>3, LinkMoves, Zenon
  <2> QED BY <2>2, <2>3
<1> QED BY <1>2, <1>3, <1>4, Zenon DEF DialStep

\* Every event of a connection or channel takes the link down, may report the
\* closure, and may reject start().
LEMMA FailureMaps ==
  ASSUME LinkInv, startCall # "no", NEW c \in Dials, Failure(c) PROVE MapsToLink
<1>1. TypeOK
  BY Zenon DEF LinkInv, SafetyInv
<1>2. /\ connected' = FALSE /\ closing' = closing
      /\ closeNotified' = closeNotified \/ closeNotified' = TRUE
  <2>1. HandleConnectionEvent => /\ connected' = FALSE
                                 /\ closeNotified' = closeNotified \/ closeNotified' = TRUE
    BY Zenon DEF HandleConnectionEvent, ScheduleReconnect, GiveUp, ArmReconnectTimer
  <2>2. \A S : CloseAwaitLost(S) => /\ connected' = FALSE
                                    /\ closeNotified' = closeNotified \/ closeNotified' = TRUE
    BY <2>1, Zenon DEF CloseAwaitLost
  <2>3. closing' = closing /\ (HandleConnectionEvent \/ \E S : CloseAwaitLost(S))
    BY Zenon DEF Failure, ChannelFails, ChannelClosed, ConnectionError, ConnectionClosed
  <2> QED BY <2>1, <2>2, <2>3, Zenon
<1>3. startCall' = startCall \/ (startCall = "pending" /\ startCall' = "rejected")
  <2>1. \/ RejectDials(WaitOnChannel(c))
        \/ RejectDials(WaitOnConnection(c))
        \/ startCall' = startCall
    BY Zenon DEF Failure, ChannelFails, ChannelClosed, ConnectionError, ConnectionClosed, callVars
  <2> QED BY <2>1, RejectedIsPending, Waiting, Zenon
<1>4. CASE startCall' = startCall
  <2>1. Moved(startCall, FALSE, closing, closeNotified) \/ Moved(startCall, FALSE, closing, TRUE)
    BY <1>2, <1>4, Zenon DEF Moved
  <2> QED BY <1>1, <2>1, LinkMoves, Zenon
<1>5. CASE startCall = "pending" /\ startCall' = "rejected"
  <2>1. ~closing
    BY <1>5, PendingFacts
  <2>2. Moved("rejected", FALSE, closing, closeNotified) \/ Moved("rejected", FALSE, closing, TRUE)
    BY <1>2, <1>5, Zenon DEF Moved
  <2> QED BY <1>1, <1>5, <2>1, <2>2, LinkMoves, Zenon
<1> QED BY <1>3, <1>4, <1>5

LEMMA StepMaps == ASSUME LinkInv, [Next]_vars PROVE MapsToLink
<1>1. CASE Close
  BY <1>1, CloseMaps
<1>2. CASE Start
  BY <1>2, StartMaps
<1>3. CASE UNCHANGED vars \/ ReconnectTimerFires
  BY <1>3, Zenon DEF vars, fieldVars, callVars, ReconnectTimerFires, MapsToLink, Stutters, Moved
<1>4. CASE Next /\ startCall # "no" /\ ~Close /\ ~Start /\ ~ReconnectTimerFires
  BY <1>4, CloseDoneMaps, DialMaps, EventIsFailure, FailureMaps, Zenon DEF Next
<1>5. Next /\ startCall = "no" => Start
  BY OnlyStart
<1> QED BY <1>1, <1>2, <1>3, <1>4, <1>5, Zenon

LinkMove ==
  [Link!Next]_([started |-> startCall, up |-> connected,
                closing |-> closing, notified |-> closeNotified])

LEMMA MapsMove == ASSUME MapsToLink PROVE LinkMove
  BY Zenon DEF MapsToLink, Stutters, Moved, LinkMove

\* A transport does to its owner what AmqpLink promises, in every order of dials,
\* events, rejections and close(): start() never resolves after the closure was
\* reported, the closure is reported once, and nothing is regained before start().
THEOREM ImplementsLinkHolds == Spec => ImplementsLink
<1>1. Init => Link!Init
  BY Zenon DEF Init, Link!Init, Link!FreshLink
<1>2. LinkInv /\ [Next]_vars => LinkMove
  BY StepMaps, MapsMove, Zenon
<1>3. Spec => []LinkInv
  BY InitLink, NextLink, PTL DEF Spec
<1> QED BY <1>1, <1>2, <1>3, PTL DEF Spec, ImplementsLink, Link!Spec, LinkMove
=============================================================================
