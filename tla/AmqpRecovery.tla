---------------------------- MODULE AmqpRecovery ----------------------------
(***************************************************************************)
(* NativeAmqpRuntimeAdapter: it attaches an AMQP transport to the MCP      *)
(* server and, when attaching fails or the transport reports its closure,  *)
(* keeps attaching new ones on a timer until stop().                       *)
(*                                                                         *)
(* Transports are numbered in the order createTransport() makes them; each *)
(* behaves as AmqpLink says, which AmqpTransport implements.  A transport  *)
(* the adapter let go of stays in the model: it can still report.          *)
(***************************************************************************)
EXTENDS Integers, AmqpLinkStates

CONSTANTS
  Enabled,           \* config.autoRecoveryEnabled
  MaxRetries,        \* config.recoveryMaxRetries, -1 for no limit
  RetryInterval,     \* config.recoveryRetryInterval
  BackoffNum,        \* config.recoveryBackoffMultiplier is BackoffNum / BackoffDen:
  BackoffDen,        \* the default 1.5 is 3 / 2
  MaxRetryInterval,  \* config.recoveryMaxRetryInterval
  MaxTransports,     \* bound: transports created in one behaviour
  MaxFaults          \* bound: failures of transports

\* Nothing relates the retry interval to its maximum, as the code checks nothing.
ASSUME ConfigAssumption ==
  /\ Enabled \in BOOLEAN
  /\ MaxRetries \in Nat \union {-1}
  /\ RetryInterval \in Nat /\ MaxRetryInterval \in Nat
  /\ BackoffNum \in Nat /\ BackoffDen \in Nat \ {0}

ASSUME BoundsAssumption == MaxTransports \in Nat \ {0} /\ MaxFaults \in Nat

VARIABLES
  link,      \* each transport, as AmqpLinkStates describes it
  created,   \* number of transports created
  transport, \* this.transport, 0 being null
  attach,    \* the await each attachTransport() call is at
  starting,  \* this.starting
  recovery,  \* recoveryTimer (NoTimer, or the delay it was armed with),
             \* recoveryAttempt, recoveryDelay and recoveryStatus.state
  stopping,  \* this.stopping
  stopOn,    \* the transport stop() waits for, 0 if none
  stopCall,  \* the await stop() is at
  attachAtStop, \* the transport being attached when stop() was called
  faults

vars == <<link, created, transport, attach, starting, recovery,
          stopping, stopOn, stopCall, attachAtStop, faults>>

Transports == 1 .. MaxTransports
States     == {"disabled", "idle", "waiting", "attempting", "stopped"}

NoTimer    == -1

\* The maximum bounds what was multiplied, and not the interval of the first retry.
Delays == {RetryInterval} \union 0 .. MaxRetryInterval

RecoveryState ==
  [timer : Delays \union {NoTimer}, attempt : Nat, delay : Delays, state : States]

TypeOK ==
  /\ link \in [Transports -> LinkState]
  /\ created \in 0 .. MaxTransports
  /\ transport \in 0 .. MaxTransports
  /\ attach \in [Transports -> {"no", "connecting", "closing", "done"}]
  /\ starting \in BOOLEAN
  /\ recovery \in RecoveryState
  /\ stopping \in BOOLEAN
  /\ stopOn \in 0 .. MaxTransports
  /\ stopCall \in {"no", "closing", "done"}
  /\ attachAtStop \in 0 .. MaxTransports
  /\ faults \in 0 .. MaxFaults

Init ==
  /\ link = [t \in Transports |-> FreshLink]
  /\ created = 0 /\ transport = 0
  /\ attach = [t \in Transports |-> "no"]
  /\ starting = FALSE
  /\ recovery = [timer |-> NoTimer, attempt |-> 0, delay |-> 0, state |-> "disabled"]
  /\ stopping = FALSE /\ stopOn = 0 /\ stopCall = "no" /\ attachAtStop = 0
  /\ faults = 0

-----------------------------------------------------------------------------
(***************************************************************************)
(* The code's helpers, as functions of the recovery fields.                *)
(***************************************************************************)

\* The state updateRecoveryStatus() writes unless it is told another.
DefaultState == IF Enabled THEN "idle" ELSE "disabled"

\* resetRecoveryState().
Reset_Mutant == [timer |-> NoTimer, attempt |-> 0, delay |-> RetryInterval, state |-> recovery.state]
Reset == [timer |-> NoTimer, attempt |-> 0, delay |-> RetryInterval, state |-> DefaultState]

Exhausted_Mutant(r) == MaxRetries >= 0 /\ r.attempt > MaxRetries
Exhausted(r) == MaxRetries >= 0 /\ r.attempt >= MaxRetries

Smaller(a, b) == IF a <= b THEN a ELSE b
Larger(a, b)  == IF a <= b THEN b ELSE a

\* A delay is a whole number of time units; what the product has beyond it is cut.
Multiplied(delay) == (Larger(delay, RetryInterval) * BackoffNum) \div BackoffDen

Backoff_Mutant(delay) == Multiplied(delay)
Backoff(delay) == Smaller(Multiplied(delay), MaxRetryInterval)

\* scheduleRecovery(): the first retry to be armed wins.
ScheduleBlocked_Mutant(r) == r.timer # NoTimer
ScheduleBlocked(r) == stopping \/ r.timer # NoTimer

Scheduled(r) ==
  IF ~Enabled THEN [r EXCEPT !.state = "disabled"]
  ELSE IF ScheduleBlocked(r) THEN r
  ELSE [r EXCEPT !.timer = r.delay, !.state = "waiting"]

\* The ontransportclosed callback, which stop() silences.
Reported_Mutant(r) == r
Reported(r) == IF stopping THEN r ELSE Scheduled(r)

\* What the callers of attachTransport() do with its error: start() for the
\* first transport, attemptRecovery() for the others.
StartFailed_Mutant(r) == r
StartFailed(r) == Scheduled(r)

RetryFailed_Mutant(r) ==
  Scheduled([r EXCEPT !.state = DefaultState, !.delay = Backoff(Backoff(r.delay))])
RetryFailed(r) ==
  IF Exhausted(r) THEN [r EXCEPT !.state = "stopped"]
  ELSE Scheduled([r EXCEPT !.state = DefaultState, !.delay = Backoff(r.delay)])

AttachFailed(t, r) == IF t = 1 THEN StartFailed(r) ELSE RetryFailed(r)

\* attachTransport() up to `await server.connect(transport)', which calls the
\* start() of the new transport.
BeginAttach ==
  LET t == created + 1
  IN  /\ created < MaxTransports
      /\ created' = t
      /\ starting' = TRUE
      /\ attach' = [attach EXCEPT ![t] = "connecting"]
      /\ link' = [link EXCEPT ![t] = StartCalled(@)]

Fault == faults < MaxFaults /\ faults' = faults + 1

-----------------------------------------------------------------------------
(***************************************************************************)
(* start(), the retry timer, attachTransport().                            *)
(***************************************************************************)

Start ==
  /\ created = 0
  /\ stopping' = FALSE
  /\ recovery' = [recovery EXCEPT !.delay = RetryInterval, !.state = DefaultState]
  /\ BeginAttach
  /\ UNCHANGED <<transport, stopOn, stopCall, attachAtStop, faults>>

\* server.connect() resolves.  The code does not look at `stopping' here.
AttachOk(t) ==
  /\ attach[t] = "connecting" /\ CanResolve(link[t])
  /\ link' = [link EXCEPT ![t] = StartResolved(@)]
  /\ transport' = t
  /\ recovery' = Reset
  /\ attach' = [attach EXCEPT ![t] = "done"]
  /\ starting' = FALSE
  /\ UNCHANGED <<created, stopping, stopOn, stopCall, attachAtStop, faults>>

\* server.connect() rejects: the failed transport is closed.
AttachRejected(t) ==
  /\ attach[t] = "connecting" /\ CanReject(link[t])
  /\ IF CanResolve(link[t]) THEN Fault ELSE UNCHANGED faults
  /\ link' = [link EXCEPT ![t] = CloseCalled(StartRejected(@))]
  /\ transport' = 0
  /\ attach' = [attach EXCEPT ![t] = "closing"]
  /\ UNCHANGED <<created, starting, recovery, stopping, stopOn, stopCall, attachAtStop>>

\* That close() ends.  It reports the closure first, so a retry is armed with the
\* delay of before, and only then does the caller see the error.
AttachClosed(t) ==
  /\ attach[t] = "closing"
  /\ link' = [link EXCEPT ![t] = CloseFinished(@)]
  /\ recovery' = AttachFailed(t, IF link[t].notified THEN recovery ELSE Reported(recovery))
  /\ attach' = [attach EXCEPT ![t] = "done"]
  /\ starting' = FALSE
  /\ UNCHANGED <<created, transport, stopping, stopOn, stopCall, attachAtStop, faults>>

Busy_Mutant == stopping
Busy == stopping \/ starting

\* The retry timer fires and attemptRecovery() runs to its first await.
RecoveryTimerFires ==
  LET r == [recovery EXCEPT !.timer = NoTimer]
  IN  /\ recovery.timer # NoTimer
      /\ \/ /\ Busy
            /\ recovery' = r
            /\ UNCHANGED <<link, created, attach, starting>>
         \/ /\ ~Busy /\ Exhausted(r)
            /\ recovery' = [r EXCEPT !.state = "stopped"]
            /\ UNCHANGED <<link, created, attach, starting>>
         \/ /\ ~Busy /\ ~Exhausted(r)
            /\ recovery' = [r EXCEPT !.attempt = @ + 1, !.state = "attempting"]
            /\ BeginAttach
      /\ UNCHANGED <<transport, stopping, stopOn, stopCall, attachAtStop, faults>>

-----------------------------------------------------------------------------
(***************************************************************************)
(* What transports do on their own.                                        *)
(***************************************************************************)

LinkLoses(t) ==
  /\ CanLose(link[t]) /\ Fault
  /\ link' = [link EXCEPT ![t] = LinkLost(@)]
  /\ UNCHANGED <<created, transport, attach, starting, recovery,
                 stopping, stopOn, stopCall, attachAtStop>>

LinkRegains(t) ==
  /\ CanRegain(link[t])
  /\ link' = [link EXCEPT ![t] = LinkRegained(@)]
  /\ UNCHANGED <<created, transport, attach, starting, recovery,
                 stopping, stopOn, stopCall, attachAtStop, faults>>

\* Attempts are exhausted: ontransportclosed is called.
LinkGivesUp(t) ==
  /\ CanGiveUp(link[t]) /\ Fault
  /\ link' = [link EXCEPT ![t] = GaveUp(@)]
  /\ transport' = IF transport = t THEN 0 ELSE transport
  /\ recovery' = Reported(recovery)
  /\ UNCHANGED <<created, attach, starting, stopping, stopOn, stopCall, attachAtStop>>

-----------------------------------------------------------------------------
(***************************************************************************)
(* stop().                                                                 *)
(***************************************************************************)

Attaching == {t \in Transports : attach[t] \in {"connecting", "closing"}}

Stop ==
  /\ created > 0 /\ stopCall = "no"
  /\ stopping' = TRUE
  /\ recovery' = [recovery EXCEPT !.timer = NoTimer,
                                  !.state = IF Enabled THEN "stopped" ELSE "disabled"]
  /\ attachAtStop' = IF Attaching = {} THEN 0 ELSE CHOOSE t \in Attaching : TRUE
  /\ stopOn' = transport
  /\ IF transport = 0
       THEN stopCall' = "done" /\ UNCHANGED link
       ELSE stopCall' = "closing" /\ link' = [link EXCEPT ![transport] = CloseCalled(@)]
  /\ UNCHANGED <<created, transport, attach, starting, faults>>

\* The awaited close() ends; its callback returns early, as `stopping' is set.
TransportDropped_Mutant == UNCHANGED transport
TransportDropped == transport' = 0

StopClosed ==
  /\ stopCall = "closing"
  /\ link' = [link EXCEPT ![stopOn] = CloseFinished(@)]
  /\ TransportDropped
  /\ stopCall' = "done"
  /\ UNCHANGED <<created, attach, starting, recovery, stopping, stopOn, attachAtStop, faults>>

-----------------------------------------------------------------------------
Next ==
  \/ Start \/ RecoveryTimerFires \/ Stop \/ StopClosed
  \/ \E t \in Transports :
       \/ AttachOk(t) \/ AttachRejected(t) \/ AttachClosed(t)
       \/ LinkLoses(t) \/ LinkRegains(t) \/ LinkGivesUp(t)

Spec == Init /\ [][Next]_vars

\* Timers fire, start() and close() settle, and the attached transport either
\* regains its connection or gives up (AmqpTransport, EventuallySettled).
Fairness ==
  /\ WF_vars(RecoveryTimerFires) /\ WF_vars(StopClosed)
  /\ \A t \in Transports :
       /\ WF_vars(AttachOk(t) \/ AttachRejected(t))
       /\ WF_vars(AttachClosed(t))
       /\ WF_vars(transport = t /\ (LinkRegains(t) \/ LinkGivesUp(t)))

FairSpec == Spec /\ Fairness

-----------------------------------------------------------------------------
(***************************************************************************)
(* Properties.                                                             *)
(***************************************************************************)

\* The adapter never loses track of AMQP: while recovery is on and nobody stopped
\* it, it holds a transport that will still report its end, or a retry is armed,
\* or an attach is under way, or the retries are used up.  A retry that fires
\* during an attach does nothing, a transport may report while it is being
\* attached, and the callback and the caller both schedule.
Supervised ==
  (created > 0 /\ Enabled /\ ~stopping)
    => \/ transport # 0 /\ ~link[transport].notified
       \/ recovery.timer # NoTimer
       \/ starting
       \/ recovery.state = "stopped" /\ Exhausted(recovery)

\* Two attaches never overlap: the retry timer and start() share one server, and
\* server.connect() of a second transport would take it over from the first.
SingleAttach ==
  /\ starting <=> Attaching # {}
  /\ \A t, u \in Attaching : t = u

\* No more background retries than configured between two successes.
RetriesBounded == MaxRetries >= 0 => recovery.attempt <= MaxRetries

\* The retry that is armed waits the delay of the last failure or of the one
\* before it, never an older one: on a failed retry the callback arms before the
\* caller backs off, so the new delay is the next retry's.
BackoffLagsOne ==
  recovery.timer # NoTimer => recovery.delay \in {recovery.timer, Backoff(recovery.timer)}

\* The multiplier is applied to the delay after each failed attempt: once the
\* failure is dealt with, the retry that is armed waits the delay as it is now.
\* It does not hold, as a retry that fails arms the next one with the delay of before.
DelayIsBackedOff ==
  recovery.timer # NoTimer /\ ~starting => recovery.timer = recovery.delay

\* After stop() was called no transport is created and no retry is armed.
StopIsFinal ==
  [][stopping => created' = created /\ recovery'.timer = NoTimer]_vars

\* After stop() the adapter holds no transport, except one whose attach was in
\* flight at that moment: attachTransport() does not look at `stopping'.
StopDetaches ==
  (stopCall = "done" /\ transport # 0) => transport = attachAtStop

\* With finitely many faults AMQP comes back, unless the retries are used up.
EventuallyAttached ==
  []<>\/ created = 0 \/ stopping
      \/ transport # 0 /\ link[transport].up
      \/ recovery.state = "stopped" /\ Exhausted(recovery)

\* The recovery state that health reports never promises what is not there: a
\* retry is shown as waiting or attempted only while one is armed or an attach is
\* under way, and as stopped only after stop() or once the retries are used up.
\* The timer, both callers of attachTransport() and the callback write it.
StatusIsTrue ==
  /\ recovery.state = "waiting" => recovery.timer # NoTimer \/ starting
  /\ recovery.state = "attempting" => starting
  /\ recovery.state = "stopped" => stopping \/ Exhausted(recovery)

\* What the rest of the process can tell of the adapter, as AmqpAdapter names it.
Adapter ==
  IF stopCall = "closing" THEN "closing"
  ELSE IF starting THEN "attaching"
  ELSE IF transport # 0 THEN (IF link[transport].up THEN "attached" ELSE "down")
  ELSE IF created = 0 \/ stopOn # 0 THEN "off"
  ELSE "waiting"

\* The adapter keeps the promises of AmqpAdapter: no attach begins while it holds
\* a transport or after stop(), stop() closes the transport it holds, and what it
\* holds is neither lost without a report nor taken for attached after it.
AsSeen == INSTANCE AmqpAdapter WITH adapter <- Adapter, stopping <- stopping
ImplementsAdapter == AsSeen!Spec

\* No transport is leaked: one whose start() resolved is the one the adapter
\* holds, or it was told to close, or it reported its own end.
NoneLeaked ==
  \A t \in Transports :
    link[t].started = "resolved" => t = transport \/ link[t].closing \/ link[t].notified

\* The adapter keeps its side of the contract with its transports, and asks of
\* them nothing AmqpLink does not promise: it starts each once, closes it only
\* after its start() settled and at most once, and takes no end of a close() for
\* granted that was not called.  It closes a transport in the turn that rejects.
Contract(t) == INSTANCE AmqpLink WITH link <- link[t]
RejectAndClose(t) ==
  /\ CanReject(link[t]) /\ CanClose(StartRejected(link[t]))
  /\ link'[t] = CloseCalled(StartRejected(link[t]))
KeepsContract ==
  [][\A t \in Transports : [Contract(t)!Next \/ RejectAndClose(t)]_(link[t])]_vars
=============================================================================
