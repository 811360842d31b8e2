------------------------- MODULE AmqpRecovery_proofs -------------------------
(***************************************************************************)
(* Theorems of AmqpRecovery, for all numbers of retries, all intervals and *)
(* multipliers that are not negative, and any number of transports and     *)
(* faults.                                                                 *)
(***************************************************************************)
EXTENDS AmqpRecovery, TLAPS

-----------------------------------------------------------------------------
(***************************************************************************)
(* The helpers.                                                            *)
(***************************************************************************)

\* A delay is never taken for a timer that is not armed.
LEMMA DelayIsNoTimer == \A d \in Delays : d # NoTimer
  BY ConfigAssumption DEF Delays, NoTimer

LEMMA QuotientIsNat ==
  ASSUME NEW a \in Nat, NEW b \in Nat \ {0}
  PROVE  a \div b \in Nat
  OBVIOUS

\* A delay that was multiplied is at most the maximum.
LEMMA BackoffRange ==
  ASSUME NEW d \in Delays
  PROVE  Backoff(d) \in 0 .. MaxRetryInterval /\ Backoff(d) \in Delays
<1> DEFINE e == Larger(d, RetryInterval)
<1>1. e \in Nat
  BY ConfigAssumption DEF Larger, Delays
<1> HIDE DEF e
<1>2. e * BackoffNum \in Nat
  BY <1>1, ConfigAssumption
<1>3. (e * BackoffNum) \div BackoffDen \in Nat
  BY <1>2, QuotientIsNat, ConfigAssumption
<1>4. Multiplied(d) \in Nat
  BY <1>3 DEF Multiplied, e
<1>5. Backoff(d) \in 0 .. MaxRetryInterval
  BY <1>4, ConfigAssumption DEF Backoff, Smaller
<1> QED BY <1>5 DEF Delays

\* scheduleRecovery() arms the timer, or leaves it alone.
LEMMA ScheduledCases ==
  ASSUME NEW r \in RecoveryState
  PROVE  /\ Scheduled(r) \in RecoveryState
         /\ Scheduled(r).attempt = r.attempt /\ Scheduled(r).delay = r.delay
         /\ \/ ~Enabled /\ Scheduled(r).timer = r.timer /\ Scheduled(r).state = "disabled"
            \/ Enabled /\ (stopping \/ r.timer # NoTimer) /\ Scheduled(r) = r
            \/ /\ Enabled /\ ~stopping /\ r.timer = NoTimer
               /\ Scheduled(r).timer = r.delay /\ Scheduled(r).state = "waiting"
<1>1. CASE ~Enabled
  BY <1>1 DEF Scheduled, RecoveryState, States
<1>2. CASE Enabled /\ ScheduleBlocked(r)
  BY <1>2 DEF Scheduled, ScheduleBlocked
<1>3. CASE Enabled /\ ~ScheduleBlocked(r)
  <2>1. Scheduled(r) = [r EXCEPT !.timer = r.delay, !.state = "waiting"]
    BY <1>3 DEF Scheduled
  <2> QED BY <1>3, <2>1 DEF ScheduleBlocked, RecoveryState, States
<1> QED BY <1>1, <1>2, <1>3

LEMMA ReportedCases ==
  ASSUME NEW r \in RecoveryState
  PROVE  /\ Reported(r) \in RecoveryState
         /\ Reported(r).attempt = r.attempt /\ Reported(r).delay = r.delay
         /\ \/ stopping /\ Reported(r) = r
            \/ ~Enabled /\ Reported(r).timer = r.timer /\ Reported(r).state = "disabled"
            \/ Enabled /\ r.timer # NoTimer /\ Reported(r) = r
            \/ /\ Enabled /\ ~stopping /\ r.timer = NoTimer
               /\ Reported(r).timer = r.delay /\ Reported(r).state = "waiting"
  BY ScheduledCases DEF Reported

\* A failed retry ends the retries, or backs off and leaves the next one armed.
LEMMA RetryFailedCases ==
  ASSUME NEW r \in RecoveryState
  PROVE  /\ RetryFailed(r) \in RecoveryState
         /\ RetryFailed(r).attempt = r.attempt
         /\ \/ /\ Exhausted(r) /\ RetryFailed(r).state = "stopped"
               /\ RetryFailed(r).timer = r.timer /\ RetryFailed(r).delay = r.delay
            \/ /\ RetryFailed(r).delay = Backoff(r.delay)
               /\ \/ /\ RetryFailed(r).timer = r.timer
                     /\ ~Enabled \/ stopping \/ r.timer # NoTimer
                     /\ RetryFailed(r).state \in {"idle", "disabled"}
                  \/ /\ Enabled /\ ~stopping /\ r.timer = NoTimer
                     /\ RetryFailed(r).timer = Backoff(r.delay)
                     /\ RetryFailed(r).state = "waiting"
<1> DEFINE b == [r EXCEPT !.state = DefaultState, !.delay = Backoff(r.delay)]
<1>1. CASE Exhausted(r)
  BY <1>1 DEF RetryFailed, RecoveryState, States
<1>2. CASE ~Exhausted(r)
  <2>1. Backoff(r.delay) \in Delays
    BY BackoffRange DEF RecoveryState
  <2>2. /\ b \in RecoveryState /\ b.attempt = r.attempt /\ b.timer = r.timer
        /\ b.delay = Backoff(r.delay) /\ b.state \in {"idle", "disabled"}
    BY <2>1 DEF RecoveryState, States, DefaultState
  <2>3. RetryFailed(r) = Scheduled(b)
    BY <1>2 DEF RetryFailed
  <2> HIDE DEF b
  <2> QED BY <2>2, <2>3, ScheduledCases
<1> QED BY <1>1, <1>2

LEMMA DelayBounds ==
  /\ 0 \in Delays /\ RetryInterval \in Delays
  /\ DefaultState \in {"idle", "disabled"}
<1>1. DefaultState \in {"idle", "disabled"}
  BY Zenon DEF DefaultState
<1> QED BY <1>1, ConfigAssumption DEF Delays

-----------------------------------------------------------------------------
(***************************************************************************)
(* Types.                                                                  *)
(***************************************************************************)

LEMMA BeginAttachType ==
  ASSUME TypeOK, BeginAttach
  PROVE  /\ created' \in 1 .. MaxTransports /\ created' = created + 1
         /\ attach' \in [Transports -> {"no", "connecting", "closing", "done"}]
         /\ link' \in [Transports -> LinkState]
         /\ starting' \in BOOLEAN
<1>1. created + 1 \in Transports
  BY BoundsAssumption DEF TypeOK, BeginAttach, Transports
<1>2. StartCalled(link[created + 1]) \in LinkState
  BY <1>1 DEF TypeOK, LinkState, StartCalled
<1> QED BY <1>1, <1>2, BoundsAssumption DEF TypeOK, BeginAttach, Transports

\* A transport stays a transport whatever it does.
LEMMA LinkType ==
  ASSUME NEW l \in LinkState
  PROVE  /\ StartResolved(l) \in LinkState /\ StartRejected(l) \in LinkState
         /\ LinkLost(l) \in LinkState /\ LinkRegained(l) \in LinkState
         /\ GaveUp(l) \in LinkState /\ CloseCalled(l) \in LinkState
         /\ CloseFinished(l) \in LinkState
  BY DEF LinkState, StartResolved, StartRejected, LinkLost, LinkRegained, GaveUp, CloseCalled, CloseFinished

LEMMA AttachFailedType ==
  ASSUME NEW r \in RecoveryState, NEW t
  PROVE  AttachFailed(t, r) \in RecoveryState
  BY ScheduledCases, RetryFailedCases DEF AttachFailed, StartFailed

LEMMA FaultType == ASSUME TypeOK, Fault PROVE faults' \in 0 .. MaxFaults
  BY BoundsAssumption DEF TypeOK, Fault

\* The two flags, apart from the other variables: no prover handles both.
LEMMA FlagsStep == TypeOK /\ [Next]_vars => starting' \in BOOLEAN /\ stopping' \in BOOLEAN
<1> SUFFICES ASSUME TypeOK, [Next]_vars PROVE starting' \in BOOLEAN /\ stopping' \in BOOLEAN
  OBVIOUS
<1>1. starting \in BOOLEAN /\ stopping \in BOOLEAN
  BY DEF TypeOK
<1>2. starting' \in {TRUE, FALSE, starting} /\ stopping' \in {TRUE, FALSE, stopping}
  BY Zenon DEF Next, vars, Start, RecoveryTimerFires, BeginAttach, Stop, StopClosed, AttachOk,
     AttachRejected, AttachClosed, LinkLoses, LinkRegains, LinkGivesUp
<1> QED BY <1>1, <1>2, Zenon

OtherTypes ==
  /\ link \in [Transports -> LinkState]
  /\ created \in 0 .. MaxTransports
  /\ transport \in 0 .. MaxTransports
  /\ attach \in [Transports -> {"no", "connecting", "closing", "done"}]
  /\ recovery \in RecoveryState
  /\ stopOn \in 0 .. MaxTransports
  /\ stopCall \in {"no", "closing", "done"}
  /\ attachAtStop \in 0 .. MaxTransports
  /\ faults \in 0 .. MaxFaults

LEMMA TypeParts == TypeOK <=> OtherTypes /\ starting \in BOOLEAN /\ stopping \in BOOLEAN
  BY Zenon DEF TypeOK, OtherTypes

LEMMA OtherTypesStep == TypeOK /\ [Next]_vars => OtherTypes'
<1> SUFFICES ASSUME TypeOK, OtherTypes, [Next]_vars PROVE OtherTypes'
  BY TypeParts
<1>1. CASE Start
  <2>0. recovery \in RecoveryState
    BY Zenon DEF OtherTypes
  <2>1. recovery' \in RecoveryState
    <3>1. recovery' = [recovery EXCEPT !.delay = RetryInterval, !.state = DefaultState]
      BY <1>1, Zenon DEF Start
    <3> QED BY <3>1, <2>0, DelayBounds DEF RecoveryState, States
  <2>2. BeginAttach /\ UNCHANGED <<transport, stopOn, stopCall, attachAtStop, faults>>
    BY <1>1 DEF Start
  <2> QED BY <2>1, <2>2, BeginAttachType DEF OtherTypes
<1>2. CASE RecoveryTimerFires
  <2>0. recovery \in RecoveryState
    BY Zenon DEF OtherTypes
  <2>1. recovery' \in RecoveryState
    <3> DEFINE r == [recovery EXCEPT !.timer = NoTimer]
    <3>1. \/ recovery' = r \/ recovery' = [r EXCEPT !.state = "stopped"]
          \/ recovery' = [r EXCEPT !.attempt = @ + 1, !.state = "attempting"]
      BY <1>2, Zenon DEF RecoveryTimerFires
    <3>2. r \in RecoveryState
      BY <2>0, DelayBounds DEF RecoveryState
    <3> HIDE DEF r
    <3>3. r.attempt + 1 \in Nat /\ "stopped" \in States /\ "attempting" \in States
      BY <3>2 DEF RecoveryState, States
    <3>4. \A a \in Nat, s \in States : [r EXCEPT !.attempt = a, !.state = s] \in RecoveryState
      BY <3>2 DEF RecoveryState
    <3>5. [r EXCEPT !.state = "stopped"] \in RecoveryState
      BY <3>2 DEF RecoveryState, States
    <3> QED BY <3>1, <3>2, <3>3, <3>4, <3>5, Zenon
  <2>2. UNCHANGED <<transport, stopOn, stopCall, attachAtStop, faults>>
    BY <1>2 DEF RecoveryTimerFires
  <2>3. BeginAttach \/ UNCHANGED <<link, created, attach>>
    BY <1>2, Zenon DEF RecoveryTimerFires
  <2>4. CASE BeginAttach
    BY <2>1, <2>2, <2>4, BeginAttachType DEF OtherTypes
  <2>5. CASE UNCHANGED <<link, created, attach>>
    BY <2>1, <2>2, <2>5 DEF OtherTypes
  <2> QED BY <2>3, <2>4, <2>5
<1>3. CASE Stop
  <2>0. recovery \in RecoveryState
    BY Zenon DEF OtherTypes
  <2>1. recovery' \in RecoveryState
    <3>1. \/ recovery' = [recovery EXCEPT !.timer = NoTimer, !.state = "stopped"]
          \/ recovery' = [recovery EXCEPT !.timer = NoTimer, !.state = "disabled"]
      BY <1>3, Zenon DEF Stop
    <3> QED BY <3>1, <2>0, DelayBounds DEF RecoveryState, States
  <2>2. attachAtStop' \in 0 .. MaxTransports
    <3>1. attachAtStop' = IF Attaching = {} THEN 0 ELSE CHOOSE t \in Attaching : TRUE
      BY <1>3, Zenon DEF Stop
    <3>2. Attaching \subseteq Transports
      BY Zenon DEF Attaching
    <3>3. Attaching # {} => (CHOOSE t \in Attaching : TRUE) \in Attaching
      BY Zenon
    <3>4. attachAtStop' = 0 \/ attachAtStop' \in Transports
      BY <3>1, <3>2, <3>3, Zenon
    <3> QED BY <3>4, BoundsAssumption DEF Transports
  <2>3. link' \in [Transports -> LinkState] /\ stopCall' \in {"closing", "done"}
    <3>1. \/ stopCall' = "done" /\ link' = link
          \/ stopCall' = "closing" /\ link' = [link EXCEPT ![transport] = CloseCalled(@)]
      BY <1>3, Zenon DEF Stop
    <3> QED BY <3>1, LinkType DEF OtherTypes
  <2>4. stopOn' = transport /\ UNCHANGED <<created, transport, attach, faults>>
    BY <1>3, Zenon DEF Stop
  <2> QED BY <2>1, <2>2, <2>3, <2>4 DEF OtherTypes
<1>4. CASE StopClosed
  <2>1. transport' \in 0 .. MaxTransports /\ stopCall' \in {"no", "closing", "done"}
    BY <1>4, BoundsAssumption DEF StopClosed, TransportDropped
  <2>2. link' \in [Transports -> LinkState]
    BY <1>4, LinkType DEF StopClosed, OtherTypes
  <2>3. UNCHANGED <<created, attach, recovery, stopOn, attachAtStop, faults>>
    BY <1>4 DEF StopClosed
  <2> QED BY <2>1, <2>2, <2>3 DEF OtherTypes
<1>5. ASSUME NEW t \in Transports, AttachOk(t) PROVE OtherTypes'
  <2>1. recovery' \in RecoveryState
    BY <1>5, DelayBounds DEF AttachOk, Reset, RecoveryState, States
  <2>2. link' \in [Transports -> LinkState]
    BY <1>5, LinkType DEF AttachOk, OtherTypes
  <2>3. attach' \in [Transports -> {"no", "connecting", "closing", "done"}]
    BY <1>5 DEF AttachOk, OtherTypes
  <2>4. transport' \in 0 .. MaxTransports
    BY <1>5 DEF AttachOk, Transports
  <2>5. UNCHANGED <<created, stopOn, stopCall, attachAtStop, faults>>
    BY <1>5 DEF AttachOk
  <2> QED BY <2>1, <2>2, <2>3, <2>4, <2>5 DEF OtherTypes
<1>6. ASSUME NEW t \in Transports, AttachRejected(t) PROVE OtherTypes'
  <2>1. faults' \in 0 .. MaxFaults
    BY <1>6, FaultType, Zenon DEF AttachRejected, TypeOK
  <2>2. CloseCalled(StartRejected(link[t])) \in LinkState
    BY LinkType DEF OtherTypes
  <2>3. link' \in [Transports -> LinkState]
    BY <1>6, <2>2 DEF AttachRejected, OtherTypes
  <2>4. attach' \in [Transports -> {"no", "connecting", "closing", "done"}]
    BY <1>6 DEF AttachRejected, OtherTypes
  <2>5. transport' = 0 /\ UNCHANGED <<created, recovery, stopOn, stopCall, attachAtStop>>
    BY <1>6 DEF AttachRejected
  <2> QED BY <2>1, <2>3, <2>4, <2>5, BoundsAssumption DEF OtherTypes
<1>7. ASSUME NEW t \in Transports, AttachClosed(t) PROVE OtherTypes'
  <2>1. (IF link[t].notified THEN recovery ELSE Reported(recovery)) \in RecoveryState
    BY ReportedCases DEF OtherTypes
  <2>2. recovery' \in RecoveryState
    BY <1>7, <2>1, AttachFailedType DEF AttachClosed
  <2>3. link' \in [Transports -> LinkState]
    BY <1>7, LinkType DEF AttachClosed, OtherTypes
  <2>4. attach' \in [Transports -> {"no", "connecting", "closing", "done"}]
    BY <1>7 DEF AttachClosed, OtherTypes
  <2>5. UNCHANGED <<created, transport, stopOn, stopCall, attachAtStop, faults>>
    BY <1>7 DEF AttachClosed
  <2> QED BY <2>2, <2>3, <2>4, <2>5 DEF OtherTypes
<1>8. ASSUME NEW t \in Transports, LinkLoses(t) \/ LinkRegains(t) PROVE OtherTypes'
  <2>1. faults' \in 0 .. MaxFaults
    BY <1>8, FaultType, Zenon DEF LinkLoses, LinkRegains, TypeOK
  <2>2. link' \in [Transports -> LinkState]
    BY <1>8, LinkType DEF LinkLoses, LinkRegains, OtherTypes
  <2>3. UNCHANGED <<created, transport, attach, recovery, stopOn, stopCall, attachAtStop>>
    BY <1>8 DEF LinkLoses, LinkRegains
  <2> QED BY <2>1, <2>2, <2>3 DEF OtherTypes
<1>9. ASSUME NEW t \in Transports, LinkGivesUp(t) PROVE OtherTypes'
  <2>1. faults' \in 0 .. MaxFaults
    BY <1>9, FaultType DEF LinkGivesUp
  <2>2. recovery' \in RecoveryState
    BY <1>9, ReportedCases DEF LinkGivesUp, OtherTypes
  <2>3. link' \in [Transports -> LinkState]
    BY <1>9, LinkType DEF LinkGivesUp, OtherTypes
  <2>4. transport' \in 0 .. MaxTransports
    BY <1>9, BoundsAssumption DEF LinkGivesUp, OtherTypes
  <2>5. UNCHANGED <<created, attach, stopOn, stopCall, attachAtStop>>
    BY <1>9 DEF LinkGivesUp
  <2> QED BY <2>1, <2>2, <2>3, <2>4, <2>5 DEF OtherTypes
<1>10. CASE UNCHANGED vars
  BY <1>10 DEF vars, OtherTypes
<1> QED BY <1>1, <1>2, <1>3, <1>4, <1>5, <1>6, <1>7, <1>8, <1>9, <1>10, ZenonT(30) DEF Next

LEMMA TypeStep == TypeOK /\ [Next]_vars => TypeOK'
<1>1. TypeOK' <=> OtherTypes' /\ starting' \in BOOLEAN /\ stopping' \in BOOLEAN
  BY Zenon DEF TypeOK, OtherTypes
<1> QED BY FlagsStep, OtherTypesStep, <1>1

\* Every variable keeps its type; in particular no delay but that of the first
\* retry exceeds the configured maximum, however often a failure backs off.
THEOREM TypeCorrect == Spec => []TypeOK
<1>1. Init => TypeOK
  <2> SUFFICES ASSUME Init PROVE TypeOK
    OBVIOUS
  <2>1. FreshLink \in LinkState
    BY DEF FreshLink, LinkState
  <2>2. 0 \in 0 .. MaxTransports /\ 0 \in 0 .. MaxFaults
    BY BoundsAssumption
  <2>3. recovery \in RecoveryState
    BY DelayBounds DEF Init, RecoveryState, States
  <2>4. OtherTypes
    BY <2>1, <2>2, <2>3 DEF Init, OtherTypes
  <2>5. starting \in BOOLEAN /\ stopping \in BOOLEAN
    BY Zenon DEF Init
  <2> QED BY <2>4, <2>5, TypeParts
<1> QED BY <1>1, TypeStep, PTL DEF Spec

-----------------------------------------------------------------------------
(***************************************************************************)
(* What a failed attach leaves in the recovery fields: the closure is      *)
(* reported, or was before, and then the caller sees the error.            *)
(***************************************************************************)

\* Facts about the fields q that a failure makes of r.
Failed(r, q, first) ==
  /\ q.attempt = r.attempt
  /\ (r.timer # NoTimer => r.delay = r.timer)
       => (q.timer # NoTimer => q.delay = q.timer \/ q.delay = Backoff(q.timer))
  /\ Enabled /\ ~stopping => q.timer # NoTimer \/ (q.state = "stopped" /\ Exhausted(q))
  /\ stopping => /\ q.timer = r.timer
                 /\ q.state \in {"disabled", "idle", "stopped", r.state}
  /\ q.state = "waiting" => q.timer # NoTimer \/ (stopping /\ r.state = "waiting")
  /\ q.state = "attempting" => first /\ r.state = "attempting"
  /\ q.state = "stopped" => r.state = "stopped" \/ Exhausted(q)

LEMMA FailedAttach ==
  ASSUME NEW r \in RecoveryState, NEW t, NEW told
  PROVE  Failed(r, AttachFailed(t, IF told THEN r ELSE Reported(r)), t = 1)
<1> DEFINE rr == IF told THEN r ELSE Reported(r)
           q  == AttachFailed(t, rr)
<1>0. r.delay # NoTimer
  BY DelayIsNoTimer DEF RecoveryState
<1>1. /\ rr \in RecoveryState
      /\ rr.attempt = r.attempt /\ rr.delay = r.delay
      /\ \/ rr.timer = r.timer /\ rr.state = r.state
         \/ ~Enabled /\ rr.timer = r.timer /\ rr.state = "disabled"
         \/ Enabled /\ ~stopping /\ r.timer = NoTimer /\ rr.timer = r.delay /\ rr.state = "waiting"
      /\ stopping => rr.timer = r.timer /\ rr.state = r.state
  <2>1. CASE told
    BY <2>1
  <2>2. CASE ~told
    <3>1. rr = Reported(r) /\ (stopping => Reported(r) = r)
      BY <2>2, Zenon DEF Reported
    <3> QED BY <3>1, ReportedCases
  <2> QED BY <2>1, <2>2
<1> HIDE DEF rr
<1>2. CASE t = 1
  <2>1. q = Scheduled(rr)
    BY <1>2 DEF AttachFailed, StartFailed
  <2> HIDE DEF q
  <2>2. /\ q \in RecoveryState /\ q.attempt = rr.attempt /\ q.delay = rr.delay
        /\ \/ ~Enabled /\ q.timer = rr.timer /\ q.state = "disabled"
           \/ /\ Enabled /\ (stopping \/ rr.timer # NoTimer)
              /\ q.timer = rr.timer /\ q.state = rr.state
           \/ Enabled /\ ~stopping /\ rr.timer = NoTimer /\ q.timer = rr.delay /\ q.state = "waiting"
    BY <2>1, <1>1, ScheduledCases
  <2>5. q.attempt = r.attempt
    BY <1>0, <1>1, <1>2, <2>2
  <2>6. (r.timer # NoTimer => r.delay = r.timer)
          => (q.timer # NoTimer => q.delay = q.timer \/ q.delay = Backoff(q.timer))
    BY <1>1, <1>2, <2>2
  <2>7. Enabled /\ ~stopping => q.timer # NoTimer \/ (q.state = "stopped" /\ Exhausted(q))
    BY <1>0, <1>1, <1>2, <2>2
  <2>8. stopping => /\ q.timer = r.timer
                    /\ q.state \in {"disabled", "idle", "stopped", r.state}
    BY <1>1, <1>2, <2>2
  <2>9. q.state = "waiting" => q.timer # NoTimer \/ (stopping /\ r.state = "waiting")
    BY <1>0, <1>1, <1>2, <2>2
  <2>10. q.state = "attempting" => t = 1 /\ r.state = "attempting"
    BY <1>1, <1>2, <2>2
  <2>11. q.state = "stopped" => r.state = "stopped" \/ Exhausted(q)
    BY <1>1, <1>2, <2>2
  <2> QED BY <2>5, <2>6, <2>7, <2>8, <2>9, <2>10, <2>11, Zenon DEF Failed, q, rr
<1>3. CASE t # 1
  <2>1. q = RetryFailed(rr)
    BY <1>3 DEF AttachFailed
  <2>2. Backoff(rr.delay) # NoTimer
    BY <1>1, BackoffRange, DelayIsNoTimer DEF RecoveryState
  <2> HIDE DEF q
  <2>3. /\ q \in RecoveryState /\ q.attempt = rr.attempt
        /\ \/ /\ Exhausted(rr) /\ q.state = "stopped"
              /\ q.timer = rr.timer /\ q.delay = rr.delay
           \/ /\ q.delay = Backoff(rr.delay)
              /\ \/ /\ q.timer = rr.timer /\ (~Enabled \/ stopping \/ rr.timer # NoTimer)
                    /\ q.state \in {"idle", "disabled"}
                 \/ /\ Enabled /\ ~stopping /\ rr.timer = NoTimer
                    /\ q.timer = Backoff(rr.delay) /\ q.state = "waiting"
    BY <2>1, <1>1, RetryFailedCases
  <2>4. Exhausted(rr) => Exhausted(q)
    BY <2>3 DEF Exhausted
  <2>5. q.attempt = r.attempt
    BY <1>0, <1>1, <1>3, <2>2, <2>3, <2>4
  <2>6. (r.timer # NoTimer => r.delay = r.timer)
          => (q.timer # NoTimer => q.delay = q.timer \/ q.delay = Backoff(q.timer))
    BY <1>1, <1>3, <2>2, <2>3, <2>4
  <2>7. Enabled /\ ~stopping => q.timer # NoTimer \/ (q.state = "stopped" /\ Exhausted(q))
    BY <1>0, <1>1, <1>3, <2>2, <2>3, <2>4
  <2>8. stopping => /\ q.timer = r.timer
                    /\ q.state \in {"disabled", "idle", "stopped", r.state}
    BY <1>1, <1>3, <2>2, <2>3, <2>4
  <2>9. q.state = "waiting" => q.timer # NoTimer \/ (stopping /\ r.state = "waiting")
    BY <1>0, <1>1, <1>3, <2>2, <2>3, <2>4
  <2>10. q.state = "attempting" => t = 1 /\ r.state = "attempting"
    BY <1>1, <1>3, <2>2, <2>3, <2>4
  <2>11. q.state = "stopped" => r.state = "stopped" \/ Exhausted(q)
    BY <1>1, <1>3, <2>2, <2>3, <2>4
  <2> QED BY <2>5, <2>6, <2>7, <2>8, <2>9, <2>10, <2>11, Zenon DEF Failed, q, rr
<1> QED BY <1>2, <1>3 DEF q, rr

-----------------------------------------------------------------------------
(***************************************************************************)
(* The inductive invariant.                                                *)
(***************************************************************************)

\* Only the newest transport is being attached, and `starting' says so.
NewestAttaches ==
  /\ \A t \in Attaching : t = created
  /\ starting <=> Attaching # {}

\* Before start() nothing runs.
NothingRuns ==
  created = 0 => /\ recovery.timer = NoTimer /\ ~stopping
                 /\ \A t \in Transports : link[t].started = "no"

\* BackoffLagsOne; while an attach is under way the caller has yet to back off.
LagByOne ==
  recovery.timer # NoTimer =>
    \/ recovery.delay = recovery.timer
    \/ ~starting /\ recovery.delay = Backoff(recovery.timer)

\* After stop() nothing is armed, and only the attach in flight goes on.
StopIsQuiet ==
  stopping => /\ recovery.timer = NoTimer
              /\ recovery.state \notin {"waiting", "attempting"}
              /\ \A t \in Attaching : t = attachAtStop

StopKnown == stopping <=> stopCall # "no"

\* The first transport is attached by start(), not by a retry.
RetriesComeLater == recovery.state = "attempting" => created > 1

IInv ==
  /\ NewestAttaches /\ NothingRuns /\ LagByOne /\ StopIsQuiet
  /\ StopKnown /\ RetriesComeLater
  /\ StatusIsTrue /\ Supervised /\ StopDetaches /\ RetriesBounded

-----------------------------------------------------------------------------
(***************************************************************************)
(* Which transports are being attached, before and after a step.           *)
(***************************************************************************)

LEMMA AttachBegins ==
  ASSUME TypeOK, BeginAttach, Attaching = {}
  PROVE  /\ Attaching' = {created'} /\ starting' /\ created' = created + 1
         /\ created' \in Transports
<1>1. created + 1 \in Transports /\ created' = created + 1
  BY BoundsAssumption DEF TypeOK, BeginAttach, Transports
<1>2. attach' = [attach EXCEPT ![created + 1] = "connecting"]
  BY Zenon DEF BeginAttach
<1>3. attach \in [Transports -> {"no", "connecting", "closing", "done"}]
  BY Zenon DEF TypeOK
<1>4. Attaching' = {created + 1}
  BY <1>1, <1>2, <1>3 DEF Attaching
<1>5. starting'
  BY Zenon DEF BeginAttach
<1> QED BY <1>1, <1>4, <1>5

LEMMA AttachEnds ==
  ASSUME TypeOK, NewestAttaches, NEW t \in Attaching,
         attach' = [attach EXCEPT ![t] = "done"]
  PROVE  t = created /\ starting /\ Attaching' = {}
<1>1. attach \in [Transports -> {"no", "connecting", "closing", "done"}]
  BY Zenon DEF TypeOK
<1>2. t = created /\ starting
  BY Zenon DEF NewestAttaches
<1>3. \A u \in Attaching : u = t
  BY <1>2, Zenon DEF NewestAttaches
<1>4. Attaching' = {}
  BY <1>1, <1>3 DEF Attaching
<1> QED BY <1>2, <1>4

-----------------------------------------------------------------------------
(***************************************************************************)
(* The steps, one lemma each.                                              *)
(***************************************************************************)

LEMMA StartKeeps ==
  ASSUME TypeOK, IInv, Start
  PROVE  IInv'
<1>1. created = 0 /\ NewestAttaches /\ NothingRuns /\ StopKnown /\ StopDetaches /\ RetriesBounded
  BY Zenon DEF Start, IInv
<1>2. /\ ~stopping' /\ BeginAttach /\ stopCall' = stopCall /\ transport' = transport
      /\ recovery' = [recovery EXCEPT !.delay = RetryInterval, !.state = DefaultState]
  BY Zenon DEF Start
<1>3. Attaching = {}
  <2>1. \A t \in Attaching : t = 0
    BY <1>1, Zenon DEF NewestAttaches
  <2>2. Attaching \subseteq Transports
    BY Zenon DEF Attaching
  <2> QED BY <2>1, <2>2 DEF Transports
<1>4. Attaching' = {created'} /\ starting' /\ created' = created + 1
  BY <1>2, <1>3, AttachBegins
<1>5. recovery \in RecoveryState
  BY Zenon DEF TypeOK
<1>6. /\ recovery'.timer = NoTimer /\ recovery'.attempt = recovery.attempt
      /\ recovery'.delay = RetryInterval /\ recovery'.state \in {"idle", "disabled"}
  BY <1>1, <1>2, <1>5, DelayBounds DEF NothingRuns, RecoveryState
<1>7. ~stopping /\ stopCall = "no"
  BY <1>1, Zenon DEF NothingRuns, StopKnown
<1>8. NewestAttaches'
  BY <1>4, Zenon DEF NewestAttaches
<1>9. NothingRuns'
  BY <1>1, <1>4 DEF NothingRuns
<1>11. LagByOne'
  BY <1>6, Zenon DEF LagByOne
<1>12. StopIsQuiet'
  BY <1>2, Zenon DEF StopIsQuiet
<1>13. StopKnown'
  BY <1>2, <1>7, Zenon DEF StopKnown
<1>14. RetriesComeLater'
  BY <1>6 DEF RetriesComeLater
<1>15. StatusIsTrue'
  BY <1>6 DEF StatusIsTrue
<1>16. Supervised'
  BY <1>4, Zenon DEF Supervised
<1>17. StopDetaches'
  BY <1>2, <1>7 DEF StopDetaches
<1>18. RetriesBounded'
  BY <1>1, <1>6, Zenon DEF RetriesBounded
<1> QED BY <1>8, <1>9, <1>11, <1>12, <1>13, <1>14, <1>15, <1>16, <1>17, <1>18, Zenon DEF IInv

LEMMA RecoveryTimerKeeps ==
  ASSUME TypeOK, IInv, RecoveryTimerFires
  PROVE  IInv'
<1>1. /\ NewestAttaches /\ NothingRuns /\ LagByOne /\ StopIsQuiet
      /\ StopKnown /\ RetriesComeLater /\ StatusIsTrue /\ Supervised /\ StopDetaches /\ RetriesBounded
  BY Zenon DEF IInv
<1>2. recovery.timer # NoTimer /\ ~stopping /\ created # 0
  BY <1>1, Zenon DEF RecoveryTimerFires, StopIsQuiet, NothingRuns
<1>3. /\ transport' = transport /\ (stopping' <=> stopping) /\ stopCall' = stopCall
      /\ attachAtStop' = attachAtStop
  BY Zenon DEF RecoveryTimerFires
<1>4. recovery \in RecoveryState /\ created \in Nat /\ created' \in Nat
  <2>1. recovery \in RecoveryState /\ created \in 0 .. MaxTransports
    BY Zenon DEF TypeOK
  <2>2. created' = created \/ created' = created + 1
    BY Zenon DEF RecoveryTimerFires, BeginAttach
  <2> QED BY <2>1, <2>2
<1>5. recovery'.timer = NoTimer /\ recovery'.delay = recovery.delay
  <2> DEFINE r == [recovery EXCEPT !.timer = NoTimer]
  <2>1. r \in RecoveryState /\ r.timer = NoTimer /\ r.delay = recovery.delay
    BY <1>4, DelayBounds DEF RecoveryState
  <2>2. \/ recovery' = r \/ recovery' = [r EXCEPT !.state = "stopped"]
        \/ recovery' = [r EXCEPT !.attempt = r.attempt + 1, !.state = "attempting"]
    BY Zenon DEF RecoveryTimerFires
  <2> HIDE DEF r
  <2>3. /\ [r EXCEPT !.state = "stopped"].timer = r.timer
        /\ [r EXCEPT !.state = "stopped"].delay = r.delay
        /\ [r EXCEPT !.attempt = r.attempt + 1, !.state = "attempting"].timer = r.timer
        /\ [r EXCEPT !.attempt = r.attempt + 1, !.state = "attempting"].delay = r.delay
    BY <2>1 DEF RecoveryState
  <2> QED BY <2>1, <2>2, <2>3, Zenon
<1>6. \/ /\ recovery'.state = recovery.state /\ recovery'.attempt = recovery.attempt
         /\ starting /\ UNCHANGED <<link, created, attach, starting>>
      \/ /\ recovery'.state = "stopped" /\ recovery'.attempt = recovery.attempt
         /\ Exhausted(recovery) /\ UNCHANGED <<link, created, attach, starting>>
      \/ /\ recovery'.state = "attempting" /\ recovery'.attempt = recovery.attempt + 1
         /\ ~Exhausted(recovery) /\ ~starting /\ BeginAttach
  <2> DEFINE r == [recovery EXCEPT !.timer = NoTimer]
  <2>1. r.attempt = recovery.attempt /\ r.state = recovery.state
    BY <1>4 DEF RecoveryState
  <2>2. Exhausted(r) <=> Exhausted(recovery)
    BY <2>1, Zenon DEF Exhausted
  <2> HIDE DEF r
  <2>3. \/ /\ recovery' = r /\ starting /\ UNCHANGED <<link, created, attach, starting>>
        \/ /\ recovery' = [r EXCEPT !.state = "stopped"]
           /\ Exhausted(r) /\ UNCHANGED <<link, created, attach, starting>>
        \/ /\ recovery' = [r EXCEPT !.attempt = r.attempt + 1, !.state = "attempting"]
           /\ ~Exhausted(r) /\ ~starting /\ BeginAttach
    BY <1>2, Zenon DEF RecoveryTimerFires, Busy, r
  <2>4. r \in RecoveryState
    BY <1>4, DelayBounds DEF RecoveryState, r
  <2>5. /\ [r EXCEPT !.state = "stopped"].state = "stopped"
        /\ [r EXCEPT !.state = "stopped"].attempt = r.attempt
        /\ [r EXCEPT !.attempt = r.attempt + 1, !.state = "attempting"].state = "attempting"
        /\ [r EXCEPT !.attempt = r.attempt + 1, !.state = "attempting"].attempt = r.attempt + 1
    BY <2>4 DEF RecoveryState
  <2> QED BY <2>1, <2>2, <2>3, <2>5, Zenon
<1>7. ASSUME UNCHANGED <<link, created, attach, starting>>
      PROVE  Attaching' = Attaching /\ (starting' <=> starting)
  BY <1>7, Zenon DEF Attaching
<1>8. ASSUME BeginAttach, ~starting
      PROVE  Attaching' = {created'} /\ starting' /\ created' = created + 1
  BY <1>8, <1>1, AttachBegins, Zenon DEF NewestAttaches
<1>9. NewestAttaches'
  BY <1>1, <1>6, <1>7, <1>8, Zenon DEF NewestAttaches
<1>10. NothingRuns'
  <2>1. created' # 0
    BY <1>2, <1>4, <1>6, <1>8
  <2> QED BY <2>1, Zenon DEF NothingRuns
<1>12. LagByOne'
  BY <1>5, Zenon DEF LagByOne
<1>13. StopIsQuiet'
  BY <1>2, <1>3, Zenon DEF StopIsQuiet
<1>14. StopKnown'
  BY <1>1, <1>3, Zenon DEF StopKnown
<1>15. RetriesComeLater'
  <2>1. created > 0 /\ (recovery.state = "attempting" => created > 1)
    BY <1>1, <1>2, <1>4 DEF RetriesComeLater
  <2>2. UNCHANGED <<link, created, attach, starting>> => created' = created
    BY Zenon
  <2> QED BY <2>1, <2>2, <1>4, <1>6, <1>8 DEF RetriesComeLater
<1>16. StatusIsTrue'
  <2>1. recovery'.attempt = recovery.attempt => (Exhausted(recovery') <=> Exhausted(recovery))
    BY Zenon DEF Exhausted
  <2> QED BY <1>1, <1>2, <1>6, <1>7, <1>8, <2>1 DEF StatusIsTrue
<1>17. Supervised'
  <2>1. recovery'.attempt = recovery.attempt => (Exhausted(recovery') <=> Exhausted(recovery))
    BY Zenon DEF Exhausted
  <2> QED BY <1>6, <1>7, <1>8, <2>1, Zenon DEF Supervised
<1>18. StopDetaches'
  BY <1>1, <1>3, Zenon DEF StopDetaches
<1>19. RetriesBounded'
  BY <1>1, <1>4, <1>6, ConfigAssumption DEF RetriesBounded, Exhausted, RecoveryState
<1> QED BY <1>9, <1>10, <1>12, <1>13, <1>14, <1>15, <1>16, <1>17, <1>18, <1>19, Zenon DEF IInv

LEMMA AttachOkKeeps ==
  ASSUME TypeOK, IInv, NEW t \in Transports, AttachOk(t)
  PROVE  IInv'
<1>1. /\ NewestAttaches /\ NothingRuns /\ LagByOne /\ StopIsQuiet
      /\ StopKnown /\ RetriesComeLater /\ StatusIsTrue /\ Supervised /\ StopDetaches /\ RetriesBounded
  BY Zenon DEF IInv
<1>2. t \in Attaching
  BY Zenon DEF AttachOk, Attaching
<1>3. t = created /\ starting /\ Attaching' = {}
  BY <1>1, <1>2, AttachEnds, Zenon DEF AttachOk
<1>4. /\ ~starting' /\ recovery' = Reset /\ transport' = t /\ created' = created
      /\ (stopping' <=> stopping) /\ stopCall' = stopCall /\ attachAtStop' = attachAtStop
      /\ link' = [link EXCEPT ![t] = StartResolved(@)] /\ ~link[t].notified
  BY Zenon DEF AttachOk, CanResolve
<1>5. /\ recovery'.timer = NoTimer /\ recovery'.attempt = 0 /\ recovery'.delay = RetryInterval
      /\ recovery'.state \in {"idle", "disabled"}
  BY <1>4, DelayBounds DEF Reset
<1>6. t # 0 /\ created # 0
  BY <1>3 DEF Transports
<1>7. ~link'[t].notified
  BY <1>4 DEF TypeOK, LinkState, StartResolved
<1>8. NewestAttaches'
  BY <1>3, <1>4, Zenon DEF NewestAttaches
<1>9. NothingRuns'
  BY <1>4, <1>6, Zenon DEF NothingRuns
<1>11. LagByOne'
  BY <1>5, Zenon DEF LagByOne
<1>12. StopIsQuiet'
  BY <1>3, <1>5 DEF StopIsQuiet
<1>13. StopKnown'
  BY <1>1, <1>4, Zenon DEF StopKnown
<1>14. RetriesComeLater'
  BY <1>5 DEF RetriesComeLater
<1>15. StatusIsTrue'
  BY <1>5 DEF StatusIsTrue
<1>16. Supervised'
  BY <1>4, <1>6, <1>7, Zenon DEF Supervised
<1>17. StopDetaches'
  <2>1. stopCall' = "done" => stopping
    BY <1>1, <1>4 DEF StopKnown
  <2> QED BY <1>1, <1>2, <1>4, <2>1, Zenon DEF StopDetaches, StopIsQuiet
<1>18. RetriesBounded'
  BY <1>5 DEF RetriesBounded
<1> QED BY <1>8, <1>9, <1>11, <1>12, <1>13, <1>14, <1>15, <1>16, <1>17, <1>18, Zenon DEF IInv

LEMMA AttachRejectedKeeps ==
  ASSUME TypeOK, IInv, NEW t \in Transports, AttachRejected(t)
  PROVE  IInv'
<1>1. /\ NewestAttaches /\ NothingRuns /\ LagByOne /\ StopIsQuiet
      /\ StopKnown /\ RetriesComeLater /\ StatusIsTrue /\ Supervised /\ StopDetaches /\ RetriesBounded
  BY Zenon DEF IInv
<1>2. /\ attach' = [attach EXCEPT ![t] = "closing"] /\ attach[t] = "connecting"
      /\ link' = [link EXCEPT ![t] = CloseCalled(StartRejected(@))] /\ transport' = 0
  BY Zenon DEF AttachRejected
<1>3. Attaching' = Attaching /\ t \in Attaching
  <2>1. attach \in [Transports -> {"no", "connecting", "closing", "done"}]
    BY Zenon DEF TypeOK
  <2> QED BY <1>2, <2>1 DEF Attaching
<1>4. /\ recovery' = recovery /\ created' = created /\ (starting' <=> starting)
      /\ (stopping' <=> stopping) /\ stopCall' = stopCall /\ attachAtStop' = attachAtStop
  BY Zenon DEF AttachRejected
<1>5. starting
  BY <1>1, <1>3, Zenon DEF NewestAttaches
<1>6. created # 0
  <2>1. t = created
    BY <1>1, <1>3, Zenon DEF NewestAttaches
  <2> QED BY <2>1 DEF Transports
<1>7. Exhausted(recovery') <=> Exhausted(recovery)
  BY <1>4, Zenon DEF Exhausted
<1>8. NewestAttaches'
  BY <1>1, <1>3, <1>4, Zenon DEF NewestAttaches
<1>9. NothingRuns'
  BY <1>4, <1>6, Zenon DEF NothingRuns
<1>11. LagByOne'
  BY <1>1, <1>3, <1>4, Zenon DEF LagByOne
<1>12. StopIsQuiet'
  BY <1>1, <1>3, <1>4, Zenon DEF StopIsQuiet
<1>13. StopKnown'
  BY <1>1, <1>3, <1>4, Zenon DEF StopKnown
<1>14. RetriesComeLater'
  BY <1>1, <1>3, <1>4, Zenon DEF RetriesComeLater
<1>15. StatusIsTrue'
  BY <1>1, <1>4, <1>7, Zenon DEF StatusIsTrue
<1>16. Supervised'
  BY <1>4, <1>5, Zenon DEF Supervised
<1>17. StopDetaches'
  BY <1>2, Zenon DEF StopDetaches
<1>18. RetriesBounded'
  BY <1>1, <1>3, <1>4, Zenon DEF RetriesBounded
<1> QED BY <1>8, <1>9, <1>11, <1>12, <1>13, <1>14, <1>15, <1>16, <1>17, <1>18, Zenon DEF IInv

LEMMA AttachClosedKeeps ==
  ASSUME TypeOK, IInv, NEW t \in Transports, AttachClosed(t)
  PROVE  IInv'
<1>1. /\ NewestAttaches /\ NothingRuns /\ LagByOne /\ StopIsQuiet
      /\ StopKnown /\ RetriesComeLater /\ StatusIsTrue /\ Supervised /\ StopDetaches /\ RetriesBounded
  BY Zenon DEF IInv
<1>2. t \in Attaching
  BY Zenon DEF AttachClosed, Attaching
<1>3. t = created /\ starting /\ Attaching' = {}
  BY <1>1, <1>2, AttachEnds, Zenon DEF AttachClosed
<1>4. /\ ~starting' /\ transport' = transport /\ created' = created
      /\ (stopping' <=> stopping) /\ stopCall' = stopCall /\ attachAtStop' = attachAtStop
  BY Zenon DEF AttachClosed
<1>5. recovery \in RecoveryState /\ created # 0 /\ created \in Nat
  <2>1. recovery \in RecoveryState /\ created \in 0 .. MaxTransports
    BY Zenon DEF TypeOK
  <2> QED BY <1>1, <1>3, <2>1 DEF Transports
<1>6. Failed(recovery, recovery', t = 1)
  <2>1. recovery' = AttachFailed(t, IF link[t].notified THEN recovery ELSE Reported(recovery))
    BY Zenon DEF AttachClosed
  <2>2. Failed(recovery, AttachFailed(t, IF link[t].notified THEN recovery ELSE Reported(recovery)), t = 1)
    BY <1>5, FailedAttach
  <2> QED BY <2>1, <2>2, Zenon
<1>7. NewestAttaches'
  BY <1>3, <1>4, Zenon DEF NewestAttaches
<1>8. NothingRuns'
  BY <1>4, <1>5, Zenon DEF NothingRuns
<1>10. LagByOne'
  BY <1>1, <1>3, <1>4, <1>6, Zenon DEF LagByOne, Failed
<1>11. StopIsQuiet'
  BY <1>1, <1>3, <1>4, <1>6 DEF StopIsQuiet, Failed
<1>12. StopKnown'
  BY <1>1, <1>4, Zenon DEF StopKnown
<1>13. RetriesComeLater'
  <2>1. ~(t = 1 /\ recovery.state = "attempting")
    BY <1>1, <1>3 DEF RetriesComeLater
  <2> QED BY <2>1, <1>6, Zenon DEF RetriesComeLater, Failed
<1>14. StatusIsTrue'
  <2>1. ~(t = 1 /\ recovery.state = "attempting")
    BY <1>1, <1>3 DEF RetriesComeLater
  <2>2. Exhausted(recovery') <=> Exhausted(recovery)
    BY <1>6, Zenon DEF Failed, Exhausted
  <2>3. ~(stopping /\ recovery.state = "waiting")
    BY <1>1 DEF StopIsQuiet
  <2> QED BY <1>1, <1>4, <1>6, <2>1, <2>2, <2>3, Zenon DEF StatusIsTrue, Failed
<1>15. Supervised'
  BY <1>4, <1>6, Zenon DEF Supervised, Failed
<1>16. StopDetaches'
  BY <1>1, <1>4, Zenon DEF StopDetaches
<1>17. RetriesBounded'
  BY <1>1, <1>6, Zenon DEF RetriesBounded, Failed
<1> QED BY <1>7, <1>8, <1>10, <1>11, <1>12, <1>13, <1>14, <1>15, <1>16, <1>17, Zenon DEF IInv

LEMMA LinkFlapKeeps ==
  ASSUME TypeOK, IInv, NEW t \in Transports, LinkLoses(t) \/ LinkRegains(t)
  PROVE  IInv'
<1>1. /\ NewestAttaches /\ NothingRuns /\ LagByOne /\ StopIsQuiet
      /\ StopKnown /\ RetriesComeLater /\ StatusIsTrue /\ Supervised /\ StopDetaches /\ RetriesBounded
  BY Zenon DEF IInv
<1>2. /\ recovery' = recovery /\ created' = created /\ (starting' <=> starting)
      /\ (stopping' <=> stopping) /\ stopCall' = stopCall /\ attachAtStop' = attachAtStop
      /\ transport' = transport /\ attach' = attach
  <2>1. CASE LinkLoses(t)
    BY <2>1, Zenon DEF LinkLoses
  <2>2. CASE LinkRegains(t)
    BY <2>2, Zenon DEF LinkRegains
  <2> QED BY <2>1, <2>2, Zenon
<1>3. Attaching' = Attaching
  BY <1>2, Zenon DEF Attaching
<1>4. Exhausted(recovery') <=> Exhausted(recovery)
  BY <1>2, Zenon DEF Exhausted
<1>5. \A u \in Transports : /\ link'[u].notified = link[u].notified
                            /\ link'[u].started = link[u].started
  <2>1. link \in [Transports -> LinkState]
    BY Zenon DEF TypeOK
  <2>2. \/ link' = [link EXCEPT ![t] = LinkLost(@)]
        \/ link' = [link EXCEPT ![t] = LinkRegained(@)]
    BY Zenon DEF LinkLoses, LinkRegains
  <2> QED BY <2>1, <2>2 DEF LinkState, LinkLost, LinkRegained
<1>6. transport # 0 => transport \in Transports
  <2>1. transport \in 0 .. MaxTransports
    BY Zenon DEF TypeOK
  <2> QED BY <2>1, BoundsAssumption DEF Transports
<1>7. NewestAttaches'
  BY <1>1, <1>2, <1>3, Zenon DEF NewestAttaches
<1>8. NothingRuns'
  BY <1>1, <1>2, <1>5, Zenon DEF NothingRuns
<1>10. LagByOne'
  BY <1>1, <1>2, <1>3, Zenon DEF LagByOne
<1>11. StopIsQuiet'
  BY <1>1, <1>2, <1>3, Zenon DEF StopIsQuiet
<1>12. StopKnown'
  BY <1>1, <1>2, <1>3, Zenon DEF StopKnown
<1>13. RetriesComeLater'
  BY <1>1, <1>2, <1>3, Zenon DEF RetriesComeLater
<1>14. StatusIsTrue'
  BY <1>1, <1>2, <1>4, Zenon DEF StatusIsTrue
<1>15. Supervised'
  BY <1>1, <1>2, <1>4, <1>5, <1>6, Zenon DEF Supervised
<1>16. StopDetaches'
  BY <1>1, <1>2, <1>3, Zenon DEF StopDetaches
<1>17. RetriesBounded'
  BY <1>1, <1>2, <1>3, Zenon DEF RetriesBounded
<1> QED BY <1>7, <1>8, <1>10, <1>11, <1>12, <1>13, <1>14, <1>15, <1>16, <1>17, Zenon DEF IInv

LEMMA LinkGivesUpKeeps ==
  ASSUME TypeOK, IInv, NEW t \in Transports, LinkGivesUp(t)
  PROVE  IInv'
<1>1. /\ NewestAttaches /\ NothingRuns /\ LagByOne /\ StopIsQuiet
      /\ StopKnown /\ RetriesComeLater /\ StatusIsTrue /\ Supervised /\ StopDetaches /\ RetriesBounded
  BY Zenon DEF IInv
<1>2. /\ recovery' = Reported(recovery) /\ created' = created /\ (starting' <=> starting)
      /\ (stopping' <=> stopping) /\ stopCall' = stopCall /\ attachAtStop' = attachAtStop
      /\ transport' \in {0, transport} /\ attach' = attach
  BY Zenon DEF LinkGivesUp
<1>3. Attaching' = Attaching
  BY <1>2, Zenon DEF Attaching
<1>4. created # 0
  <2>1. link[t].started # "no"
    BY Zenon DEF LinkGivesUp, CanGiveUp
  <2> QED BY <1>1, <2>1, Zenon DEF NothingRuns
<1>5. recovery \in RecoveryState
  <2>1. recovery \in RecoveryState /\ created \in 0 .. MaxTransports
    BY Zenon DEF TypeOK
  <2> QED BY <2>1
<1>6. /\ recovery'.attempt = recovery.attempt /\ recovery'.delay = recovery.delay
      /\ \/ stopping /\ recovery' = recovery
         \/ ~Enabled /\ recovery'.timer = recovery.timer /\ recovery'.state = "disabled"
         \/ Enabled /\ recovery.timer # NoTimer /\ recovery' = recovery
         \/ /\ Enabled /\ ~stopping /\ recovery.timer = NoTimer
            /\ recovery'.timer = recovery.delay /\ recovery'.state = "waiting"
  BY <1>2, <1>5, ReportedCases
<1>7. recovery.delay # NoTimer
  BY <1>5, DelayIsNoTimer DEF RecoveryState
<1>8. Exhausted(recovery') <=> Exhausted(recovery)
  BY <1>6, Zenon DEF Exhausted
<1>9. NewestAttaches'
  BY <1>1, <1>2, <1>3, Zenon DEF NewestAttaches
<1>10. NothingRuns'
  BY <1>2, <1>4, Zenon DEF NothingRuns
<1>12. LagByOne'
  BY <1>1, <1>2, <1>6, Zenon DEF LagByOne
<1>13. StopIsQuiet'
  BY <1>1, <1>2, <1>3, <1>6 DEF StopIsQuiet
<1>14. StopKnown'
  BY <1>1, <1>2, Zenon DEF StopKnown
<1>15. RetriesComeLater'
  BY <1>1, <1>2, <1>6 DEF RetriesComeLater
<1>16. StatusIsTrue'
  BY <1>1, <1>2, <1>6, <1>7, <1>8 DEF StatusIsTrue
<1>17. Supervised'
  BY <1>2, <1>6, <1>7, Zenon DEF Supervised
<1>18. StopDetaches'
  BY <1>1, <1>2, Zenon DEF StopDetaches
<1>19. RetriesBounded'
  BY <1>1, <1>6, Zenon DEF RetriesBounded
<1> QED BY <1>9, <1>10, <1>12, <1>13, <1>14, <1>15, <1>16, <1>17, <1>18, <1>19, Zenon DEF IInv

LEMMA StopKeeps ==
  ASSUME TypeOK, IInv, Stop
  PROVE  IInv'
<1>1. /\ NewestAttaches /\ NothingRuns /\ LagByOne /\ StopIsQuiet
      /\ StopKnown /\ RetriesComeLater /\ StatusIsTrue /\ Supervised /\ StopDetaches /\ RetriesBounded
  BY Zenon DEF IInv
<1>2. /\ stopping' /\ stopCall' # "no" /\ created' = created /\ created > 0
      /\ (starting' <=> starting) /\ transport' = transport /\ attach' = attach
      /\ (stopCall' = "done" => transport = 0)
  BY Zenon DEF Stop
<1>3. Attaching' = Attaching
  BY <1>2, Zenon DEF Attaching
<1>4. recovery \in RecoveryState /\ created # 0
  <2>1. recovery \in RecoveryState /\ created \in 0 .. MaxTransports
    BY Zenon DEF TypeOK
  <2> QED BY <1>2, <2>1
<1>5. /\ recovery'.timer = NoTimer /\ recovery'.state \in {"stopped", "disabled"}
      /\ recovery'.attempt = recovery.attempt /\ recovery'.delay = recovery.delay
  <2>1. \/ recovery' = [recovery EXCEPT !.timer = NoTimer, !.state = "stopped"]
        \/ recovery' = [recovery EXCEPT !.timer = NoTimer, !.state = "disabled"]
    BY Zenon DEF Stop
  <2> QED BY <1>4, <2>1 DEF RecoveryState
<1>6. \A u \in Attaching : u = attachAtStop'
  <2>1. attachAtStop' = IF Attaching = {} THEN 0 ELSE CHOOSE u \in Attaching : TRUE
    BY Zenon DEF Stop
  <2>2. Attaching # {} => (CHOOSE u \in Attaching : TRUE) \in Attaching
    BY Zenon
  <2> QED BY <1>1, <2>1, <2>2, Zenon DEF NewestAttaches
<1>7. NewestAttaches'
  BY <1>1, <1>2, <1>3, Zenon DEF NewestAttaches
<1>8. NothingRuns'
  BY <1>2, <1>4, Zenon DEF NothingRuns
<1>10. LagByOne'
  BY <1>5, Zenon DEF LagByOne
<1>11. StopIsQuiet'
  BY <1>3, <1>5, <1>6 DEF StopIsQuiet
<1>12. StopKnown'
  BY <1>2, Zenon DEF StopKnown
<1>13. RetriesComeLater'
  BY <1>5 DEF RetriesComeLater
<1>14. StatusIsTrue'
  BY <1>2, <1>5 DEF StatusIsTrue
<1>15. Supervised'
  BY <1>2, Zenon DEF Supervised
<1>16. StopDetaches'
  BY <1>2, Zenon DEF StopDetaches
<1>17. RetriesBounded'
  BY <1>1, <1>5, Zenon DEF RetriesBounded
<1> QED BY <1>7, <1>8, <1>10, <1>11, <1>12, <1>13, <1>14, <1>15, <1>16, <1>17, Zenon DEF IInv

LEMMA StopClosedKeeps ==
  ASSUME TypeOK, IInv, StopClosed
  PROVE  IInv'
<1>1. /\ NewestAttaches /\ NothingRuns /\ LagByOne /\ StopIsQuiet
      /\ StopKnown /\ RetriesComeLater /\ StatusIsTrue /\ Supervised /\ StopDetaches /\ RetriesBounded
  BY Zenon DEF IInv
<1>2. /\ recovery' = recovery /\ created' = created /\ (starting' <=> starting)
      /\ (stopping' <=> stopping) /\ stopCall = "closing" /\ stopCall' = "done"
      /\ attachAtStop' = attachAtStop /\ transport' = 0 /\ attach' = attach
  BY Zenon DEF StopClosed, TransportDropped
<1>3. Attaching' = Attaching
  BY <1>2, Zenon DEF Attaching
<1>4. Exhausted(recovery') <=> Exhausted(recovery)
  BY <1>2, Zenon DEF Exhausted
<1>5. stopping /\ created # 0
  <2>1. stopping
    BY <1>1, <1>2 DEF StopKnown
  <2> QED BY <1>1, <2>1, Zenon DEF NothingRuns
<1>6. NewestAttaches'
  BY <1>1, <1>2, <1>3, Zenon DEF NewestAttaches
<1>7. NothingRuns'
  BY <1>2, <1>5, Zenon DEF NothingRuns
<1>9. LagByOne'
  BY <1>1, <1>2, <1>3, Zenon DEF LagByOne
<1>10. StopIsQuiet'
  BY <1>1, <1>2, <1>3, Zenon DEF StopIsQuiet
<1>11. StopKnown'
  BY <1>2, <1>5 DEF StopKnown
<1>12. RetriesComeLater'
  BY <1>1, <1>2, <1>3, Zenon DEF RetriesComeLater
<1>13. StatusIsTrue'
  BY <1>1, <1>2, <1>4, Zenon DEF StatusIsTrue
<1>14. Supervised'
  BY <1>2, <1>5, Zenon DEF Supervised
<1>15. StopDetaches'
  BY <1>1, <1>2, <1>3, Zenon DEF StopDetaches
<1>16. RetriesBounded'
  BY <1>1, <1>2, <1>3, Zenon DEF RetriesBounded
<1> QED BY <1>6, <1>7, <1>9, <1>10, <1>11, <1>12, <1>13, <1>14, <1>15, <1>16, Zenon DEF IInv

LEMMA StutterKeeps ==
  ASSUME TypeOK, IInv, UNCHANGED vars
  PROVE  IInv'
<1>1. /\ NewestAttaches /\ NothingRuns /\ LagByOne /\ StopIsQuiet
      /\ StopKnown /\ RetriesComeLater /\ StatusIsTrue /\ Supervised /\ StopDetaches /\ RetriesBounded
  BY Zenon DEF IInv
<1>2. /\ link' = link /\ recovery' = recovery /\ created' = created /\ (starting' <=> starting)
      /\ (stopping' <=> stopping) /\ stopCall' = stopCall
      /\ attachAtStop' = attachAtStop /\ transport' = transport /\ attach' = attach
  BY Zenon DEF vars
<1>3. Attaching' = Attaching
  BY <1>2, Zenon DEF Attaching
<1>4. Exhausted(recovery') <=> Exhausted(recovery)
  BY <1>2, Zenon DEF Exhausted
<1>5. NewestAttaches'
  BY <1>1, <1>2, <1>3, <1>4, Zenon DEF NewestAttaches
<1>6. NothingRuns'
  BY <1>1, <1>2, <1>3, <1>4, Zenon DEF NothingRuns
<1>8. LagByOne'
  BY <1>1, <1>2, <1>3, <1>4, Zenon DEF LagByOne
<1>9. StopIsQuiet'
  BY <1>1, <1>2, <1>3, <1>4, Zenon DEF StopIsQuiet
<1>10. StopKnown'
  BY <1>1, <1>2, <1>3, <1>4, Zenon DEF StopKnown
<1>11. RetriesComeLater'
  BY <1>1, <1>2, <1>3, <1>4, Zenon DEF RetriesComeLater
<1>12. StatusIsTrue'
  BY <1>1, <1>2, <1>3, <1>4, Zenon DEF StatusIsTrue
<1>13. Supervised'
  BY <1>1, <1>2, <1>3, <1>4, Zenon DEF Supervised
<1>14. StopDetaches'
  BY <1>1, <1>2, <1>3, <1>4, Zenon DEF StopDetaches
<1>15. RetriesBounded'
  BY <1>1, <1>2, <1>3, <1>4, Zenon DEF RetriesBounded
<1> QED BY <1>5, <1>6, <1>8, <1>9, <1>10, <1>11, <1>12, <1>13, <1>14, <1>15, Zenon DEF IInv

LEMMA IInvStep == TypeOK /\ IInv /\ [Next]_vars => IInv'
<1> SUFFICES ASSUME TypeOK, IInv, [Next]_vars PROVE IInv'
  OBVIOUS
<1>1. ASSUME NEW t \in Transports,
             \/ AttachOk(t) \/ AttachRejected(t) \/ AttachClosed(t)
             \/ LinkLoses(t) \/ LinkRegains(t) \/ LinkGivesUp(t)
      PROVE  IInv'
  <2>1. LinkLoses(t) \/ LinkRegains(t) => IInv'
    BY LinkFlapKeeps
  <2> QED BY <1>1, <2>1, AttachOkKeeps, AttachRejectedKeeps, AttachClosedKeeps,
             LinkGivesUpKeeps, Zenon
<1>2. CASE Start \/ RecoveryTimerFires \/ Stop \/ StopClosed \/ UNCHANGED vars
  BY <1>2, StartKeeps, RecoveryTimerKeeps, StopKeeps, StopClosedKeeps, StutterKeeps, Zenon
<1> QED BY <1>1, <1>2, Zenon DEF Next

LEMMA IInvInit == Init => IInv
<1> SUFFICES ASSUME Init PROVE IInv
  OBVIOUS
<1>1. /\ created = 0 /\ transport = 0 /\ ~starting /\ ~stopping /\ stopCall = "no"
      /\ recovery = [timer |-> NoTimer, attempt |-> 0, delay |-> 0, state |-> "disabled"]
  BY Zenon DEF Init
<1>2. /\ recovery.timer = NoTimer /\ recovery.attempt = 0 /\ recovery.state = "disabled"
  BY <1>1
<1>3. Attaching = {}
  BY DEF Init, Attaching
<1>4. \A t \in Transports : link[t].started = "no"
  BY DEF Init, FreshLink
<1>5. NewestAttaches /\ NothingRuns /\ StopIsQuiet /\ StopKnown
  BY <1>1, <1>2, <1>3, <1>4, Zenon DEF NewestAttaches, NothingRuns, StopIsQuiet, StopKnown
<1>6. Supervised
  BY <1>1 DEF Supervised
<1>7. LagByOne /\ StopDetaches
  BY <1>1, <1>2, Zenon DEF LagByOne, StopDetaches
<1>8. RetriesComeLater /\ StatusIsTrue /\ RetriesBounded
  BY <1>2 DEF RetriesComeLater, StatusIsTrue, RetriesBounded
<1> QED BY <1>5, <1>6, <1>7, <1>8, Zenon DEF IInv

LEMMA IInvHolds == Spec => [](TypeOK /\ IInv)
<1>1. Spec => []TypeOK
  BY TypeCorrect
<1> QED BY <1>1, IInvInit, IInvStep, PTL DEF Spec

-----------------------------------------------------------------------------
(***************************************************************************)
(* The theorems.                                                           *)
(***************************************************************************)

\* While recovery is on and nobody stopped it, the adapter never loses track of
\* AMQP, whatever the order of the timer, the callback and the callers.
THEOREM SupervisedHolds == Spec => []Supervised
<1>1. IInv => Supervised
  BY Zenon DEF IInv
<1> QED BY <1>1, IInvHolds, PTL

\* Two attaches never overlap.
THEOREM SingleAttachHolds == Spec => []SingleAttach
<1>1. IInv => SingleAttach
  BY Zenon DEF IInv, NewestAttaches, SingleAttach
<1> QED BY <1>1, IInvHolds, PTL

\* Between two successes there are no more retries than configured.
THEOREM RetriesBoundedHolds == Spec => []RetriesBounded
<1>1. IInv => RetriesBounded
  BY Zenon DEF IInv
<1> QED BY <1>1, IInvHolds, PTL

\* The delay of an armed retry is at most one back off behind.
THEOREM BackoffLagsOneHolds == Spec => []BackoffLagsOne
<1>1. IInv => BackoffLagsOne
  <2> SUFFICES ASSUME IInv, recovery.timer # NoTimer
               PROVE  recovery.delay \in {recovery.timer, Backoff(recovery.timer)}
    BY Zenon DEF BackoffLagsOne
  <2>1. recovery.delay = recovery.timer \/ recovery.delay = Backoff(recovery.timer)
    BY Zenon DEF IInv, LagByOne
  <2> QED BY <2>1, Zenon
<1> QED BY <1>1, IInvHolds, PTL

\* The recovery state that health reports agrees with the timer and the attach.
THEOREM StatusIsTrueHolds == Spec => []StatusIsTrue
<1>1. IInv => StatusIsTrue
  BY Zenon DEF IInv
<1> QED BY <1>1, IInvHolds, PTL

\* What stop() leaves attached is the transport whose attach it interrupted.
THEOREM StopDetachesHolds == Spec => []StopDetaches
<1>1. IInv => StopDetaches
  BY Zenon DEF IInv
<1> QED BY <1>1, IInvHolds, PTL

\* Once stop() was called no step creates a transport or arms a retry.
THEOREM StopIsFinalHolds == Spec => StopIsFinal
<1>1. ASSUME TypeOK, IInv, IInv', [Next]_vars, stopping
      PROVE  created' = created /\ recovery'.timer = NoTimer
  <2>1. recovery.timer = NoTimer /\ created # 0
    BY <1>1, Zenon DEF IInv, StopIsQuiet, NothingRuns
  <2>2. ~Start /\ ~RecoveryTimerFires
    BY <2>1, Zenon DEF Start, RecoveryTimerFires
  <2>3. Stop \/ StopClosed \/ UNCHANGED vars => created' = created /\ stopping'
    BY <1>1, Zenon DEF Stop, StopClosed, vars
  <2>4. ASSUME NEW t \in Transports,
               \/ AttachOk(t) \/ AttachRejected(t) \/ AttachClosed(t)
               \/ LinkLoses(t) \/ LinkRegains(t) \/ LinkGivesUp(t)
        PROVE  created' = created /\ stopping'
    BY <1>1, <2>4, Zenon DEF AttachOk, AttachRejected, AttachClosed,
       LinkLoses, LinkRegains, LinkGivesUp
  <2>5. created' = created /\ stopping'
    BY <1>1, <2>2, <2>3, <2>4, Zenon DEF Next
  <2> QED BY <1>1, <2>5, Zenon DEF IInv, StopIsQuiet
<1>2. TypeOK /\ IInv /\ (TypeOK /\ IInv)' /\ [Next]_vars
        => [stopping => created' = created /\ recovery'.timer = NoTimer]_vars
  BY <1>1, Zenon
<1> QED BY <1>2, IInvHolds, PTL DEF Spec, StopIsFinal


\* How far each transport has come, and what the adapter did to it.
LinkPhase(t) ==
  \/ /\ attach[t] = "no" /\ t > created /\ link[t] = FreshLink
  \/ /\ attach[t] = "connecting" /\ t <= created
     /\ link[t].started = "pending" /\ ~link[t].closing
  \/ /\ attach[t] = "closing" /\ t <= created
     /\ link[t].started = "rejected" /\ link[t].closing
  \/ /\ attach[t] = "done" /\ t <= created
     /\ link[t].started = "rejected" /\ link[t].closing /\ link[t].notified
  \/ /\ attach[t] = "done" /\ t <= created
     /\ link[t].started = "resolved" /\ (t = transport \/ link[t].notified)

LinkPhases == \A t \in Transports : LinkPhase(t)

\* A transport is held only after its attach and before any other, and it has not
\* reported its end; it is being closed only by stop().
Held ==
  transport # 0 =>
    /\ ~starting /\ recovery.timer = NoTimer
    /\ attach[transport] = "done" /\ link[transport].started = "resolved"
    /\ ~link[transport].notified
    /\ link[transport].closing <=> stopCall = "closing"

\* stop() waits for the transport it found, and nothing is attached after it.
StopHolds ==
  /\ stopCall = "no" => stopOn = 0
  /\ stopCall = "closing" => stopOn # 0 /\ transport = stopOn
  /\ stopCall = "done" /\ stopOn # 0 => transport = 0 /\ ~starting

HInv == LinkPhases /\ Held /\ StopHolds

-----------------------------------------------------------------------------
(***************************************************************************)
(* What a step of one transport leaves of the others.                      *)
(***************************************************************************)

\* A step that is about t alone.
OnlyMoves(t) ==
  \A u \in Transports : u # t => link'[u] = link[u] /\ attach'[u] = attach[u]

ContractStep == \A t \in Transports : [Contract(t)!Next \/ RejectAndClose(t)]_(link[t])
AdapterStep  == [AsSeen!Next]_(AsSeen!vars)
Kept         == HInv' /\ ContractStep /\ AdapterStep

LEMMA OthersKeepContract ==
  ASSUME NEW t \in Transports, OnlyMoves(t),
         [Contract(t)!Next \/ RejectAndClose(t)]_(link[t])
  PROVE  ContractStep
<1> SUFFICES ASSUME NEW u \in Transports
             PROVE  [Contract(u)!Next \/ RejectAndClose(u)]_(link[u])
  BY Zenon DEF ContractStep
<1>1. CASE u = t
  BY <1>1, Zenon
<1>2. CASE u # t
  BY <1>2, Zenon DEF OnlyMoves
<1> QED BY <1>1, <1>2

\* Nobody takes another transport's place unless that one is gone.
LEMMA OthersKeepPhase ==
  ASSUME NEW t \in Transports, OnlyMoves(t), LinkPhases, LinkPhase(t)',
         created' = created \/ (created' = created + 1 /\ t = created'),
         created \in Nat,
         \A u \in Transports : u # t /\ u = transport => u = transport' \/ link[u].notified
  PROVE  LinkPhases'
<1> SUFFICES ASSUME NEW u \in Transports PROVE LinkPhase(u)'
  BY Zenon DEF LinkPhases
<1>1. CASE u = t
  BY <1>1, Zenon
<1>2. CASE u # t
  <2>0. u \in Nat
    BY DEF Transports
  <2>1. link'[u] = link[u] /\ attach'[u] = attach[u] /\ LinkPhase(u)
    BY <1>2, Zenon DEF OnlyMoves, LinkPhases
  <2>2. (u > created => u > created') /\ (u <= created => u <= created')
    BY <1>2, <2>0 DEF Transports
  <2>3. u = transport => u = transport' \/ link[u].notified
    BY <1>2
  <2> QED BY <2>1, <2>2, <2>3, Zenon DEF LinkPhase
<1> QED BY <1>1, <1>2

\* The fields, as facts each prover can use.
LEMMA Fields ==
  ASSUME TypeOK
  PROVE  /\ link \in [Transports -> LinkState]
         /\ attach \in [Transports -> {"no", "connecting", "closing", "done"}]
         /\ created \in Nat /\ recovery \in RecoveryState
         /\ transport \in Nat /\ (transport # 0 => transport \in Transports)
         /\ stopOn \in Nat /\ (stopOn # 0 => stopOn \in Transports)
<1>1. /\ link \in [Transports -> LinkState]
      /\ attach \in [Transports -> {"no", "connecting", "closing", "done"}]
      /\ recovery \in RecoveryState
      /\ created \in 0 .. MaxTransports /\ transport \in 0 .. MaxTransports
      /\ stopOn \in 0 .. MaxTransports
  BY Zenon DEF TypeOK
<1> QED BY <1>1, BoundsAssumption DEF Transports

LEMMA ClosedTwice ==
  ASSUME NEW l \in LinkState, l.notified
  PROVE  CloseFinished(l) = l
  BY DEF LinkState, CloseFinished

-----------------------------------------------------------------------------
(***************************************************************************)
(* The steps, one lemma each.                                              *)
(***************************************************************************)

\* A transport is created and started: by start() or by a retry.
LEMMA BeginKeeps ==
  ASSUME TypeOK, HInv, BeginAttach, transport = 0, ~starting, stopCall = "no",
         transport' = transport, stopOn' = stopOn, stopCall' = stopCall,
         stopping' = stopping, ~stopping, Adapter \in {"off", "waiting"}
  PROVE  Kept
<1>0. created < MaxTransports /\ created \in Nat
  BY Fields DEF BeginAttach
<1> PICK t \in Transports : t = created + 1
  BY <1>0, BoundsAssumption DEF Transports
<1>1. /\ created' = created + 1 /\ starting'
      /\ attach' = [attach EXCEPT ![t] = "connecting"]
      /\ link' = [link EXCEPT ![t] = StartCalled(@)]
  BY Zenon DEF BeginAttach
<1>2. /\ link \in [Transports -> LinkState] /\ created \in Nat
      /\ attach \in [Transports -> {"no", "connecting", "closing", "done"}]
  BY Fields
<1>3. t > created
  BY <1>2 DEF Transports
<1>4. OnlyMoves(t) /\ attach'[t] = "connecting" /\ link'[t] = StartCalled(link[t])
  BY <1>1, <1>2, <1>3 DEF OnlyMoves
<1>5. link[t] = FreshLink
  <2>1. LinkPhase(t)
    BY <1>3, Zenon DEF HInv, LinkPhases
  <2>2. ~(t <= created)
    BY <1>2, <1>3 DEF Transports
  <2> QED BY <2>1, <2>2, Zenon DEF LinkPhase
<1>6. link'[t].started = "pending" /\ ~link'[t].closing /\ CanStart(link[t])
  BY <1>4, <1>5 DEF FreshLink, StartCalled, CanStart
<1>7. LinkPhase(t)'
  <2>1. t <= created'
    BY <1>1, <1>2
  <2> QED BY <1>4, <1>6, <2>1, Zenon DEF LinkPhase
<1>8. LinkPhases'
  <2>1. created' = created + 1 /\ t = created' /\ transport' = transport
    BY <1>1
  <2>2. LinkPhases
    BY Zenon DEF HInv
  <2> QED BY <1>2, <1>3, <1>4, <1>7, <2>1, <2>2, OthersKeepPhase, Zenon
<1>9. Held'
  BY Zenon DEF Held
<1>10. StopHolds'
  BY Zenon DEF HInv, StopHolds
<1>11. ContractStep
  <2>1. Contract(t)!Start
    BY <1>4, <1>6, Zenon DEF Contract!Start, Contract!CanStart, Contract!StartCalled,
       CanStart, StartCalled
  <2>2. [Contract(t)!Next \/ RejectAndClose(t)]_(link[t])
    BY <2>1, Zenon DEF Contract!Next
  <2> QED BY <1>3, <1>4, <2>2, OthersKeepContract
<1>12. AdapterStep
  <2>1. Adapter' = "attaching"
    BY <1>1, Zenon DEF Adapter
  <2>2. AsSeen!Attach
    BY <2>1, Zenon DEF AsSeen!Attach
  <2> QED BY <2>2, Zenon DEF AdapterStep, AsSeen!Next
<1> QED BY <1>8, <1>9, <1>10, <1>11, <1>12, Zenon DEF Kept, HInv

LEMMA StartContract == ASSUME TypeOK, IInv, HInv, Start PROVE Kept
<1>1. /\ created = 0 /\ ~stopping' /\ BeginAttach
      /\ transport' = transport /\ stopOn' = stopOn /\ stopCall' = stopCall
  BY Zenon DEF Start
<1>2. ~stopping /\ stopCall = "no"
  BY <1>1, Zenon DEF IInv, NothingRuns, StopKnown
<1>3. \A t \in Transports : attach[t] = "no"
  <2>1. \A t \in Transports : ~(t <= created)
    BY <1>1 DEF Transports
  <2> QED BY <2>1, Zenon DEF HInv, LinkPhases, LinkPhase
<1>4. transport = 0
  <2>1. transport # 0 => transport \in Transports
    BY Fields
  <2>2. transport # 0 => attach[transport] = "done"
    BY Zenon DEF HInv, Held
  <2> QED BY <1>3, <2>1, <2>2
<1>5. ~starting
  <2>1. Attaching = {}
    BY <1>3 DEF Attaching
  <2> QED BY <2>1, Zenon DEF IInv, NewestAttaches
<1>6. Adapter = "off"
  BY <1>1, <1>2, <1>4, <1>5 DEF Adapter
<1>7. stopping' = stopping
  <2>1. stopping \in BOOLEAN /\ stopping' \in BOOLEAN
    <3>1. stopping \in BOOLEAN
      BY Zenon DEF TypeOK
    <3>2. stopping' = FALSE
      BY Zenon DEF Start
    <3> QED BY <3>1, <3>2, Zenon
  <2> QED BY <1>1, <1>2, <2>1
<1>8. Adapter \in {"off", "waiting"}
  BY <1>6
<1> QED BY <1>1, <1>2, <1>4, <1>5, <1>7, <1>8, BeginKeeps, Zenon

\* A step that no transport and nobody outside can tell.
LEMMA QuietKeeps ==
  ASSUME HInv, UNCHANGED <<link, created, attach, starting, transport, stopOn, stopCall, stopping>>,
         transport # 0 => recovery'.timer = NoTimer
  PROVE  Kept
<1>1. /\ link' = link /\ created' = created /\ attach' = attach /\ (starting' <=> starting)
      /\ transport' = transport /\ stopOn' = stopOn /\ stopCall' = stopCall
      /\ stopping' = stopping
  BY Zenon
<1>2. LinkPhases'
  <2>1. LinkPhases
    BY Zenon DEF HInv
  <2> QED BY <1>1, <2>1, Zenon DEF LinkPhases, LinkPhase
<1>3. Held'
  <2>1. Held
    BY Zenon DEF HInv
  <2> QED BY <1>1, <2>1, Zenon DEF Held
<1>4. StopHolds'
  BY <1>1, Zenon DEF HInv, StopHolds
<1>5. ContractStep
  BY <1>1, Zenon DEF ContractStep
<1>6. AdapterStep
  <2>1. Adapter' = Adapter
    BY <1>1, Zenon DEF Adapter
  <2> QED BY <1>1, <2>1, Zenon DEF AdapterStep, AsSeen!vars
<1> QED BY <1>2, <1>3, <1>4, <1>5, <1>6, Zenon DEF Kept, HInv

LEMMA TimerContract == ASSUME TypeOK, IInv, HInv, RecoveryTimerFires PROVE Kept
<1>1. recovery.timer # NoTimer /\ ~stopping /\ created # 0
  BY Zenon DEF RecoveryTimerFires, IInv, StopIsQuiet, NothingRuns
<1>2. transport = 0 /\ stopCall = "no" /\ stopOn = 0
  BY <1>1, Zenon DEF HInv, Held, IInv, StopKnown, StopHolds
<1>3. /\ transport' = transport /\ stopOn' = stopOn /\ stopCall' = stopCall
      /\ stopping' = stopping
      /\ UNCHANGED <<link, created, attach, starting>> \/ (BeginAttach /\ ~Busy)
  BY Zenon DEF RecoveryTimerFires
<1>4. CASE UNCHANGED <<link, created, attach, starting>>
  BY <1>2, <1>3, <1>4, QuietKeeps, Zenon
<1>5. CASE BeginAttach /\ ~Busy
  <2>1. ~starting
    BY <1>5, Zenon DEF Busy
  <2>2. Adapter = "waiting"
    BY <1>1, <1>2, <2>1 DEF Adapter
  <2>3. Adapter \in {"off", "waiting"}
    BY <2>2
  <2> QED BY <1>1, <1>2, <1>3, <1>5, <2>1, <2>3, BeginKeeps, Zenon
<1> QED BY <1>3, <1>4, <1>5

\* What holds while transport t is being attached.
LEMMA WhileAttaching ==
  ASSUME TypeOK, IInv, HInv, NEW t \in Attaching
  PROVE  /\ t \in Transports /\ t <= created /\ starting /\ transport = 0
         /\ stopCall # "closing" /\ (stopCall = "done" => stopOn = 0)
         /\ Adapter = "attaching"
<1>1. t \in Transports /\ attach[t] \in {"connecting", "closing"}
  BY Zenon DEF Attaching
<1>2. starting
  BY Zenon DEF IInv, NewestAttaches
<1>3. transport = 0
  BY <1>2, Zenon DEF HInv, Held
<1>4. stopCall # "closing" /\ (stopCall = "done" => stopOn = 0)
  BY <1>2, <1>3, Zenon DEF HInv, StopHolds
<1>5. Adapter = "attaching"
  BY <1>2, <1>4, Zenon DEF Adapter
<1>6. t <= created
  BY <1>1, Zenon DEF HInv, LinkPhases, LinkPhase
<1> QED BY <1>1, <1>2, <1>3, <1>4, <1>5, <1>6

LEMMA AttachOkContract ==
  ASSUME TypeOK, IInv, HInv, NEW t \in Transports, AttachOk(t)
  PROVE  Kept
<1>1. /\ attach[t] = "connecting" /\ CanResolve(link[t])
      /\ link' = [link EXCEPT ![t] = StartResolved(@)]
      /\ attach' = [attach EXCEPT ![t] = "done"]
      /\ transport' = t /\ recovery' = Reset /\ ~starting' /\ created' = created
      /\ stopOn' = stopOn /\ stopCall' = stopCall /\ stopping' = stopping
  BY Zenon DEF AttachOk
<1>2. t \in Attaching
  BY <1>1 DEF Attaching
<1>3. /\ t <= created /\ transport = 0 /\ stopCall # "closing"
      /\ (stopCall = "done" => stopOn = 0) /\ Adapter = "attaching"
  BY <1>2, WhileAttaching
<1>4. /\ link \in [Transports -> LinkState] /\ created \in Nat
      /\ attach \in [Transports -> {"no", "connecting", "closing", "done"}]
  BY Fields
<1>5. OnlyMoves(t) /\ attach'[t] = "done" /\ link'[t] = StartResolved(link[t])
  BY <1>1, <1>4 DEF OnlyMoves
<1>6. link[t].started = "pending" /\ ~link[t].closing /\ ~link[t].notified
  <2>1. LinkPhase(t)
    BY Zenon DEF HInv, LinkPhases
  <2> QED BY <1>1, <2>1 DEF LinkPhase, CanResolve
<1>7. /\ link'[t].started = "resolved" /\ ~link'[t].closing /\ ~link'[t].notified
      /\ link'[t].up
  <2>1. link[t] \in LinkState
    BY <1>4
  <2> QED BY <1>5, <1>6, <2>1 DEF LinkState, StartResolved
<1>8. LinkPhase(t)'
  BY <1>1, <1>3, <1>5, <1>7, Zenon DEF LinkPhase
<1>9. LinkPhases'
  <2>1. \A u \in Transports : u # t /\ u = transport => u = transport' \/ link[u].notified
    BY <1>3 DEF Transports
  <2>2. LinkPhases
    BY Zenon DEF HInv
  <2> QED BY <1>1, <1>4, <1>5, <1>8, <2>1, <2>2, OthersKeepPhase, Zenon
<1>10. Held'
  <2>1. recovery'.timer = NoTimer
    BY <1>1 DEF Reset
  <2> QED BY <1>1, <1>3, <1>5, <1>7, <2>1, Zenon DEF Held
<1>11. StopHolds'
  BY <1>1, <1>3, Zenon DEF HInv, StopHolds
<1>12. ContractStep
  <2>1. Contract(t)!Resolve
    BY <1>1, <1>5, Zenon DEF Contract!Resolve, Contract!CanResolve, Contract!StartResolved,
       CanResolve, StartResolved
  <2>2. [Contract(t)!Next \/ RejectAndClose(t)]_(link[t])
    BY <2>1, Zenon DEF Contract!Next
  <2> QED BY <1>5, <2>2, OthersKeepContract
<1>13. AdapterStep
  <2>1. t # 0
    BY DEF Transports
  <2>2. Adapter' = "attached"
    BY <1>1, <1>3, <1>7, <2>1, Zenon DEF Adapter
  <2>3. AsSeen!Attached
    BY <1>1, <1>3, <2>2, Zenon DEF AsSeen!Attached
  <2> QED BY <2>3, Zenon DEF AdapterStep, AsSeen!Next
<1> QED BY <1>9, <1>10, <1>11, <1>12, <1>13, Zenon DEF Kept, HInv

LEMMA AttachRejectedContract ==
  ASSUME TypeOK, IInv, HInv, NEW t \in Transports, AttachRejected(t)
  PROVE  Kept
<1>1. /\ attach[t] = "connecting" /\ CanReject(link[t])
      /\ link' = [link EXCEPT ![t] = CloseCalled(StartRejected(@))]
      /\ attach' = [attach EXCEPT ![t] = "closing"]
      /\ transport' = 0 /\ (starting' <=> starting) /\ created' = created
      /\ stopOn' = stopOn /\ stopCall' = stopCall /\ stopping' = stopping
  BY Zenon DEF AttachRejected
<1>2. t \in Attaching
  BY <1>1 DEF Attaching
<1>3. /\ t <= created /\ transport = 0 /\ stopCall # "closing" /\ starting
      /\ (stopCall = "done" => stopOn = 0) /\ Adapter = "attaching"
  BY <1>2, WhileAttaching
<1>4. /\ link \in [Transports -> LinkState] /\ created \in Nat
      /\ attach \in [Transports -> {"no", "connecting", "closing", "done"}]
  BY Fields
<1>5. /\ OnlyMoves(t) /\ attach'[t] = "closing"
      /\ link'[t] = CloseCalled(StartRejected(link[t]))
  BY <1>1, <1>4 DEF OnlyMoves
<1>6. ~link[t].closing
  <2>1. LinkPhase(t)
    BY Zenon DEF HInv, LinkPhases
  <2> QED BY <1>1, <2>1 DEF LinkPhase
<1>7. link'[t].started = "rejected" /\ link'[t].closing
  <2>1. link[t] \in LinkState
    BY <1>4
  <2> QED BY <1>5, <2>1 DEF LinkState, StartRejected, CloseCalled
<1>8. LinkPhase(t)'
  BY <1>1, <1>3, <1>5, <1>7, Zenon DEF LinkPhase
<1>9. LinkPhases'
  <2>1. \A u \in Transports : u # t /\ u = transport => u = transport' \/ link[u].notified
    BY <1>3 DEF Transports
  <2>2. LinkPhases
    BY Zenon DEF HInv
  <2> QED BY <1>1, <1>4, <1>5, <1>8, <2>1, <2>2, OthersKeepPhase, Zenon
<1>10. Held'
  BY <1>1, Zenon DEF Held
<1>11. StopHolds'
  BY <1>1, <1>3, Zenon DEF HInv, StopHolds
<1>12. ContractStep
  <2>1. StartRejected(link[t]).started = "rejected" /\ ~StartRejected(link[t]).closing
    BY <1>4, <1>6 DEF StartRejected, LinkState
  <2>2. RejectAndClose(t)
    BY <1>1, <1>5, <2>1 DEF RejectAndClose, CanClose
  <2> QED BY <1>5, <2>2, OthersKeepContract
<1>13. AdapterStep
  <2>1. Adapter' = "attaching"
    BY <1>1, <1>3, Zenon DEF Adapter
  <2> QED BY <1>1, <1>3, <2>1, Zenon DEF AdapterStep, AsSeen!vars
<1> QED BY <1>9, <1>10, <1>11, <1>12, <1>13, Zenon DEF Kept, HInv

LEMMA AttachClosedContract ==
  ASSUME TypeOK, IInv, HInv, NEW t \in Transports, AttachClosed(t)
  PROVE  Kept
<1>1. /\ attach[t] = "closing"
      /\ link' = [link EXCEPT ![t] = CloseFinished(@)]
      /\ attach' = [attach EXCEPT ![t] = "done"]
      /\ transport' = transport /\ ~starting' /\ created' = created
      /\ stopOn' = stopOn /\ stopCall' = stopCall /\ stopping' = stopping
  BY Zenon DEF AttachClosed
<1>2. t \in Attaching
  BY <1>1 DEF Attaching
<1>3. /\ t <= created /\ transport = 0 /\ stopCall # "closing"
      /\ (stopCall = "done" => stopOn = 0) /\ Adapter = "attaching"
  BY <1>2, WhileAttaching
<1>4. /\ link \in [Transports -> LinkState] /\ created \in Nat
      /\ attach \in [Transports -> {"no", "connecting", "closing", "done"}]
  BY Fields
<1>5. OnlyMoves(t) /\ attach'[t] = "done" /\ link'[t] = CloseFinished(link[t])
  BY <1>1, <1>4 DEF OnlyMoves
<1>6. link[t].started = "rejected" /\ link[t].closing
  <2>1. LinkPhase(t)
    BY Zenon DEF HInv, LinkPhases
  <2> QED BY <1>1, <2>1 DEF LinkPhase
<1>7. link'[t].started = "rejected" /\ link'[t].closing /\ link'[t].notified
  <2>1. link[t] \in LinkState
    BY <1>4
  <2> QED BY <1>5, <1>6, <2>1 DEF LinkState, CloseFinished
<1>8. LinkPhase(t)'
  BY <1>1, <1>3, <1>5, <1>7, Zenon DEF LinkPhase
<1>9. LinkPhases'
  <2>1. \A u \in Transports : u # t /\ u = transport => u = transport' \/ link[u].notified
    BY <1>3 DEF Transports
  <2>2. LinkPhases
    BY Zenon DEF HInv
  <2> QED BY <1>1, <1>4, <1>5, <1>8, <2>1, <2>2, OthersKeepPhase, Zenon
<1>10. Held'
  BY <1>1, <1>3, Zenon DEF Held
<1>11. StopHolds'
  BY <1>1, <1>3, Zenon DEF HInv, StopHolds
<1>12. ContractStep
  <2>1. [Contract(t)!Next \/ RejectAndClose(t)]_(link[t])
    <3>1. CASE link[t].notified
      <4>1. link'[t] = link[t]
        BY <1>4, <1>5, <3>1, ClosedTwice
      <4> QED BY <4>1, Zenon
    <3>2. CASE ~link[t].notified
      <4>1. Contract(t)!FinishClose
        BY <1>5, <1>6, <3>2, Zenon DEF Contract!FinishClose, Contract!CanFinishClose,
           Contract!CloseFinished, CloseFinished
      <4> QED BY <4>1, Zenon DEF Contract!Next
    <3> QED BY <3>1, <3>2
  <2> QED BY <1>5, <2>1, OthersKeepContract
<1>13. AdapterStep
  <2>1. created' # 0
    BY <1>1, <1>3, <1>4 DEF Transports
  <2>2. stopOn' = 0
    <3>1. stopCall = "no" => stopOn = 0
      BY Zenon DEF HInv, StopHolds
    <3>2. stopCall \in {"no", "closing", "done"}
      BY Zenon DEF TypeOK
    <3> QED BY <1>1, <1>3, <3>1, <3>2
  <2>3. Adapter' = "waiting"
    BY <1>1, <1>3, <2>1, <2>2, Zenon DEF Adapter
  <2>4. AsSeen!AttachFails
    BY <1>1, <1>3, <2>3, Zenon DEF AsSeen!AttachFails
  <2> QED BY <2>4, Zenon DEF AdapterStep, AsSeen!Next
<1> QED BY <1>9, <1>10, <1>11, <1>12, <1>13, Zenon DEF Kept, HInv

\* The connection of transport t comes or goes.
LEMMA FlapContract ==
  ASSUME TypeOK, IInv, HInv, NEW t \in Transports, LinkLoses(t) \/ LinkRegains(t)
  PROVE  Kept
<1>1. /\ attach' = attach /\ transport' = transport /\ (starting' <=> starting)
      /\ created' = created /\ recovery' = recovery
      /\ stopOn' = stopOn /\ stopCall' = stopCall /\ stopping' = stopping
      /\ \/ CanLose(link[t]) /\ link' = [link EXCEPT ![t] = LinkLost(@)]
         \/ CanRegain(link[t]) /\ link' = [link EXCEPT ![t] = LinkRegained(@)]
  <2>1. CASE LinkLoses(t)
    BY <2>1, Zenon DEF LinkLoses
  <2>2. CASE LinkRegains(t)
    BY <2>2, Zenon DEF LinkRegains
  <2> QED BY <2>1, <2>2
<1>2. link \in [Transports -> LinkState] /\ created \in Nat /\ (transport # 0 => transport \in Transports)
  BY Fields
<1>3. /\ OnlyMoves(t)
      /\ \/ CanLose(link[t]) /\ link'[t] = LinkLost(link[t])
         \/ CanRegain(link[t]) /\ link'[t] = LinkRegained(link[t])
  BY <1>1, <1>2 DEF OnlyMoves
<1>4. /\ link'[t].started = link[t].started /\ link'[t].closing = link[t].closing
      /\ link'[t].notified = link[t].notified
  <2>1. link[t] \in LinkState
    BY <1>2
  <2> QED BY <1>3, <2>1 DEF LinkState, LinkLost, LinkRegained
<1>5. LinkPhase(t) /\ attach[t] # "no"
  <2>1. LinkPhase(t)
    BY Zenon DEF HInv, LinkPhases
  <2>2. link[t] # FreshLink
    BY <1>3 DEF FreshLink, CanLose, CanRegain
  <2> QED BY <2>1, <2>2 DEF LinkPhase
<1>6. LinkPhase(t)'
  BY <1>1, <1>4, <1>5, Zenon DEF LinkPhase
<1>7. LinkPhases'
  <2>1. \A u \in Transports : u # t /\ u = transport => u = transport' \/ link[u].notified
    BY <1>1
  <2>2. LinkPhases
    BY Zenon DEF HInv
  <2> QED BY <1>1, <1>2, <1>3, <1>6, <2>1, <2>2, OthersKeepPhase, Zenon
<1>8. \A u \in Transports : /\ link'[u].started = link[u].started
                            /\ link'[u].closing = link[u].closing
                            /\ link'[u].notified = link[u].notified
  BY <1>3, <1>4, Zenon DEF OnlyMoves
<1>9. Held'
  <2>1. Held
    BY Zenon DEF HInv
  <2> QED BY <1>1, <1>2, <1>8, <2>1, Zenon DEF Held
<1>10. StopHolds'
  BY <1>1, Zenon DEF HInv, StopHolds
<1>11. ContractStep
  <2>1. Contract(t)!Lose \/ Contract(t)!Regain
    BY <1>3, Zenon DEF Contract!Lose, Contract!Regain, Contract!CanLose, Contract!CanRegain,
       Contract!LinkLost, Contract!LinkRegained, CanLose, CanRegain, LinkLost, LinkRegained
  <2>2. [Contract(t)!Next \/ RejectAndClose(t)]_(link[t])
    BY <2>1, Zenon DEF Contract!Next
  <2> QED BY <1>3, <2>2, OthersKeepContract
<1>12. AdapterStep
  <2> DEFINE seen == stopCall # "closing" /\ ~starting /\ transport = t
  <2>1. CASE ~seen
    <3>1. transport # t /\ transport # 0 => link'[transport].up = link[transport].up
      BY <1>2, <1>3, Zenon DEF OnlyMoves
    <3>2. Adapter' = Adapter
      BY <1>1, <2>1, <3>1, Zenon DEF Adapter
    <3> QED BY <1>1, <3>2, Zenon DEF AdapterStep, AsSeen!vars
  <2>2. CASE seen
    <3>0. t # 0
      BY DEF Transports
    <3>1. CASE CanLose(link[t]) /\ link'[t] = LinkLost(link[t])
      <4>1. link[t].up /\ ~link'[t].up
        <5>1. link[t] \in LinkState
          BY <1>2
        <5> QED BY <3>1, <5>1 DEF LinkState, LinkLost, LinkRegained, CanLose
      <4>2. Adapter = "attached" /\ Adapter' = "down"
        BY <1>1, <2>2, <3>0, <4>1, Zenon DEF Adapter
      <4>3. AsSeen!Lose
        BY <1>1, <4>2, Zenon DEF AsSeen!Lose
      <4> QED BY <4>3, Zenon DEF AdapterStep, AsSeen!Next
    <3>2. CASE CanRegain(link[t]) /\ link'[t] = LinkRegained(link[t])
      <4>1. ~link[t].up /\ link'[t].up
        <5>1. link[t] \in LinkState
          BY <1>2
        <5> QED BY <3>2, <5>1 DEF LinkState, LinkLost, LinkRegained, CanRegain
      <4>2. Adapter = "down" /\ Adapter' = "attached"
        BY <1>1, <2>2, <3>0, <4>1, Zenon DEF Adapter
      <4>3. AsSeen!Regain
        BY <1>1, <4>2, Zenon DEF AsSeen!Regain
      <4> QED BY <4>3, Zenon DEF AdapterStep, AsSeen!Next
    <3> QED BY <1>3, <3>1, <3>2
  <2> QED BY <2>1, <2>2
<1> QED BY <1>7, <1>9, <1>10, <1>11, <1>12, Zenon DEF Kept, HInv

\* Transport t gives up: it is the one the adapter holds, or being attached.
LEMMA GiveUpContract ==
  ASSUME TypeOK, IInv, HInv, NEW t \in Transports, LinkGivesUp(t)
  PROVE  Kept
<1>1. /\ CanGiveUp(link[t]) /\ link' = [link EXCEPT ![t] = GaveUp(@)]
      /\ transport' = IF transport = t THEN 0 ELSE transport
      /\ attach' = attach /\ (starting' <=> starting) /\ created' = created
      /\ recovery' = Reported(recovery)
      /\ stopOn' = stopOn /\ stopCall' = stopCall /\ stopping' = stopping
  BY Zenon DEF LinkGivesUp
<1>2. /\ link \in [Transports -> LinkState] /\ created \in Nat
      /\ transport \in Nat /\ (transport # 0 => transport \in Transports)
  BY Fields
<1>3. OnlyMoves(t) /\ link'[t] = GaveUp(link[t])
  BY <1>1, <1>2 DEF OnlyMoves
<1>4. /\ link'[t].started = link[t].started /\ link'[t].closing = link[t].closing
      /\ link'[t].notified
  <2>1. link[t] \in LinkState
    BY <1>2
  <2> QED BY <1>3, <2>1 DEF LinkState, GaveUp
<1>5. LinkPhase(t) /\ attach[t] # "no"
  <2>1. LinkPhase(t)
    BY Zenon DEF HInv, LinkPhases
  <2>2. link[t] # FreshLink
    BY <1>1 DEF FreshLink, CanGiveUp
  <2> QED BY <2>1, <2>2 DEF LinkPhase
<1>6. LinkPhase(t)'
  BY <1>1, <1>4, <1>5, Zenon DEF LinkPhase
<1>7. LinkPhases'
  <2>1. \A u \in Transports : u # t /\ u = transport => u = transport' \/ link[u].notified
    BY <1>1
  <2>2. LinkPhases
    BY Zenon DEF HInv
  <2> QED BY <1>1, <1>2, <1>3, <1>6, <2>1, <2>2, OthersKeepPhase, Zenon
<1>8. transport = t \/ (t \in Attaching /\ transport = 0 /\ starting)
  <2>1. attach[t] = "connecting" \/ transport = t
    BY <1>1, <1>5 DEF CanGiveUp, LinkPhase
  <2>2. attach[t] = "connecting" => t \in Attaching
    BY DEF Attaching
  <2> QED BY <2>1, <2>2, WhileAttaching
<1>9. transport' = 0 /\ t # 0
  BY <1>1, <1>8 DEF Transports
<1>10. Held'
  BY <1>9, Zenon DEF Held
<1>11. stopCall # "closing" /\ (stopCall = "done" => stopOn = 0)
  <2>1. CASE transport = t
    <3>1. stopCall # "closing"
      BY <1>1, <1>9, <2>1 DEF HInv, Held, CanGiveUp
    <3>2. stopCall = "done" => stopOn = 0
      BY <1>9, <2>1, Zenon DEF HInv, StopHolds
    <3> QED BY <3>1, <3>2
  <2>2. CASE t \in Attaching
    BY <2>2, WhileAttaching
  <2> QED BY <1>8, <2>1, <2>2
<1>12. StopHolds'
  BY <1>1, <1>11, Zenon DEF HInv, StopHolds
<1>13. ContractStep
  <2>1. Contract(t)!GiveUp
    BY <1>1, <1>3, Zenon DEF Contract!GiveUp, Contract!CanGiveUp, Contract!GaveUp,
       CanGiveUp, GaveUp
  <2>2. [Contract(t)!Next \/ RejectAndClose(t)]_(link[t])
    BY <2>1, Zenon DEF Contract!Next
  <2> QED BY <1>3, <2>2, OthersKeepContract
<1>14. AdapterStep
  <2>1. CASE transport = t
    <3>1. ~starting /\ t <= created
      BY <1>5, <1>9, <2>1 DEF HInv, Held, LinkPhase
    <3>2. created' # 0 /\ stopOn' = 0
      <4>1. stopCall \in {"no", "closing", "done"}
        BY Zenon DEF TypeOK
      <4>2. stopCall = "no" => stopOn = 0
        BY Zenon DEF HInv, StopHolds
      <4> QED BY <1>1, <1>2, <1>11, <3>1, <4>1, <4>2 DEF Transports
    <3>3. Adapter \in {"attached", "down"} /\ Adapter' = "waiting"
      BY <1>1, <1>9, <1>11, <2>1, <3>1, <3>2 DEF Adapter
    <3>4. AsSeen!GiveUp
      BY <1>1, <3>3, Zenon DEF AsSeen!GiveUp
    <3> QED BY <3>4, Zenon DEF AdapterStep, AsSeen!Next
  <2>2. CASE t \in Attaching /\ transport = 0 /\ starting
    <3>1. Adapter = "attaching"
      BY <2>2, WhileAttaching
    <3>2. Adapter' = "attaching"
      BY <1>1, <1>11, <2>2, Zenon DEF Adapter
    <3> QED BY <1>1, <3>1, <3>2, Zenon DEF AdapterStep, AsSeen!vars
  <2> QED BY <1>8, <2>1, <2>2
<1> QED BY <1>7, <1>10, <1>12, <1>13, <1>14, Zenon DEF Kept, HInv

LEMMA StopContract == ASSUME TypeOK, IInv, HInv, Stop PROVE Kept
<1>1. /\ attach' = attach /\ transport' = transport /\ (starting' <=> starting)
      /\ created' = created /\ created > 0 /\ stopOn' = transport /\ stopCall = "no"
      /\ \/ transport = 0 /\ stopCall' = "done" /\ link' = link
         \/ /\ transport # 0 /\ stopCall' = "closing"
            /\ link' = [link EXCEPT ![transport] = CloseCalled(@)]
  BY Zenon DEF Stop
<1>2. stopping = FALSE /\ stopping' = TRUE
  <2>1. stopping \in BOOLEAN
    BY Zenon DEF TypeOK
  <2>2. ~stopping
    BY <1>1, Zenon DEF IInv, StopKnown
  <2>3. stopping = FALSE
    BY <2>1, <2>2, Zenon
  <2>4. stopping' = TRUE
    BY Zenon DEF Stop
  <2> QED BY <2>3, <2>4, Zenon
<1>3. /\ link \in [Transports -> LinkState] /\ created \in Nat /\ created # 0
      /\ (transport # 0 => transport \in Transports)
  BY <1>1, Fields
<1>4. recovery'.timer = NoTimer
  <2>1. recovery \in RecoveryState
    BY Fields
  <2>2. \E s : recovery' = [recovery EXCEPT !.timer = NoTimer, !.state = s]
    BY Zenon DEF Stop
  <2> QED BY <2>1, <2>2 DEF RecoveryState
<1>5. CASE transport = 0
  <2>1. stopCall' = "done" /\ link' = link /\ stopOn' = 0
    BY <1>1, <1>5, Zenon
  <2>2. LinkPhases'
    BY <1>1, <2>1, Zenon DEF HInv, LinkPhases, LinkPhase
  <2>3. Held'
    BY <1>1, <1>5, Zenon DEF Held
  <2>4. StopHolds'
    BY <2>1 DEF StopHolds
  <2>5. ContractStep
    BY <2>1, Zenon DEF ContractStep
  <2>6. AdapterStep
    <3>1. stopOn = 0
      BY <1>1, Zenon DEF HInv, StopHolds
    <3>2. /\ Adapter = IF starting THEN "attaching" ELSE "waiting"
          /\ Adapter' = IF starting THEN "attaching" ELSE "waiting"
      BY <1>1, <1>3, <1>5, <2>1, <3>1 DEF Adapter
    <3>3. Adapter \in {"attaching", "waiting"} /\ Adapter' = Adapter
      BY <3>2
    <3>4. Adapter # "off" /\ Adapter \notin {"attached", "down"}
      BY <3>3
    <3>5. AsSeen!Stop
      BY <1>2, <3>3, <3>4, Zenon DEF AsSeen!Stop
    <3> QED BY <3>5, Zenon DEF AdapterStep, AsSeen!Next
  <2> QED BY <2>2, <2>3, <2>4, <2>5, <2>6, Zenon DEF Kept, HInv
<1>6. CASE transport # 0
  <2> PICK t \in Transports : t = transport
    BY <1>3, <1>6
  <2>1. stopCall' = "closing" /\ link' = [link EXCEPT ![t] = CloseCalled(@)]
    BY <1>1, <1>6, Zenon
  <2>2. /\ ~starting /\ attach[t] = "done" /\ link[t].started = "resolved"
        /\ ~link[t].notified /\ ~link[t].closing
    BY <1>1, <1>6 DEF HInv, Held
  <2>3. OnlyMoves(t) /\ link'[t] = CloseCalled(link[t])
    BY <1>1, <1>3, <2>1 DEF OnlyMoves
  <2>4. /\ link'[t].started = "resolved" /\ link'[t].closing /\ ~link'[t].notified
    <3>1. link[t] \in LinkState
      BY <1>3
    <3> QED BY <2>2, <2>3, <3>1 DEF LinkState, CloseCalled
  <2>5. LinkPhase(t)'
    <3>1. LinkPhase(t)
      BY Zenon DEF HInv, LinkPhases
    <3>2. t <= created
      BY <2>2, <3>1 DEF LinkPhase
    <3> QED BY <1>1, <2>2, <2>4, <3>2, Zenon DEF LinkPhase
  <2>6. LinkPhases'
    <3>1. \A u \in Transports : u # t /\ u = transport => u = transport' \/ link[u].notified
      BY <1>1
    <3>2. LinkPhases
      BY Zenon DEF HInv
    <3> QED BY <1>1, <1>3, <2>3, <2>5, <3>1, <3>2, OthersKeepPhase, Zenon
  <2>7. Held'
    BY <1>1, <1>4, <2>1, <2>2, <2>4, Zenon DEF Held
  <2>8. StopHolds'
    BY <1>1, <1>6, <2>1 DEF StopHolds
  <2>9. ContractStep
    <3>1. Contract(t)!Close
      <4>1. link[t].started \in {"resolved", "rejected"}
        BY <2>2
      <4> QED BY <2>2, <2>3, <4>1, Zenon DEF Contract!Close, Contract!CanClose, Contract!CloseCalled, CloseCalled
    <3>2. [Contract(t)!Next \/ RejectAndClose(t)]_(link[t])
      BY <3>1, Zenon DEF Contract!Next
    <3> QED BY <2>3, <3>2, OthersKeepContract
  <2>10. AdapterStep
    <3>1. Adapter \in {"attached", "down"} /\ Adapter' = "closing"
      BY <1>1, <1>6, <2>1, <2>2 DEF Adapter
    <3>2. Adapter # "off"
      BY <3>1
    <3>3. AsSeen!Stop
      BY <1>2, <3>1, <3>2, Zenon DEF AsSeen!Stop
    <3> QED BY <3>3, Zenon DEF AdapterStep, AsSeen!Next
  <2> QED BY <2>6, <2>7, <2>8, <2>9, <2>10, Zenon DEF Kept, HInv
<1> QED BY <1>5, <1>6

LEMMA StopClosedContract == ASSUME TypeOK, IInv, HInv, StopClosed PROVE Kept
<1>1. /\ stopCall = "closing" /\ link' = [link EXCEPT ![stopOn] = CloseFinished(@)]
      /\ transport' = 0 /\ stopCall' = "done" /\ attach' = attach
      /\ (starting' <=> starting) /\ created' = created /\ stopOn' = stopOn
      /\ stopping' = stopping
  BY Zenon DEF StopClosed, TransportDropped
<1>2. stopOn # 0 /\ transport = stopOn
  BY <1>1, Zenon DEF HInv, StopHolds
<1>3. /\ link \in [Transports -> LinkState] /\ created \in Nat /\ stopOn \in Transports
  BY <1>2, Fields
<1> PICK t \in Transports : t = transport
  BY <1>2, <1>3
<1>4. /\ ~starting /\ attach[t] = "done" /\ link[t].started = "resolved"
      /\ ~link[t].notified /\ link[t].closing
  BY <1>1, <1>2 DEF HInv, Held
<1>5. OnlyMoves(t) /\ link'[t] = CloseFinished(link[t])
  BY <1>1, <1>2, <1>3 DEF OnlyMoves
<1>6. link'[t].started = "resolved" /\ link'[t].notified
  <2>1. link[t] \in LinkState
    BY <1>3
  <2> QED BY <1>4, <1>5, <2>1 DEF LinkState, CloseFinished
<1>7. LinkPhase(t)'
  <2>1. LinkPhase(t)
    BY Zenon DEF HInv, LinkPhases
  <2>2. t <= created
    BY <1>4, <2>1 DEF LinkPhase
  <2> QED BY <1>1, <1>4, <1>6, <2>2, Zenon DEF LinkPhase
<1>8. LinkPhases'
  <2>1. \A u \in Transports : u # t /\ u = transport => u = transport' \/ link[u].notified
    OBVIOUS
  <2>2. LinkPhases
    BY Zenon DEF HInv
  <2> QED BY <1>1, <1>3, <1>5, <1>7, <2>1, <2>2, OthersKeepPhase, Zenon
<1>9. Held'
  BY <1>1, Zenon DEF Held
<1>10. StopHolds'
  BY <1>1, <1>4 DEF StopHolds
<1>11. ContractStep
  <2>1. Contract(t)!FinishClose
    BY <1>4, <1>5, Zenon DEF Contract!FinishClose, Contract!CanFinishClose,
       Contract!CloseFinished, CloseFinished
  <2>2. [Contract(t)!Next \/ RejectAndClose(t)]_(link[t])
    BY <2>1, Zenon DEF Contract!Next
  <2> QED BY <1>5, <2>2, OthersKeepContract
<1>12. AdapterStep
  <2>1. Adapter = "closing" /\ Adapter' = "off"
    BY <1>1, <1>2, <1>4 DEF Adapter
  <2>2. AsSeen!Closed
    BY <1>1, <2>1, Zenon DEF AsSeen!Closed
  <2> QED BY <2>2, Zenon DEF AdapterStep, AsSeen!Next
<1> QED BY <1>8, <1>9, <1>10, <1>11, <1>12, Zenon DEF Kept, HInv

LEMMA StutterContract == ASSUME HInv, UNCHANGED vars PROVE Kept
<1>1. /\ UNCHANGED <<link, created, attach, starting, transport, stopOn, stopCall, stopping>>
      /\ recovery' = recovery
  BY Zenon DEF vars
<1>2. transport # 0 => recovery'.timer = NoTimer
  BY <1>1, Zenon DEF HInv, Held
<1> QED BY <1>1, <1>2, QuietKeeps, Zenon

LEMMA KeptStep == TypeOK /\ IInv /\ HInv /\ [Next]_vars => Kept
<1> SUFFICES ASSUME TypeOK, IInv, HInv, [Next]_vars PROVE Kept
  OBVIOUS
<1>1. ASSUME NEW t \in Transports,
             \/ AttachOk(t) \/ AttachRejected(t) \/ AttachClosed(t)
             \/ LinkLoses(t) \/ LinkRegains(t) \/ LinkGivesUp(t)
      PROVE  Kept
  <2>1. LinkLoses(t) \/ LinkRegains(t) => Kept
    BY FlapContract
  <2> QED BY <1>1, <2>1, AttachOkContract, AttachRejectedContract, AttachClosedContract,
             GiveUpContract, Zenon
<1>2. CASE Start \/ RecoveryTimerFires \/ Stop \/ StopClosed \/ UNCHANGED vars
  BY <1>2, StartContract, TimerContract, StopContract, StopClosedContract, StutterContract, Zenon
<1> QED BY <1>1, <1>2, Zenon DEF Next

LEMMA HInvInit == Init => HInv
<1> SUFFICES ASSUME Init PROVE HInv
  OBVIOUS
<1>1. created = 0 /\ transport = 0 /\ stopCall = "no" /\ stopOn = 0
  BY Zenon DEF Init
<1>2. \A t \in Transports : attach[t] = "no" /\ link[t] = FreshLink /\ t > created
  BY DEF Init, Transports
<1>3. LinkPhases
  BY <1>2, Zenon DEF LinkPhases, LinkPhase
<1>4. Held /\ StopHolds
  BY <1>1 DEF Held, StopHolds
<1> QED BY <1>3, <1>4, Zenon DEF HInv

LEMMA HInvHolds == Spec => [](TypeOK /\ IInv /\ HInv)
<1>1. TypeOK /\ IInv /\ HInv /\ [Next]_vars => HInv'
  BY KeptStep, Zenon DEF Kept
<1> QED BY <1>1, IInvHolds, HInvInit, PTL DEF Spec

\* No transport is leaked: one whose start() resolved is held, or on its way out.
THEOREM NoneLeakedHolds == Spec => []NoneLeaked
<1>1. HInv => NoneLeaked
  <2> SUFFICES ASSUME HInv, NEW t \in Transports, link[t].started = "resolved"
               PROVE  t = transport \/ link[t].closing \/ link[t].notified
    BY Zenon DEF NoneLeaked
  <2>1. LinkPhase(t)
    BY Zenon DEF HInv, LinkPhases
  <2> QED BY <2>1 DEF LinkPhase, FreshLink
<1> QED BY <1>1, HInvHolds, PTL

\* The adapter uses each of its transports as AmqpLink allows, and no other way.
THEOREM KeepsContractHolds == Spec => KeepsContract
<1>1. TypeOK /\ IInv /\ HInv /\ [Next]_vars
        => [\A t \in Transports : [Contract(t)!Next \/ RejectAndClose(t)]_(link[t])]_vars
  BY KeptStep, Zenon DEF Kept, ContractStep
<1> QED BY <1>1, HInvHolds, PTL DEF Spec, KeepsContract

\* The adapter implements what the process around it relies on.
THEOREM ImplementsAdapterHolds == Spec => ImplementsAdapter
<1>1. Init => AsSeen!Init
  <2> SUFFICES ASSUME Init PROVE AsSeen!Init
    OBVIOUS
  <2>1. /\ created = 0 /\ transport = 0 /\ ~starting /\ stopCall = "no"
        /\ stopping = FALSE
    BY Zenon DEF Init
  <2>2. Adapter = "off"
    BY <2>1 DEF Adapter
  <2> QED BY <2>1, <2>2, Zenon DEF AsSeen!Init
<1>2. TypeOK /\ IInv /\ HInv /\ [Next]_vars => [AsSeen!Next]_(AsSeen!vars)
  BY KeptStep, Zenon DEF Kept, AdapterStep
<1> QED BY <1>1, <1>2, HInvHolds, PTL DEF Spec, ImplementsAdapter, AsSeen!Spec
=============================================================================
