------------------------------ MODULE AmqpLink ------------------------------
(***************************************************************************)
(* The abstract specification of one AMQP transport as its owner sees it.  *)
(* AmqpTransport implements it; AmqpRecovery relies on nothing else.       *)
(***************************************************************************)
EXTENDS AmqpLinkStates

VARIABLE link

Init == link = FreshLink

Start     == CanStart(link)   /\ link' = StartCalled(link)
Resolve   == CanResolve(link) /\ link' = StartResolved(link)
Reject    == CanReject(link)  /\ link' = StartRejected(link)
Lose      == CanLose(link)    /\ link' = LinkLost(link)
Regain    == CanRegain(link)  /\ link' = LinkRegained(link)

\* An event of a lost connection both ends `up` and may exhaust the attempts,
\* and a start() that fails for that event rejects in the same turn.
GiveUp    == /\ CanGiveUp(link)
             /\ \/ link' = GaveUp(link)
                \/ link' = LinkLost(GaveUp(link))
                \/ CanReject(link) /\ link' = StartRejected(LinkLost(GaveUp(link)))

LoseStart == CanReject(link) /\ link' = StartRejected(LinkLost(link))

\* close() may find nothing to wait for, and then it reports at once.
Close     == /\ CanClose(link)
             /\ \/ link' = CloseCalled(link)
                \/ link' = CloseFinished(CloseCalled(link))

FinishClose == /\ CanFinishClose(link)
               /\ \/ link' = CloseFinished(link)
                  \/ link' = LinkLost(CloseFinished(link))

Next ==
  \/ Start \/ Resolve \/ Reject \/ LoseStart
  \/ Lose \/ Regain \/ GiveUp
  \/ Close \/ FinishClose

Spec == Init /\ [][Next]_link
=============================================================================
