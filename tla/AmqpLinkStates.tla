--------------------------- MODULE AmqpLinkStates ---------------------------
(***************************************************************************)
(* What the owner of an AMQP transport can tell about it, and the steps    *)
(* the transport promises to take.  The owner is NativeAmqpRuntimeAdapter; *)
(* the transport is one AmqpServerTransport object, created for one        *)
(* start() and never started again.                                        *)
(*                                                                         *)
(*   started   the promise start() returned                                *)
(*   up        connectionState.connected, what getStatus() reports         *)
(*   closing   close() was called                                          *)
(*   notified  ontransportclosed and onclose were called                   *)
(*                                                                         *)
(* The operators work on one such record, so that AmqpLink can specify one *)
(* transport and AmqpRecovery can supervise many.                          *)
(***************************************************************************)

LinkState ==
  [ started  : {"no", "pending", "resolved", "rejected"},
    up       : BOOLEAN,
    closing  : BOOLEAN,
    notified : BOOLEAN ]

FreshLink ==
  [started |-> "no", up |-> FALSE, closing |-> FALSE, notified |-> FALSE]

\* start() is called: it resets both close flags before it awaits connect().
CanStart(l)     == l.started = "no"
StartCalled(l)  == [l EXCEPT !.started = "pending"]

\* start() resolves.  It never does so once the closure was reported: an owner
\* that keeps a transport whose start() resolved will still hear of its end.
CanResolve(l)   == l.started = "pending" /\ ~l.notified
StartResolved(l) == [l EXCEPT !.started = "resolved", !.up = TRUE]

CanReject(l)    == l.started = "pending"
StartRejected(l) == [l EXCEPT !.started = "rejected"]

\* The connection is lost and regained without the owner being told.
CanLose(l)      == l.up
LinkLost(l)     == [l EXCEPT !.up = FALSE]

CanRegain(l)    == l.started # "no" /\ ~l.up
LinkRegained(l) == [l EXCEPT !.up = TRUE]

\* Reconnecting is abandoned and the owner is told, at most once.
CanGiveUp(l)    == l.started # "no" /\ ~l.closing /\ ~l.notified
GaveUp(l)       == [l EXCEPT !.notified = TRUE]

\* close() is called on a transport whose start() settled; in its finally
\* clause it reports the closure unless that was done before.
CanClose(l)     == l.started \in {"resolved", "rejected"} /\ ~l.closing
CloseCalled(l)  == [l EXCEPT !.closing = TRUE, !.up = FALSE]

CanFinishClose(l) == l.closing /\ ~l.notified
CloseFinished(l)  == [l EXCEPT !.notified = TRUE]
=============================================================================
