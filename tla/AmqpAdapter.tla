----------------------------- MODULE AmqpAdapter -----------------------------
(***************************************************************************)
(* The abstract specification of the AMQP adapter as the process around it *)
(* sees it: whether AMQP is attached to the MCP server, and what stop()    *)
(* makes of it.  AmqpRecovery implements it, and ServerLifecycle composes  *)
(* the process with an adapter that takes these steps and no others.       *)
(*                                                                         *)
(*   off        before start(), or closed by stop()                        *)
(*   attaching  server.connect() is under way                              *)
(*   attached   a transport is attached and connected                      *)
(*   down       it lost its connection and seeks another                   *)
(*   waiting    an attach failed or the transport gave up; a retry may come*)
(*   closing    stop() closes the transport                                *)
(***************************************************************************)

VARIABLES
  adapter,  \* as above
  stopping  \* stop() was called

vars == <<adapter, stopping>>

Init == adapter = "off" /\ stopping = FALSE

\* start(), and a retry: never while a transport is held, never after stop().
Attach ==
  /\ adapter \in {"off", "waiting"} /\ ~stopping
  /\ adapter' = "attaching"
  /\ UNCHANGED stopping

\* An attach ends well or not, stop() or no stop().
Attached    == adapter = "attaching" /\ adapter' = "attached" /\ UNCHANGED stopping
AttachFails == adapter = "attaching" /\ adapter' = "waiting" /\ UNCHANGED stopping

Lose   == adapter = "attached" /\ adapter' = "down" /\ UNCHANGED stopping
Regain == adapter = "down" /\ adapter' = "attached" /\ UNCHANGED stopping

\* The transport reports its closure.
GiveUp ==
  /\ adapter \in {"attached", "down"}
  /\ adapter' = "waiting"
  /\ UNCHANGED stopping

\* stop() closes the transport it finds; an attach under way it does not see.
Stop ==
  /\ adapter # "off" /\ ~stopping
  /\ stopping' = TRUE
  /\ adapter' = IF adapter \in {"attached", "down"} THEN "closing" ELSE adapter

Closed == adapter = "closing" /\ adapter' = "off" /\ UNCHANGED stopping

Next ==
  \/ Attach \/ Attached \/ AttachFails
  \/ Lose \/ Regain \/ GiveUp
  \/ Stop \/ Closed

Spec == Init /\ [][Next]_vars
=============================================================================
