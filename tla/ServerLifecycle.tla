--------------------------- MODULE ServerLifecycle ---------------------------
(***************************************************************************)
(* server.ts, main.ts, transport-manager.ts: one process from its start to *)
(* its end.  It starts the transports of its mode list one after the other *)
(* around the McpServer of HttpSessions, serves, and stops on a signal.    *)
(* HTTP serves as soon as it listens, while later modes still start.       *)
(*                                                                         *)
(* Of the AMQP adapter this module keeps what the rest of the process can  *)
(* tell apart; AmqpRecovery and AmqpTransport have the detail.  Handlers   *)
(* that end while it is not connected cannot send.                         *)
(***************************************************************************)
EXTENDS HttpSessions, Sequences

CONSTANT MaxAttaches \* bound: connects of AMQP to the server

ASSUME LifecycleAssumption == MaxAttaches \in Nat

VARIABLES
  modes,    \* what determineEnabledTransports() returns, without what is done
  phase,    \* of startServer(); stopServer() knows the transports from "up" on
  started,  \* whether none or some of the modes so far have started
  listener, \* the HTTP server; "failed": managed, but it never came to listen
  stdio,    \* stdin: open while it is read
  amqp,     \* the AMQP adapter
  stop,     \* what stopServer() waits for; "again": and a second call behind it
  code,     \* the exit code of the first shutdown()
  status,   \* process.exitCode
  exit,     \* the code the process ended with
  attaches

startVars == <<modes, phase, started>>
portVars  == <<listener, stdio, amqp, attaches>>
stopVars  == <<stop, code, status, exit>>
vars == <<httpVars, startVars, portVars, stopVars>>

Modes == {"stdio", "http", "amqp"}
\* A mode named twice is left out.
ModeLists ==
  {s \in UNION {[1 .. n -> Modes] : n \in 0 .. 3} :
     \A i, j \in DOMAIN s : i # j => s[i] # s[j]}

TypeOK ==
  /\ HttpTypeOK
  /\ modes \in Seq(Modes) /\ started \in {"none", "some"}
  /\ phase = "starting" => modes # <<>>
  /\ phase \in {"creating", "starting", "up", "failed"}
  /\ listener \in {"no", "open", "failed", "closing", "closed"}
  /\ stdio \in {"no", "open"}
  /\ amqp \in {"off", "attaching", "attached", "down", "waiting", "closing"}
  /\ attaches \in 0 .. MaxAttaches
  /\ stop \in {"no", "http", "again", "amqp"}
  /\ code \in {"zero", "one"} /\ status \in {"zero", "one"}
  /\ exit \in {"no", "zero", "one"}

Init ==
  /\ HttpInit
  /\ modes \in ModeLists /\ phase = "creating" /\ started = "none"
  /\ listener = "no" /\ stdio = "no" /\ amqp = "off" /\ attaches = 0
  /\ stop = "no" /\ code = "zero" /\ status = "zero" /\ exit = "no"

-----------------------------------------------------------------------------
(***************************************************************************)
(* startServer().                                                          *)
(***************************************************************************)

\* The loop goes on with the modes in `rest'.  After the last one the transports
\* are managed, and startServer() throws if none has started.
GoOn(rest, s) ==
  /\ modes' = rest /\ started' = s
  /\ IF rest # <<>> THEN phase' = "starting" /\ UNCHANGED status
     ELSE phase' = "up" /\ status' = IF s = "none" THEN "one" ELSE status
  /\ UNCHANGED <<stop, code, exit>>

\* startServer() throws: main() sets the exit code and does nothing else.
Throw ==
  /\ phase' = "failed" /\ status' = "one"
  /\ UNCHANGED <<modes, started, stop, code, exit>>

Starting(m) == phase = "starting" /\ Head(modes) = m

Create ==
  /\ phase = "creating"
  /\ GoOn(modes, "none") \/ Throw
  /\ UNCHANGED <<httpVars, portVars>>

StartStdio ==
  /\ Starting("stdio")
  /\ TakeOver(Stdio)
  /\ stdio' = "open"
  /\ GoOn(Tail(modes), "some")
  /\ UNCHANGED <<kind, request, streams, listener, amqp, attaches>>

StartHttp ==
  /\ Starting("http")
  /\ listener' = "open"
  /\ GoOn(Tail(modes), "some")
  /\ UNCHANGED <<httpVars, stdio, amqp, attaches>>

\* The address is in use, say.  Express (^5.1.0) calls the callback of listen() for
\* an error as well; it does not look at it and resolves, so that HTTP counts as
\* started.
ListenFails ==
  /\ Starting("http")
  /\ listener' = "failed"
  /\ GoOn(Tail(modes), "some")
  /\ UNCHANGED <<httpVars, stdio, amqp, attaches>>

\* listen() itself throws: the port is not one.
ListenThrows ==
  /\ Starting("http")
  /\ Throw
  /\ UNCHANGED <<httpVars, portVars>>

\* config.amqp.enabled is false.
SkipAmqp ==
  /\ Starting("amqp") /\ amqp = "off"
  /\ GoOn(Tail(modes), started)
  /\ UNCHANGED <<httpVars, portVars>>

\* server.connect() of an AMQP transport takes the server before it has a broker.
BeginAttach ==
  /\ attaches < MaxAttaches
  /\ attaches' = attaches + 1
  /\ amqp' = "attaching"
  /\ TakeOver(Amqp)
  /\ UNCHANGED <<kind, request, streams, listener, stdio, startVars, stopVars>>

StartAmqp == Starting("amqp") /\ amqp = "off" /\ BeginAttach
Retry     == amqp = "waiting" /\ BeginAttach

\* The first attach is awaited by the start, which goes on whatever comes of it.
StartGoesOn_Mutant(ok) ==
  IF ~Starting("amqp") THEN UNCHANGED <<startVars, stopVars>>
  ELSE IF ok THEN GoOn(Tail(modes), "some") ELSE Throw
StartGoesOn(ok) ==
  IF Starting("amqp")
    THEN GoOn(Tail(modes), IF ok THEN "some" ELSE started)
    ELSE UNCHANGED <<startVars, stopVars>>

Attached ==
  /\ amqp = "attaching"
  /\ amqp' = "attached"
  /\ StartGoesOn(TRUE)
  /\ UNCHANGED <<httpVars, listener, stdio, attaches>>

AttachFails ==
  /\ amqp = "attaching"
  /\ amqp' = "waiting"
  /\ Detach
  /\ StartGoesOn(FALSE)
  /\ UNCHANGED <<kind, request, streams, listener, stdio, attaches>>

-----------------------------------------------------------------------------
(***************************************************************************)
(* What the process meets while it runs.                                   *)
(***************************************************************************)

\* The connection to the broker is lost and found again, on the same transport.
AmqpFlaps ==
  /\ \/ amqp = "attached" /\ amqp' = "down"
     \/ amqp = "down" /\ amqp' = "attached"
  /\ UNCHANGED <<httpVars, startVars, stopVars, listener, stdio, attaches>>

\* The loss of the connection may be the end of the attempts to regain it.
AmqpGivesUp ==
  /\ amqp \in {"attached", "down"}
  /\ amqp' = "waiting"
  /\ Detach
  /\ UNCHANGED <<kind, request, streams, startVars, stopVars, listener, stdio, attaches>>

StdinEnds ==
  /\ stdio = "open"
  /\ stdio' = "no"
  /\ UNCHANGED <<httpVars, startVars, stopVars, listener, amqp, attaches>>

\* A connection that is open when the listener closes may carry more requests.
Serve ==
  /\ \/ listener \in {"open", "closing"} /\ HttpArrives
     \/ HttpEnds
     \/ \E r \in Requests, id \in Ids :
          /\ \/ stdio = "open" /\ Arrive(r, Stdio, id, "open", current)
             \/ amqp = "attached" /\ Arrive(r, Amqp, id, "open", current)
          /\ UNCHANGED <<kind, streams>>
  /\ UNCHANGED <<startVars, portVars, stopVars>>

HandlerEnds ==
  /\ \E r \in Requests : Answer(r, current = Amqp => amqp = "attached")
  /\ UNCHANGED <<startVars, portVars, stopVars>>

-----------------------------------------------------------------------------
(***************************************************************************)
(* shutdown(): stopServer() and process.exit().                            *)
(***************************************************************************)

HttpOpen ==
  streams # {} \/ \E r \in Requests : request[r].via \in Transports /\ request[r].client = "open"

\* runtime.stop(): it closes the transport, if there is one.
StopAmqp_Mutant(c) ==
  IF amqp \in {"attached", "down"}
    THEN amqp' = "closing" /\ stop' = "amqp" /\ UNCHANGED exit
    ELSE IF amqp = "waiting" THEN stop' = "amqp" /\ UNCHANGED <<amqp, exit>>
    ELSE exit' = c /\ UNCHANGED <<amqp, stop>>
StopAmqp(c) ==
  IF amqp \in {"attached", "down"}
    THEN amqp' = "closing" /\ stop' = "amqp" /\ UNCHANGED exit
    ELSE exit' = c /\ UNCHANGED <<amqp, stop>>

FirstSignal_Mutant(c) ==
  /\ code' = c
  /\ StopAmqp(c)
  /\ listener' = IF listener = "open" THEN "closing" ELSE listener
FirstSignal(c) ==
  /\ code' = c
  /\ \/ /\ listener = "open"
        /\ listener' = "closing" /\ stop' = "http"
        /\ UNCHANGED <<amqp, exit>>
     \/ /\ listener = "failed"   \* close() of what does not listen is an error
        /\ exit' = "one"
        /\ UNCHANGED <<listener, amqp, stop>>
     \/ /\ listener \notin {"open", "failed"}
        /\ StopAmqp(c)
        /\ UNCHANGED listener

\* A second stopServer(): the closing listener answers it with an error once it is
\* drained, a closed one and a closing broker connection at once.
SecondSignal ==
  /\ IF stop = "amqp" THEN exit' = "one" /\ UNCHANGED stop
     ELSE stop' = "again" /\ UNCHANGED exit
  /\ UNCHANGED <<listener, amqp, code>>

Signal(c) ==
  /\ IF phase # "up" THEN exit' = c /\ UNCHANGED <<listener, amqp, stop, code>>
     ELSE IF stop = "no" THEN FirstSignal(c) ELSE SecondSignal
  /\ UNCHANGED <<httpVars, startVars, stdio, attaches, status>>

\* The last HTTP connection is closed.  No session transport is, nor stdin.
Drained == stop \in {"http", "again"} /\ ~HttpOpen

ListenerCloses ==
  /\ Drained
  /\ listener' = "closed"
  /\ IF stop = "again" THEN exit' = "one" /\ UNCHANGED <<amqp, stop>> ELSE StopAmqp(code)
  /\ UNCHANGED <<httpVars, startVars, stdio, attaches, code, status>>

\* Closing the channel and the connection ends well or in an error.
AmqpCloses ==
  /\ amqp = "closing"
  /\ amqp' = "off"
  /\ Detach
  /\ exit' \in {code, "one"}
  /\ UNCHANGED <<kind, request, streams, startVars, listener, stdio, attaches,
                 stop, code, status>>

\* What keeps a Node process alive.  The timers of the AMQP transport and of its
\* recovery do not (unref).
Alive ==
  \/ phase \in {"creating", "starting"}
  \/ listener \in {"open", "closing"} \/ HttpOpen
  \/ stdio = "open" \/ amqp \in {"attaching", "attached", "closing"}
  \/ Running # {}

\* Other timers may keep it alive too: nothing says that it ends.
ProcessEnds ==
  /\ ~Alive
  /\ exit' = status
  /\ UNCHANGED <<httpVars, startVars, portVars, stop, code, status>>

-----------------------------------------------------------------------------
Start == Create \/ StartStdio \/ StartHttp \/ ListenFails \/ ListenThrows
           \/ SkipAmqp \/ StartAmqp
Run   == Retry \/ Attached \/ AttachFails \/ AmqpFlaps \/ AmqpGivesUp \/ StdinEnds
           \/ Serve \/ HandlerEnds
Stop  == Signal("zero") \/ Signal("one") \/ ListenerCloses \/ AmqpCloses \/ ProcessEnds

Next == exit = "no" /\ (Start \/ Run \/ Stop)

\* Handlers end, and so do the closes of a drained listener and of AMQP.
Spec ==
  /\ Init /\ [][Next]_vars
  /\ WF_vars(exit = "no" /\ HandlerEnds)
  /\ WF_vars(exit = "no" /\ ListenerCloses)
  /\ WF_vars(exit = "no" /\ AmqpCloses)

-----------------------------------------------------------------------------
(***************************************************************************)
(* Properties.                                                             *)
(***************************************************************************)

\* A process whose start has ended exits with code 0 only after each HTTP response
\* and stream has ended and the listener, if it ever listened, is closed; and, if
\* the start did not throw, only with AMQP closed.  A start that threw leaves AMQP
\* unmanaged, and no signal closes it.
GracefulExit ==
  exit = "zero" /\ phase \notin {"creating", "starting"} =>
    /\ listener \notin {"open", "closing"} /\ ~HttpOpen
    /\ phase = "up" => amqp \notin {"attached", "closing"}

\* A stop that has begun ends, unless a client keeps a stream open or waits for
\* an answer that went elsewhere.
Held ==
  streams # {} \/ \E r \in Requests :
    request[r].via \in Transports /\ request[r].client = "open" /\ request[r].handler = "done"
StopEnds == []<>(stop = "no" \/ exit # "no" \/ Held)

\* What a stop under way waits for: the client that holds it, a handler, the
\* listener that can close now, or the broker.
StopIsNeverStuck ==
  stop # "no" /\ exit = "no" => Held \/ Running # {} \/ Drained \/ amqp = "closing"

\* What happens to AMQP here is what AmqpAdapter allows, which AmqpRecovery
\* implements: it is attached once and then only by retries, never after stop().
AsSeen == INSTANCE AmqpAdapter WITH adapter <- amqp, stopping <- (stop = "amqp")
TakesAdapterSteps == AsSeen!Spec
=============================================================================
