---------------------------- MODULE HttpSessions ----------------------------
(***************************************************************************)
(* streamable-http-transport.ts: HTTP clients with a session, clients      *)
(* without one, and the one McpServer all of them share.                   *)
(*                                                                         *)
(* The SDK (1.12.1) gives the server one transport: connect() replaces it, *)
(* the end of any connected transport takes it away, and an answer goes to *)
(* whatever transport the server has when the handler ends.  There it is   *)
(* matched by JSON-RPC id with a request that waits, or thrown away.       *)
(*                                                                         *)
(* What handlePostRequest() does before the handler of the request runs is *)
(* one step: its awaits wait for promise callbacks only.                   *)
(***************************************************************************)
EXTENDS Naturals

CONSTANTS
  MaxRequests,   \* bound: JSON-RPC requests of clients, numbered as they arrive
  Ids,           \* JSON-RPC ids
  MaxTransports  \* bound: HTTP transports created in one behaviour

\* Zero stands for the ids `auto-init-...', which no client uses.
ASSUME HttpAssumption ==
  MaxRequests \in Nat /\ MaxTransports \in Nat /\ Ids \subseteq Nat \ {0}

VARIABLES
  kind,     \* what each HTTP transport is; the table has those of kind session
  current,  \* the transport the server has, 0 for none
  request,  \* each request
  streams,  \* the sessions with an open GET
  disturbed \* history: the requests during which the server was with another
            \* transport, or ran another request with the same id

httpVars == <<kind, current, request, streams, disturbed>>

Requests   == 1 .. MaxRequests
Transports == 1 .. MaxTransports
\* The transports of other modes, see ServerLifecycle.
Stdio    == MaxTransports + 1
Amqp     == MaxTransports + 2
Channels == 1 .. (MaxTransports + 2)

RequestState ==
  [via : Channels \union {0}, id : Ids \union {0},
   handler : {"none", "running", "done"},
   client : {"none", "open", "answered", "crossed", "cut", "gone"}]

NoRequest == [via |-> 0, id |-> 0, handler |-> "none", client |-> "none"]
Sessions  == {t \in Transports : kind[t] = "session"}
Running   == {r \in Requests : request[r].handler = "running"}

\* The server is never left with a transport that is closed.
HttpTypeOK ==
  /\ kind \in [Transports -> {"unused", "session", "temporary", "closed"}]
  /\ current \in Channels \union {0}
  /\ current \in Transports => kind[current] \in {"session", "temporary"}
  /\ request \in [Requests -> RequestState]
  /\ streams \subseteq Sessions
  /\ disturbed \subseteq Requests

HttpInit ==
  /\ kind = [t \in Transports |-> "unused"]
  /\ current = 0
  /\ request = [r \in Requests |-> NoRequest]
  /\ streams = {}
  /\ disturbed = {}

-----------------------------------------------------------------------------
(***************************************************************************)
(* The server's transport.                                                 *)
(***************************************************************************)

Elsewhere(t) == {r \in Running : request[r].via # t}

\* server.connect(t) without a request.
TakeOver(t) == current' = t /\ disturbed' = disturbed \union Elsewhere(t)

\* The end of a transport, whichever the server has.
Detach_Mutant == UNCHANGED <<current, disturbed>>
Detach == TakeOver(0)

\* Request r comes by transport t while, or after which, the server has `now'.
\* A client does not use an id twice on one transport.
Arrive(r, t, id, client, now) ==
  LET namesakes == {q \in Running : request[q].id = id}
  IN  /\ \A q \in Requests : request[q].handler = "none" <=> r <= q
      /\ \A q \in Requests : request[q].via = t => request[q].id # id
      /\ request' = [request EXCEPT
           ![r] = [via |-> t, id |-> id, handler |-> "running", client |-> client]]
      /\ current' = now
      /\ disturbed' = disturbed \union Elsewhere(now) \union namesakes
                        \union (IF now # t \/ namesakes # {} THEN {r} ELSE {})

-----------------------------------------------------------------------------
(***************************************************************************)
(* POST.                                                                   *)
(***************************************************************************)

IsNext(t) == kind[t] = "unused" /\ \A u \in Transports : u < t => kind[u] # "unused"

\* `initialize' without a session id.
OpenSession(r, t, id) ==
  /\ IsNext(t)
  /\ kind' = [kind EXCEPT ![t] = "session"]
  /\ Arrive(r, t, id, "open", t)
  /\ UNCHANGED streams

\* The id of the `initialize' that is sent ahead of a request without a session.
HandshakeId_Mutant(id) == id
HandshakeId(id) == 0

\* A request without a session id, or with one that is not in the table: a
\* transport of its own, which nothing closes.  The answer to the handshake goes
\* to a response nobody reads, found by the handshake's id.
PostStateless(r, t, id) ==
  /\ IsNext(t)
  /\ kind' = [kind EXCEPT ![t] = "temporary"]
  /\ Arrive(r, t, id, IF HandshakeId(id) = id THEN "crossed" ELSE "open", t)
  /\ UNCHANGED streams

\* The transport is connected before the body is looked at: one that carries no
\* request for the server, as it is a notification or an answer, or is refused,
\* takes the server over too.  A refused `initialize' gets no session.
PostWithoutRequest(t) ==
  /\ IsNext(t)
  /\ kind' = [kind EXCEPT ![t] = "temporary"]
  /\ TakeOver(t)
  /\ UNCHANGED <<request, streams>>

PostToSession(r, t, id) ==
  /\ t \in Sessions
  /\ Arrive(r, t, id, "open", current)
  /\ UNCHANGED <<kind, streams>>

\* Who waits at the server's transport for an answer with the id of r.
Recipients(r) ==
  {q \in Requests : /\ request[q].via = current /\ request[q].id = request[r].id
                    /\ request[q].client = "open"}

\* The handler of r ends; `works' says whether the server's transport can send.
Answer(r, works) ==
  /\ r \in Running
  /\ request' = [q \in Requests |->
       [request[q] EXCEPT
          !.handler = IF q = r THEN "done" ELSE @,
          !.client  = IF works /\ q \in Recipients(r)
                        THEN (IF q = r THEN "answered" ELSE "crossed") ELSE @]]
  /\ UNCHANGED <<kind, current, streams, disturbed>>

HangUp(r) ==
  /\ request[r].client = "open" /\ request[r].via \in Transports
  /\ request' = [request EXCEPT ![r].client = "gone"]
  /\ UNCHANGED <<kind, current, streams, disturbed>>

-----------------------------------------------------------------------------
(***************************************************************************)
(* GET and DELETE.                                                         *)
(***************************************************************************)

OpenStream(t) ==
  /\ t \in Sessions \ streams
  /\ streams' = streams \union {t}
  /\ UNCHANGED <<kind, current, request, disturbed>>

CloseStream(t) ==
  /\ t \in streams
  /\ streams' = streams \ {t}
  /\ UNCHANGED <<kind, current, request, disturbed>>

\* The transport closes: its streams and the responses that wait end, and its
\* onclose takes it out of the table.
Delete(t) ==
  /\ t \in Sessions
  /\ kind' = [kind EXCEPT ![t] = "closed"]
  /\ streams' = streams \ {t}
  /\ request' = [r \in Requests |->
       IF request[r].via = t /\ request[r].client = "open"
         THEN [request[r] EXCEPT !.client = "cut"] ELSE request[r]]
  /\ Detach

-----------------------------------------------------------------------------
\* What needs a listening server, and what goes on without.
HttpArrives ==
  \E t \in Transports :
    \/ \E r \in Requests, id \in Ids :
         OpenSession(r, t, id) \/ PostStateless(r, t, id) \/ PostToSession(r, t, id)
    \/ PostWithoutRequest(t) \/ OpenStream(t) \/ Delete(t)

HttpEnds ==
  (\E r \in Requests : HangUp(r)) \/ (\E t \in Transports : CloseStream(t))

HttpNext == HttpArrives \/ HttpEnds \/ \E r \in Requests : Answer(r, TRUE)

HttpSpec == HttpInit /\ [][HttpNext]_httpVars

-----------------------------------------------------------------------------
(***************************************************************************)
(* Properties.                                                             *)
(***************************************************************************)

\* A request gets its own answer, and nothing else before it, unless its client
\* hangs up or something came between: another transport took the server or
\* closed, or a request with the same id ran beside it.
SteadyGetTheirAnswer ==
  \A r \in Requests \ disturbed :
    /\ r \in Running => request[r].client \in {"open", "gone"}
    /\ request[r].handler = "done" /\ request[r].via # Amqp
         => request[r].client \in {"answered", "gone"}

\* A session that has answered one request and is open answers the ones after it.
SessionsAreServed ==
  \A q, r \in Requests :
    q < r /\ request[q].via = request[r].via /\ request[r].via \in Sessions
      => (request[q].client = "answered" /\ request[r].handler = "done"
            => request[r].client \in {"answered", "gone"})

\* No handler runs while another request with its id waits.
NamesakesApart ==
  \A r \in Running, q \in Requests :
    request[q].client = "open" /\ request[q].id = request[r].id => q = r

\* Nobody gets the answer of another's request.
NobodyCrossed == \A r \in Requests : request[r].client # "crossed"

\* What a client saw of its request is the end of it: no second answer comes, none
\* after the transport closed or the client left.
OutcomeIsFinal ==
  [][\A r \in Requests :
       request[r].client \notin {"none", "open"}
         => request'[r].client = request[r].client]_httpVars

\* Of all the clients there were, only one had a transport.
LoneTransport ==
  \A t, u \in Transports : kind[t] # "unused" /\ kind[u] # "unused" => t = u

LoneSessionIsServed == LoneTransport => SessionsAreServed
=============================================================================
