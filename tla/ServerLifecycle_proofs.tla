----------------------- MODULE ServerLifecycle_proofs -----------------------
(***************************************************************************)
(* Theorems of ServerLifecycle, for any mode list, any number of HTTP      *)
(* clients, sessions and AMQP attaches.                                    *)
(***************************************************************************)
EXTENDS ServerLifecycle, SequenceTheorems, TLAPS

-----------------------------------------------------------------------------
(***************************************************************************)
(* What one step of the process is for the server and its requests.        *)
(***************************************************************************)

Connects ==
  \E t \in {0, Stdio, Amqp} : TakeOver(t) /\ UNCHANGED <<kind, request, streams>>

ArrivesElsewhere ==
  \E r \in Requests, id \in Ids, t \in {Stdio, Amqp} :
    Arrive(r, t, id, "open", current) /\ UNCHANGED <<kind, streams>>

\* The handler of r ends, and those in H hear of it.
Reaches(r, H) ==
  /\ r \in Running
  /\ request' = [q \in Requests |->
       [request[q] EXCEPT
          !.handler = IF q = r THEN "done" ELSE @,
          !.client  = IF q \in H THEN (IF q = r THEN "answered" ELSE "crossed") ELSE @]]
  /\ UNCHANGED <<kind, current, streams, disturbed>>

\* Only AMQP may be unable to send.
Answers ==
  \E r \in Requests : \E H \in {Recipients(r), {}} :
    Reaches(r, H) /\ (current # Amqp => H = Recipients(r))

HttpStep ==
  \/ UNCHANGED httpVars \/ Connects \/ ArrivesElsewhere \/ Answers \/ HttpEnds
  \/ listener \in {"open", "closing"} /\ HttpArrives

\* The same for HTTP by itself, which does not know of the listener.
HttpMove == HttpStep \/ HttpArrives

LEMMA AnswerReaches ==
  ASSUME NEW r \in Requests,
         Answer(r, TRUE) \/ Answer(r, current = Amqp => amqp = "attached")
  PROVE  Answers
<1>1. CASE Answer(r, TRUE) \/ (current = Amqp => amqp = "attached")
  <2>1. Reaches(r, Recipients(r))
    BY <1>1 DEF Answer, Reaches
  <2> QED BY <2>1 DEF Answers
<1>2. CASE current = Amqp /\ amqp # "attached" /\ ~Answer(r, TRUE)
  <2>1. Reaches(r, {})
    BY <1>2 DEF Answer, Reaches
  <2> QED BY <1>2, <2>1 DEF Answers
<1> QED BY <1>1, <1>2


LEMMA StepIsHttpStep == Next => HttpStep
<1> SUFFICES ASSUME Next PROVE HttpStep
  OBVIOUS
<1>1. CASE Start
  <2>1. CASE Create \/ StartHttp \/ ListenFails \/ ListenThrows \/ SkipAmqp
    BY <2>1 DEF Create, StartHttp, ListenFails, ListenThrows, SkipAmqp, HttpStep
  <2>2. CASE StartStdio
    BY <2>2 DEF StartStdio, HttpStep, Connects
  <2>3. CASE StartAmqp
    BY <2>3 DEF StartAmqp, BeginAttach, HttpStep, Connects
  <2> QED BY <1>1, <2>1, <2>2, <2>3 DEF Start
<1>2. CASE Run
  <2>1. CASE Attached \/ AmqpFlaps \/ StdinEnds
    BY <2>1 DEF Attached, AmqpFlaps, StdinEnds, HttpStep
  <2>2. CASE Retry
    BY <2>2 DEF Retry, BeginAttach, HttpStep, Connects
  <2>3. CASE AttachFails \/ AmqpGivesUp
    BY <2>3 DEF AttachFails, AmqpGivesUp, Detach, HttpStep, Connects
  <2>4. CASE Serve
    BY <2>4 DEF Serve, HttpStep, ArrivesElsewhere
  <2>5. CASE HandlerEnds
    BY <2>5, AnswerReaches DEF HandlerEnds, HttpStep
  <2> QED BY <1>2, <2>1, <2>2, <2>3, <2>4, <2>5 DEF Run
<1>3. CASE Stop
  <2>1. CASE (\E c \in {"zero", "one"} : Signal(c)) \/ ListenerCloses \/ ProcessEnds
    BY <2>1 DEF Signal, ListenerCloses, ProcessEnds, HttpStep
  <2>2. CASE AmqpCloses
    BY <2>2 DEF AmqpCloses, Detach, HttpStep, Connects
  <2> QED BY <1>3, <2>1, <2>2 DEF Stop
<1> QED BY <1>1, <1>2, <1>3 DEF Next

-----------------------------------------------------------------------------
(***************************************************************************)
(* Types.                                                                  *)
(***************************************************************************)

\* A request that arrives with a known client state is well typed.
LEMMA ArriveType ==
  ASSUME HttpTypeOK, NEW r \in Requests, NEW t \in Channels, NEW id \in Ids,
         NEW client \in {"open", "crossed"}, NEW now \in Channels \union {0},
         Arrive(r, t, id, client, now)
  PROVE  /\ request' \in [Requests -> RequestState]
         /\ current' = now
         /\ disturbed' \in SUBSET Requests
  BY DEF HttpTypeOK, Arrive, RequestState, Elsewhere, Running

LEMMA HttpTypeStep == HttpTypeOK /\ HttpMove => HttpTypeOK'
<1> SUFFICES ASSUME HttpTypeOK, HttpMove PROVE HttpTypeOK'
  OBVIOUS
<1> USE HttpAssumption
<1>1. CASE UNCHANGED httpVars
  BY <1>1 DEF HttpTypeOK, httpVars, Sessions
<1>2. CASE Connects
  <2>1. PICK t \in {0, Stdio, Amqp} : TakeOver(t) /\ UNCHANGED <<kind, request, streams>>
    BY <1>2 DEF Connects
  <2>2. t \in Channels \union {0} /\ t \notin Transports
    BY DEF Stdio, Amqp, Channels, Transports
  <2> QED BY <2>1, <2>2 DEF HttpTypeOK, TakeOver, Elsewhere, Running, Sessions
<1>3. ASSUME NEW t \in Transports, NEW r \in Requests, NEW id \in Ids, OpenSession(r, t, id)
      PROVE  HttpTypeOK'
  <2>1. t \in Channels
    BY DEF Channels, Transports
  <2>2. /\ request' \in [Requests -> RequestState]
        /\ current' = t
        /\ disturbed' \in SUBSET Requests
    BY <1>3, <2>1, ArriveType DEF OpenSession
  <2> QED BY <1>3, <2>1, <2>2 DEF OpenSession, IsNext, HttpTypeOK, Sessions
<1>4. ASSUME NEW t \in Transports, NEW r \in Requests, NEW id \in Ids, PostStateless(r, t, id)
      PROVE  HttpTypeOK'
  <2>1. t \in Channels
    BY DEF Channels, Transports
  <2>2. (IF HandshakeId(id) = id THEN "crossed" ELSE "open") \in {"open", "crossed"}
    OBVIOUS
  <2>3. /\ request' \in [Requests -> RequestState]
        /\ current' = t
        /\ disturbed' \in SUBSET Requests
    BY <1>4, <2>1, <2>2, ArriveType DEF PostStateless
  <2> QED BY <1>4, <2>1, <2>3 DEF PostStateless, IsNext, HttpTypeOK, Sessions
<1>5. ASSUME NEW t \in Transports, NEW r \in Requests, NEW id \in Ids, PostToSession(r, t, id)
      PROVE  HttpTypeOK'
  <2>1. t \in Channels /\ current \in Channels \union {0}
    BY DEF Channels, Transports, HttpTypeOK
  <2>2. /\ request' \in [Requests -> RequestState]
        /\ current' = current
        /\ disturbed' \in SUBSET Requests
    BY <1>5, <2>1, ArriveType DEF PostToSession
  <2> QED BY <1>5, <2>2 DEF PostToSession, HttpTypeOK, Sessions
<1>6. ASSUME NEW t \in Transports, OpenStream(t) \/ CloseStream(t)
      PROVE  HttpTypeOK'
  BY <1>6 DEF OpenStream, CloseStream, HttpTypeOK, Sessions
<1>7. ASSUME NEW t \in Transports, Delete(t)
      PROVE  HttpTypeOK'
  <2>1. request' \in [Requests -> RequestState]
    BY <1>7 DEF Delete, HttpTypeOK, RequestState
  <2> QED BY <1>7, <2>1 DEF Delete, Detach, TakeOver, HttpTypeOK, Sessions, Elsewhere, Running, Channels, Transports
<1>8. ASSUME NEW r \in Requests, HangUp(r)
      PROVE  HttpTypeOK'
  BY <1>8 DEF HangUp, HttpTypeOK, RequestState, Sessions
<1>9. CASE ArrivesElsewhere
  <2>1. PICK r \in Requests, id \in Ids, t \in {Stdio, Amqp} :
          Arrive(r, t, id, "open", current) /\ UNCHANGED <<kind, streams>>
    BY <1>9 DEF ArrivesElsewhere
  <2>2. t \in Channels /\ current \in Channels \union {0}
    BY DEF Channels, Stdio, Amqp, HttpTypeOK
  <2>3. /\ request' \in [Requests -> RequestState]
        /\ current' = current
        /\ disturbed' \in SUBSET Requests
    BY <2>1, <2>2, ArriveType
  <2> QED BY <2>1, <2>3 DEF HttpTypeOK, Sessions
<1>10. CASE Answers
  <2>1. PICK r \in Requests : \E H \in {Recipients(r), {}} : Reaches(r, H)
    BY <1>10 DEF Answers
  <2> PICK H \in {Recipients(r), {}} : Reaches(r, H)
    BY <2>1
  <2>2. ASSUME NEW v \in RequestState,
               NEW c \in {v.client, "answered", "crossed"}, NEW h \in {v.handler, "done"}
        PROVE  [v EXCEPT !.handler = h, !.client = c] \in RequestState
    BY DEF RequestState
  <2>3. request' \in [Requests -> RequestState]
    <3>1. \A q \in Requests : request[q] \in RequestState
      BY DEF HttpTypeOK
    <3> QED BY <2>2, <3>1 DEF Reaches
  <2> QED BY <2>3 DEF Reaches, HttpTypeOK, Sessions
<1>11. CASE HttpArrives
  <2>1. ASSUME NEW t \in Transports, PostWithoutRequest(t)
        PROVE  HttpTypeOK'
    BY <2>1 DEF PostWithoutRequest, IsNext, TakeOver, HttpTypeOK, Sessions, Elsewhere, Running, Channels, Transports
  <2> QED BY <1>11, <1>3, <1>4, <1>5, <1>6, <1>7, <2>1 DEF HttpArrives
<1>12. CASE HttpEnds
  BY <1>12, <1>6, <1>8 DEF HttpEnds
<1> QED BY <1>1, <1>2, <1>9, <1>10, <1>11, <1>12 DEF HttpMove, HttpStep

-----------------------------------------------------------------------------
(***************************************************************************)
(* A request that nothing came between.                                    *)
(***************************************************************************)

\* While it runs, the server has its transport, it is alone with its id, and its
\* client waits or has left.
Undisturbed(r) ==
  /\ request[r].via = current
  /\ request[r].client \in {"open", "gone"}
  /\ \A q \in Running : request[q].id = request[r].id => q = r

RunningUndisturbed == \A r \in Running \ disturbed : Undisturbed(r)
SteadyInv == HttpTypeOK /\ RunningUndisturbed /\ SteadyGetTheirAnswer

\* A request that arrives while the server has `now' is disturbed, unless the
\* server has its transport and nothing else runs with its id.
LEMMA ArriveSteady ==
  ASSUME SteadyInv, NEW r \in Requests, NEW t \in Channels, NEW id \in Ids,
         NEW now \in Channels \union {0}, Arrive(r, t, id, "open", now)
  PROVE  RunningUndisturbed' /\ SteadyGetTheirAnswer'
<1> DEFINE Arrival == [via |-> t, id |-> id, handler |-> "running", client |-> "open"]
<1>1. /\ request' = [request EXCEPT ![r] = Arrival]
      /\ current' = now
      /\ request[r].handler = "none"
      /\ request \in [Requests -> RequestState]
  <2>1. r <= r
    BY HttpAssumption DEF Requests
  <2> QED BY <2>1 DEF Arrive, SteadyInv, HttpTypeOK
<1>2. request'[r] = Arrival /\ \A q \in Requests \ {r} : request'[q] = request[q]
  BY <1>1
<1>3. Running' = Running \union {r} /\ r \notin Running
  BY <1>1, <1>2 DEF Running, Requests
<1>4. /\ disturbed \subseteq disturbed'
      /\ \A q \in Running \ disturbed' : request[q].via = now /\ request[q].id # id
      /\ r \notin disturbed' => now = t /\ \A q \in Running : request[q].id # id
  BY DEF Arrive, Elsewhere
<1> HIDE DEF Arrival
<1>5. ASSUME NEW p \in Running' \ disturbed' PROVE Undisturbed(p)'
  <2>1. CASE p = r
    <3>1. /\ request'[p].via = current' /\ request'[p].client \in {"open", "gone"}
          /\ request'[p].id = id
      BY <2>1, <1>1, <1>2, <1>4, <1>5 DEF Arrival
    <3>2. \A q \in Running' : request'[q].id = request'[p].id => q = p
      BY <2>1, <3>1, <1>2, <1>3, <1>4, <1>5 DEF Running
    <3> QED BY <3>1, <3>2 DEF Undisturbed
  <2>2. CASE p # r
    <3>1. p \in Running \ disturbed /\ p \in Requests
      BY <2>2, <1>3, <1>4, <1>5 DEF Running
    <3>2. Undisturbed(p)
      BY <3>1 DEF SteadyInv, RunningUndisturbed
    <3>3. request'[p] = request[p] /\ request[p].via = now /\ request[p].id # id
      BY <3>1, <2>2, <1>2, <1>4, <1>5
    <3>4. request'[r].id = id
      BY <1>2 DEF Arrival
    <3>5. \A q \in Running' : request'[q].id = request'[p].id => q = p
      BY <3>2, <3>3, <3>4, <1>2, <1>3 DEF Undisturbed, Running
    <3> QED BY <3>2, <3>3, <3>5, <1>1 DEF Undisturbed
  <2> QED BY <2>1, <2>2
<1>6. ASSUME NEW p \in Requests \ disturbed'
      PROVE  /\ p \in Running' => request'[p].client \in {"open", "gone"}
             /\ request'[p].handler = "done" /\ request'[p].via # Amqp
                  => request'[p].client \in {"answered", "gone"}
  <2>1. CASE p = r
    BY <2>1, <1>2 DEF Arrival
  <2>2. CASE p # r
    BY <2>2, <1>2, <1>3, <1>4, <1>6 DEF SteadyInv, SteadyGetTheirAnswer
  <2> QED BY <2>1, <2>2
<1>7. SteadyGetTheirAnswer'
  BY <1>6 DEF SteadyGetTheirAnswer, Requests, Amqp
<1> QED BY <1>5, <1>7 DEF RunningUndisturbed

\* Another transport takes the server, or its own ends: who runs is disturbed.
LEMMA ConnectSteady ==
  ASSUME SteadyInv, NEW t, TakeOver(t), request' = request
  PROVE  RunningUndisturbed' /\ SteadyGetTheirAnswer'
<1>1. /\ current' = t /\ disturbed \subseteq disturbed' /\ Running' = Running
      /\ \A q \in Running \ disturbed' : request[q].via = t
  BY DEF TakeOver, Elsewhere, Running, Requests
<1>2. RunningUndisturbed'
  BY <1>1 DEF SteadyInv, RunningUndisturbed, Undisturbed
<1>3. SteadyGetTheirAnswer'
  BY <1>1 DEF SteadyInv, SteadyGetTheirAnswer, Requests, Amqp
<1> QED BY <1>2, <1>3

\* The answer of a request goes to nobody else's client: one that waits at the
\* server's transport with the same id is disturbed, or is the request itself.
LEMMA AnswerSteady ==
  ASSUME SteadyInv, NEW r \in Requests, NEW H \in {Recipients(r), {}}, Reaches(r, H),
         current # Amqp => H = Recipients(r)
  PROVE  RunningUndisturbed' /\ SteadyGetTheirAnswer'
<1>1. /\ r \in Running /\ r \in Requests
      /\ current' = current /\ disturbed' = disturbed
      /\ request \in [Requests -> RequestState]
      /\ Requests' = Requests /\ Amqp' = Amqp
  BY DEF Reaches, SteadyInv, HttpTypeOK, Running, Requests, Amqp
<1>2. \A q \in Requests :
        /\ request'[q].via = request[q].via /\ request'[q].id = request[q].id
        /\ request'[q].handler = IF q = r THEN "done" ELSE request[q].handler
        /\ request'[q].client = IF q \in H THEN (IF q = r THEN "answered" ELSE "crossed")
                                ELSE request[q].client
  <2> SUFFICES ASSUME NEW q \in Requests
               PROVE  /\ request'[q].via = request[q].via /\ request'[q].id = request[q].id
                      /\ request'[q].handler = IF q = r THEN "done" ELSE request[q].handler
                      /\ request'[q].client = IF q \in H THEN (IF q = r THEN "answered" ELSE "crossed")
                                              ELSE request[q].client
    OBVIOUS
  <2>1. request[q] \in RequestState
    BY <1>1
  <2>2. request'[q] = [request[q] EXCEPT
          !.handler = IF q = r THEN "done" ELSE @,
          !.client  = IF q \in H THEN (IF q = r THEN "answered" ELSE "crossed") ELSE @]
    BY DEF Reaches
  <2> QED BY <2>1, <2>2 DEF RequestState
<1>3. Running' = Running \ {r}
  BY <1>1, <1>2 DEF Running
<1>4. \A q \in Requests : q \in H => /\ request[q].via = current /\ request[q].id = request[r].id
                                    /\ request[q].client = "open"
  BY DEF Recipients
<1>5. ASSUME NEW p \in Running' \ disturbed' PROVE Undisturbed(p)'
  <2>1. p \in Running \ disturbed /\ p \in Requests /\ p # r
    BY <1>1, <1>3, <1>5 DEF Running
  <2>2. Undisturbed(p)
    BY <2>1 DEF SteadyInv, RunningUndisturbed
  <2>3. p \notin H
    BY <2>1, <2>2, <1>1, <1>4 DEF Undisturbed
  <2>4. request'[p].client = request[p].client
    BY <2>1, <2>3, <1>2
  <2>5. \A q \in Running' : request'[q].id = request'[p].id => q = p
    BY <2>1, <2>2, <1>2, <1>3 DEF Undisturbed, Running
  <2> QED BY <2>1, <2>2, <2>4, <2>5, <1>1, <1>2 DEF Undisturbed
<1>6. ASSUME NEW p \in Requests \ disturbed'
      PROVE  /\ p \in Running' => request'[p].client \in {"open", "gone"}
             /\ request'[p].handler = "done" /\ request'[p].via # Amqp
                  => request'[p].client \in {"answered", "gone"}
  <2>1. CASE p = r
    <3>1. Undisturbed(r)
      BY <2>1, <1>1, <1>6 DEF SteadyInv, RunningUndisturbed
    <3>2. request[r].client = "open" /\ request[r].via # Amqp => r \in H
      BY <3>1, <1>1 DEF Undisturbed, Recipients
    <3> QED BY <2>1, <3>1, <3>2, <1>2, <1>3 DEF Undisturbed
  <2>2. CASE p \in Running /\ p # r
    BY <2>2, <1>5, <1>3, <1>6, <1>2 DEF Undisturbed, Running
  <2>3. CASE p \notin Running
    <3>1. request'[p].handler = request[p].handler /\ request'[p].via = request[p].via
      BY <2>3, <1>1, <1>2, <1>6
    <3>2. request[p].handler = "done" /\ request[p].via # Amqp
            => request[p].client \in {"answered", "gone"}
      BY <1>1, <1>6 DEF SteadyInv, SteadyGetTheirAnswer
    <3>3. p \in H => request[p].client = "open"
      BY <1>4
    <3> QED BY <2>3, <3>1, <3>2, <3>3, <1>1, <1>2, <1>3, <1>6
  <2> QED BY <2>1, <2>2, <2>3
<1> QED BY <1>1, <1>5, <1>6 DEF RunningUndisturbed, SteadyGetTheirAnswer

LEMMA HangUpSteady ==
  ASSUME SteadyInv, NEW r \in Requests, HangUp(r)
  PROVE  RunningUndisturbed' /\ SteadyGetTheirAnswer'
<1>1. /\ request' = [request EXCEPT ![r].client = "gone"]
      /\ current' = current /\ disturbed' = disturbed
      /\ request \in [Requests -> RequestState]
      /\ Requests' = Requests /\ Amqp' = Amqp
  BY DEF HangUp, SteadyInv, HttpTypeOK, Requests, Amqp
<1>2. \A q \in Requests :
        /\ request'[q].via = request[q].via /\ request'[q].id = request[q].id
        /\ request'[q].handler = request[q].handler
        /\ request'[q].client \in {request[q].client, "gone"}
  BY <1>1 DEF RequestState
<1>3. Running' = Running
  BY <1>1, <1>2 DEF Running
<1>4. RunningUndisturbed'
  BY <1>1, <1>2, <1>3 DEF SteadyInv, RunningUndisturbed, Undisturbed, Running
<1>5. SteadyGetTheirAnswer'
  BY <1>1, <1>2, <1>3 DEF SteadyInv, SteadyGetTheirAnswer
<1> QED BY <1>4, <1>5

LEMMA DeleteSteady ==
  ASSUME SteadyInv, NEW t \in Transports, Delete(t)
  PROVE  RunningUndisturbed' /\ SteadyGetTheirAnswer'
<1>1. /\ current' = 0 /\ disturbed' = disturbed \union {r \in Running : request[r].via # 0}
      /\ request \in [Requests -> RequestState]
      /\ Requests' = Requests /\ Amqp' = Amqp /\ t # 0 /\ t # Amqp
  BY HttpAssumption DEF Delete, Detach, TakeOver, Elsewhere, SteadyInv, HttpTypeOK, Requests, Amqp, Transports
<1>2. \A q \in Requests :
        /\ request'[q].via = request[q].via /\ request'[q].id = request[q].id
        /\ request'[q].handler = request[q].handler
        /\ \/ request'[q].client = request[q].client
           \/ request[q].via = t /\ request[q].client = "open"
  BY <1>1 DEF Delete, RequestState
<1>3. Running' = Running
  BY <1>1, <1>2 DEF Running
<1>4. RunningUndisturbed'
  BY <1>1, <1>2, <1>3 DEF SteadyInv, RunningUndisturbed, Undisturbed, Running
<1>5. SteadyGetTheirAnswer'
  BY <1>1, <1>2, <1>3 DEF SteadyInv, SteadyGetTheirAnswer, RequestState
<1> QED BY <1>4, <1>5

LEMMA SteadyStep == SteadyInv /\ HttpMove => SteadyInv'
<1> SUFFICES ASSUME SteadyInv, HttpMove PROVE RunningUndisturbed' /\ SteadyGetTheirAnswer'
  BY HttpTypeStep DEF SteadyInv
<1> USE HttpAssumption
<1>1. ASSUME UNCHANGED <<current, request, disturbed>>
      PROVE  RunningUndisturbed' /\ SteadyGetTheirAnswer'
  BY <1>1 DEF SteadyInv, RunningUndisturbed, Undisturbed, SteadyGetTheirAnswer, Running, Requests, Amqp
<1>2. CASE Connects
  BY <1>2, ConnectSteady DEF Connects
<1>3. ASSUME NEW t \in Transports, NEW r \in Requests, NEW id \in Ids,
             OpenSession(r, t, id) \/ PostStateless(r, t, id) \/ PostToSession(r, t, id)
      PROVE  RunningUndisturbed' /\ SteadyGetTheirAnswer'
  <2>1. t \in Channels /\ t \in Channels \union {0} /\ current \in Channels \union {0}
    BY DEF Channels, Transports, SteadyInv, HttpTypeOK
  <2>2. HandshakeId(id) # id
    BY DEF HandshakeId
  <2>3. \E now \in Channels \union {0} : Arrive(r, t, id, "open", now)
    BY <1>3, <2>1, <2>2 DEF OpenSession, PostStateless, PostToSession
  <2> QED BY <2>1, <2>3, ArriveSteady
<1>4. CASE ArrivesElsewhere
  <2>1. {Stdio, Amqp} \subseteq Channels /\ current \in Channels \union {0}
    BY DEF Channels, Stdio, Amqp, SteadyInv, HttpTypeOK
  <2> QED BY <2>1, <1>4, ArriveSteady DEF ArrivesElsewhere
<1>5. CASE Answers
  BY <1>5, AnswerSteady DEF Answers
<1>6. CASE HttpArrives
  <2>1. ASSUME NEW t \in Transports, OpenStream(t)
        PROVE  RunningUndisturbed' /\ SteadyGetTheirAnswer'
    BY <2>1, <1>1 DEF OpenStream
  <2>2. ASSUME NEW t \in Transports, PostWithoutRequest(t)
        PROVE  RunningUndisturbed' /\ SteadyGetTheirAnswer'
    BY <2>2, ConnectSteady DEF PostWithoutRequest
  <2> QED BY <1>6, <1>3, <2>1, <2>2, DeleteSteady DEF HttpArrives
<1>7. CASE HttpEnds
  <2>1. ASSUME NEW t \in Transports, CloseStream(t)
        PROVE  RunningUndisturbed' /\ SteadyGetTheirAnswer'
    BY <2>1, <1>1 DEF CloseStream
  <2> QED BY <1>7, <2>1, HangUpSteady DEF HttpEnds
<1>8. CASE UNCHANGED httpVars
  BY <1>8, <1>1 DEF httpVars
<1> QED BY <1>2, <1>4, <1>5, <1>6, <1>7, <1>8 DEF HttpMove, HttpStep

LEMMA SteadyInit == HttpInit => SteadyInv
<1> USE HttpAssumption
<1>1. HttpInit => HttpTypeOK
  BY DEF HttpInit, HttpTypeOK, NoRequest, RequestState, Transports, Channels, Sessions
<1>2. HttpInit => RunningUndisturbed /\ SteadyGetTheirAnswer
  BY DEF HttpInit, NoRequest, RunningUndisturbed, SteadyGetTheirAnswer, Running
<1> QED BY <1>1, <1>2 DEF SteadyInv

LEMMA SteadyAlways == Spec => []SteadyInv
<1>1. Init => SteadyInv
  BY SteadyInit DEF Init
<1>2. SteadyInv /\ [Next]_vars => SteadyInv'
  <2>1. SteadyInv /\ Next => SteadyInv'
    BY StepIsHttpStep, SteadyStep DEF HttpMove
  <2>2. SteadyInv /\ UNCHANGED vars => SteadyInv'
    BY SteadyStep DEF vars, HttpMove, HttpStep
  <2> QED BY <2>1, <2>2
<1> QED BY <1>1, <1>2, PTL DEF Spec

\* In every process, with any transports and clients, a request that nothing came
\* between gets its own answer, and nothing else before it.
THEOREM SteadyGetTheirAnswerHolds == Spec => []SteadyGetTheirAnswer
<1>1. SteadyInv => SteadyGetTheirAnswer
  BY DEF SteadyInv
<1> QED BY <1>1, SteadyAlways, PTL

-----------------------------------------------------------------------------
(***************************************************************************)
(* HTTP by itself.                                                         *)
(***************************************************************************)

LEMMA HttpNextMoves == [HttpNext]_httpVars => HttpMove
  BY AnswerReaches DEF HttpNext, HttpMove, HttpStep

LEMMA HttpAlways == HttpSpec => []SteadyInv
<1>1. SteadyInv /\ [HttpNext]_httpVars => SteadyInv'
  BY HttpNextMoves, SteadyStep
<1> QED BY <1>1, SteadyInit, PTL DEF HttpSpec

\* Type correctness of the HTTP transport with its clients alone.
THEOREM HttpTypeCorrect == HttpSpec => []HttpTypeOK
<1>1. SteadyInv => HttpTypeOK
  BY DEF SteadyInv
<1> QED BY <1>1, HttpAlways, PTL

\* Sessions and requests without one that nothing came between get their answers.
THEOREM HttpSteadyGetTheirAnswer == HttpSpec => []SteadyGetTheirAnswer
<1>1. SteadyInv => SteadyGetTheirAnswer
  BY DEF SteadyInv
<1> QED BY <1>1, HttpAlways, PTL

-----------------------------------------------------------------------------
(***************************************************************************)
(* What clients see, whatever comes between.                               *)
(***************************************************************************)

\* A request that has not arrived has no client.
Blank == \A r \in Requests : request[r].handler = "none" => request[r].client = "none"

KeepsOutcomes ==
  \A r \in Requests :
    request[r].client \notin {"none", "open"} => request'[r].client = request[r].client

\* The step writes only clients that wait, and those of a request that arrives.
LEMMA ArriveOutcome ==
  ASSUME HttpTypeOK, Blank, NEW r \in Requests, NEW t \in Channels, NEW id \in Ids,
         NEW now, Arrive(r, t, id, "open", now)
  PROVE  KeepsOutcomes /\ Blank' /\ (NobodyCrossed => NobodyCrossed')
<1>1. request \in [Requests -> RequestState] /\ Requests' = Requests
  BY DEF HttpTypeOK, Requests
<1>2. request[r].handler = "none"
  <2>1. r <= r
    BY HttpAssumption DEF Requests
  <2> QED BY <2>1 DEF Arrive
<1>3. request[r].client = "none"
  BY <1>2 DEF Blank
<1>4. /\ request'[r].client = "open" /\ request'[r].handler = "running"
      /\ \A q \in Requests : q # r => request'[q] = request[q]
  BY <1>1 DEF Arrive
<1>5. KeepsOutcomes
  BY <1>3, <1>4 DEF KeepsOutcomes
<1>6. Blank'
  BY <1>1, <1>4 DEF Blank
<1>7. NobodyCrossed => NobodyCrossed'
  BY <1>1, <1>4 DEF NobodyCrossed
<1> QED BY <1>5, <1>6, <1>7

\* What a step other than an arrival does to the clients.
Outcome(q) ==
  /\ request'[q].handler = "none" <=> request[q].handler = "none"
  /\ \/ request'[q].client = request[q].client
     \/ request[q].client = "open" /\ request'[q].client \in {"answered", "crossed", "cut", "gone"}

LEMMA OutcomesKept ==
  ASSUME Blank, \A q \in Requests : Outcome(q)
  PROVE  KeepsOutcomes /\ Blank'
<1>1. KeepsOutcomes
  BY DEF Outcome, KeepsOutcomes
<1>2. Blank'
  BY DEF Outcome, Blank, Requests
<1> QED BY <1>1, <1>2

LEMMA AnswerOutcome ==
  ASSUME HttpTypeOK, NEW r \in Requests, NEW H \in {Recipients(r), {}}, Reaches(r, H)
  PROVE  /\ \A q \in Requests : Outcome(q)
         /\ NobodyCrossed /\ NamesakesApart => NobodyCrossed'
<1>1. \A q \in H : request[q].client = "open" /\ request[q].id = request[r].id
  BY DEF Recipients
<1>2. \A q \in Requests :
        /\ q \in H => request'[q].client = IF q = r THEN "answered" ELSE "crossed"
        /\ q \notin H => request'[q].client = request[q].client
        /\ request'[q].handler = IF q = r THEN "done" ELSE request[q].handler
  <2>1. ASSUME NEW v \in RequestState, NEW h, NEW c
        PROVE  /\ [v EXCEPT !.handler = h, !.client = c].handler = h
               /\ [v EXCEPT !.handler = h, !.client = c].client = c
    BY DEF RequestState
  <2> TAKE q \in Requests
  <2> DEFINE h == IF q = r THEN "done" ELSE request[q].handler
             c == IF q \in H THEN (IF q = r THEN "answered" ELSE "crossed") ELSE request[q].client
  <2>2. request[q] \in RequestState
    BY DEF HttpTypeOK
  <2>3. request'[q] = [request[q] EXCEPT !.handler = h, !.client = c]
    BY DEF Reaches
  <2>4. request'[q].handler = h /\ request'[q].client = c
    <3> HIDE DEF h, c
    <3> QED BY <2>1, <2>2, <2>3
  <2> QED BY <2>4
<1>3. ASSUME NEW q \in Requests PROVE Outcome(q)
  <2>1. request[r].handler = "running"
    BY DEF Reaches, Running
  <2>2. request'[q].handler = "none" <=> request[q].handler = "none"
    BY <2>1, <1>2
  <2>3. CASE q \in H
    BY <2>2, <2>3, <1>1, <1>2 DEF Outcome
  <2>4. CASE q \notin H
    BY <2>2, <2>4, <1>2 DEF Outcome
  <2> QED BY <2>3, <2>4
<1>4. ASSUME NobodyCrossed, NamesakesApart, NEW q \in Requests
      PROVE  request'[q].client # "crossed"
  <2>1. q \in H => q = r
    BY <1>1, <1>4 DEF NamesakesApart, Reaches
  <2> QED BY <2>1, <1>2, <1>4 DEF NobodyCrossed
<1> QED BY <1>3, <1>4 DEF NobodyCrossed, Requests

LEMMA EndOutcome ==
  ASSUME HttpTypeOK, HttpEnds \/ \E t \in Transports : OpenStream(t) \/ Delete(t)
  PROVE  /\ \A q \in Requests : Outcome(q)
         /\ NobodyCrossed => NobodyCrossed'
<1>1. \A q \in Requests :
        /\ request'[q].handler = request[q].handler
        /\ \/ request'[q].client = request[q].client
           \/ request[q].client = "open" /\ request'[q].client \in {"cut", "gone"}
  <2>1. ASSUME NEW r \in Requests, HangUp(r), NEW q \in Requests
        PROVE  /\ request'[q].handler = request[q].handler
               /\ \/ request'[q].client = request[q].client
                  \/ request[q].client = "open" /\ request'[q].client \in {"cut", "gone"}
    BY <2>1 DEF HangUp, HttpTypeOK, RequestState
  <2>2. ASSUME NEW t \in Transports, Delete(t), NEW q \in Requests
        PROVE  /\ request'[q].handler = request[q].handler
               /\ \/ request'[q].client = request[q].client
                  \/ request[q].client = "open" /\ request'[q].client \in {"cut", "gone"}
    BY <2>2 DEF Delete, HttpTypeOK, RequestState
  <2> QED BY <2>1, <2>2 DEF HttpEnds, OpenStream, CloseStream
<1> QED BY <1>1 DEF Outcome, NobodyCrossed, Requests

LEMMA MoveOutcome ==
  ASSUME HttpTypeOK, Blank, HttpMove
  PROVE  /\ KeepsOutcomes /\ Blank'
         /\ NobodyCrossed /\ NamesakesApart => NobodyCrossed'
<1> USE HttpAssumption
<1>1. ASSUME request' = request
      PROVE  KeepsOutcomes /\ Blank' /\ (NobodyCrossed => NobodyCrossed')
  BY <1>1 DEF KeepsOutcomes, Blank, NobodyCrossed, Requests
<1>2. CASE UNCHANGED httpVars \/ Connects
  BY <1>1, <1>2 DEF httpVars, Connects
<1>3. CASE ArrivesElsewhere
  <2>1. {Stdio, Amqp} \subseteq Channels
    BY DEF Channels, Stdio, Amqp
  <2> QED BY <1>3, <2>1, ArriveOutcome DEF ArrivesElsewhere
<1>4. ASSUME NEW t \in Transports, NEW r \in Requests, NEW id \in Ids,
             OpenSession(r, t, id) \/ PostStateless(r, t, id) \/ PostToSession(r, t, id)
      PROVE  KeepsOutcomes /\ Blank' /\ (NobodyCrossed => NobodyCrossed')
  <2>1. t \in Channels /\ HandshakeId(id) # id
    BY DEF Channels, Transports, HandshakeId
  <2>2. \E now : Arrive(r, t, id, "open", now)
    BY <1>4, <2>1 DEF OpenSession, PostStateless, PostToSession
  <2> QED BY <2>1, <2>2, ArriveOutcome
<1>5. CASE Answers
  BY <1>5, AnswerOutcome, OutcomesKept DEF Answers
<1>6. CASE HttpEnds \/ \E t \in Transports : OpenStream(t) \/ Delete(t)
  BY <1>6, EndOutcome, OutcomesKept
<1>7. CASE HttpArrives
  <2>1. ASSUME NEW t \in Transports, PostWithoutRequest(t)
        PROVE  KeepsOutcomes /\ Blank' /\ (NobodyCrossed => NobodyCrossed')
    BY <2>1, <1>1 DEF PostWithoutRequest
  <2> QED BY <1>7, <1>4, <1>6, <2>1 DEF HttpArrives
<1> QED BY <1>2, <1>3, <1>5, <1>6, <1>7 DEF HttpMove, HttpStep

LEMMA NextMoves == [Next]_vars => HttpMove
  BY StepIsHttpStep DEF vars, HttpMove, HttpStep

LEMMA BlankAlways == Spec => [](HttpTypeOK /\ Blank)
<1>1. Init => HttpTypeOK /\ Blank
  BY SteadyInit DEF Init, SteadyInv, Blank, HttpInit, NoRequest
<1>2. HttpTypeOK /\ Blank /\ [Next]_vars => HttpTypeOK' /\ Blank'
  BY NextMoves, HttpTypeStep, MoveOutcome
<1> QED BY <1>1, <1>2, PTL DEF Spec

\* No request is answered twice, or answered after its transport closed or its
\* client left, whatever transports come and go.
THEOREM OutcomeIsFinalHolds == Spec => OutcomeIsFinal
<1>1. HttpTypeOK /\ Blank /\ [Next]_vars => [KeepsOutcomes]_httpVars
  BY NextMoves, MoveOutcome
<1>2. Spec => [][KeepsOutcomes]_httpVars
  BY <1>1, BlankAlways, PTL DEF Spec
<1> QED BY <1>2 DEF OutcomeIsFinal, KeepsOutcomes

\* An answer goes astray only by its id: as long as no handler runs while another
\* request with its id waits, nobody gets the answer of another's request.
THEOREM NobodyCrossedHolds == Spec /\ []NamesakesApart => []NobodyCrossed
<1>1. Init => NobodyCrossed
  BY DEF Init, HttpInit, NoRequest, NobodyCrossed
<1>2. /\ HttpTypeOK /\ Blank /\ NamesakesApart /\ NobodyCrossed
      /\ [Next]_vars
      => NobodyCrossed'
  BY NextMoves, MoveOutcome
<1> QED BY <1>1, <1>2, BlankAlways, PTL DEF Spec

-----------------------------------------------------------------------------
(***************************************************************************)
(* One transport.                                                          *)
(***************************************************************************)

\* As long as HTTP has had one transport, nothing came between the requests of its
\* session.
LoneInv ==
  /\ \A r \in Requests :
       request[r].handler # "none" => request[r].via \in Transports /\ kind[request[r].via] # "unused"
  /\ \A r \in disturbed : request[r].handler # "none"
  /\ LoneTransport => \A t \in Sessions : current = t /\ disturbed = {}

LEMMA LoneArrival ==
  ASSUME SteadyInv, LoneInv, NEW r \in Requests, NEW t \in Transports, NEW id \in Ids,
         OpenSession(r, t, id) \/ PostStateless(r, t, id) \/ PostToSession(r, t, id)
  PROVE  LoneInv'
<1>1. /\ kind \in [Transports -> {"unused", "session", "temporary", "closed"}]
      /\ request \in [Requests -> RequestState] /\ disturbed \subseteq Requests
      /\ Requests' = Requests /\ Transports' = Transports
  BY DEF SteadyInv, HttpTypeOK, Requests, Transports
<1>2. PICK now : Arrive(r, t, id, "open", now)
  BY HttpAssumption DEF OpenSession, PostStateless, PostToSession, HandshakeId
<1>3. /\ request'[r].via = t /\ request'[r].handler = "running"
      /\ \A q \in Requests : q # r => request'[q] = request[q]
  BY <1>1, <1>2 DEF Arrive
<1>4. disturbed' = disturbed \union Elsewhere(now) \union {q \in Running : request[q].id = id}
                     \union (IF now # t \/ {q \in Running : request[q].id = id} # {} THEN {r} ELSE {})
  BY <1>2 DEF Arrive
<1>5. \A u \in Transports : kind[u] # "unused" => kind'[u] # "unused"
  BY <1>1 DEF OpenSession, PostStateless, PostToSession, Sessions
<1>6. kind'[t] # "unused"
  BY <1>1 DEF OpenSession, PostStateless, PostToSession, Sessions
<1>7. \A q \in Requests :
        request'[q].handler # "none" => request'[q].via \in Transports /\ kind'[request'[q].via] # "unused"
  BY <1>3, <1>5, <1>6 DEF LoneInv
<1>8. \A q \in disturbed' : request'[q].handler # "none"
  BY <1>1, <1>3, <1>4 DEF LoneInv, Elsewhere, Running
<1>9. ASSUME LoneTransport', NEW u \in Sessions' PROVE current' = u /\ disturbed' = {}
  <2>1. u = t /\ kind'[u] = "session" /\ \A v \in Transports \ {t} : kind'[v] = "unused"
    BY <1>6, <1>9, <1>1 DEF Sessions, LoneTransport
  <2>2. CASE OpenSession(r, t, id)
    <3>1. now = t /\ current' = t
      BY <2>2, <1>2 DEF OpenSession, Arrive
    <3>2. \A v \in Transports : kind[v] = "unused"
      BY <2>1, <2>2, <1>1 DEF OpenSession, IsNext
    <3>3. \A q \in Requests : request[q].handler = "none"
      BY <3>2 DEF LoneInv
    <3>4. disturbed = {} /\ Running = {}
      BY <3>3, <1>1 DEF LoneInv, Running
    <3> QED BY <2>1, <3>1, <3>4, <1>4 DEF Elsewhere
  <2>3. CASE PostStateless(r, t, id)
    BY <2>1, <2>3, <1>1 DEF PostStateless
  <2>4. CASE PostToSession(r, t, id)
    <3>1. kind' = kind /\ t \in Sessions /\ Arrive(r, t, id, "open", current)
      BY <2>4 DEF PostToSession
    <3>2. LoneTransport
      BY <1>9, <3>1, <1>1 DEF LoneTransport
    <3>3. current = t /\ disturbed = {}
      BY <3>1, <3>2 DEF LoneInv
    <3>4. \A q \in Running : request[q].via = t /\ request[q].id # id
      BY <2>1, <3>1 DEF LoneInv, Running, Arrive
    <3>5. current' = t /\ disturbed' = {}
      BY <3>1, <3>3, <3>4 DEF Arrive, Elsewhere
    <3> QED BY <2>1, <3>5
  <2> QED BY <2>2, <2>3, <2>4
<1> QED BY <1>7, <1>8, <1>9, <1>1 DEF LoneInv

LEMMA LoneDelete ==
  ASSUME SteadyInv, LoneInv, NEW t \in Transports, Delete(t)
  PROVE  LoneInv'
<1>1. /\ kind \in [Transports -> {"unused", "session", "temporary", "closed"}]
      /\ request \in [Requests -> RequestState] /\ disturbed \subseteq Requests
      /\ Requests' = Requests /\ Transports' = Transports
  BY DEF SteadyInv, HttpTypeOK, Requests, Transports
<1>2. \A q \in Requests : request'[q].via = request[q].via /\ request'[q].handler = request[q].handler
  BY <1>1 DEF Delete, RequestState
<1>3. kind'[t] = "closed" /\ kind[t] = "session" /\ \A u \in Transports \ {t} : kind'[u] = kind[u]
  BY <1>1 DEF Delete, Sessions
<1>4. disturbed' \subseteq disturbed \union Running
  BY DEF Delete, Detach, TakeOver, Elsewhere
<1>5. LoneTransport' => Sessions' = {}
  BY <1>1, <1>3 DEF LoneTransport, Sessions
<1>6. \A q \in disturbed' : request'[q].handler # "none"
  BY <1>1, <1>2, <1>4 DEF LoneInv, Running
<1> QED BY <1>1, <1>2, <1>3, <1>5, <1>6 DEF LoneInv

\* A transport that gets no session is the only one, or not the first.
LEMMA LoneWithoutRequest ==
  ASSUME SteadyInv, LoneInv, NEW t \in Transports, PostWithoutRequest(t)
  PROVE  LoneInv'
<1>1. /\ kind \in [Transports -> {"unused", "session", "temporary", "closed"}]
      /\ disturbed \subseteq Requests /\ request' = request
      /\ Requests' = Requests /\ Transports' = Transports
  BY DEF SteadyInv, HttpTypeOK, PostWithoutRequest, Requests, Transports
<1>2. kind'[t] = "temporary" /\ \A u \in Transports \ {t} : kind'[u] = kind[u]
  BY <1>1 DEF PostWithoutRequest
<1>3. disturbed' \subseteq disturbed \union Running
  BY DEF PostWithoutRequest, TakeOver, Elsewhere
<1>4. LoneTransport' => Sessions' = {}
  BY <1>1, <1>2 DEF LoneTransport, Sessions
<1>5. \A q \in disturbed' : request'[q].handler # "none"
  BY <1>1, <1>3 DEF LoneInv, Running
<1> QED BY <1>1, <1>2, <1>4, <1>5 DEF LoneInv

\* The other steps leave transports, the server and who has arrived alone.
LEMMA LoneRest ==
  ASSUME SteadyInv, LoneInv, UNCHANGED <<kind, current, disturbed>>,
         \A q \in Requests :
           request'[q].via = request[q].via /\ (request'[q].handler = "none" <=> request[q].handler = "none")
  PROVE  LoneInv'
<1>1. disturbed \subseteq Requests /\ Requests' = Requests /\ Transports' = Transports /\ Sessions' = Sessions
  BY DEF SteadyInv, HttpTypeOK, Requests, Transports, Sessions
<1>2. LoneTransport' <=> LoneTransport
  BY <1>1 DEF LoneTransport
<1> QED BY <1>1, <1>2 DEF LoneInv

LEMMA LoneStep == SteadyInv /\ LoneInv /\ [HttpNext]_httpVars => LoneInv'
<1> SUFFICES ASSUME SteadyInv, LoneInv, [HttpNext]_httpVars PROVE LoneInv'
  OBVIOUS
<1>1. request \in [Requests -> RequestState]
  BY DEF SteadyInv, HttpTypeOK
<1>2. CASE UNCHANGED httpVars
  BY <1>2, LoneRest DEF httpVars
<1>3. ASSUME NEW t \in Transports, OpenStream(t) \/ CloseStream(t) PROVE LoneInv'
  BY <1>3, LoneRest DEF OpenStream, CloseStream
<1>4. ASSUME NEW r \in Requests, HangUp(r) PROVE LoneInv'
  <2>1. \A q \in Requests : request'[q].via = request[q].via /\ request'[q].handler = request[q].handler
    BY <1>1, <1>4 DEF HangUp, RequestState
  <2> QED BY <1>4, <2>1, LoneRest DEF HangUp
<1>5. ASSUME NEW r \in Requests, Answer(r, TRUE) PROVE LoneInv'
  <2>1. \A q \in Requests :
          request'[q].via = request[q].via /\ (request'[q].handler = "none" <=> request[q].handler = "none")
    BY <1>1, <1>5 DEF Answer, RequestState, Running
  <2> QED BY <1>5, <2>1, LoneRest DEF Answer
<1>6. CASE HttpArrives
  BY <1>6, <1>3, LoneArrival, LoneWithoutRequest, LoneDelete DEF HttpArrives
<1>7. CASE HttpEnds
  BY <1>7, <1>3, <1>4 DEF HttpEnds
<1> QED BY <1>2, <1>5, <1>6, <1>7 DEF HttpNext

\* With one client transport over the whole run, the documented use of a session
\* works: what answers one request answers the ones after it.
THEOREM LoneSessionIsServedHolds == HttpSpec => []LoneSessionIsServed
<1>1. HttpInit => LoneInv
  BY DEF HttpInit, NoRequest, LoneInv, Sessions
<1>2. SteadyInv /\ LoneInv => LoneSessionIsServed
  <2> SUFFICES ASSUME SteadyInv, LoneInv, LoneTransport,
                      NEW r \in Requests, request[r].via \in Sessions, request[r].handler = "done"
               PROVE  request[r].client \in {"answered", "gone"}
    BY DEF LoneSessionIsServed, SessionsAreServed
  <2>1. disturbed = {} /\ request[r].via # Amqp
    BY HttpAssumption DEF LoneInv, Sessions, Transports, Amqp
  <2> QED BY <2>1 DEF SteadyInv, SteadyGetTheirAnswer
<1>3. HttpSpec => []LoneInv
  BY <1>1, LoneStep, HttpAlways, PTL DEF HttpSpec
<1> QED BY <1>2, <1>3, HttpAlways, PTL

-----------------------------------------------------------------------------
(***************************************************************************)
(* The types of the process's own variables.                               *)
(***************************************************************************)

StartType ==
  /\ modes \in Seq(Modes) /\ started \in {"none", "some"}
  /\ phase \in {"creating", "starting", "up", "failed"}
  /\ phase = "starting" => modes # <<>>
StopType ==
  /\ stop \in {"no", "http", "again", "amqp"}
  /\ code \in {"zero", "one"} /\ status \in {"zero", "one"}
  /\ exit \in {"no", "zero", "one"}
PortType ==
  /\ listener \in {"no", "open", "failed", "closing", "closed"}
  /\ stdio \in {"no", "open"}
  /\ amqp \in {"off", "attaching", "attached", "down", "waiting", "closing"}
  /\ attaches \in 0 .. MaxAttaches
ProcessType == StartType /\ StopType /\ PortType

LEMMA TypeParts == TypeOK <=> HttpTypeOK /\ ProcessType
  BY DEF TypeOK, ProcessType, StartType, StopType, PortType

LEMMA RestOfModes ==
  ASSUME StartType, NEW m, Starting(m)
  PROVE  /\ Tail(modes) \in Seq(Modes)
         /\ Len(modes) \in Nat \ {0} /\ Len(Tail(modes)) = Len(modes) - 1
         /\ \A i \in 1 .. Len(Tail(modes)) : Tail(modes)[i] = modes[i + 1]
         /\ modes[1] = m
  BY HeadTailProperties DEF StartType, Starting

LEMMA GoOnType ==
  ASSUME StartType, StopType, NEW rest \in Seq(Modes), NEW s \in {"none", "some"}, GoOn(rest, s)
  PROVE  StartType' /\ StopType'
  BY DEF StartType, StopType, GoOn, Modes

LEMMA ThrowType ==
  ASSUME StartType, StopType, Throw
  PROVE  StartType' /\ StopType'
  BY DEF StartType, StopType, Throw, Modes

LEMMA KeepsStartStop ==
  ASSUME StartType, StopType, UNCHANGED <<startVars, stopVars>>
  PROVE  StartType' /\ StopType'
  BY DEF StartType, StopType, startVars, stopVars, Modes

LEMMA ProcessTypeStep == ProcessType /\ Next => ProcessType'
<1> SUFFICES ASSUME ProcessType, Next PROVE ProcessType'
  OBVIOUS
<1> USE LifecycleAssumption DEF ProcessType, startVars, portVars, stopVars
<1>1. CASE Create
  <2>1. StartType' /\ StopType'
    BY <1>1, GoOnType, ThrowType DEF Create, StartType
  <2> QED BY <1>1, <2>1 DEF Create, PortType
<1>2. CASE StartStdio
  <2>1. StartType' /\ StopType'
    BY <1>2, GoOnType, RestOfModes DEF StartStdio
  <2> QED BY <1>2, <2>1 DEF StartStdio, PortType
<1>3. CASE StartHttp \/ ListenFails
  <2>1. StartType' /\ StopType'
    BY <1>3, GoOnType, RestOfModes DEF StartHttp, ListenFails
  <2> QED BY <1>3, <2>1 DEF StartHttp, ListenFails, PortType
<1>4. CASE ListenThrows
  <2>1. StartType' /\ StopType'
    BY <1>4, ThrowType DEF ListenThrows
  <2> QED BY <1>4, <2>1 DEF ListenThrows, PortType
<1>5. CASE SkipAmqp
  <2>1. StartType' /\ StopType'
    BY <1>5, GoOnType, RestOfModes DEF SkipAmqp, StartType
  <2> QED BY <1>5, <2>1 DEF SkipAmqp, PortType
<1>6. ASSUME BeginAttach PROVE ProcessType'
  <2>1. StartType' /\ StopType'
    BY <1>6, KeepsStartStop DEF BeginAttach
  <2> QED BY <1>6, <2>1 DEF BeginAttach, PortType
<1>7. ASSUME NEW ok \in BOOLEAN, StartGoesOn(ok) PROVE StartType' /\ StopType'
  <2>1. CASE Starting("amqp")
    <3>1. Tail(modes) \in Seq(Modes)
      BY <2>1, RestOfModes
    <3>2. (IF ok THEN "some" ELSE started) \in {"none", "some"}
      BY DEF StartType
    <3> QED BY <1>7, <2>1, <3>1, <3>2, GoOnType DEF StartGoesOn
  <2>2. CASE ~Starting("amqp")
    BY <1>7, <2>2, KeepsStartStop DEF StartGoesOn
  <2> QED BY <2>1, <2>2
<1>8. CASE Attached
  <2>1. StartType' /\ StopType'
    BY <1>8, <1>7 DEF Attached
  <2> QED BY <1>8, <2>1 DEF Attached, PortType
<1>9. CASE AttachFails
  <2>1. StartType' /\ StopType'
    BY <1>9, <1>7 DEF AttachFails
  <2> QED BY <1>9, <2>1 DEF AttachFails, PortType
<1>10. CASE AmqpFlaps \/ AmqpGivesUp \/ StdinEnds \/ Serve \/ HandlerEnds
  <2>1. StartType' /\ StopType'
    BY <1>10, KeepsStartStop DEF AmqpFlaps, AmqpGivesUp, StdinEnds, Serve, HandlerEnds
  <2> QED BY <1>10, <2>1 DEF AmqpFlaps, AmqpGivesUp, StdinEnds, Serve, HandlerEnds, PortType
<1>11. ASSUME NEW c \in {"zero", "one"}, Signal(c) PROVE ProcessType'
  <2>1. StartType'
    BY <1>11 DEF Signal, StartType, Modes
  <2>2. StopType' /\ PortType'
    BY <1>11 DEF Signal, FirstSignal, SecondSignal, StopAmqp, StopType, PortType
  <2> QED BY <2>1, <2>2
<1>12. CASE ListenerCloses \/ AmqpCloses \/ ProcessEnds
  <2>1. StartType'
    BY <1>12 DEF ListenerCloses, AmqpCloses, ProcessEnds, StartType, Modes
  <2>2. StopType' /\ PortType'
    BY <1>12 DEF ListenerCloses, AmqpCloses, ProcessEnds, StopAmqp, StopType, PortType
  <2> QED BY <2>1, <2>2
<1> QED
  BY <1>1, <1>2, <1>3, <1>4, <1>5, <1>6, <1>8, <1>9, <1>10, <1>11, <1>12
     DEF Next, Start, Run, Stop, StartAmqp, Retry

\* Every variable keeps its type in every process; in particular the server is
\* never left with an HTTP transport that is closed.
THEOREM TypeCorrect == Spec => []TypeOK
<1>1. Init => TypeOK
  <2>1. Init => HttpTypeOK
    BY SteadyInit DEF Init, SteadyInv
  <2>2. \A s \in ModeLists : s \in Seq(Modes)
    <3> SUFFICES ASSUME NEW s \in ModeLists PROVE s \in Seq(Modes)
      OBVIOUS
    <3>1. PICK n \in 0 .. 3 : s \in [1 .. n -> Modes]
      BY DEF ModeLists
    <3>2. n \in Nat
      OBVIOUS
    <3> QED BY <3>1, <3>2, SeqDef
  <2> QED BY <2>1, <2>2, LifecycleAssumption DEF Init, TypeOK
<1>2. TypeOK /\ [Next]_vars => TypeOK'
  <2>1. HttpTypeOK /\ [Next]_vars => HttpTypeOK'
    BY StepIsHttpStep, HttpTypeStep DEF vars, HttpMove, HttpStep
  <2>2. ProcessType /\ [Next]_vars => ProcessType'
    BY ProcessTypeStep
       DEF vars, startVars, portVars, stopVars, ProcessType, StartType, StopType, PortType, Modes
  <2>3. TypeOK' <=> HttpTypeOK' /\ ProcessType'
    BY DEF TypeOK, ProcessType, StartType, StopType, PortType
  <2> QED BY <2>1, <2>2, <2>3, TypeParts
<1> QED BY <1>1, <1>2, PTL DEF Spec

-----------------------------------------------------------------------------
(***************************************************************************)
(* A graceful exit.                                                        *)
(***************************************************************************)

\* HTTP is started once, so a start that throws there has no listener to leave.
HttpOnce ==
  /\ \A i, j \in DOMAIN modes : i # j => modes[i] # modes[j]
  /\ listener # "no" => \A i \in DOMAIN modes : modes[i] # "http"
  /\ phase \in {"creating", "failed"} => listener = "no"

\* Without a listener there is nothing of HTTP.
NotListening == listener \in {"no", "failed", "closed"}
ListenerFirst == NotListening => ~HttpOpen

\* HTTP stops before AMQP.
StopOrder ==
  /\ stop # "no" => phase = "up"
  /\ listener = "closing" => stop \in {"http", "again"}
  /\ exit = "no" /\ stop \in {"http", "again"} => listener = "closing"
  /\ stop = "amqp" => listener \in {"no", "closed"}
  /\ amqp = "closing" => stop = "amqp"

ExitInv == HttpOnce /\ ListenerFirst /\ StopOrder /\ GracefulExit

LEMMA HttpStaysClosed ==
  ASSUME HttpTypeOK, HttpStep, NotListening, ~HttpOpen
  PROVE  ~HttpOpen'
<1> USE HttpAssumption DEF NotListening
<1> SUFFICES ASSUME NEW r \in Requests, request'[r].via \in Transports, request'[r].client = "open"
             PROVE  FALSE
  <2>1. streams' = {}
    BY DEF HttpStep, httpVars, Connects, ArrivesElsewhere, Answers, Reaches, HttpEnds, HangUp,
           CloseStream, HttpOpen
  <2> QED BY <2>1 DEF HttpOpen, Requests, Transports
<1>1. request[r] \in RequestState /\ ~(request[r].via \in Transports /\ request[r].client = "open")
  BY DEF HttpTypeOK, HttpOpen
<1>2. CASE UNCHANGED httpVars \/ Connects
  BY <1>1, <1>2 DEF httpVars, Connects
<1>3. CASE ArrivesElsewhere
  <2>1. PICK q \in Requests, id \in Ids, t \in {Stdio, Amqp} : Arrive(q, t, id, "open", current)
    BY <1>3 DEF ArrivesElsewhere
  <2>2. t \notin Transports
    BY DEF Stdio, Amqp, Transports
  <2>3. request \in [Requests -> RequestState]
    BY DEF HttpTypeOK
  <2> QED BY <1>1, <2>1, <2>2, <2>3 DEF Arrive
<1>4. CASE Answers
  <2>1. PICK q \in Requests : \E H \in {Recipients(q), {}} : Reaches(q, H)
    BY <1>4 DEF Answers
  <2> PICK H \in {Recipients(q), {}} : Reaches(q, H)
    BY <2>1
  <2>2. /\ request'[r].via = request[r].via
        /\ request'[r].client \in {"answered", "crossed", request[r].client}
    BY <1>1 DEF Reaches, RequestState
  <2> QED BY <1>1, <2>2
<1>5. CASE HttpEnds
  <2>1. request' = request \/ \E q \in Requests : request' = [request EXCEPT ![q].client = "gone"]
    BY <1>5 DEF HttpEnds, HangUp, CloseStream
  <2>2. request \in [Requests -> RequestState]
    BY DEF HttpTypeOK
  <2> QED BY <1>1, <2>1, <2>2 DEF RequestState
<1> QED BY <1>2, <1>3, <1>4, <1>5 DEF HttpStep

LEMMA HttpOnceStep == ProcessType /\ HttpOnce /\ StopOrder /\ Next => HttpOnce'
<1> SUFFICES ASSUME ProcessType, HttpOnce, StopOrder, Next PROVE HttpOnce'
  OBVIOUS
<1> USE DEF startVars, portVars, stopVars
<1>1. StartType /\ PortType /\ DOMAIN modes = 1 .. Len(modes)
  BY LenProperties DEF ProcessType, StartType
<1>2. ASSUME NEW m \in Modes, Starting(m), NEW s, GoOn(Tail(modes), s),
             listener' = listener \/ m = "http"
      PROVE  HttpOnce'
  <2>1. /\ Len(modes) \in Nat \ {0} /\ Len(Tail(modes)) = Len(modes) - 1
        /\ \A i \in 1 .. Len(Tail(modes)) : Tail(modes)[i] = modes[i + 1]
        /\ modes[1] = m /\ Tail(modes) \in Seq(Modes)
    BY <1>1, <1>2, RestOfModes
  <2>2. modes' = Tail(modes) /\ DOMAIN modes' = 1 .. Len(Tail(modes))
    BY <1>2, <2>1, LenProperties DEF GoOn
  <2>3. \A i \in DOMAIN modes' : i + 1 \in DOMAIN modes /\ modes'[i] = modes[i + 1] /\ i + 1 # 1
    BY <1>1, <2>1, <2>2
  <2>4. \A i, j \in DOMAIN modes' : i # j => modes'[i] # modes'[j]
    BY <2>2, <2>3 DEF HttpOnce
  <2>5. 1 \in DOMAIN modes
    BY <1>1, <2>1
  <2>6. listener' # "no" => \A i \in DOMAIN modes' : modes'[i] # "http"
    BY <1>2, <2>1, <2>3, <2>5 DEF HttpOnce
  <2>7. phase' \in {"starting", "up"}
    BY <1>2 DEF GoOn
  <2> QED BY <2>4, <2>6, <2>7 DEF HttpOnce
<1>3. ASSUME UNCHANGED <<modes, phase>>, listener' = listener \/ (listener # "no" /\ phase = "up")
      PROVE  HttpOnce'
  BY <1>3 DEF HttpOnce
<1>4. CASE Create
  BY <1>4, <1>1 DEF Create, GoOn, Throw, HttpOnce
<1>5. CASE StartStdio \/ SkipAmqp \/ StartHttp \/ ListenFails
  BY <1>5, <1>2 DEF StartStdio, SkipAmqp, StartHttp, ListenFails, Modes
<1>6. CASE ListenThrows
  <2>1. modes[1] = "http" /\ 1 \in DOMAIN modes
    BY <1>6, <1>1, RestOfModes DEF ListenThrows
  <2> QED BY <1>6, <2>1 DEF ListenThrows, Throw, HttpOnce
<1>7. ASSUME BeginAttach PROVE HttpOnce'
  BY <1>7, <1>3 DEF BeginAttach
<1>8. ASSUME NEW ok \in BOOLEAN, StartGoesOn(ok), listener' = listener PROVE HttpOnce'
  BY <1>8, <1>2, <1>3 DEF StartGoesOn, Modes
<1>9. CASE Attached \/ AttachFails
  BY <1>9, <1>8 DEF Attached, AttachFails
<1>10. CASE AmqpFlaps \/ AmqpGivesUp \/ StdinEnds \/ Serve \/ HandlerEnds \/ AmqpCloses \/ ProcessEnds
  BY <1>10, <1>3 DEF AmqpFlaps, AmqpGivesUp, StdinEnds, Serve, HandlerEnds, AmqpCloses, ProcessEnds
<1>11. ASSUME NEW c \in {"zero", "one"}, Signal(c) PROVE HttpOnce'
  BY <1>11, <1>3 DEF Signal, FirstSignal, SecondSignal
<1>12. CASE ListenerCloses
  <2>1. listener = "closing" /\ phase = "up"
    BY <1>12 DEF ListenerCloses, Drained, StopOrder, Next
  <2> QED BY <1>12, <2>1, <1>3 DEF ListenerCloses
<1> QED
  BY <1>4, <1>5, <1>6, <1>7, <1>9, <1>10, <1>11, <1>12
     DEF Next, Start, Run, Stop, StartAmqp, Retry

LEMMA StopOrderStep == ProcessType /\ StopOrder /\ Next => StopOrder'
<1> SUFFICES ASSUME ProcessType, StopOrder, Next PROVE StopOrder'
  OBVIOUS
<1> USE DEF startVars, portVars, stopVars
<1>1. PortType /\ StopType /\ exit = "no"
  BY DEF ProcessType, Next
<1>2. ASSUME stop = "no", UNCHANGED <<stop, exit>>, listener' \in {listener, "open", "failed"},
             amqp' = amqp \/ amqp' # "closing"
      PROVE  StopOrder'
  BY <1>1, <1>2 DEF StopOrder
<1>3. ASSUME UNCHANGED <<phase, listener, stop, exit>>, amqp' = amqp \/ amqp' # "closing"
      PROVE  StopOrder'
  BY <1>3 DEF StopOrder
<1>4. CASE Start
  <2>1. stop = "no"
    BY <1>4 DEF Start, Create, StartStdio, StartHttp, ListenFails, ListenThrows, SkipAmqp, StartAmqp,
                Starting, StopOrder
  <2> QED BY <1>4, <2>1, <1>2 DEF Start, Create, StartStdio, StartHttp, ListenFails, ListenThrows, SkipAmqp,
            StartAmqp, BeginAttach, GoOn, Throw
<1>5. CASE Attached \/ AttachFails
  <2>1. CASE Starting("amqp")
    <3>1. stop = "no"
      BY <2>1 DEF Starting, StopOrder
    <3> QED BY <1>5, <2>1, <3>1, <1>2 DEF Attached, AttachFails, StartGoesOn, GoOn
  <2>2. CASE ~Starting("amqp")
    BY <1>5, <2>2, <1>3 DEF Attached, AttachFails, StartGoesOn
  <2> QED BY <2>1, <2>2
<1>6. CASE Retry \/ AmqpFlaps \/ AmqpGivesUp \/ StdinEnds \/ Serve \/ HandlerEnds
  BY <1>6, <1>3 DEF Retry, BeginAttach, AmqpFlaps, AmqpGivesUp, StdinEnds, Serve, HandlerEnds
<1>7. ASSUME NEW c \in {"zero", "one"}, Signal(c) PROVE StopOrder'
  BY <1>1, <1>7 DEF Signal, FirstSignal, SecondSignal, StopAmqp, StopOrder, StopType, PortType
<1>8. CASE ListenerCloses
  BY <1>1, <1>8 DEF ListenerCloses, Drained, StopAmqp, StopOrder, StopType
<1>9. CASE AmqpCloses \/ ProcessEnds
  BY <1>1, <1>9 DEF AmqpCloses, ProcessEnds, StopOrder, StopType
<1> QED
  BY <1>4, <1>5, <1>6, <1>7, <1>8, <1>9 DEF Next, Run, Stop

LEMMA ListenerFirstStep ==
  HttpTypeOK /\ ProcessType /\ HttpOnce /\ StopOrder /\ ListenerFirst /\ Next => ListenerFirst'
<1> SUFFICES ASSUME HttpTypeOK, ProcessType, HttpOnce, StopOrder, ListenerFirst, Next, NotListening'
             PROVE  ~HttpOpen'
  BY DEF ListenerFirst
<1>1. CASE NotListening
  BY <1>1, StepIsHttpStep, HttpStaysClosed DEF ListenerFirst
<1>2. CASE ~NotListening
  <2>1. ~ListenFails
    BY <1>2, RestOfModes, LenProperties DEF ListenFails, HttpOnce, NotListening, ProcessType, StartType
  <2>2. ListenerCloses
    BY <1>2, <2>1 DEF NotListening, Next, Start, Run, Stop, Create, StartStdio, StartHttp, ListenThrows, SkipAmqp, StartAmqp,
       BeginAttach, Retry, Attached, AttachFails, AmqpFlaps, AmqpGivesUp, StdinEnds, Serve, HandlerEnds,
       Signal, FirstSignal, SecondSignal, AmqpCloses, ProcessEnds, portVars
  <2> QED BY <2>2 DEF ListenerCloses, Drained, HttpOpen, httpVars, Requests, Transports
<1> QED BY <1>1, <1>2

LEMMA GracefulStep ==
  HttpTypeOK /\ ProcessType /\ HttpOnce /\ StopOrder /\ ListenerFirst /\ Next => GracefulExit'
<1> SUFFICES ASSUME HttpTypeOK, ProcessType, HttpOnce, StopOrder, ListenerFirst, Next
             PROVE  GracefulExit'
  OBVIOUS
<1>0. ListenerFirst'
  BY ListenerFirstStep
<1> SUFFICES ASSUME exit' = "zero", phase' \notin {"creating", "starting"}
             PROVE  /\ NotListening'
                    /\ phase' = "up" => amqp' \notin {"attached", "closing"}
  BY <1>0 DEF GracefulExit, ListenerFirst, NotListening
<1> USE DEF startVars, portVars, stopVars
<1>1. PortType /\ StopType /\ exit = "no"
  BY DEF ProcessType, Next
<1>2. ~Start
  BY <1>1 DEF Start, Create, StartStdio, StartHttp, ListenFails, ListenThrows, SkipAmqp, StartAmqp,
              BeginAttach, GoOn, Throw
<1>3. ~Run
  BY <1>1 DEF Run, BeginAttach, Retry, Attached, AttachFails, StartGoesOn, GoOn, AmqpFlaps, AmqpGivesUp,
     StdinEnds, Serve, HandlerEnds
<1>4. ASSUME NEW c \in {"zero", "one"}, Signal(c)
      PROVE  NotListening' /\ (phase' = "up" => amqp' \notin {"attached", "closing"})
  <2>1. CASE phase # "up"
    BY <1>1, <1>4, <2>1 DEF Signal, HttpOnce, ProcessType, StartType, NotListening
  <2>2. CASE phase = "up"
    BY <1>1, <1>4, <2>2 DEF Signal, FirstSignal, SecondSignal, StopAmqp, StopOrder, PortType, NotListening
  <2> QED BY <2>1, <2>2
<1>5. CASE ListenerCloses
  BY <1>1, <1>5 DEF ListenerCloses, Drained, StopAmqp, StopOrder, NotListening
<1>6. CASE AmqpCloses
  BY <1>1, <1>6 DEF AmqpCloses, StopOrder, NotListening
<1>7. CASE ProcessEnds
  BY <1>1, <1>7 DEF ProcessEnds, Alive, PortType, NotListening
<1> QED BY <1>2, <1>3, <1>4, <1>5, <1>6, <1>7 DEF Next, Stop

\* Whenever the signals came, a process that exits with code 0 after its start has
\* ended has no listener, no HTTP response and no stream open; and after a start
\* that did not throw, AMQP is neither attached nor about to be closed.
THEOREM GracefulExitHolds == Spec => []GracefulExit
<1>1. Init => ExitInv
  BY DEF Init, HttpInit, NoRequest, ExitInv, HttpOnce, ListenerFirst, NotListening, HttpOpen, StopOrder, GracefulExit,
         ModeLists, Transports
<1>2. TypeOK /\ ExitInv /\ [Next]_vars => ExitInv'
  <2>1. TypeOK /\ ExitInv /\ Next => ExitInv'
    BY TypeParts, HttpOnceStep, ListenerFirstStep, StopOrderStep, GracefulStep DEF ExitInv
  <2>2. ExitInv /\ UNCHANGED vars => ExitInv'
    BY DEF vars, httpVars, startVars, portVars, stopVars, ExitInv, HttpOnce, ListenerFirst,
           NotListening, HttpOpen,
           StopOrder, GracefulExit, Requests, Transports
  <2> QED BY <2>1, <2>2
<1>3. ExitInv => GracefulExit
  BY DEF ExitInv
<1> QED BY <1>1, <1>2, <1>3, TypeCorrect, PTL DEF Spec

-----------------------------------------------------------------------------
(***************************************************************************)
(* A stop under way has something to wait for.                             *)
(***************************************************************************)

\* A stopServer() that has reached AMQP waits for its closing, and for no more.
AwaitsAmqp == stop = "amqp" /\ exit = "no" => amqp = "closing"

StopInv == StopOrder /\ AwaitsAmqp

LEMMA AwaitsAmqpStep == ProcessType /\ StopInv /\ Next => AwaitsAmqp'
<1> SUFFICES ASSUME ProcessType, StopInv, Next PROVE AwaitsAmqp'
  OBVIOUS
<1> USE DEF startVars, portVars, stopVars
<1>1. /\ StopOrder /\ AwaitsAmqp /\ exit = "no"
      /\ PortType /\ code \in {"zero", "one"}
  BY DEF StopInv, ProcessType, StopType, Next
<1>2. ASSUME stop # "amqp", stop' = stop PROVE AwaitsAmqp'
  BY <1>2 DEF AwaitsAmqp
<1>3. ASSUME UNCHANGED <<stop, exit, amqp>> PROVE AwaitsAmqp'
  BY <1>1, <1>3 DEF AwaitsAmqp
<1>4. ASSUME NEW c, StopAmqp(c), c # "no" PROVE AwaitsAmqp'
  BY <1>1, <1>4 DEF StopAmqp, AwaitsAmqp
<1>5. CASE Start
  <2>1. stop = "no"
    BY <1>1, <1>5 DEF Start, Create, StartStdio, StartHttp, ListenFails, ListenThrows, SkipAmqp, StartAmqp,
                      Starting, StopOrder
  <2> QED BY <1>5, <2>1, <1>2 DEF Start, Create, StartStdio, StartHttp, ListenFails, ListenThrows, SkipAmqp,
            StartAmqp, BeginAttach, GoOn, Throw
<1>6. CASE Attached \/ AttachFails \/ AmqpFlaps \/ AmqpGivesUp \/ Retry
  <2>1. stop # "amqp"
    BY <1>1, <1>6 DEF AwaitsAmqp, Attached, AttachFails, AmqpFlaps, AmqpGivesUp, Retry
  <2>2. stop' = stop
    BY <1>6 DEF Attached, AttachFails, StartGoesOn, GoOn, AmqpFlaps, AmqpGivesUp, Retry, BeginAttach
  <2> QED BY <2>1, <2>2, <1>2
<1>7. CASE StdinEnds \/ Serve \/ HandlerEnds
  BY <1>7, <1>3 DEF StdinEnds, Serve, HandlerEnds
<1>8. ASSUME NEW c \in {"zero", "one"}, Signal(c) PROVE AwaitsAmqp'
  <2>1. CASE phase # "up"
    BY <1>8, <2>1, <1>1 DEF Signal, AwaitsAmqp
  <2>2. CASE phase = "up" /\ stop = "no"
    BY <1>8, <2>2, <1>4 DEF Signal, FirstSignal, AwaitsAmqp
  <2>3. CASE phase = "up" /\ stop # "no"
    BY <1>8, <2>3 DEF Signal, SecondSignal, AwaitsAmqp
  <2> QED BY <2>1, <2>2, <2>3
<1>9. CASE ListenerCloses
  BY <1>9, <1>1, <1>4 DEF ListenerCloses, AwaitsAmqp
<1>10. CASE AmqpCloses
  BY <1>10, <1>1 DEF AmqpCloses, AwaitsAmqp
<1>11. CASE ProcessEnds
  <2>1. stop # "amqp"
    BY <1>11, <1>1 DEF ProcessEnds, Alive, AwaitsAmqp
  <2> QED BY <1>11, <2>1, <1>2 DEF ProcessEnds
<1> QED
  BY <1>5, <1>6, <1>7, <1>8, <1>9, <1>10, <1>11 DEF Next, Run, Stop

LEMMA StopInvAlways == Spec => [](HttpTypeOK /\ Blank /\ TypeOK /\ StopInv)
<1>1. Init => StopInv
  BY DEF Init, StopInv, StopOrder, AwaitsAmqp
<1>2. TypeOK /\ StopInv /\ [Next]_vars => StopInv'
  <2>1. TypeOK /\ StopInv /\ Next => StopInv'
    BY TypeParts, StopOrderStep, AwaitsAmqpStep DEF StopInv
  <2>2. StopInv /\ UNCHANGED vars => StopInv'
    BY DEF vars, startVars, portVars, stopVars, StopInv, StopOrder, AwaitsAmqp
  <2> QED BY <2>1, <2>2
<1> QED BY <1>1, <1>2, TypeCorrect, BlankAlways, PTL DEF Spec

\* From the first signal to the end of the process, what keeps the stop from
\* ending is a client, or it is a step that the process will take: a handler ends,
\* the listener closes, or AMQP does.  No state is left in which it waits for
\* nothing.
THEOREM StopIsNeverStuckHolds == Spec => []StopIsNeverStuck
<1>1. ASSUME HttpTypeOK, Blank, TypeOK, StopInv, stop # "no", exit = "no"
      PROVE  Held \/ Running # {} \/ Drained \/ amqp = "closing"
  <2>1. CASE stop = "amqp"
    BY <1>1, <2>1 DEF StopInv, AwaitsAmqp
  <2>2. CASE stop \in {"http", "again"} /\ ~HttpOpen
    BY <2>2 DEF Drained
  <2>3. CASE HttpOpen
    <3>1. CASE streams # {}
      BY <3>1 DEF Held
    <3>2. CASE streams = {}
      <4>1. PICK r \in Requests : request[r].via \in Transports /\ request[r].client = "open"
        BY <2>3, <3>2 DEF HttpOpen
      <4>2. request[r].handler \in {"running", "done"}
        BY <1>1, <4>1 DEF HttpTypeOK, RequestState, Blank
      <4> QED BY <4>1, <4>2 DEF Held, Running
    <3> QED BY <3>1, <3>2
  <2> QED BY <1>1, <2>1, <2>2, <2>3 DEF TypeOK
<1> QED BY <1>1, StopInvAlways, PTL DEF StopIsNeverStuck

-----------------------------------------------------------------------------
(***************************************************************************)
(* The adapter this process composes with is the one AmqpRecovery models.  *)
(***************************************************************************)

\* Once stop() waits for AMQP there is nothing left of it but its closing.
ClosingOrOff == stop = "amqp" => amqp \in {"closing", "off"}

AdapterStep == [AsSeen!Next]_(AsSeen!vars)

\* A step that leaves AMQP, and that stop() waits for it, as they are.
LEMMA AmqpUntouched ==
  ASSUME ClosingOrOff, amqp' = amqp, stop' = "amqp" <=> stop = "amqp"
  PROVE  ClosingOrOff' /\ AdapterStep
<1>1. (stop = "amqp")' = (stop = "amqp")
  BY Zenon
<1>2. ClosingOrOff'
  BY Zenon DEF ClosingOrOff
<1> QED BY <1>1, <1>2, Zenon DEF AdapterStep, AsSeen!vars

\* A step of the adapter itself, which stop() has no part in.
LEMMA AmqpMoves ==
  ASSUME stop' = stop, stop # "amqp",
         \/ amqp \in {"off", "waiting"} /\ amqp' = "attaching"
         \/ amqp = "attaching" /\ amqp' \in {"attached", "waiting"}
         \/ amqp = "attached" /\ amqp' = "down"
         \/ amqp = "down" /\ amqp' = "attached"
         \/ amqp \in {"attached", "down"} /\ amqp' = "waiting"
  PROVE  ClosingOrOff' /\ AdapterStep
<1>1. (stop = "amqp")' = (stop = "amqp")
  BY Zenon
<1>2. ClosingOrOff'
  BY DEF ClosingOrOff
<1>3. ~(stop = "amqp")
  OBVIOUS
<1>4. \/ AsSeen!Attach \/ AsSeen!Attached \/ AsSeen!AttachFails
      \/ AsSeen!Lose \/ AsSeen!Regain \/ AsSeen!GiveUp
  <2>1. amqp' \in {"attached", "waiting"} => amqp' = "attached" \/ amqp' = "waiting"
    OBVIOUS
  <2> QED BY <1>1, <1>3, <2>1, Zenon DEF AsSeen!Attach, AsSeen!Attached, AsSeen!AttachFails,
          AsSeen!Lose, AsSeen!Regain, AsSeen!GiveUp
<1> QED BY <1>2, <1>4, Zenon DEF AdapterStep, AsSeen!Next

\* runtime.stop(), or the end of the process without it.
LEMMA StopAmqpStep ==
  ASSUME NEW c, StopAmqp(c), stop # "amqp"
  PROVE  ClosingOrOff' /\ AdapterStep
<1>1. CASE amqp \in {"attached", "down"}
  <2>1. amqp' = "closing" /\ stop' = "amqp" /\ amqp # "off"
    BY <1>1 DEF StopAmqp
  <2>2. ClosingOrOff'
    BY <2>1 DEF ClosingOrOff
  <2>3. ~(stop = "amqp") /\ (stop = "amqp")' = TRUE
    BY <2>1, Zenon
  <2>4. AsSeen!Stop
    BY <1>1, <2>1, <2>3, Zenon DEF AsSeen!Stop
  <2> QED BY <2>2, <2>4, Zenon DEF AdapterStep, AsSeen!Next
<1>2. CASE amqp \notin {"attached", "down"}
  <2>1. amqp' = amqp /\ stop' = stop
    BY <1>2, Zenon DEF StopAmqp
  <2>2. ClosingOrOff
    BY DEF ClosingOrOff
  <2> QED BY <2>1, <2>2, AmqpUntouched, Zenon
<1> QED BY <1>1, <1>2

LEMMA AdapterSteps ==
  ASSUME ProcessType, StopOrder, ClosingOrOff, Next
  PROVE  ClosingOrOff' /\ AdapterStep
<1> USE DEF startVars, portVars, stopVars
<1>1. ASSUME amqp' = amqp, stop' = stop PROVE ClosingOrOff' /\ AdapterStep
  BY <1>1, AmqpUntouched, Zenon
<1>2. CASE Create \/ StartStdio \/ StartHttp \/ ListenFails \/ ListenThrows \/ SkipAmqp
  <2>1. amqp' = amqp /\ stop' = stop
    BY <1>2, Zenon DEF Create, StartStdio, StartHttp, ListenFails, ListenThrows, SkipAmqp, GoOn, Throw
  <2> QED BY <1>1, <2>1
<1>3. CASE StdinEnds \/ Serve \/ HandlerEnds \/ ProcessEnds
  <2>1. amqp' = amqp /\ stop' = stop
    BY <1>3, Zenon DEF StdinEnds, Serve, HandlerEnds, ProcessEnds
  <2> QED BY <1>1, <2>1
<1>4. CASE StartAmqp \/ Retry
  <2>1. amqp \in {"off", "waiting"} /\ amqp' = "attaching" /\ stop' = stop
    BY <1>4 DEF StartAmqp, Retry, BeginAttach
  <2>2. stop # "amqp"
    BY <1>4 DEF StartAmqp, Retry, Starting, StopOrder, ClosingOrOff
  <2> QED BY <2>1, <2>2, AmqpMoves, Zenon
<1>5. CASE Attached \/ AttachFails
  <2>1. amqp = "attaching" /\ amqp' \in {"attached", "waiting"}
    BY <1>5 DEF Attached, AttachFails
  <2>2. stop' = stop
    BY <1>5, Zenon DEF Attached, AttachFails, StartGoesOn, GoOn
  <2>3. stop # "amqp"
    BY <2>1 DEF ClosingOrOff
  <2> QED BY <2>1, <2>2, <2>3, AmqpMoves, Zenon
<1>6. CASE AmqpFlaps \/ AmqpGivesUp
  <2>1. /\ \/ amqp = "attached" /\ amqp' = "down"
           \/ amqp = "down" /\ amqp' = "attached"
           \/ amqp \in {"attached", "down"} /\ amqp' = "waiting"
        /\ stop' = stop
    BY <1>6, Zenon DEF AmqpFlaps, AmqpGivesUp
  <2>2. stop # "amqp"
    BY <2>1 DEF ClosingOrOff
  <2> QED BY <2>1, <2>2, AmqpMoves, Zenon
<1>7. ASSUME NEW c \in {"zero", "one"}, Signal(c) PROVE ClosingOrOff' /\ AdapterStep
  <2>1. CASE phase # "up"
    <3>1. amqp' = amqp /\ stop' = stop
      BY <1>7, <2>1, Zenon DEF Signal
    <3> QED BY <1>1, <3>1
  <2>2. CASE phase = "up" /\ stop = "no"
    <3>1. FirstSignal(c)
      BY <1>7, <2>2, Zenon DEF Signal
    <3>2. CASE listener = "open"
      <4>1. amqp' = amqp /\ stop' = "http"
        BY <3>1, <3>2, Zenon DEF FirstSignal
      <4>2. stop' = "amqp" <=> stop = "amqp"
        BY <2>2, <4>1
      <4> QED BY <4>1, <4>2, AmqpUntouched, Zenon
    <3>3. CASE listener = "failed"
      <4>1. amqp' = amqp /\ stop' = stop
        BY <3>1, <3>3, Zenon DEF FirstSignal
      <4> QED BY <1>1, <4>1
    <3>4. CASE listener \notin {"open", "failed"}
      <4>1. StopAmqp(c) /\ stop # "amqp"
        BY <2>2, <3>1, <3>4 DEF FirstSignal
      <4> QED BY <4>1, StopAmqpStep, Zenon
    <3> QED BY <3>2, <3>3, <3>4
  <2>3. CASE phase = "up" /\ stop # "no"
    <3>1. SecondSignal
      BY <1>7, <2>3, Zenon DEF Signal
    <3>2. amqp' = amqp /\ (stop' = "amqp" <=> stop = "amqp")
      BY <3>1 DEF SecondSignal
    <3> QED BY <3>2, AmqpUntouched, Zenon
  <2> QED BY <2>1, <2>2, <2>3
<1>8. CASE ListenerCloses
  <2>1. stop # "amqp"
    BY <1>8 DEF ListenerCloses, Drained
  <2>2. CASE stop = "again"
    <3>1. amqp' = amqp /\ stop' = stop
      BY <1>8, <2>2, Zenon DEF ListenerCloses
    <3> QED BY <1>1, <3>1
  <2>3. CASE stop # "again"
    <3>1. StopAmqp(code)
      BY <1>8, <2>3, Zenon DEF ListenerCloses
    <3> QED BY <2>1, <3>1, StopAmqpStep, Zenon
  <2> QED BY <2>2, <2>3
<1>9. CASE AmqpCloses
  <2>1. amqp = "closing" /\ amqp' = "off" /\ stop' = stop
    BY <1>9, Zenon DEF AmqpCloses
  <2>2. (stop = "amqp")' = (stop = "amqp")
    BY <2>1, Zenon
  <2>3. AsSeen!Closed
    BY <2>1, <2>2, Zenon DEF AsSeen!Closed
  <2>4. ClosingOrOff'
    BY <2>1 DEF ClosingOrOff
  <2> QED BY <2>3, <2>4, Zenon DEF AdapterStep, AsSeen!Next
<1> QED BY <1>2, <1>3, <1>4, <1>5, <1>6, <1>7, <1>8, <1>9, Zenon DEF Next, Start, Run, Stop

\* What happens to AMQP in this process is what the adapter promises: with
\* AmqpRecovery's refinement, the process meets nothing its adapter does not do.
THEOREM TakesAdapterStepsHolds == Spec => TakesAdapterSteps
<1> DEFINE J == TypeOK /\ StopOrder /\ ClosingOrOff
<1>1. Init => StopOrder /\ ClosingOrOff /\ AsSeen!Init
  <2> SUFFICES ASSUME Init PROVE StopOrder /\ ClosingOrOff /\ AsSeen!Init
    OBVIOUS
  <2>1. stop = "no" /\ amqp = "off" /\ listener = "no"
    BY Zenon DEF Init
  <2>2. StopOrder /\ ClosingOrOff
    BY <2>1 DEF StopOrder, ClosingOrOff
  <2>3. (stop = "amqp") = FALSE
    BY <2>1
  <2> QED BY <2>1, <2>2, <2>3, Zenon DEF AsSeen!Init
<1>2. J /\ [Next]_vars => StopOrder' /\ ClosingOrOff' /\ AdapterStep
  <2>1. J /\ Next => StopOrder' /\ ClosingOrOff' /\ AdapterStep
    BY TypeParts, StopOrderStep, AdapterSteps, Zenon
  <2>2. J /\ UNCHANGED vars => StopOrder' /\ ClosingOrOff' /\ AdapterStep
    <3> SUFFICES ASSUME J, UNCHANGED vars PROVE StopOrder' /\ ClosingOrOff' /\ AdapterStep
      OBVIOUS
    <3>1. /\ stop' = stop /\ amqp' = amqp /\ phase' = phase /\ listener' = listener
          /\ exit' = exit
      BY Zenon DEF vars, startVars, portVars, stopVars
    <3>2. StopOrder'
      BY <3>1, Zenon DEF StopOrder
    <3> QED BY <3>1, <3>2, AmqpUntouched, Zenon
  <2> QED BY <2>1, <2>2, Zenon
<1> QED BY <1>1, <1>2, TypeCorrect, PTL DEF Spec, TakesAdapterSteps, AsSeen!Spec, AdapterStep
=============================================================================
