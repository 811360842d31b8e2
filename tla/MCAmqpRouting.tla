---------------------------- MODULE MCAmqpRouting ----------------------------
\* Two clients, one message of each other kind.  The second client numbers its
\* request as the first one does (SharedIds) or from another id on.
EXTENDS AmqpRouting

CONSTANTS first, second, bare, reply, note, event, garbage, idA, idB, idC

MCKindOf ==
  [m \in Messages |->
     CASE m \in {first, second, bare} -> "request"
       [] m = reply   -> "response"
       [] m = note    -> "notification"
       [] m = event   -> "broadcast"
       [] m = garbage -> "malformed"]

DistinctIdOf == [m \in Messages |-> IF m = second THEN idB ELSE IF m = bare THEN idC ELSE idA]
SharedIdOf   == [m \in Messages |-> idA]
=============================================================================
