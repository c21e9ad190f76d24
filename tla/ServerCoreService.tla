-------------------------- MODULE ServerCoreService --------------------------
(***************************************************************************)
(* ServerCore implements ConnectionService.  A connection's queues count   *)
(* while it is CONNECTED only: what is left in them when it closes is      *)
(* neither answered nor sent.                                              *)
(***************************************************************************)
EXTENDS ServerCore

Phase(v) == CASE v = "FREE" -> "none"          [] v = "INACTIVE" -> "accepted"
              [] v = "CONNECTED" -> "served"   [] v = "CLOSING" -> "leaving"
Phases == [c \in Conns |-> Phase(state[c])]
Counted(queue) == [c \in Conns |-> IF state[c] = "CONNECTED" THEN queue[c] ELSE 0]
Requests == Counted(incoming)
Replies  == Counted(outgoing)
Over     == process # "running"

Service == INSTANCE ConnectionService WITH
  Numbers <- Fds, NoNumber <- NoFd, Limit <- MaxConnects, Batches <- 0 .. MaxInFlight,
  phase <- Phases, number <- desc, owner <- handler, asked <- Requests, due <- Replies,
  over <- Over

(* Whatever listener and workers do to the sets, the poll objects and the  *)
(* shared_ptrs of a connection, it is the course that ConnectionService    *)
(* describes: a number is never shared, the limit holds, messages come and *)
(* go only while a connection is served, and its number and its object go  *)
(* in this order.                                                          *)
ImplementsService == Service!Spec
=============================================================================
