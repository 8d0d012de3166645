------------------------------ MODULE Teardown ------------------------------
(***************************************************************************)
(* rdma::CM: how the connections of one node end.  Its destructor and the  *)
(* destructors of its peers disconnect; the handler thread counts incoming *)
(* connections down by the events it takes from the shared channel, while  *)
(* the destructor goes on to destroy ids and channel.                      *)
(***************************************************************************)
EXTENDS Integers, Sequences, FiniteSets, SequencesExt

CONSTANTS
  In,        \* incoming connections
  Out        \* outgoing connections; each has an event channel of its own

VARIABLES
  dtor,         \* program counter of ~CM
  up,           \* connections that no side has disconnected
  ids,          \* connections whose id exists
  channel,      \* incomingChannel: sequence of [e, conn]
  exists,       \* incomingChannel has not been destroyed
  numberConnections,
  handler,      \* "running", "done", or "thrown" when it reads a channel that is gone
  outEvents,    \* [Out -> number of events not taken from the outgoing channel]
  undrained     \* outgoing channels from which the destructor still takes an event

vars == <<dtor, up, ids, channel, exists, numberConnections, handler, outEvents, undrained>>

Init ==
  /\ dtor = "alive" /\ up = In \cup Out /\ ids = In \cup Out /\ channel = <<>> /\ exists = TRUE
  /\ numberConnections = Cardinality(In) /\ handler = "running"
  /\ outEvents = [c \in Out |-> 0] /\ undrained = Out

\* what rdma_disconnect of either side makes of connections cs that are still up
Disconnected(cs) ==
  /\ up' = up \ cs
  /\ \E order \in SetToSeqs({[e |-> "disconnected", conn |-> c] : c \in cs \cap up \cap In}) : channel' = channel \o order
  /\ outEvents' = [c \in Out |-> outEvents[c] + (IF c \in cs \cap up THEN 1 ELSE 0)]

\* the peer's destructor comes first for connection c
PeerDisconnects(c) ==
  /\ c \in up /\ Disconnected({c})
  /\ UNCHANGED <<dtor, ids, exists, numberConnections, handler, undrained>>

\* some time after a disconnect the id leaves the time-wait state
TimewaitExit(c) ==
  /\ c \in ids \cap (In \ up) /\ exists
  /\ ~\E i \in 1..Len(channel) : channel[i].conn = c
  /\ Len(channel) < Cardinality(In)
  /\ channel' = Append(channel, [e |-> "timewait", conn |-> c])
  /\ UNCHANGED <<dtor, up, ids, exists, numberConnections, handler, outEvents, undrained>>

-----------------------------------------------------------------------------
(* ~CM *)

DisconnectAll ==
  /\ dtor = "alive" /\ Disconnected(up)
  /\ dtor' = "drain"
  /\ UNCHANGED <<ids, exists, numberConnections, handler, undrained>>

\* one event of every outgoing channel
Drain(c) ==
  /\ dtor = "drain" /\ c \in undrained /\ outEvents[c] > 0
  /\ outEvents' = [outEvents EXCEPT ![c] = @ - 1] /\ undrained' = undrained \ {c}
  /\ UNCHANGED <<dtor, up, ids, channel, exists, numberConnections, handler>>

Drained ==
  /\ dtor = "drain" /\ undrained = {}
  /\ dtor' = "destroy"
  /\ UNCHANGED <<up, ids, channel, exists, numberConnections, handler, outEvents, undrained>>

\* queue pairs, completion queues and ids; the events of an id that were not taken go with it
DestroyIds ==
  /\ dtor = "destroy" /\ ids # {}
  /\ ids' = {} /\ channel' = <<>>
  /\ UNCHANGED <<dtor, up, exists, numberConnections, handler, outEvents, undrained>>

DestroyChannel ==
  /\ dtor = "destroy" /\ ids = {}
  /\ dtor' = "join" /\ exists' = FALSE
  /\ UNCHANGED <<up, ids, channel, numberConnections, handler, outEvents, undrained>>

Join ==
  /\ dtor = "join" /\ handler # "running"
  /\ dtor' = "done"
  /\ UNCHANGED <<up, ids, channel, exists, numberConnections, handler, outEvents, undrained>>

-----------------------------------------------------------------------------
(* CM::handle *)

\* what an event does to the counter
Countdown(e) == IF e = "disconnected" THEN numberConnections - 1 ELSE numberConnections

HandleEvent ==
  /\ handler = "running" /\ exists /\ channel # <<>>
  /\ numberConnections' = Countdown(Head(channel).e)
  /\ channel' = Tail(channel)
  /\ handler' = IF numberConnections' = 0 THEN "done" ELSE "running"
  /\ UNCHANGED <<dtor, up, ids, exists, outEvents, undrained>>

\* rdma_get_cm_event fails once the channel is destroyed
HandlerFails ==
  /\ handler = "running" /\ ~exists
  /\ handler' = "thrown"
  /\ UNCHANGED <<dtor, up, ids, channel, exists, numberConnections, outEvents, undrained>>

Destructor == DisconnectAll \/ Drained \/ DestroyIds \/ DestroyChannel \/ Join \/ \E c \in Out : Drain(c)
Handler == HandleEvent \/ HandlerFails

Next == Destructor \/ Handler \/ (\E c \in In \cup Out : PeerDisconnects(c)) \/ \E c \in In : TimewaitExit(c)

Spec == Init /\ [][Next]_vars

-----------------------------------------------------------------------------
(* Properties *)

\* The handler thread stops serving the channel only when every incoming connection has been disconnected.
HandlerStaysForConnections == handler = "done" => In \cap up = {}
=============================================================================
