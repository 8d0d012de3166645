----------------------------- MODULE Handshake -----------------------------
(***************************************************************************)
(* rdma::CM: how connections to one node are set up.  The handler thread   *)
(* of the node takes events from its channel, one after the other; other   *)
(* nodes connect, try again after a rejection, and exchange an RdmaInfo,   *)
(* later an InitMessage.  Each side has one completion queue for what it   *)
(* sends and receives, and counts two completions for every exchange.      *)
(***************************************************************************)
EXTENDS Integers, Sequences, FiniteSets

CONSTANTS
  Nodes,      \* nodes that connect to this one
  K           \* connections of each of them (threads)

Conns == Nodes \X (1..K)
Sides == {"out", "in"}
Other(s) == IF s = "out" THEN "in" ELSE "out"

VARIABLES
  ctor,         \* what the constructor of CM has done
  initialized,
  handler,      \* [pc, conn] of the handler thread
  channel,      \* incomingChannel: events not taken yet
  incomingIds,  \* contexts in the order of the requests
  established,  \* numberConnectionsEstablished, as the set of its connections
  out,          \* [Conns -> pc of initiateConnection]
  mut,          \* outgoingMut of each node
  event,        \* event that the initiator finds in its own channel
  typed,        \* contexts of which the handler has set type, typeId, nodeId
  app,          \* connections whose InitMessage exchange has begun or ended at this node, in order
  ep            \* [Sides -> [Conns -> endpoint]]

vars == <<ctor, initialized, handler, channel, incomingIds, established, out, mut, event, typed, app, ep>>

Nobody == <<"nobody", 0>>

-----------------------------------------------------------------------------
(* Queue pairs: sends arrive in order; the acknowledgement of a send may come later *)

\* sent, got: messages so far; acked: sends that have completed; cq: completions to poll;
\* need: completions the running exchange still waits for
NewEndpoint == [sent |-> 0, got |-> 0, acked |-> 0, cq |-> 0, need |-> 0]

\* Mutant: one completion is enough
PostSendOnce(e) == [e EXCEPT !.sent = @ + 1, !.need = 1]

\* postSend and the start of the loop until completions == 2
PostSend(e) == [e EXCEPT !.sent = @ + 1, !.need = 2]

Deliver(s, c) ==
  /\ ep[Other(s)][c].got < ep[s][c].sent
  /\ ep' = [ep EXCEPT ![Other(s)][c].got = @ + 1, ![Other(s)][c].cq = @ + 1]
  /\ UNCHANGED <<ctor, initialized, handler, channel, incomingIds, established, out, mut, event, typed, app>>

Acknowledge(s, c) ==
  /\ ep[s][c].acked < ep[Other(s)][c].got
  /\ ep' = [ep EXCEPT ![s][c].acked = @ + 1, ![s][c].cq = @ + 1]
  /\ UNCHANGED <<ctor, initialized, handler, channel, incomingIds, established, out, mut, event, typed, app>>

\* pollCompletion with expected = 2 - completions
Poll(s, c) ==
  /\ ep[s][c].need # 0
  /\ \E n \in 1..ep[s][c].need : n <= ep[s][c].cq /\ ep' = [ep EXCEPT ![s][c].cq = @ - n, ![s][c].need = @ - n]
  /\ UNCHANGED <<ctor, initialized, handler, channel, incomingIds, established, out, mut, event, typed, app>>

Exchanged(s, c) == ep[s][c].need = 0

-----------------------------------------------------------------------------
(***************************************************************************)
(* The constructor; its member initialisers start the handler thread       *)
(* before initialized is constructed.  Its memory is taken to be zero then.*)
(***************************************************************************)

Init ==
  /\ ctor = "thread" /\ initialized = FALSE
  /\ handler = [pc |-> "start", conn |-> Nobody] /\ channel = <<>>
  /\ incomingIds = <<>> /\ established = {} /\ typed = {} /\ app = <<>>
  /\ out = [c \in Conns |-> "retry"] /\ event = [c \in Conns |-> "none"]
  /\ mut = [n \in Nodes |-> Nobody]
  /\ ep = [s \in Sides |-> [c \in Conns |-> NewEndpoint]]

Members ==
  /\ ctor = "thread"
  /\ ctor' = "members" /\ initialized' = FALSE
  /\ UNCHANGED <<handler, channel, incomingIds, established, out, mut, event, typed, app, ep>>

\* event channel, id, bind and listen, protection domain and memory region; then initialized
Listen ==
  /\ ctor = "members"
  /\ ctor' = "done" /\ initialized' = TRUE
  /\ UNCHANGED <<handler, channel, incomingIds, established, out, mut, event, typed, app, ep>>

-----------------------------------------------------------------------------
(* CM::handle *)

HandlerStart ==
  /\ handler.pc = "start" /\ initialized
  /\ handler' = [handler EXCEPT !.pc = "idle"]
  /\ UNCHANGED <<ctor, initialized, channel, incomingIds, established, out, mut, event, typed, app, ep>>

Take(e) == handler.pc = "idle" /\ channel # <<>> /\ Head(channel).e = e /\ channel' = Tail(channel)

\* CONNECT_REQUEST: queue pair, two receives, accept, and the context becomes visible
ConnectRequest ==
  LET c == Head(channel).conn IN
  /\ Take("request")
  /\ event' = [event EXCEPT ![c] = "established"]
  /\ incomingIds' = Append(incomingIds, c)
  /\ UNCHANGED <<ctor, initialized, handler, established, out, mut, typed, app, ep>>

\* ESTABLISHED: the thread exchanges the infos before it takes another event
Established ==
  LET c == Head(channel).conn IN
  /\ Take("established")
  /\ handler' = [pc |-> "exchange", conn |-> c]
  /\ ep' = [ep EXCEPT !["in"][c] = PostSend(@)]
  /\ UNCHANGED <<ctor, initialized, incomingIds, established, out, mut, event, typed, app>>

\* rkey, type, typeId and nodeId are set
SetType ==
  /\ handler.pc = "exchange" /\ Exchanged("in", handler.conn)
  /\ typed' = typed \cup {handler.conn}
  /\ handler' = [handler EXCEPT !.pc = "count"]
  /\ UNCHANGED <<ctor, initialized, channel, incomingIds, established, out, mut, event, app, ep>>

CountConnection ==
  /\ handler.pc = "count"
  /\ established' = established \cup {handler.conn}
  /\ handler' = [pc |-> "idle", conn |-> Nobody]
  /\ UNCHANGED <<ctor, initialized, channel, incomingIds, out, mut, event, typed, app, ep>>

-----------------------------------------------------------------------------
(* CM::initiateConnection, under outgoingMut of the initiating node *)

Lock(c) ==
  /\ out[c] = "retry" /\ mut[c[1]] = Nobody
  /\ mut' = [mut EXCEPT ![c[1]] = c] /\ out' = [out EXCEPT ![c] = "connect"]
  /\ UNCHANGED <<ctor, initialized, handler, channel, incomingIds, established, event, typed, app, ep>>

\* resolve the address, create the queue pair, post the receives, connect
Connect(c) ==
  /\ out[c] = "connect"
  /\ out' = [out EXCEPT ![c] = "event"]
  /\ IF ctor = "done" THEN channel' = Append(channel, [e |-> "request", conn |-> c]) /\ UNCHANGED event
     ELSE event' = [event EXCEPT ![c] = "rejected"] /\ UNCHANGED channel
  /\ UNCHANGED <<ctor, initialized, handler, incomingIds, established, mut, typed, app, ep>>

\* Mutant: the mutex is kept when the connection is tried again
RejectedKeepsMutex(c) ==
  /\ out[c] = "event" /\ event[c] = "rejected"
  /\ out' = [out EXCEPT ![c] = "retry"] /\ event' = [event EXCEPT ![c] = "none"]
  /\ UNCHANGED <<ctor, initialized, handler, channel, incomingIds, established, mut, typed, app, ep>>

\* another event than ESTABLISHED: everything is destroyed, the mutex released, and it starts again
Rejected(c) ==
  /\ out[c] = "event" /\ event[c] = "rejected"
  /\ out' = [out EXCEPT ![c] = "retry"] /\ event' = [event EXCEPT ![c] = "none"]
  /\ mut' = [mut EXCEPT ![c[1]] = Nobody]
  /\ UNCHANGED <<ctor, initialized, handler, channel, incomingIds, established, typed, app, ep>>

Accepted(c) ==
  /\ out[c] = "event" /\ event[c] = "established"
  /\ out' = [out EXCEPT ![c] = "info"] /\ event' = [event EXCEPT ![c] = "none"]
  /\ channel' = Append(channel, [e |-> "established", conn |-> c])
  /\ ep' = [ep EXCEPT !["out"][c] = PostSend(@)]
  /\ UNCHANGED <<ctor, initialized, handler, incomingIds, established, mut, typed, app>>

Initiated(c) ==
  /\ out[c] = "info" /\ Exchanged("out", c)
  /\ out' = [out EXCEPT ![c] = "initiated"]
  /\ mut' = [mut EXCEPT ![c[1]] = Nobody]
  /\ UNCHANGED <<ctor, initialized, handler, channel, incomingIds, established, event, typed, app, ep>>

-----------------------------------------------------------------------------
(* exchangeInitialMesssage by the thread that connected, and by init() at this node *)

OutExchange(c) ==
  /\ out[c] = "initiated"
  /\ out' = [out EXCEPT ![c] = "app"]
  /\ ep' = [ep EXCEPT !["out"][c] = PostSend(@)]
  /\ UNCHANGED <<ctor, initialized, handler, channel, incomingIds, established, mut, event, typed, app>>

OutDone(c) ==
  /\ out[c] = "app" /\ Exchanged("out", c)
  /\ out' = [out EXCEPT ![c] = "done"]
  /\ UNCHANGED <<ctor, initialized, handler, channel, incomingIds, established, mut, event, typed, app, ep>>

InApp == {app[i] : i \in 1..Len(app)}

\* after all connections are counted, one after the other
InExchange(c) ==
  /\ established = Conns /\ c \notin InApp
  /\ \A d \in InApp : Exchanged("in", d)
  /\ app' = Append(app, c)
  /\ ep' = [ep EXCEPT !["in"][c] = PostSend(@)]
  /\ UNCHANGED <<ctor, initialized, handler, channel, incomingIds, established, out, mut, event, typed>>

\* every connection is up at both ends
AllDone == (\A c \in Conns : out[c] = "done" /\ Exchanged("in", c)) /\ InApp = Conns

Server == \/ Members \/ Listen \/ HandlerStart \/ ConnectRequest \/ Established \/ SetType \/ CountConnection
          \/ \E c \in Conns : InExchange(c)
Client(c) == Lock(c) \/ Connect(c) \/ Rejected(c) \/ Accepted(c) \/ Initiated(c) \/ OutExchange(c) \/ OutDone(c)
Network(c) == \E s \in Sides : Deliver(s, c) \/ Acknowledge(s, c) \/ Poll(s, c)

Next == Server \/ \E c \in Conns : Client(c) \/ Network(c)

Spec == Init /\ [][Next]_vars

-----------------------------------------------------------------------------
(* Properties *)

\* What an exchange is for has arrived when it ends: the peer's RdmaInfo after the first, its InitMessage after
\* the second, although completions of the peer's next message may be counted for an own send.
ExchangeDelivers ==
  \A c \in Conns :
    /\ out[c] \in {"initiated", "app", "done"} => ep["out"][c].got >= 1
    /\ out[c] = "done" => ep["out"][c].got = 2
    /\ c \in typed => ep["in"][c].got >= 1
    /\ (c \in InApp /\ Exchanged("in", c)) => ep["in"][c].got = 2

\* init() of message handler and page provider use type, typeId and nodeId of counted connections only
\* after the handler thread has set them.
CountedIsTyped == established \subseteq typed
=============================================================================
