------------------------------ MODULE StartUp ------------------------------
(***************************************************************************)
(* How the nodes of a cluster come up together and go down together: the   *)
(* constructor and destructor of ScaleStore on every node, with the        *)
(* threads that message handler, worker pool and page provider start.      *)
(* Every thread has a list of things that it does one after the other and  *)
(* that block: connect to a node, exchange an InitMessage with the thread  *)
(* at the other end of a connection, call a node's message handler.        *)
(* (Handshake models a single connection in detail, Teardown its end.)     *)
(***************************************************************************)
EXTENDS Integers, Sequences, FiniteSets, SequencesExt

CONSTANTS
  N,     \* nodes, numbered from 0; node 0 owns the catalog page
  W      \* worker threads of a node; one thread each for message handler and page provider

Nodes == 0..N-1
Workers(n) == {<<"worker", n, i>> : i \in 1..W}
Mh(n) == <<"mh", n, 0>>
Pp(n) == <<"pp", n, 0>>
Main(n) == <<"main", n, 0>>
Threads == UNION {Workers(n) \cup {Mh(n), Pp(n), Main(n)} : n \in Nodes}

VARIABLES
  main,       \* [Nodes -> where constructor or destructor of ScaleStore is]
  prog,       \* [Threads -> what the thread still has to do]
  mh,         \* [Nodes -> state of the message handler thread]
  incoming,   \* [Nodes -> threads whose connections to the node are established]
  clients,    \* [Nodes -> connectedClients]
  mailbox,    \* [Nodes -> workers whose FinishRequest has not been handled]
  catalog     \* isInitialized of the catalog page

vars == <<main, prog, mh, incoming, clients, mailbox, catalog>>

Init ==
  /\ main = [n \in Nodes |-> "cm"] /\ prog = [t \in Threads |-> <<>>]
  /\ mh = [n \in Nodes |-> "off"] /\ incoming = [n \in Nodes |-> {}]
  /\ clients = [n \in Nodes |-> 0] /\ mailbox = [n \in Nodes |-> {}]
  /\ catalog = FALSE

-----------------------------------------------------------------------------
(* What threads do *)

Do(op, ms, t) == [k \in DOMAIN ms |-> [op |-> op, node |-> ms[k], thread |-> t]]

\* the other nodes, in the order of their numbers
Others(n) == [k \in 1..N-1 |-> IF k <= n THEN k - 1 ELSE k]

\* for every node, the mailboxes at the nodes other than both
Delegations(n) == [k \in 1..(N-1) * (N-2) |-> Others(n)[(k - 1) \div (N-2) + 1]]

\* connections to all nodes, exchanges in the order of the nodes, mailbox addresses for delegation
WorkerProgram(t) ==
  LET n == t[2] IN Do("connect", Others(n), t) \o Do("exchange", Others(n), t) \o Do("call", Delegations(n), t)

Higher(n) == [k \in 1..N-1-n |-> n + k]
PpProgram(n) == Do("connect", Higher(n), Pp(n)) \o Do("exchange", Higher(n), Pp(n))

IsAt(t, op) == prog[t] # <<>> /\ Head(prog[t]).op = op

\* initiateConnection, which tries again until the node listens; the connection is counted there
Connect(t) ==
  /\ IsAt(t, "connect")
  /\ LET m == Head(prog[t]).node IN
     /\ main[m] # "cm"
     /\ incoming' = [incoming EXCEPT ![m] = @ \cup {t}]
  /\ prog' = [prog EXCEPT ![t] = Tail(@)]
  /\ UNCHANGED <<main, mh, clients, mailbox, catalog>>

\* exchangeInitialMesssage: both ends of the connection of t to the node of u
Exchange(t, u) ==
  /\ IsAt(t, "exchange") /\ IsAt(u, "exchange")
  /\ Head(prog[t]).thread = t /\ Head(prog[u]).thread = t /\ u # t
  /\ Head(prog[t]).node = u[2]
  /\ prog' = [prog EXCEPT ![t] = Tail(@), ![u] = Tail(@)]
  /\ UNCHANGED <<main, mh, incoming, clients, mailbox, catalog>>

\* writeMsgSync: the message handler of the node answers in its loop
Call(t) ==
  /\ IsAt(t, "call")
  /\ LET m == Head(prog[t]).node IN mh[m] = "loop" /\ prog[Mh(m)] = <<>>
  /\ prog' = [prog EXCEPT ![t] = Tail(@)]
  /\ UNCHANGED <<main, mh, incoming, clients, mailbox, catalog>>

-----------------------------------------------------------------------------
(* Message handler *)

Remote(n) == UNION {Workers(m) : m \in Nodes \ {n}}
IncomingWorkers(n) == incoming[n] \cap Remote(n)

\* Mutant: the workers of one node only are awaited
ExpectedClientsOneNode(n) == W
ExpectedClients(n) == W * (N - 1)

\* init: all workers are connected; exchanges with them in a shuffled order; then the own endpoints for delegation
MhInit(n) ==
  /\ mh[n] = "init" /\ Cardinality(IncomingWorkers(n)) = W * (N - 1)
  /\ \E order \in SetToSeqs(IncomingWorkers(n)) :
       prog' = [prog EXCEPT ![Mh(n)] =
                  [k \in DOMAIN order |-> [op |-> "exchange", node |-> n, thread |-> order[k]]]
                  \o Do("connect", Others(n), Mh(n))]
  /\ mh' = [mh EXCEPT ![n] = "loop"]
  /\ UNCHANGED <<main, incoming, clients, mailbox, catalog>>

HandleFinish(n, w) ==
  /\ mh[n] = "loop" /\ prog[Mh(n)] = <<>> /\ w \in mailbox[n]
  /\ mailbox' = [mailbox EXCEPT ![n] = @ \ {w}]
  /\ clients' = [clients EXCEPT ![n] = @ - 1]
  /\ UNCHANGED <<main, prog, mh, incoming, catalog>>

-----------------------------------------------------------------------------
(* ScaleStore::ScaleStore *)

CmUp(n) ==
  /\ main[n] = "cm"
  /\ main' = [main EXCEPT ![n] = "mh"]
  /\ UNCHANGED <<prog, mh, incoming, clients, mailbox, catalog>>

\* the constructor starts the thread and does not wait for init
MhStart(n) ==
  /\ main[n] = "mh"
  /\ mh' = [mh EXCEPT ![n] = "init"] /\ clients' = [clients EXCEPT ![n] = ExpectedClients(n)]
  /\ prog' = [t \in Threads |-> IF t \in Workers(n) THEN WorkerProgram(t) ELSE prog[t]]
  /\ main' = [main EXCEPT ![n] = "pool"]
  /\ UNCHANGED <<incoming, mailbox, catalog>>

\* the pool waits for its workers; the page provider starts its thread and waits for its connections
PoolUp(n) ==
  /\ main[n] = "pool" /\ \A w \in Workers(n) : prog[w] = <<>>
  /\ prog' = [prog EXCEPT ![Pp(n)] = PpProgram(n)]
  /\ main' = [main EXCEPT ![n] = "ppinit"]
  /\ UNCHANGED <<mh, incoming, clients, mailbox, catalog>>

\* workers and message handlers of all other nodes, page providers of the lower ones
ExpectedConnections(n) == W * (N - 1) + n + (N - 1)

\* exchanges in the order in which the page providers of lower nodes have connected, which is any
PpInit(n) ==
  /\ main[n] = "ppinit" /\ Cardinality(incoming[n]) = ExpectedConnections(n)
  /\ \E pps \in SetToSeqs({t \in incoming[n] : t[1] = "pp"}) :
        prog' = [prog EXCEPT ![Main(n)] = [k \in DOMAIN pps |-> [op |-> "exchange", node |-> n, thread |-> pps[k]]]]
  /\ main' = [main EXCEPT ![n] = "pp"]
  /\ UNCHANGED <<mh, incoming, clients, mailbox, catalog>>

PpUp(n) ==
  /\ main[n] = "pp" /\ prog[Main(n)] = <<>> /\ prog[Pp(n)] = <<>>
  /\ main' = [main EXCEPT ![n] = "catalog"]
  /\ UNCHANGED <<prog, mh, incoming, clients, mailbox, catalog>>

\* worker 0 runs Catalog::init; the other nodes read the page through the owner's message handler until it is set
CatalogInit(n) ==
  /\ main[n] = "catalog"
  /\ \/ n = 0 /\ catalog' = TRUE
     \/ n # 0 /\ catalog /\ mh[0] = "loop" /\ prog[Mh(0)] = <<>> /\ UNCHANGED catalog
  /\ main' = [main EXCEPT ![n] = "up"]
  /\ UNCHANGED <<prog, mh, incoming, clients, mailbox>>

\* jobs: every worker needs the message handlers of the other nodes once more
Job(n) ==
  /\ main[n] = "up"
  /\ prog' = [t \in Threads |-> IF t \in Workers(n) THEN Do("call", Others(n), t) ELSE prog[t]]
  /\ main' = [main EXCEPT ![n] = "job"]
  /\ UNCHANGED <<mh, incoming, clients, mailbox, catalog>>

-----------------------------------------------------------------------------
(* ScaleStore::~ScaleStore *)

\* workerPool.reset(): the workers have ended their jobs and are deleted, each of them sends FinishRequests
PoolReset(n) ==
  /\ main[n] = "job" /\ \A w \in Workers(n) : prog[w] = <<>>
  /\ mailbox' = [m \in Nodes |-> IF m = n THEN mailbox[m] ELSE mailbox[m] \cup Workers(n)]
  /\ main' = [main EXCEPT ![n] = "guard"]
  /\ UNCHANGED <<prog, mh, incoming, clients, catalog>>

\* ~RemoteGuard
RemoteGuard(n) ==
  /\ main[n] = "guard" /\ clients[n] = 0
  /\ main' = [main EXCEPT ![n] = "ppstop"]
  /\ UNCHANGED <<prog, mh, incoming, clients, mailbox, catalog>>

\* stopThread of page provider, then of message handler, whose loop ends when no client is connected
PpStop(n) ==
  /\ main[n] = "ppstop"
  /\ main' = [main EXCEPT ![n] = "mhstop"]
  /\ UNCHANGED <<prog, mh, incoming, clients, mailbox, catalog>>

MhStop(n) ==
  /\ main[n] = "mhstop" /\ clients[n] = 0
  /\ mh' = [mh EXCEPT ![n] = "stopped"] /\ main' = [main EXCEPT ![n] = "gone"]
  /\ UNCHANGED <<prog, incoming, clients, mailbox, catalog>>

-----------------------------------------------------------------------------
Node(n) == CmUp(n) \/ MhStart(n) \/ PoolUp(n) \/ PpInit(n) \/ PpUp(n) \/ CatalogInit(n) \/ Job(n)
           \/ PoolReset(n) \/ RemoteGuard(n) \/ PpStop(n) \/ MhStop(n) \/ MhInit(n)
           \/ \E w \in Remote(n) : HandleFinish(n, w)
Run(t) == Connect(t) \/ Call(t) \/ \E u \in Threads : Exchange(t, u)

Next == (\E n \in Nodes : Node(n)) \/ (\E t \in Threads : Run(t))

Spec == Init /\ [][Next]_vars

-----------------------------------------------------------------------------
(* Properties *)

\* the constructor on every node has returned, and all nodes have gone down
AllGone == \A n \in Nodes : main[n] = "gone"

\* A message handler is there as long as a worker of another node may call it.
ServedWhileWorking ==
  \A n \in Nodes : mh[n] = "stopped" => \A t \in Remote(n) : prog[t] = <<>> /\ main[t[2]] \in {"guard", "ppstop", "mhstop", "gone"}

\* PageProvider::init waits for an exact number of connections, so it may not miss it.
CountNotMissed == \A n \in Nodes : main[n] \in {"cm", "mh", "pool", "ppinit"} => Cardinality(incoming[n]) <= ExpectedConnections(n)
=============================================================================
