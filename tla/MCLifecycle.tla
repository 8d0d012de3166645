---------------------------- MODULE MCLifecycle ----------------------------
(***************************************************************************)
(* How a cluster comes up, runs jobs, meets at barriers, is profiled and   *)
(* goes down, on small instances.  A behaviour is one of a part: the       *)
(* others keep their initial state.                                        *)
(***************************************************************************)
EXTENDS Integers, Sequences, FiniteSetTheorems, TLAPS

CONSTANTS
  Parts,
  Peers, ThreadsPerPeer,                       \* Handshake
  NodeCount, WorkersPerNode,                   \* StartUp
  PoolSize, MaxJobs,                           \* WorkerPool
  Counting, MaxCount, MaxWorkloads,            \* Profiling
  Incoming, Outgoing,                          \* Teardown
  BarrierThreads, RoundMod, MaxRounds, MaxPageRounds,
  CatalogNodes, CatalogOwner, MaxEntries       \* Catalog

(* The pool has a worker; a barrier is for a finite number of threads, and  *)
(* its round, a 64 bit counter in the code, has at least two values; the   *)
(* connections that come in are counted, so there are finitely many; a     *)
(* cluster has a node, and a node may be started without workers.          *)
ASSUME BoundsAssumption ==
  /\ MaxEntries \in Nat /\ PoolSize \in Nat \ {0}
  /\ RoundMod \in Nat \ {0, 1} /\ IsFiniteSet(BarrierThreads) /\ IsFiniteSet(Incoming)
  /\ NodeCount \in Nat \ {0} /\ WorkersPerNode \in Nat

VARIABLES
  part,       \* the one that runs
  \* Handshake
  ctor, initialized, shakeHandler, shakeChannel, incomingIds, established, out, mut, event, typed, app, ep,
  \* StartUp
  startUpMain, prog, mh, incoming, clients, mailbox, catalog,
  \* WorkerPool
  poolPc, caller, poolMutex, asleep, jobSet, jobDone, job, keepRunning, runningThreads, jobs, scheduled,
  executed, awaited,
  \* Profiling
  registered, profileMutex, profilePc, counter, local, done, running, profiler, todo, agg, reported, info,
  profileMain, workloads,
  \* Teardown
  dtor, teardownUp, ids, teardownChannel, exists, numberConnections, teardownHandler, outEvents, undrained,
  \* Barrier
  cntr, round, barrierPc, barrierPrevRound, barrierCalls, barrierRounds,
  \* DistributedBarrier
  body, holder, version, pagePc, pagePrevRound, seen, pageCalls, pageRounds,
  \* Catalog
  isInitialized, datastructureIds, entries, catalogUp, waits, ref, created

shakeVars == <<ctor, initialized, shakeHandler, shakeChannel, incomingIds, established, out, mut, event,
               typed, app, ep>>
startUpVars == <<startUpMain, prog, mh, incoming, clients, mailbox, catalog>>
poolVars == <<poolPc, caller, poolMutex, asleep, jobSet, jobDone, job, keepRunning, runningThreads, jobs,
              scheduled, executed, awaited>>
profileVars == <<registered, profileMutex, profilePc, counter, local, done, running, profiler, todo, agg,
                 reported, info, profileMain, workloads>>
teardownVars == <<dtor, teardownUp, ids, teardownChannel, exists, numberConnections, teardownHandler,
                  outEvents, undrained>>
barrierVars == <<cntr, round, barrierPc, barrierPrevRound, barrierCalls, barrierRounds>>
pageVars == <<body, holder, version, pagePc, pagePrevRound, seen, pageCalls, pageRounds>>
catalogVars == <<isInitialized, datastructureIds, entries, catalogUp, waits, ref, created>>
vars == <<part, shakeVars, startUpVars, poolVars, profileVars, teardownVars, barrierVars, pageVars, catalogVars>>

Shake(nodes, k) == INSTANCE Handshake WITH Nodes <- nodes, K <- k, handler <- shakeHandler, channel <- shakeChannel
U == INSTANCE StartUp WITH N <- NodeCount, W <- WorkersPerNode, main <- startUpMain
P == INSTANCE WorkerPool WITH Workers <- 1..PoolSize, pc <- poolPc, mutex <- poolMutex
C == INSTANCE Profiling WITH Threads <- Counting, mutex <- profileMutex, pc <- profilePc, main <- profileMain
D == INSTANCE Teardown WITH In <- Incoming, Out <- Outgoing, up <- teardownUp, channel <- teardownChannel,
                            handler <- teardownHandler
B == INSTANCE Barrier WITH Threads <- BarrierThreads, pc <- barrierPc, prevRound <- barrierPrevRound, calls <-
                           barrierCalls, rounds <- barrierRounds
G == INSTANCE DistributedBarrier WITH Threads <- BarrierThreads, MaxRounds <- MaxPageRounds, pc <- pagePc,
                                      prevRound <- pagePrevRound, calls <- pageCalls, rounds <- pageRounds
K == INSTANCE Catalog WITH Nodes <- CatalogNodes, Owner <- CatalogOwner, up <- catalogUp

\* one connection from each of several nodes, and all the connections of one of them
OnePeer == {CHOOSE n \in Peers : TRUE}

\* only the part p runs
Rest(p) == /\ IF p \in {"nodes connect", "threads connect"} THEN TRUE ELSE UNCHANGED shakeVars
           /\ IF p = "start-up" THEN TRUE ELSE UNCHANGED startUpVars
           /\ IF p = "pool" THEN TRUE ELSE UNCHANGED poolVars
           /\ IF p = "profiling" THEN TRUE ELSE UNCHANGED profileVars
           /\ IF p = "teardown" THEN TRUE ELSE UNCHANGED teardownVars
           /\ IF p = "barrier" THEN TRUE ELSE UNCHANGED barrierVars
           /\ IF p = "barrier page" THEN TRUE ELSE UNCHANGED pageVars
           /\ IF p = "catalog" THEN TRUE ELSE UNCHANGED catalogVars
           /\ UNCHANGED part

Init == /\ part \in Parts
        /\ IF part = "threads connect" THEN Shake(OnePeer, ThreadsPerPeer)!Init ELSE Shake(Peers, 1)!Init
        /\ U!Init /\ P!Init /\ C!Init /\ D!Init /\ B!Init /\ G!Init /\ K!Init

NodesConnect == part = "nodes connect" /\ Shake(Peers, 1)!Next /\ Rest("nodes connect")
ThreadsConnect == part = "threads connect" /\ Shake(OnePeer, ThreadsPerPeer)!Next /\ Rest("threads connect")
StartUp == part = "start-up" /\ U!Next /\ Rest("start-up")
Pool == part = "pool" /\ P!Next /\ Rest("pool")
Profile == part = "profiling" /\ C!Next /\ Rest("profiling")
Teardown == part = "teardown" /\ D!Next /\ Rest("teardown")
Barrier == part = "barrier" /\ B!Next /\ Rest("barrier")
BarrierPage == part = "barrier page" /\ G!Next /\ Rest("barrier page")
Catalog == part = "catalog" /\ K!Next /\ Rest("catalog")

Next == NodesConnect \/ ThreadsConnect \/ StartUp \/ Pool \/ Profile \/ Teardown \/ Barrier \/ BarrierPage
        \/ Catalog

-----------------------------------------------------------------------------
(* Fairness *)

\* the threads of both sides run on and the network delivers
HServer == part = "nodes connect" /\ Shake(Peers, 1)!Server /\ Rest("nodes connect")
HClient(c) == part = "nodes connect" /\ Shake(Peers, 1)!Client(c) /\ Rest("nodes connect")
HNetwork(c) == part = "nodes connect" /\ Shake(Peers, 1)!Network(c) /\ Rest("nodes connect")
TServer == part = "threads connect" /\ Shake(OnePeer, ThreadsPerPeer)!Server /\ Rest("threads connect")
TClient(c) == part = "threads connect" /\ Shake(OnePeer, ThreadsPerPeer)!Client(c) /\ Rest("threads connect")
TNetwork(c) == part = "threads connect" /\ Shake(OnePeer, ThreadsPerPeer)!Network(c) /\ Rest("threads connect")

\* every node and every thread runs on
NodeStep(n) == part = "start-up" /\ U!Node(n) /\ Rest("start-up")
ThreadStep(t) == part = "start-up" /\ U!Run(t) /\ Rest("start-up")

\* whoever waits for a mutex that is free again and again gets it, although threads wake up for nothing;
\* the main thread need not call anything
CallerStep == part = "pool" /\ P!Step /\ Rest("pool")
PoolWorker(t) == part = "pool" /\ P!Worker(t) /\ Rest("pool")

\* the profiling thread and its caller run on
ProfilerStep == part = "profiling" /\ C!ProfilerStep /\ Rest("profiling")
ProfilerCaller == part = "profiling" /\ C!MainStep /\ Rest("profiling")

Destructor == part = "teardown" /\ D!Destructor /\ Rest("teardown")
CmHandler == part = "teardown" /\ D!Handler /\ Rest("teardown")

BarrierThread(t) == part = "barrier" /\ B!Thread(t) /\ Rest("barrier")
PageThread(t) == part = "barrier page" /\ G!Thread(t) /\ Rest("barrier page")

\* a node that looks something up tries again
Lookup(n) == part = "catalog" /\ K!Progress(n) /\ Rest("catalog")

Fairness ==
  /\ WF_vars(HServer) /\ \A c \in Shake(Peers, 1)!Conns : WF_vars(HClient(c)) /\ WF_vars(HNetwork(c))
  /\ WF_vars(TServer)
  /\ \A c \in Shake(OnePeer, ThreadsPerPeer)!Conns : WF_vars(TClient(c)) /\ WF_vars(TNetwork(c))
  /\ \A n \in U!Nodes : WF_vars(NodeStep(n))
  /\ \A t \in U!Threads : WF_vars(ThreadStep(t))
  /\ SF_vars(CallerStep) /\ \A t \in 1..PoolSize : SF_vars(PoolWorker(t))
  /\ WF_vars(ProfilerStep) /\ WF_vars(ProfilerCaller)
  /\ WF_vars(Destructor) /\ WF_vars(CmHandler)
  /\ \A t \in BarrierThreads : WF_vars(BarrierThread(t)) /\ WF_vars(PageThread(t))
  /\ \A n \in CatalogNodes : WF_vars(Lookup(n))

Spec == Init /\ [][Next]_vars /\ Fairness

-----------------------------------------------------------------------------
(* Properties *)

(***************************************************************************)
(* What an exchange is for has arrived when it ends, although completions  *)
(* of the peer's next message may be counted for an own send; a counted    *)
(* connection has its type; and the handler thread of the connections ends *)
(* only when all of them are disconnected (CM::handle, ~CM).               *)
(***************************************************************************)
ExchangeDelivers ==
  /\ part = "nodes connect" => Shake(Peers, 1)!ExchangeDelivers /\ Shake(Peers, 1)!CountedIsTyped
  /\ part = "threads connect" => /\ Shake(OnePeer, ThreadsPerPeer)!ExchangeDelivers
                                 /\ Shake(OnePeer, ThreadsPerPeer)!CountedIsTyped
  /\ D!HandlerStaysForConnections

(***************************************************************************)
(* A message handler is there as long as a worker of another node may call *)
(* it, and a page provider that waits for an exact number of connections   *)
(* does not miss it (constructor and destructor of ScaleStore on all       *)
(* nodes).                                                                 *)
(***************************************************************************)
ServedWhileWorking ==
  part = "start-up" => U!ServedWhileWorking /\ U!CountNotMissed

(***************************************************************************)
(* A worker runs its jobs once and in order, and when scheduleJobSync or   *)
(* joinAll has returned, what they wait for has been run.                  *)
(***************************************************************************)
JobsRunOnce == P!OnceInOrder /\ P!AwaitedIsExecuted

(***************************************************************************)
(* The profiling thread touches only counters of threads that exist and    *)
(* the WorkloadInfo only while it is in scope, and loses no increment.     *)
(***************************************************************************)
CountersAreSafe == C!TouchesOnlyLive /\ C!NothingIsLost /\ C!InfoIsAlive

(***************************************************************************)
(* The barrier of two atomics and the barrier page are barriers: nobody    *)
(* leaves a round that somebody has not come to, although slow threads     *)
(* still spin in it when the next one begins and round wraps around.  The  *)
(* finalizer runs while all the others wait.                               *)
(***************************************************************************)
BarriersHold == B!IsBarrier /\ G!IsBarrier /\ []B!FinalizerAlone

(***************************************************************************)
(* Nodes that create structures at the same time get different identifiers *)
(* without gaps, each with its own entry for ever; a lookup that comes     *)
(* before the creation waits (Catalog::insertCatalogEntry, getCatalogEntry)*)
(***************************************************************************)
IdsAreUnique == K!IdsAreUnique /\ K!LookupWaits

(***************************************************************************)
(* All get on: connections come up although they are rejected at first;    *)
(* the nodes of a cluster come up and go down together, so that threads    *)
(* that connect, exchange and call never wait in a circle; calls of the    *)
(* worker pool return; the profiler stops when told to; the destructor of  *)
(* CM gets past its channels; threads get through barriers; and a lookup   *)
(* of what is in the catalog returns.                                      *)
(***************************************************************************)
EveryoneGetsOn ==
  /\ <>[](part = "nodes connect" => Shake(Peers, 1)!AllDone)
  /\ <>[](part = "threads connect" => Shake(OnePeer, ThreadsPerPeer)!AllDone)
  /\ <>[](part = "start-up" => U!AllGone)
  /\ []<>(~P!InCall)
  /\ []<>(profileMain \notin {"join", "stopped"})
  /\ []<>(dtor \notin {"drain", "destroy"})
  /\ <>[](part = "barrier" => B!AllRoundsDone) /\ <>[](part = "barrier page" => G!AllRoundsDone)
  /\ \A n \in CatalogNodes : []<>(~K!Overdue(n))
-----------------------------------------------------------------------------
(***************************************************************************)
(* Proofs: the catalog, the worker pool, the two barriers, the handshake   *)
(* and the teardown of connections, the counters, and how a cluster comes  *)
(* up and goes down, each with its inductive invariant, for every number   *)
(* of nodes, entries, workers, jobs, threads and connections.              *)
(***************************************************************************)

(* A step of one part is a step of this part, or leaves it alone. *)
LEMMA PartsAreApart ==
  [Next]_vars => /\ [P!Next]_poolVars /\ [B!Next]_barrierVars
                 /\ [G!Next]_pageVars /\ [K!Next]_catalogVars /\ [D!Next]_teardownVars
                 /\ [C!Next]_profileVars /\ [U!Next]_startUpVars
BY DEF Next, vars, NodesConnect, ThreadsConnect, StartUp, Pool, Profile, Teardown, Barrier,
   BarrierPage, Catalog, Rest

-----------------------------------------------------------------------------
(* The catalog: the entries that were made are those below the counter. *)
CatalogInv ==
  /\ datastructureIds \in Nat
  /\ entries \in [K!Ids -> [datastructureId : Nat, type : {"EMPTY", "DS"}, pid : Int]]
  /\ created \in [K!Ids -> Int]
  /\ waits \in [CatalogNodes -> K!Ids \cup {K!None}]
  /\ ref \in [CatalogNodes -> K!Ids \cup {K!None}]
  /\ \A i \in K!Ids : /\ i < datastructureIds <=> created[i] # K!None
                      /\ i < datastructureIds <=> entries[i].type # "EMPTY"
                      /\ i < datastructureIds =>
                           entries[i].pid = created[i] /\ entries[i].datastructureId = i
  /\ \A n \in CatalogNodes : ref[n] # K!None => ref[n] < datastructureIds

(* The catalog page is empty at first. *)
LEMMA CatalogInit == K!Init => CatalogInv
BY BoundsAssumption DEF K!Init, CatalogInv, K!Empty, K!None, K!Ids

(* An entry is made where the counter stands, which then goes on; a lookup *)
(* returns only an entry that was made.                                    *)
LEMMA CatalogStep == CatalogInv /\ [K!Next]_catalogVars => CatalogInv'
<1> SUFFICES ASSUME CatalogInv, [K!Next]_catalogVars PROVE CatalogInv'
  OBVIOUS
<1> USE BoundsAssumption DEF CatalogInv, K!Ids, K!None
<1>1. CASE UNCHANGED catalogVars
  BY <1>1 DEF catalogVars
<1>2. ASSUME NEW n \in CatalogNodes, K!CatalogInit(n) PROVE CatalogInv'
  BY <1>2 DEF K!CatalogInit
<1>3. ASSUME NEW n \in CatalogNodes, K!GetCatalogEntry(n) PROVE CatalogInv'
  <2>1. waits[n] \in K!Ids /\ UNCHANGED <<isInitialized, datastructureIds, entries, created>>
    BY <1>3 DEF K!GetCatalogEntry
  <2>2. CASE K!Found(waits[n])
    <3>1. waits[n] < datastructureIds
      BY <2>1, <2>2 DEF K!Found
    <3>2. ref' = [ref EXCEPT ![n] = waits[n]] /\ waits' = [waits EXCEPT ![n] = K!None]
      BY <1>3, <2>2 DEF K!GetCatalogEntry
    <3> QED
      BY <2>1, <3>1, <3>2
  <2>3. CASE ~K!Found(waits[n])
    BY <1>3, <2>1, <2>3 DEF K!GetCatalogEntry
  <2> QED
    BY <2>2, <2>3
<1>4. ASSUME NEW n \in CatalogNodes, K!UseReference(n) PROVE CatalogInv'
  BY <1>4 DEF K!UseReference
<1>5. ASSUME NEW n \in CatalogNodes, NEW p \in 1..MaxEntries, K!InsertCatalogEntry(n, p)
      PROVE  CatalogInv'
  <2> DEFINE d == datastructureIds
             e == [datastructureId |-> d, type |-> "DS", pid |-> p]
  <2>1. /\ d \in Nat /\ d < MaxEntries /\ datastructureIds' = d + 1 /\ waits' = waits /\ ref' = ref
        /\ entries' = [entries EXCEPT ![d] = e] /\ created' = [created EXCEPT ![d] = p]
    BY <1>5 DEF K!InsertCatalogEntry
  <2>2. /\ d \in K!Ids /\ entries'[d] = e /\ created'[d] = p
        /\ \A i \in K!Ids : i # d => entries'[i] = entries[i] /\ created'[i] = created[i]
        /\ p \in Int /\ p # K!None
    BY <2>1
  <2>3. /\ entries' \in [K!Ids -> [datastructureId : Nat, type : {"EMPTY", "DS"}, pid : Int]]
        /\ created' \in [K!Ids -> Int]
    BY <2>1
  <2>4. ASSUME NEW i \in K!Ids
        PROVE  /\ i < datastructureIds' <=> created'[i] # K!None
               /\ i < datastructureIds' <=> entries'[i].type # "EMPTY"
               /\ i < datastructureIds' => entries'[i].pid = created'[i] /\ entries'[i].datastructureId = i
    <3>1. CASE i = d
      BY <2>1, <2>2, <3>1
    <3>2. CASE i # d
      <4>1. entries'[i] = entries[i] /\ created'[i] = created[i] /\ (i < d + 1 <=> i < d)
        BY <2>1, <2>2, <3>2
      <4> QED
        BY ONLY CatalogInv, <2>1, <4>1 DEF CatalogInv
    <3> QED
      BY <3>1, <3>2
  <2>5. \A m \in CatalogNodes : ref'[m] # K!None => ref'[m] < datastructureIds'
    <3>1. ref' = ref /\ datastructureIds' = datastructureIds + 1 /\ datastructureIds \in Nat
      BY <2>1
    <3>2. \A m \in CatalogNodes : ref[m] \in Int
      OBVIOUS
    <3> QED
      BY ONLY CatalogInv, <3>1, <3>2 DEF CatalogInv
  <2>6. /\ datastructureIds' \in Nat
        /\ waits' \in [CatalogNodes -> K!Ids \cup {K!None}]
        /\ ref' \in [CatalogNodes -> K!Ids \cup {K!None}]
    BY <2>1
  <2> HIDE DEF e
  <2> QED
    BY <2>3, <2>4, <2>5, <2>6
<1>6. ASSUME NEW n \in CatalogNodes, NEW id \in K!Ids \ {MaxEntries}, K!Call(n, id)
      PROVE  CatalogInv'
  BY <1>6 DEF K!Call
<1> QED
  BY <1>1, <1>2, <1>3, <1>4, <1>5, <1>6 DEF K!Next, K!Progress

(* Nodes that create data structures at the same time get different        *)
(* identifiers without gaps, and a lookup that comes too early waits, for  *)
(* every number of nodes and entries (Catalog::insertCatalogEntry,         *)
(* getCatalogEntry).                                                       *)
THEOREM EntriesAreUnique == Spec => []IdsAreUnique
<1>1. CatalogInv => IdsAreUnique
  BY DEF CatalogInv, IdsAreUnique, K!IdsAreUnique, K!LookupWaits
<1>2. Init => K!Init
  BY DEF Init
<1> QED
  BY <1>1, <1>2, CatalogInit, CatalogStep, PartsAreApart, PTL DEF Spec

-----------------------------------------------------------------------------
(* The worker pool *)

PoolTypes ==
  /\ poolPc \in [1..PoolSize ->
       {"start", "loop", "test", "sleep", "asleep", "run", "ran", "break", "off"}]
  /\ caller \in [pc : {"construct", "idle", "lock", "relock", "test", "testDone", "sleep",
                       "sleepDone", "asleep", "asleepDone", "set", "notify", "return",
                       "joined", "wake", "await", "deleted"},
                 op : {"none", "sync", "async", "join", "stop"}, t : 1..PoolSize]
  /\ poolMutex \in [1..PoolSize -> {"free", "worker", "caller"}]
  /\ jobSet \in [1..PoolSize -> BOOLEAN] /\ jobDone \in [1..PoolSize -> BOOLEAN]
  /\ job \in [1..PoolSize -> Nat] /\ jobs \in Nat
  /\ scheduled \in [1..PoolSize -> Seq(Nat)] /\ executed \in [1..PoolSize -> Seq(Nat)]

(* Who is inside has the worker's mutex, *)
MutexHeld ==
  /\ \A t \in 1..PoolSize :
       poolPc[t] \in {"test", "sleep", "run", "ran", "break"} => poolMutex[t] = "worker"
  /\ caller.pc \in {"test", "testDone", "sleep", "sleepDone", "set", "return", "joined"} =>
       poolMutex[caller.t] = "caller"

(* a job that is set is the only one that a worker has not run, ... *)
OneJobAhead ==
  \A t \in 1..PoolSize :
    /\ jobSet[t] /\ poolPc[t] # "ran" => scheduled[t] = Append(executed[t], job[t])
    /\ ~jobSet[t] \/ poolPc[t] = "ran" => scheduled[t] = executed[t]
    /\ poolPc[t] \in {"run", "ran"} => jobSet[t]
    /\ jobDone[t] => ~jobSet[t]

(* ... and a call goes on only when none is set: joinAll past a worker, a   *)
(* synchronous call to its end, every call that sets one.                  *)
CallWaits ==
  /\ caller.pc \in {"set", "joined", "return"} => ~jobSet[caller.t]
  /\ caller.pc \in {"notify", "relock", "testDone", "sleepDone", "asleepDone", "return"} =>
       caller.op # "join" /\ scheduled[caller.t] # <<>>
  /\ caller.pc = "set" => caller.op # "join"
  /\ caller.pc = "joined" => caller.op = "join"
  /\ caller.pc \in {"wake", "await", "deleted"} => caller.op # "join"
  /\ caller.op = "join" /\ caller.pc # "idle" =>
       \A u \in 1..PoolSize : u < caller.t => ~jobSet[u]

(* a worker has run job j *)
Ran(j) == \E t \in 1..PoolSize : \E i \in 1..Len(executed[t]) : executed[t][i] = j

PoolInv == PoolTypes /\ MutexHeld /\ OneJobAhead /\ CallWaits /\ \A j \in awaited : Ran(j)

(* The pool starts without jobs. *)
LEMMA PoolInit == P!Init => PoolInv
<1> SUFFICES ASSUME P!Init PROVE PoolInv
  OBVIOUS
<1>1. PoolTypes /\ MutexHeld /\ CallWaits
  BY BoundsAssumption DEF P!Init, PoolTypes, MutexHeld, CallWaits
<1>2. OneJobAhead
  BY DEF P!Init, OneJobAhead
<1>3. awaited = {}
  BY DEF P!Init
<1> QED
  BY <1>1, <1>2, <1>3 DEF PoolInv

(* A step that gives no job, runs none and ends no call that waits *)
SameJobs == UNCHANGED <<jobSet, jobDone, job, jobs, scheduled, executed, awaited>>

(* A worker starts, takes its mutex, tests, sleeps, wakes up or ends: no   *)
(* job is given or run.                                                    *)
LEMMA WorkerMoves ==
  ASSUME PoolInv, NEW t \in 1..PoolSize,
         P!WorkerStart(t) \/ P!WorkerLoop(t) \/ P!WorkerTest(t) \/ P!WorkerSleep(t)
           \/ P!WorkerWake(t) \/ P!WorkerBreak(t) \/ P!Spurious(t)
  PROVE  PoolInv'
<1>1. SameJobs /\ caller' = caller
  BY DEF P!WorkerStart, P!WorkerLoop, P!WorkerTest, P!WorkerSleep, P!WorkerWake, P!WorkerBreak,
     P!Spurious, P!flags, P!history, SameJobs
<1>2. /\ PoolTypes' /\ MutexHeld'
      /\ \A u \in 1..PoolSize : /\ poolPc'[u] = "ran" <=> poolPc[u] = "ran"
                                /\ poolPc'[u] = "run" => poolPc[u] = "run" \/ jobSet[u]
  <2> USE <1>1 DEF PoolInv, PoolTypes, MutexHeld, SameJobs
  <2>1. CASE P!WorkerStart(t)
    BY <2>1 DEF P!WorkerStart
  <2>2. CASE P!WorkerLoop(t)
    <3>1. CASE keepRunning
      <4>1. /\ poolMutex[t] = "free" /\ poolPc[t] = "loop"
            /\ poolMutex' = [poolMutex EXCEPT ![t] = "worker"] /\ poolPc' = [poolPc EXCEPT ![t] = "test"]
        BY <2>2, <3>1 DEF P!WorkerLoop
      <4>2. caller.pc \in {"test", "testDone", "sleep", "sleepDone", "set", "return", "joined"} =>
              caller.t # t
        BY <4>1
      <4> QED
        BY <4>1, <4>2
    <3>2. CASE ~keepRunning
      <4>1. /\ poolPc[t] = "loop" /\ poolMutex' = poolMutex
            /\ poolPc' = [poolPc EXCEPT ![t] = "off"]
        BY <2>2, <3>2 DEF P!WorkerLoop
      <4> QED
        BY <4>1
    <3> QED
      BY <3>1, <3>2
  <2>3. CASE P!WorkerTest(t)
    BY <2>3 DEF P!WorkerTest
  <2>4. CASE P!WorkerSleep(t)
    BY <2>4 DEF P!WorkerSleep
  <2>5. CASE P!WorkerWake(t)
    BY <2>5 DEF P!WorkerWake
  <2>6. CASE P!WorkerBreak(t)
    BY <2>6 DEF P!WorkerBreak
  <2>7. CASE P!Spurious(t)
    BY <2>7 DEF P!Spurious
  <2> QED
    BY <2>1, <2>2, <2>3, <2>4, <2>5, <2>6, <2>7
<1>3. OneJobAhead'
  BY <1>1, <1>2 DEF PoolInv, OneJobAhead, SameJobs
<1>4. CallWaits' /\ \A j \in awaited' : Ran(j)'
  BY <1>1 DEF PoolInv, CallWaits, SameJobs, Ran
<1> QED
  BY <1>2, <1>3, <1>4 DEF PoolInv

(* The worker runs its job, which is the next one in order. *)
LEMMA WorkerRuns ==
  ASSUME PoolInv, NEW t \in 1..PoolSize, P!WorkerRun(t)
  PROVE  PoolInv'
<1> USE DEF PoolInv, PoolTypes
<1>1. /\ poolPc[t] = "run" /\ poolPc' = [poolPc EXCEPT ![t] = "ran"]
      /\ executed' = [executed EXCEPT ![t] = Append(@, job[t])]
      /\ UNCHANGED <<caller, poolMutex, jobSet, jobDone, job, jobs, scheduled, awaited>>
  BY DEF P!WorkerRun, P!flags
<1>2. MutexHeld' /\ CallWaits'
  BY <1>1 DEF MutexHeld, CallWaits
<1>6. PoolTypes'
  <2>1. executed[t] \in Seq(Nat) /\ job[t] \in Nat
    OBVIOUS
  <2>2. Append(executed[t], job[t]) \in Seq(Nat)
    BY <2>1 DEF PoolInv
  <2> QED
    BY <1>1, <2>2
<1>3. OneJobAhead'
  BY <1>1 DEF OneJobAhead
<1>4. ASSUME NEW j \in awaited' PROVE Ran(j)'
  <2>0. PICK u \in 1..PoolSize : \E i \in 1..Len(executed[u]) : executed[u][i] = j
    BY <1>1, <1>4 DEF Ran
  <2>1. PICK i \in 1..Len(executed[u]) : executed[u][i] = j
    BY <2>0
  <2>2. i \in 1..Len(executed'[u]) /\ executed'[u][i] = j
    BY <1>1, <2>1
  <2> QED
    BY <2>1, <2>2 DEF Ran
<1> QED
  BY <1>6, <1>2, <1>3, <1>4

(* The worker says that its job is done and releases its mutex. *)
LEMMA WorkerEnds ==
  ASSUME PoolInv, NEW t \in 1..PoolSize, P!WorkerRan(t)
  PROVE  PoolInv'
<1> USE DEF PoolInv, PoolTypes
<1>1. /\ poolPc[t] = "ran" /\ poolPc' = [poolPc EXCEPT ![t] = "loop"]
      /\ jobDone' = [jobDone EXCEPT ![t] = TRUE] /\ jobSet' = [jobSet EXCEPT ![t] = FALSE]
      /\ poolMutex' = [poolMutex EXCEPT ![t] = "free"]
      /\ UNCHANGED <<caller, job, jobs, scheduled, executed, awaited>>
  BY DEF P!WorkerRan, P!history
<1>2. PoolTypes' /\ MutexHeld'
  BY <1>1 DEF MutexHeld
<1>3. OneJobAhead'
  BY <1>1 DEF OneJobAhead
<1>4. CallWaits'
  BY <1>1 DEF CallWaits
<1>5. \A j \in awaited' : Ran(j)'
  BY ONLY PoolInv, <1>1 DEF PoolInv, Ran
<1> QED
  BY <1>2, <1>3, <1>4, <1>5

(* The caller takes the mutex, tests, sleeps, or goes on without a job. *)
LEMMA CallerMoves ==
  ASSUME PoolInv,
         P!Constructed \/ P!LockMutex \/ P!TestPredicate \/ P!CallerSleep \/ P!CallerWake
           \/ P!NotifyWorker \/ P!NotifyStopped \/ P!Stopped \/ P!Stop
           \/ \E op \in {"sync", "async", "join"}, t \in 1..PoolSize : P!Begin(op, t)
  PROVE  PoolInv'
<1> USE DEF PoolInv
<1>1. SameJobs /\ poolPc' = poolPc
  BY DEF P!Constructed, P!LockMutex, P!TestPredicate, P!CallerSleep, P!CallerWake, P!NotifyWorker,
     P!NotifyStopped, P!Stopped, P!Stop, P!Begin, P!flags, P!history, SameJobs
<1>2. PoolTypes' /\ MutexHeld' /\ CallWaits'
  <2> USE <1>1, BoundsAssumption DEF PoolTypes, MutexHeld, CallWaits, OneJobAhead, SameJobs
  <2>1. CASE P!Constructed
    <3>1. caller.pc = "construct" /\ caller' = [caller EXCEPT !.pc = "idle"] /\ poolMutex' = poolMutex
      BY <2>1 DEF P!Constructed
    <3>2. caller'.pc = "idle" /\ caller'.op = caller.op /\ caller'.t = caller.t
      BY <3>1
    <3>3. PoolTypes'
      BY ONLY PoolInv, <1>1, <3>1 DEF PoolInv, PoolTypes, SameJobs
    <3>4. MutexHeld' /\ CallWaits'
      BY <1>1, <3>1, <3>2
    <3> QED
      BY <3>3, <3>4
  <2>2. CASE P!LockMutex
    <3>1. /\ caller.pc \in {"lock", "relock"} /\ poolMutex[caller.t] = "free"
          /\ poolMutex' = [poolMutex EXCEPT ![caller.t] = "caller"]
          /\ caller' = [caller EXCEPT !.pc = IF caller.pc = "lock" THEN "test" ELSE "testDone"]
      BY <2>2 DEF P!LockMutex
    <3>2. /\ caller'.op = caller.op /\ caller'.t = caller.t
          /\ caller'.pc = IF caller.pc = "lock" THEN "test" ELSE "testDone"
      BY <3>1
    <3>3. PoolTypes'
      BY ONLY PoolInv, <1>1, <3>1 DEF PoolInv, PoolTypes, SameJobs
    <3>4. MutexHeld'
      BY ONLY PoolInv, <1>1, <3>1, <3>2 DEF PoolInv, PoolTypes, MutexHeld, SameJobs
    <3>5. CallWaits'
      BY ONLY PoolInv, <1>1, <3>1, <3>2 DEF PoolInv, PoolTypes, CallWaits, SameJobs
    <3> QED
      BY <3>3, <3>4, <3>5
  <2>3. CASE P!TestPredicate
    <3>1. poolMutex' = poolMutex
      BY <2>3 DEF P!TestPredicate
    <3>2. CASE caller.pc = "test"
      <4>1. \/ jobSet[caller.t] /\ caller' = [caller EXCEPT !.pc = "sleep"]
            \/ /\ ~jobSet[caller.t] /\ caller.op = "join"
               /\ caller' = [caller EXCEPT !.pc = "joined"]
            \/ /\ ~jobSet[caller.t] /\ caller.op # "join"
               /\ caller' = [caller EXCEPT !.pc = "set"]
        BY <2>3, <3>2 DEF P!TestPredicate
      <4>2. /\ caller'.op = caller.op /\ caller'.t = caller.t
            /\ \/ caller'.pc = "sleep"
               \/ caller'.pc = "joined" /\ ~jobSet[caller.t] /\ caller.op = "join"
               \/ caller'.pc = "set" /\ ~jobSet[caller.t] /\ caller.op # "join"
        BY <4>1
      <4>3. PoolTypes'
        BY ONLY PoolInv, <1>1, <3>1, <4>1 DEF PoolInv, PoolTypes, SameJobs
      <4>4. MutexHeld' /\ CallWaits'
        BY <3>1, <3>2, <4>2
      <4> QED
        BY <4>3, <4>4
    <3>3. CASE caller.pc = "testDone"
      <4>1. \/ jobDone[caller.t] /\ caller' = [caller EXCEPT !.pc = "return"]
            \/ caller' = [caller EXCEPT !.pc = "sleepDone"]
        BY <2>3, <3>3 DEF P!TestPredicate
      <4>2. /\ caller'.op = caller.op /\ caller'.t = caller.t
            /\ caller'.pc = "sleepDone" \/ (caller'.pc = "return" /\ jobDone[caller.t])
        BY <4>1
      <4>3. PoolTypes'
        BY ONLY PoolInv, <1>1, <3>1, <4>1 DEF PoolInv, PoolTypes, SameJobs
      <4>4. MutexHeld' /\ CallWaits'
        BY <3>1, <3>3, <4>2
      <4> QED
        BY <4>3, <4>4
    <3> QED
      BY <2>3, <3>2, <3>3 DEF P!TestPredicate
  <2>4. CASE P!CallerSleep
    <3>1. /\ caller.pc \in {"sleep", "sleepDone"}
          /\ poolMutex' = [poolMutex EXCEPT ![caller.t] = "free"]
          /\ caller' = [caller EXCEPT !.pc = IF caller.pc = "sleep" THEN "asleep" ELSE "asleepDone"]
      BY <2>4 DEF P!CallerSleep
    <3>2. /\ caller'.op = caller.op /\ caller'.t = caller.t
          /\ caller'.pc = IF caller.pc = "sleep" THEN "asleep" ELSE "asleepDone"
      BY <3>1
    <3>3. PoolTypes'
      BY ONLY PoolInv, <1>1, <3>1 DEF PoolInv, PoolTypes, SameJobs
    <3>4. MutexHeld'
      BY ONLY PoolInv, <1>1, <3>1, <3>2 DEF PoolInv, PoolTypes, MutexHeld, SameJobs
    <3>5. CallWaits'
      BY ONLY PoolInv, <1>1, <3>1, <3>2 DEF PoolInv, PoolTypes, CallWaits, SameJobs
    <3> QED
      BY <3>3, <3>4, <3>5
  <2>5. CASE P!CallerWake
    <3>1. /\ caller.pc \in {"asleep", "asleepDone"} /\ poolMutex[caller.t] = "free"
          /\ poolMutex' = [poolMutex EXCEPT ![caller.t] = "caller"]
          /\ caller' = [caller EXCEPT !.pc = IF caller.pc = "asleep" THEN "test" ELSE "testDone"]
      BY <2>5 DEF P!CallerWake
    <3>2. /\ caller'.op = caller.op /\ caller'.t = caller.t
          /\ caller'.pc = IF caller.pc = "asleep" THEN "test" ELSE "testDone"
      BY <3>1
    <3>3. PoolTypes'
      BY ONLY PoolInv, <1>1, <3>1 DEF PoolInv, PoolTypes, SameJobs
    <3>4. MutexHeld'
      BY ONLY PoolInv, <1>1, <3>1, <3>2 DEF PoolInv, PoolTypes, MutexHeld, SameJobs
    <3>5. CallWaits'
      BY ONLY PoolInv, <1>1, <3>1, <3>2 DEF PoolInv, PoolTypes, CallWaits, SameJobs
    <3> QED
      BY <3>3, <3>4, <3>5
  <2>6. CASE P!NotifyWorker
    BY <2>6 DEF P!NotifyWorker
  <2>7. CASE P!NotifyStopped
    <3>1. /\ caller.pc = "wake" /\ poolMutex' = poolMutex
          /\ caller' = IF caller.t + 1 \in 1..PoolSize THEN [caller EXCEPT !.t = caller.t + 1]
                       ELSE [caller EXCEPT !.pc = "await"]
      BY <2>7 DEF P!NotifyStopped
    <3>2. caller.op # "join"
      BY <3>1
    <3>3. /\ caller'.pc \in {"wake", "await"} /\ caller'.op = caller.op /\ caller'.t \in 1..PoolSize
          /\ caller' \in [pc : {"wake", "await"}, op : {"none", "sync", "async", "stop"},
                          t : 1..PoolSize]
      BY <3>1, <3>2
    <3> QED
      BY <3>1, <3>2, <3>3
  <2>8. CASE P!Stopped
    BY <2>8 DEF P!Stopped
  <2>10. CASE P!Stop
    <3>1. caller' = [pc |-> "wake", op |-> "stop", t |-> 1] /\ poolMutex' = poolMutex
      BY <2>10 DEF P!Stop
    <3>2. 1 \in 1..PoolSize /\ caller'.pc = "wake" /\ caller'.op = "stop" /\ caller'.t = 1
      BY <3>1
    <3>4. PoolTypes'
      BY <3>1, <3>2
    <3>3. MutexHeld' /\ CallWaits'
      BY <3>1
    <3> QED
      BY <3>3, <3>4
  <2>9. ASSUME NEW op \in {"sync", "async", "join"}, NEW t \in 1..PoolSize, P!Begin(op, t)
        PROVE  PoolTypes' /\ MutexHeld' /\ CallWaits'
    <3>1. /\ poolMutex' = poolMutex /\ caller' = [pc |-> "lock", op |-> op, t |-> t]
          /\ op = "join" => t = 1
      BY <2>9 DEF P!Begin
    <3>2. caller'.pc = "lock" /\ caller'.op = op /\ caller'.t = t
      BY <3>1
    <3>3. PoolTypes'
      BY ONLY PoolInv, <1>1, <2>9, <3>1 DEF PoolInv, PoolTypes, SameJobs
    <3>4. MutexHeld' /\ CallWaits'
      BY <3>1, <3>2
    <3> QED
      BY <3>3, <3>4
  <2> QED
    BY <2>1, <2>2, <2>3, <2>4, <2>5, <2>6, <2>7, <2>8, <2>9, <2>10
<1>3. OneJobAhead' /\ \A j \in awaited' : Ran(j)'
  BY <1>1 DEF OneJobAhead, SameJobs, Ran
<1> QED
  BY <1>2, <1>3

(* A job is given to a worker that has run all the earlier ones. *)
LEMMA JobIsSet ==
  ASSUME PoolInv, P!SetJob
  PROVE  PoolInv'
<1> DEFINE t == caller.t
<1> USE DEF PoolInv, PoolTypes
<1>1. /\ caller.pc = "set" /\ caller' = [caller EXCEPT !.pc = "notify"] /\ t \in 1..PoolSize
      /\ jobSet' = [jobSet EXCEPT ![t] = TRUE] /\ jobDone' = [jobDone EXCEPT ![t] = FALSE]
      /\ job' = [job EXCEPT ![t] = jobs + 1] /\ jobs' = jobs + 1
      /\ scheduled' = [scheduled EXCEPT ![t] = Append(@, jobs + 1)]
      /\ poolMutex' = [poolMutex EXCEPT ![t] = "free"]
      /\ UNCHANGED <<poolPc, executed, awaited>>
  BY DEF P!SetJob
<1>2. PoolTypes'
  <2>1. Append(scheduled[t], jobs + 1) \in Seq(Nat) /\ jobs + 1 \in Nat
    BY <1>1
  <2>2. /\ scheduled' \in [1..PoolSize -> Seq(Nat)] /\ job' \in [1..PoolSize -> Nat]
        /\ jobs' \in Nat /\ executed' \in [1..PoolSize -> Seq(Nat)]
    BY <1>1, <2>1
  <2> QED
    BY <1>1, <2>2
<1>3. ~jobSet[t] /\ scheduled[t] = executed[t] /\ poolMutex[t] = "caller" /\ caller.op # "join"
  BY <1>1 DEF OneJobAhead, CallWaits, MutexHeld
<1>4. poolPc[t] \notin {"test", "sleep", "run", "ran", "break"}
  BY <1>1, <1>3 DEF MutexHeld
<1>5. MutexHeld'
  BY <1>1, <1>4 DEF MutexHeld
<1>6. scheduled'[t] = Append(executed'[t], job'[t]) /\ scheduled'[t] # <<>>
  <2>1. scheduled'[t] = Append(executed[t], jobs + 1) /\ job'[t] = jobs + 1
    BY <1>1, <1>3
  <2>2. executed[t] \in Seq(Nat) /\ jobs + 1 \in Nat
    BY <1>1
  <2>3. Append(executed[t], jobs + 1) # <<>>
    BY ONLY <2>2
  <2> QED
    BY ONLY <1>1, <2>1, <2>3
<1>7. OneJobAhead'
  BY <1>1, <1>4, <1>6 DEF OneJobAhead
<1>8. CallWaits'
  <2>1. caller'.pc = "notify" /\ caller'.op = caller.op /\ caller'.t = t
    BY <1>1
  <2> QED
    BY ONLY <1>3, <1>6, <2>1 DEF CallWaits
<1>9. \A j \in awaited' : Ran(j)'
  <2>1. executed' = executed /\ awaited' = awaited
    BY <1>1
  <2> QED
    BY ONLY PoolInv, <2>1 DEF PoolInv, Ran
<1> QED
  BY <1>2, <1>5, <1>7, <1>8, <1>9

(* scheduleJobSync returns: the worker's last job has been run. *)
LEMMA SyncEnds ==
  ASSUME PoolInv, P!SyncReturns
  PROVE  PoolInv'
<1> DEFINE t == caller.t
<1> USE DEF PoolInv, PoolTypes
<1>1. /\ caller.pc = "return" /\ caller' = [caller EXCEPT !.pc = "idle"] /\ t \in 1..PoolSize
      /\ awaited' = awaited \cup {scheduled[t][Len(scheduled[t])]}
      /\ poolMutex' = [poolMutex EXCEPT ![t] = "free"]
      /\ UNCHANGED <<poolPc, jobSet, jobDone, job, jobs, scheduled, executed>>
  BY DEF P!SyncReturns, P!flags, P!Last
<1>2. PoolTypes' /\ OneJobAhead' /\ CallWaits'
  BY <1>1 DEF OneJobAhead, CallWaits
<1>3. poolMutex[t] = "caller" /\ ~jobSet[t] /\ scheduled[t] = executed[t] /\ scheduled[t] # <<>>
  BY <1>1 DEF OneJobAhead, CallWaits, MutexHeld
<1>4. MutexHeld'
  BY <1>1, <1>3 DEF MutexHeld
<1>5. Len(executed[t]) \in 1..Len(executed[t])
  BY <1>1, <1>3
<1>6. \A j \in awaited' : Ran(j)'
  <2>1. ASSUME NEW j \in awaited PROVE Ran(j)'
    <3>1. Ran(j)
      BY <2>1
    <3> QED
      BY <1>1, <3>1 DEF Ran
  <2>2. Ran(scheduled[t][Len(scheduled[t])])'
    BY <1>1, <1>3, <1>5 DEF Ran
  <2> QED
    BY <1>1, <2>1, <2>2
<1> QED
  BY <1>2, <1>4, <1>6

(* joinAll goes on, and at the last worker all jobs have been run. *)
LEMMA JoinEnds ==
  ASSUME PoolInv, P!Joined
  PROVE  PoolInv'
<1> DEFINE t == caller.t
<1> USE DEF PoolInv, PoolTypes
<1>1. /\ caller.pc = "joined" /\ t \in 1..PoolSize /\ caller.op = "join"
      /\ poolMutex' = [poolMutex EXCEPT ![t] = "free"]
      /\ UNCHANGED <<poolPc, jobSet, jobDone, job, jobs, scheduled, executed>>
  BY DEF P!Joined, P!flags, CallWaits
<1>2. /\ poolMutex[t] = "caller"
      /\ \A u \in 1..PoolSize : u <= t => ~jobSet[u] /\ scheduled[u] = executed[u]
  BY <1>1, BoundsAssumption DEF OneJobAhead, CallWaits, MutexHeld
<1>3. CASE t + 1 \in 1..PoolSize
  <2>1. caller' = [caller EXCEPT !.pc = "lock", !.t = t + 1] /\ awaited' = awaited
    BY <1>3 DEF P!Joined
  <2>2. PoolTypes' /\ OneJobAhead' /\ MutexHeld'
    BY <1>1, <1>2, <1>3, <2>1 DEF OneJobAhead, MutexHeld
  <2>3. CallWaits'
    <3>1. caller'.pc = "lock" /\ caller'.op = "join" /\ caller'.t = t + 1
      BY <1>1, <2>1
    <3>2. \A u \in 1..PoolSize : u < t + 1 => u <= t
      BY ONLY <1>1, BoundsAssumption
    <3> QED
      BY ONLY <1>1, <1>2, <3>1, <3>2 DEF CallWaits
  <2>4. \A j \in awaited' : Ran(j)'
    <3>1. executed' = executed /\ awaited' = awaited
      BY <1>1, <2>1
    <3> QED
      BY ONLY PoolInv, <3>1 DEF PoolInv, Ran
  <2> QED
    BY <2>2, <2>3, <2>4
<1>4. CASE t + 1 \notin 1..PoolSize
  <2>1. /\ caller' = [caller EXCEPT !.pc = "idle"]
        /\ awaited' = UNION {P!ToSet(scheduled[u]) : u \in 1..PoolSize}
    BY <1>4 DEF P!Joined
  <2>2. PoolTypes' /\ OneJobAhead' /\ MutexHeld' /\ CallWaits'
    BY <1>1, <1>2, <2>1 DEF OneJobAhead, MutexHeld, CallWaits
  <2>3. \A u \in 1..PoolSize : scheduled[u] = executed[u]
    <3>1. t = PoolSize
      BY ONLY <1>1, <1>4, BoundsAssumption
    <3>2. \A u \in 1..PoolSize : u <= t
      BY ONLY <3>1, BoundsAssumption
    <3> QED
      BY <1>2, <3>2
  <2>4. ASSUME NEW j \in awaited' PROVE Ran(j)'
    <3>1. PICK u \in 1..PoolSize : j \in P!ToSet(scheduled[u])
      BY <2>1
    <3>2. \E i \in 1..Len(executed[u]) : executed[u][i] = j
      <4>1. DOMAIN executed[u] = 1..Len(executed[u])
        OBVIOUS
      <4> QED
        BY <2>3, <3>1, <4>1 DEF P!ToSet
    <3> QED
      BY <1>1, <3>2 DEF Ran
  <2> QED
    BY <2>2, <2>4
<1> QED
  BY <1>3, <1>4

(* Every step of the pool keeps the invariant. *)
LEMMA PoolStep == PoolInv /\ [P!Next]_poolVars => PoolInv'
<1> SUFFICES ASSUME PoolInv, [P!Next]_poolVars PROVE PoolInv'
  OBVIOUS
<1>1. CASE UNCHANGED poolVars
  BY <1>1 DEF poolVars, PoolInv, PoolTypes, MutexHeld, OneJobAhead, CallWaits, Ran
<1>2. CASE P!Next
  BY <1>2, WorkerMoves, WorkerRuns, WorkerEnds, CallerMoves, JobIsSet, SyncEnds, JoinEnds
     DEF P!Next, P!Worker, P!Step
<1> QED
  BY <1>1, <1>2

(* What the pool promises follows from the invariant. *)
LEMMA PoolIsRight == PoolInv => JobsRunOnce
<1> SUFFICES ASSUME PoolInv PROVE P!OnceInOrder /\ P!AwaitedIsExecuted
  BY DEF JobsRunOnce
<1>1. ASSUME NEW t \in 1..PoolSize PROVE P!IsPrefix(executed[t], scheduled[t])
  <2>1. executed[t] \in Seq(Nat) /\ scheduled[t] \in Seq(Nat) /\ job[t] \in Nat
    BY DEF PoolInv, PoolTypes
  <2>2. scheduled[t] = executed[t] \/ scheduled[t] = Append(executed[t], job[t])
    BY DEF PoolInv, OneJobAhead
  <2> QED
    BY <2>1, <2>2 DEF P!IsPrefix
<1>2. ASSUME NEW j \in awaited PROVE j \in UNION {P!ToSet(executed[t]) : t \in 1..PoolSize}
  <2>0. PICK u \in 1..PoolSize : \E i \in 1..Len(executed[u]) : executed[u][i] = j
    BY <1>2 DEF PoolInv, Ran
  <2>1. PICK i \in 1..Len(executed[u]) : executed[u][i] = j
    BY <2>0
  <2>2. j \in P!ToSet(executed[u])
    BY <2>1 DEF P!ToSet, PoolInv, PoolTypes
  <2> QED
    BY <2>2
<1> QED
  BY <1>1, <1>2 DEF P!OnceInOrder, P!AwaitedIsExecuted

(* A worker of the pool runs its jobs once and in the order they were      *)
(* given, and what scheduleJobSync and joinAll have waited for has been    *)
(* run, for every number of workers and jobs (WorkerPool, WorkerThread).   *)
THEOREM EveryJobRunsOnce == Spec => []JobsRunOnce
<1>1. Init => P!Init
  BY DEF Init
<1> QED
  BY <1>1, PoolInit, PoolStep, PartsAreApart, PoolIsRight, PTL DEF Spec

-----------------------------------------------------------------------------
(* The barrier of two atomics *)

BarrierTypes ==
  /\ barrierPc \in [BarrierThreads -> {"out", "loaded", "last", "final", "next", "spin", "leave"}]
  /\ round \in 0..(RoundMod - 1) /\ cntr \in Int
  /\ barrierPrevRound \in [BarrierThreads -> 0..(RoundMod - 1)]

(* The one thread that ends the round *)
Ending(t) == barrierPc[t] \in {"last", "final", "next"}

(* A thread that has loaded round and not come yet keeps the round from     *)
(* ending.  The counter is the number of threads that have not come, until *)
(* all have come and the last of them sets it again and ends the round.    *)
BarrierCounting ==
  \/ /\ \A t \in BarrierThreads : ~Ending(t)
     /\ cntr = Cardinality(BarrierThreads) - Cardinality(B!Waiting)
     /\ BarrierThreads # {} => B!Waiting # BarrierThreads
  \/ /\ \E t \in BarrierThreads : /\ Ending(t) /\ \A u \in BarrierThreads : Ending(u) => u = t
                                  /\ barrierPc[t] # "last" => cntr = Cardinality(BarrierThreads)
     /\ B!Waiting = BarrierThreads

BarrierInv ==
  /\ BarrierTypes /\ BarrierCounting
  /\ \A t \in BarrierThreads : barrierPc[t] = "loaded" => barrierPrevRound[t] = round

(* The step is one of thread t. *)
ThreadStays(t) ==
  \A u \in BarrierThreads : u # t =>
    barrierPc'[u] = barrierPc[u] /\ barrierPrevRound'[u] = barrierPrevRound[u]

(* The threads, and those that wait, are counted by natural numbers. *)
LEMMA ThreadCount ==
  /\ B!threadCount = Cardinality(BarrierThreads) /\ Cardinality(BarrierThreads) \in Nat
  /\ IsFiniteSet(B!Waiting) /\ Cardinality(B!Waiting) \in Nat
<1>1. B!threadCount = Cardinality(BarrierThreads)
  BY DEF B!threadCount, B!Cardinality, Cardinality
<1>2. IsFiniteSet(BarrierThreads) /\ B!Waiting \subseteq BarrierThreads
  BY BoundsAssumption DEF B!Waiting
<1> QED
  BY <1>1, <1>2, FS_Subset, FS_CardinalityType

(* Nobody is inside at first, and the counter is the number of threads. *)
LEMMA BarrierInit == B!Init => BarrierInv /\ B!Abstract!Init
<1> SUFFICES ASSUME B!Init PROVE BarrierInv /\ B!Abstract!Init
  OBVIOUS
<1>1. BarrierTypes
  <2>1. 0 \in 0..(RoundMod - 1) /\ cntr \in Int
    BY BoundsAssumption, ThreadCount DEF B!Init
  <2> QED
    BY <2>1 DEF B!Init, BarrierTypes
<1>2. B!Waiting = {} /\ B!Released = {}
  BY DEF B!Waiting, B!Released, B!Init
<1>3. Cardinality(B!Waiting) = 0
  BY <1>2, FS_EmptySet
<1>4. cntr = Cardinality(BarrierThreads) - 0
  BY ThreadCount DEF B!Init
<1>5. BarrierCounting
  BY <1>2, <1>3, <1>4 DEF B!Init, BarrierCounting, Ending
<1> QED
  BY <1>1, <1>2, <1>5 DEF B!Init, BarrierInv, B!Abstract!Init

(* What a step has to do: keep the invariant and be one of RoundBarrier,   *)
(* or none.                                                                *)
BarrierStep == BarrierInv' /\ (B!Abstract!Next \/ UNCHANGED B!Abstract!vars)

(* A thread reads the round before it comes. *)
LEMMA LoadStep ==
  ASSUME BarrierInv, NEW t \in BarrierThreads, B!Load(t)
  PROVE  BarrierStep
<1> USE DEF BarrierInv, BarrierTypes
<1>1. /\ barrierPc[t] = "out" /\ barrierPc'[t] = "loaded" /\ barrierPrevRound'[t] = round
      /\ ThreadStays(t) /\ UNCHANGED <<cntr, round, barrierRounds>>
  BY DEF B!Load, B!Goto, ThreadStays
<1>2. BarrierTypes'
  BY DEF B!Load, B!Goto
<1>3. B!Waiting' = B!Waiting /\ B!Released' = B!Released
  BY <1>1 DEF B!Waiting, B!Released, ThreadStays
<1>4. \A u \in BarrierThreads : (Ending(u)' <=> Ending(u)) /\ (Ending(u) => barrierPc'[u] = barrierPc[u])
  BY <1>1 DEF Ending, ThreadStays
<1>5. BarrierCounting'
  BY <1>1, <1>3, <1>4 DEF BarrierCounting
<1>6. \A u \in BarrierThreads : barrierPc'[u] = "loaded" => barrierPrevRound'[u] = round'
  BY <1>1 DEF ThreadStays
<1> QED
  BY <1>1, <1>2, <1>3, <1>5, <1>6 DEF BarrierStep, B!Abstract!vars

(* A thread comes; the one that takes the last count finds all the others  *)
(* waiting.                                                                *)
LEMMA FetchSubStep ==
  ASSUME BarrierInv, NEW t \in BarrierThreads, B!FetchSub(t)
  PROVE  BarrierStep
<1> USE DEF BarrierInv, BarrierTypes
<1>1. /\ barrierPc[t] = "loaded" /\ barrierPc'[t] = (IF cntr = 1 THEN "last" ELSE "spin")
      /\ cntr' = cntr - 1 /\ ThreadStays(t) /\ UNCHANGED <<round, barrierPrevRound, barrierRounds>>
      /\ barrierPrevRound[t] = round
  BY DEF B!FetchSub, B!Goto, ThreadStays
<1>2. BarrierTypes'
  BY DEF B!FetchSub, B!Goto
<1>3. t \notin B!Waiting /\ t \notin B!Released
  BY <1>1 DEF B!Waiting, B!Released
<1>4. B!Waiting' = B!Waiting \cup {t} /\ B!Released' = B!Released
  BY <1>1 DEF B!Waiting, B!Released, ThreadStays
<1>5. /\ \A u \in BarrierThreads : ~Ending(u)
      /\ cntr = Cardinality(BarrierThreads) - Cardinality(B!Waiting)
  BY <1>3 DEF BarrierCounting
<1>6. Cardinality(B!Waiting') = Cardinality(B!Waiting) + 1 /\ IsFiniteSet(B!Waiting')
  BY <1>3, <1>4, ThreadCount, FS_AddElement
<1>7. cntr = 1 <=> B!Waiting' = BarrierThreads
  <2>1. B!Waiting' \subseteq BarrierThreads
    BY <1>4 DEF B!Waiting
  <2>2. Cardinality(B!Waiting') = Cardinality(BarrierThreads) => B!Waiting' = BarrierThreads
    BY <2>1, BoundsAssumption, FS_Subset
  <2>3. B!Waiting' = BarrierThreads => Cardinality(B!Waiting') = Cardinality(BarrierThreads)
    OBVIOUS
  <2> QED
    BY <1>5, <1>6, <2>2, <2>3, ThreadCount
<1>8. BarrierCounting'
  <2>1. \A u \in BarrierThreads : u # t => ~Ending(u)'
    BY <1>1, <1>5 DEF Ending, ThreadStays
  <2>2. CASE cntr = 1
    <3>1. Ending(t)' /\ barrierPc'[t] = "last"
      BY <1>1, <2>2 DEF Ending
    <3> QED
      BY <1>7, <2>1, <2>2, <3>1 DEF BarrierCounting
  <2>3. CASE cntr # 1
    <3>1. ~Ending(t)'
      BY <1>1, <2>3 DEF Ending
    <3>2. cntr' = Cardinality(BarrierThreads) - Cardinality(B!Waiting')
      BY <1>1, <1>5, <1>6, ThreadCount
    <3> QED
      BY <1>7, <2>1, <2>3, <3>1, <3>2 DEF BarrierCounting
  <2> QED
    BY <2>2, <2>3
<1>9. \A u \in BarrierThreads : barrierPc'[u] = "loaded" => barrierPrevRound'[u] = round'
  BY <1>1 DEF ThreadStays
<1>10. B!Abstract!Come(t)
  BY <1>1, <1>3, <1>4 DEF B!Abstract!Come
<1> QED
  BY <1>2, <1>8, <1>9, <1>10 DEF BarrierStep, B!Abstract!Next

(* The last thread sets the counter again and runs the finalizer. *)
LEMMA EndStep ==
  ASSUME BarrierInv, NEW t \in BarrierThreads, B!Reset(t) \/ B!Finalize(t)
  PROVE  BarrierStep
<1> USE DEF BarrierInv, BarrierTypes
<1>1. /\ Ending(t) /\ Ending(t)' /\ ThreadStays(t) /\ barrierPc'[t] # "last"
      /\ UNCHANGED <<round, barrierPrevRound, barrierRounds>>
      /\ barrierPc[t] = "last" => cntr' = B!threadCount
      /\ barrierPc[t] # "last" => cntr' = cntr
  BY DEF B!Reset, B!Finalize, B!Goto, ThreadStays, Ending
<1>2. BarrierTypes'
  BY ThreadCount DEF B!Reset, B!Finalize, B!Goto
<1>3. B!Waiting' = B!Waiting /\ B!Released' = B!Released
  BY <1>1 DEF B!Waiting, B!Released, ThreadStays, Ending
<1>4. /\ \A u \in BarrierThreads : Ending(u) => u = t
      /\ barrierPc[t] # "last" => cntr = Cardinality(BarrierThreads)
      /\ B!Waiting = BarrierThreads
  BY <1>1 DEF BarrierCounting
<1>5. \A u \in BarrierThreads : Ending(u)' => u = t
  BY <1>1, <1>4 DEF Ending, ThreadStays
<1>6. BarrierCounting'
  BY <1>1, <1>3, <1>4, <1>5, ThreadCount DEF BarrierCounting
<1>7. \A u \in BarrierThreads : barrierPc'[u] = "loaded" => barrierPrevRound'[u] = round'
  BY <1>1 DEF ThreadStays, Ending
<1> QED
  BY <1>1, <1>2, <1>3, <1>6, <1>7 DEF BarrierStep, B!Abstract!vars

(* A round that is not the last one is followed by the next number. *)
LEMMA NextIsLarger ==
  ASSUME NEW r \in Nat, NEW m \in Nat, r + 1 < m
  PROVE  (r + 1) % m = r + 1
OBVIOUS

(* The next round begins: all that waited are released at once. *)
LEMMA NextRoundStep ==
  ASSUME BarrierInv, NEW t \in BarrierThreads, B!NextRound(t)
  PROVE  BarrierStep
<1> USE DEF BarrierInv, BarrierTypes
<1>1. /\ barrierPc[t] = "next" /\ barrierPc'[t] = "leave" /\ ThreadStays(t)
      /\ round' = (round + 1) % RoundMod /\ barrierRounds' = barrierRounds + 1
      /\ UNCHANGED <<cntr, barrierPrevRound>>
  BY DEF B!NextRound, B!Goto, ThreadStays
<1>2. round' \in 0..(RoundMod - 1) /\ round' # round
  <2>1. CASE round = RoundMod - 1
    BY <1>1, <2>1, BoundsAssumption
  <2>2. CASE round # RoundMod - 1
    <3>1. (round + 1) % RoundMod = round + 1
      BY <2>2, BoundsAssumption, NextIsLarger
    <3> QED
      BY <1>1, <2>2, <3>1, BoundsAssumption
  <2> QED
    BY <2>1, <2>2
<1>3. BarrierTypes'
  BY <1>2 DEF B!NextRound, B!Goto
<1>4. /\ \A u \in BarrierThreads : Ending(u) => u = t
      /\ cntr = Cardinality(BarrierThreads) /\ B!Waiting = BarrierThreads
  BY <1>1 DEF BarrierCounting, Ending
<1>5. \A u \in BarrierThreads : u # t => barrierPc[u] = "spin" /\ barrierPrevRound[u] = round
  BY <1>4 DEF B!Waiting, Ending
<1>6. B!Waiting' = {} /\ B!Released' = BarrierThreads
  BY <1>1, <1>2, <1>5 DEF B!Waiting, B!Released, ThreadStays
<1>7. Cardinality(B!Waiting') = 0
  BY <1>6, FS_EmptySet
<1>8. \A u \in BarrierThreads : ~Ending(u)'
  BY <1>1, <1>5 DEF Ending, ThreadStays
<1>9. BarrierCounting'
  BY <1>1, <1>4, <1>6, <1>7, <1>8, ThreadCount DEF BarrierCounting
<1>10. \A u \in BarrierThreads : barrierPc'[u] = "loaded" => barrierPrevRound'[u] = round'
  BY <1>1, <1>5 DEF ThreadStays
<1>11. B!Abstract!EndRound
  BY <1>1, <1>4, <1>6 DEF B!Abstract!EndRound
<1> QED
  BY <1>3, <1>9, <1>10, <1>11 DEF BarrierStep, B!Abstract!Next

(* A thread leaves when the round is another one than its own. *)
LEMMA LeaveStep ==
  ASSUME BarrierInv, NEW t \in BarrierThreads, B!Leave(t)
  PROVE  BarrierStep
<1> USE DEF BarrierInv, BarrierTypes
<1>1. /\ barrierPc[t] = "leave" \/ (barrierPc[t] = "spin" /\ round # barrierPrevRound[t])
      /\ barrierPc'[t] = "out" /\ ThreadStays(t)
      /\ UNCHANGED <<cntr, round, barrierPrevRound, barrierRounds>>
  BY DEF B!Leave, B!Goto, ThreadStays
<1>2. BarrierTypes'
  BY DEF B!Leave, B!Goto
<1>3. t \in B!Released /\ B!Waiting' = B!Waiting /\ B!Released' = B!Released \ {t}
  BY <1>1 DEF B!Waiting, B!Released, ThreadStays
<1>4. \A u \in BarrierThreads : (Ending(u)' <=> Ending(u)) /\ (Ending(u) => barrierPc'[u] = barrierPc[u])
  BY <1>1 DEF Ending, ThreadStays
<1>5. BarrierCounting'
  BY <1>1, <1>3, <1>4 DEF BarrierCounting
<1>6. \A u \in BarrierThreads : barrierPc'[u] = "loaded" => barrierPrevRound'[u] = round'
  BY <1>1 DEF ThreadStays
<1>7. B!Abstract!Leave(t)
  BY <1>1, <1>3 DEF B!Abstract!Leave
<1> QED
  BY <1>2, <1>5, <1>6, <1>7 DEF BarrierStep, B!Abstract!Next

(* Every step keeps the invariant and is one of the abstract barrier, or   *)
(* none.                                                                   *)
LEMMA BarrierSteps == BarrierInv /\ [B!Next]_barrierVars => BarrierStep
<1> SUFFICES ASSUME BarrierInv, [B!Next]_barrierVars PROVE BarrierStep
  OBVIOUS
<1>1. CASE UNCHANGED barrierVars
  <2>1. B!Waiting' = B!Waiting /\ B!Released' = B!Released
    BY <1>1 DEF barrierVars, B!Waiting, B!Released
  <2>2. BarrierTypes' /\ BarrierCounting'
    BY <1>1, <2>1 DEF barrierVars, BarrierInv, BarrierTypes, BarrierCounting, Ending
  <2> QED
    BY <1>1, <2>1, <2>2 DEF barrierVars, BarrierStep, BarrierInv, B!Abstract!vars
<1>2. CASE B!Next
  BY <1>2, LoadStep, FetchSubStep, EndStep, NextRoundStep, LeaveStep DEF B!Next, B!Thread
<1> QED
  BY <1>1, <1>2

-----------------------------------------------------------------------------
(* The barrier page *)

PageTypes ==
  /\ pagePc \in [BarrierThreads -> {"out", "come", "final", "unfix", "unfixLast", "spin", "read",
                                    "validate"}]
  /\ body \in [cntr : Int, round : 0..(RoundMod - 1)] /\ version \in Nat
  /\ pagePrevRound \in [BarrierThreads -> 0..(RoundMod - 1)]
  /\ seen \in [BarrierThreads -> [version : Nat, round : 0..(RoundMod - 1)]]

(* Steps with the exclusive guard, which one thread has at a time *)
Guarded == \A t \in BarrierThreads :
             pagePc[t] \in {"come", "final", "unfix", "unfixLast"} => holder = {t}

(* The counter is the number of threads that have not come.  When all have  *)
(* come it is set again, and the one with the guard ends the round.        *)
PageCounting ==
  \/ /\ \A t \in BarrierThreads : pagePc[t] # "final"
     /\ body.cntr = Cardinality(BarrierThreads) - Cardinality(G!Waiting)
     /\ BarrierThreads # {} => G!Waiting # BarrierThreads
  \/ /\ \E t \in BarrierThreads : pagePc[t] = "final"
     /\ body.cntr = Cardinality(BarrierThreads)
     /\ G!Waiting = BarrierThreads

(* What an optimistic guard has read is what is there, as long as nobody    *)
(* has the page and the version is the one of before.                      *)
ReadsAreCurrent ==
  \A t \in BarrierThreads :
    /\ pagePc[t] \in {"read", "validate"} => seen[t].version <= version
    /\ pagePc[t] = "validate" /\ seen[t].version = version /\ holder = {} =>
         seen[t].round = body.round

PageInv == PageTypes /\ Guarded /\ PageCounting /\ ReadsAreCurrent

(* What a step has to do: keep the invariant and be one of RoundBarrier,   *)
(* or none.                                                                *)
PageStep == PageInv' /\ (G!Abstract!Next \/ UNCHANGED G!Abstract!vars)

(* The step is one of thread t. *)
OthersStay(t) ==
  \A u \in BarrierThreads : u # t =>
    pagePc'[u] = pagePc[u] /\ pagePrevRound'[u] = pagePrevRound[u] /\ seen'[u] = seen[u]

(* The threads, and those that wait, are counted by natural numbers. *)
LEMMA PageCount ==
  /\ G!threadCount = Cardinality(BarrierThreads) /\ Cardinality(BarrierThreads) \in Nat
  /\ IsFiniteSet(G!Waiting) /\ Cardinality(G!Waiting) \in Nat
<1>1. G!threadCount = Cardinality(BarrierThreads)
  BY DEF G!threadCount, G!Cardinality, Cardinality
<1>2. IsFiniteSet(BarrierThreads) /\ G!Waiting \subseteq BarrierThreads
  BY BoundsAssumption DEF G!Waiting, G!Inside
<1> QED
  BY <1>1, <1>2, FS_Subset, FS_CardinalityType

(* Nobody is inside at first, and the counter is the number of threads. *)
LEMMA PageInit == G!Init => PageInv /\ G!Abstract!Init
<1> SUFFICES ASSUME G!Init PROVE PageInv /\ G!Abstract!Init
  OBVIOUS
<1>1. PageTypes /\ Guarded /\ ReadsAreCurrent
  <2>1. 0 \in 0..(RoundMod - 1) /\ G!threadCount \in Int
    BY BoundsAssumption, PageCount
  <2> QED
    BY <2>1 DEF G!Init, PageTypes, Guarded, ReadsAreCurrent
<1>2. G!Waiting = {} /\ G!Released = {}
  BY DEF G!Waiting, G!Released, G!Inside, G!Init
<1>3. Cardinality(G!Waiting) = 0
  BY <1>2, FS_EmptySet
<1>4. body.cntr = Cardinality(BarrierThreads) - 0
  BY PageCount DEF G!Init
<1>5. PageCounting
  BY <1>2, <1>3, <1>4 DEF G!Init, PageCounting
<1> QED
  BY <1>1, <1>2, <1>5 DEF G!Init, PageInv, G!Abstract!Init

(* Steps that change neither the page nor who is inside *)
LEMMA PageQuiet ==
  ASSUME PageInv, NEW t \in BarrierThreads,
         G!Fix(t) \/ G!Optimistic(t) \/ G!Read(t) \/ (G!Unfix(t) /\ pagePc[t] = "unfix")
  PROVE  PageStep
<1> USE DEF PageInv, PageTypes
<1>1. /\ OthersStay(t) /\ UNCHANGED <<body, pagePrevRound, pageRounds>>
      /\ \/ pagePc[t] = "out" /\ pagePc'[t] = "come"
         \/ /\ pagePc[t] \in {"unfix", "spin", "read"}
            /\ pagePc'[t] \in {"spin", "read", "validate"}
  BY DEF G!Fix, G!Optimistic, G!Read, G!Unfix, G!Goto, OthersStay
<1>2. PageTypes' /\ Guarded' /\ ReadsAreCurrent'
  <2>1. CASE G!Fix(t)
    BY <2>1 DEF G!Fix, G!Goto, Guarded, ReadsAreCurrent
  <2>2. CASE G!Optimistic(t)
    BY <2>2 DEF G!Optimistic, G!Goto, Guarded, ReadsAreCurrent
  <2>3. CASE G!Read(t)
    BY <2>3 DEF G!Read, G!Goto, Guarded, ReadsAreCurrent
  <2>4. CASE G!Unfix(t)
    BY <2>4 DEF G!Unfix, G!Goto, Guarded, ReadsAreCurrent
  <2> QED
    BY <2>1, <2>2, <2>3, <2>4
<1>3. G!Waiting' = G!Waiting /\ G!Released' = G!Released
  BY <1>1 DEF G!Waiting, G!Released, G!Inside, OthersStay
<1>4. \A u \in BarrierThreads : pagePc'[u] = "final" <=> pagePc[u] = "final"
  BY <1>1 DEF OthersStay
<1>5. PageCounting'
  BY <1>1, <1>3, <1>4 DEF PageCounting
<1> QED
  BY <1>1, <1>2, <1>3, <1>5 DEF PageStep, G!Abstract!vars

(* A thread comes; the last one finds all the others waiting. *)
LEMMA PageCome ==
  ASSUME PageInv, NEW t \in BarrierThreads, G!Come(t)
  PROVE  PageStep
<1> USE DEF PageInv, PageTypes
<1>1. /\ pagePc[t] = "come" /\ pagePc'[t] = (IF body.cntr = 1 THEN "final" ELSE "unfix")
      /\ pagePrevRound'[t] = body.round /\ OthersStay(t) /\ body'.round = body.round
      /\ body'.cntr = (IF body.cntr = 1 THEN G!threadCount ELSE body.cntr - 1)
      /\ UNCHANGED <<holder, version, seen, pageRounds>>
  BY DEF G!Come, G!Goto, OthersStay
<1>2. PageTypes'
  BY PageCount DEF G!Come, G!Goto
<1>3. Guarded' /\ holder = {t}
  BY <1>1 DEF Guarded, OthersStay
<1>4. ReadsAreCurrent'
  BY <1>1, <1>3 DEF ReadsAreCurrent, OthersStay
<1>5. t \notin G!Waiting /\ t \notin G!Released
  BY <1>1 DEF G!Waiting, G!Released, G!Inside
<1>6. G!Waiting' = G!Waiting \cup {t} /\ G!Released' = G!Released
  BY <1>1 DEF G!Waiting, G!Released, G!Inside, OthersStay
<1>7. /\ \A u \in BarrierThreads : pagePc[u] # "final"
      /\ body.cntr = Cardinality(BarrierThreads) - Cardinality(G!Waiting)
  BY <1>5 DEF PageCounting
<1>8. Cardinality(G!Waiting') = Cardinality(G!Waiting) + 1
  BY <1>5, <1>6, PageCount, FS_AddElement
<1>9. body.cntr = 1 <=> G!Waiting' = BarrierThreads
  <2>1. G!Waiting' \subseteq BarrierThreads
    BY <1>6 DEF G!Waiting, G!Inside
  <2>2. Cardinality(G!Waiting') = Cardinality(BarrierThreads) => G!Waiting' = BarrierThreads
    BY <2>1, BoundsAssumption, FS_Subset
  <2>3. G!Waiting' = BarrierThreads => Cardinality(G!Waiting') = Cardinality(BarrierThreads)
    OBVIOUS
  <2> QED
    BY <1>7, <1>8, <2>2, <2>3, PageCount
<1>10. PageCounting'
  <2>1. CASE body.cntr = 1
    BY <1>1, <1>9, <2>1, PageCount DEF PageCounting
  <2>2. CASE body.cntr # 1
    <3>1. \A u \in BarrierThreads : pagePc'[u] # "final"
      BY <1>1, <1>7, <2>2 DEF OthersStay
    <3>2. body'.cntr = Cardinality(BarrierThreads) - Cardinality(G!Waiting')
      BY <1>1, <1>7, <1>8, <2>2, PageCount
    <3> QED
      BY <1>9, <2>2, <3>1, <3>2 DEF PageCounting
  <2> QED
    BY <2>1, <2>2
<1>11. G!Abstract!Come(t)
  BY <1>1, <1>5, <1>6 DEF G!Abstract!Come
<1> QED
  BY <1>2, <1>3, <1>4, <1>10, <1>11 DEF PageStep, G!Abstract!Next

(* The finalizer runs with the guard held, and the next round begins. *)
LEMMA PageFinalize ==
  ASSUME PageInv, NEW t \in BarrierThreads, G!Finalize(t)
  PROVE  PageStep
<1> USE DEF PageInv, PageTypes
<1>1. /\ pagePc[t] = "final" /\ pagePc'[t] = "unfixLast" /\ OthersStay(t)
      /\ body'.round = (body.round + 1) % RoundMod /\ body'.cntr = body.cntr
      /\ pageRounds' = pageRounds + 1 /\ UNCHANGED <<holder, version, pagePrevRound, seen>>
  BY DEF G!Finalize, G!Goto, OthersStay
<1>2. (body.round + 1) % RoundMod \in 0..(RoundMod - 1) /\ body'.round # body.round
  <2>1. CASE body.round = RoundMod - 1
    BY <1>1, <2>1, BoundsAssumption
  <2>2. CASE body.round # RoundMod - 1
    <3>1. body.round \in Nat /\ body.round + 1 < RoundMod
      BY <2>2, BoundsAssumption
    <3>2. (body.round + 1) % RoundMod = body.round + 1
      BY <3>1, BoundsAssumption, NextIsLarger
    <3> QED
      BY <1>1, <3>1, <3>2, BoundsAssumption
  <2> QED
    BY <2>1, <2>2
<1>3. PageTypes'
  BY <1>2 DEF G!Finalize, G!Goto
<1>4. Guarded' /\ holder = {t}
  BY <1>1 DEF Guarded, OthersStay
<1>5. ReadsAreCurrent'
  BY <1>1, <1>4 DEF ReadsAreCurrent, OthersStay
<1>6. body.cntr = Cardinality(BarrierThreads) /\ G!Waiting = BarrierThreads
  BY <1>1 DEF PageCounting
<1>7. \A u \in BarrierThreads : u # t =>
        /\ pagePc[u] \in {"unfix", "spin", "read", "validate"}
        /\ body.round = pagePrevRound[u]
  BY <1>1, <1>4, <1>6 DEF G!Waiting, G!Inside, Guarded
<1>8. G!Waiting' = {} /\ G!Released' = BarrierThreads
  BY <1>1, <1>2, <1>7 DEF G!Waiting, G!Released, G!Inside, OthersStay
<1>9. Cardinality(G!Waiting') = 0
  BY <1>8, FS_EmptySet
<1>10. \A u \in BarrierThreads : pagePc'[u] # "final"
  BY <1>1, <1>7 DEF OthersStay
<1>11. PageCounting'
  BY <1>1, <1>6, <1>8, <1>9, <1>10, PageCount DEF PageCounting
<1>12. G!Abstract!EndRound
  BY <1>1, <1>6, <1>8 DEF G!Abstract!EndRound
<1> QED
  BY <1>3, <1>4, <1>5, <1>11, <1>12 DEF PageStep, G!Abstract!Next

(* A thread leaves: the last one with its guard, another one when it has    *)
(* read, and validated, another round than its own.                        *)
LEMMA PageLeave ==
  ASSUME PageInv, NEW t \in BarrierThreads,
         \/ G!Unfix(t) /\ pagePc[t] = "unfixLast"
         \/ G!Validate(t)
  PROVE  PageStep
<1> USE DEF PageInv, PageTypes
<1>1. /\ OthersStay(t) /\ UNCHANGED <<body, pagePrevRound, seen, pageRounds>>
      /\ \/ pagePc[t] = "unfixLast" /\ pagePc'[t] = "out" /\ holder' = {} /\ version' = version + 1
         \/ /\ pagePc[t] = "validate" /\ pagePc'[t] \in {"out", "spin"}
            /\ holder' = holder /\ version' = version
            /\ pagePc'[t] = "out" => /\ holder = {} /\ version = seen[t].version
                                     /\ seen[t].round # pagePrevRound[t]
  BY DEF G!Unfix, G!Validate, G!Goto, OthersStay
<1>2. PageTypes' /\ Guarded' /\ ReadsAreCurrent'
  <2>1. PageTypes'
    <3>1. \E l \in {"out", "spin"} : pagePc' = [pagePc EXCEPT ![t] = l]
      BY DEF G!Unfix, G!Validate, G!Goto
    <3>2. version' \in Nat
      BY <1>1
    <3> QED
      BY <1>1, <3>1, <3>2
  <2>2. CASE pagePc[t] = "unfixLast"
    <3>1. holder = {t} /\ holder' = {} /\ version' = version + 1 /\ pagePc'[t] = "out"
      BY <1>1, <2>2 DEF Guarded
    <3>2. Guarded'
      BY <1>1, <3>1 DEF Guarded, OthersStay
    <3>3. ReadsAreCurrent'
      BY <1>1, <3>1 DEF ReadsAreCurrent, OthersStay
    <3> QED
      BY <2>1, <3>2, <3>3
  <2>3. CASE pagePc[t] = "validate"
    <3>1. UNCHANGED <<holder, version>> /\ pagePc'[t] \in {"out", "spin"}
      BY <1>1, <2>3
    <3>2. Guarded'
      BY <1>1, <2>3, <3>1 DEF Guarded, OthersStay
    <3>3. ReadsAreCurrent'
      BY <1>1, <2>3, <3>1 DEF ReadsAreCurrent, OthersStay
    <3> QED
      BY <2>1, <3>2, <3>3
  <2> QED
    BY <1>1, <2>2, <2>3
<1>3. \A u \in BarrierThreads : pagePc'[u] = "final" <=> pagePc[u] = "final"
  BY <1>1 DEF OthersStay
<1>4. CASE pagePc'[t] = "spin"
  <2>1. G!Waiting' = G!Waiting /\ G!Released' = G!Released
    BY <1>1, <1>4 DEF G!Waiting, G!Released, G!Inside, OthersStay
  <2>2. PageCounting'
    BY <1>1, <1>3, <2>1 DEF PageCounting
  <2> QED
    BY <1>1, <1>2, <2>1, <2>2 DEF PageStep, G!Abstract!vars
<1>5. CASE pagePc'[t] = "out"
  <2>1. pagePc[t] = "unfixLast" \/ (pagePc[t] = "validate" /\ body.round # pagePrevRound[t])
    BY <1>1, <1>5 DEF ReadsAreCurrent
  <2>2. t \in G!Released /\ G!Waiting' = G!Waiting /\ G!Released' = G!Released \ {t}
    BY <1>1, <1>5, <2>1 DEF G!Waiting, G!Released, G!Inside, OthersStay
  <2>3. PageCounting'
    BY <1>1, <1>3, <2>2 DEF PageCounting
  <2>4. G!Abstract!Leave(t)
    BY <1>1, <2>2 DEF G!Abstract!Leave
  <2> QED
    BY <1>2, <2>3, <2>4 DEF PageStep, G!Abstract!Next
<1> QED
  BY <1>1, <1>4, <1>5

(* Every step keeps the invariant and is one of the abstract barrier, or   *)
(* none.                                                                   *)
LEMMA PageSteps == PageInv /\ [G!Next]_pageVars => PageStep
<1> SUFFICES ASSUME PageInv, [G!Next]_pageVars PROVE PageStep
  OBVIOUS
<1>1. CASE UNCHANGED pageVars
  <2>1. G!Waiting' = G!Waiting /\ G!Released' = G!Released
    BY <1>1 DEF pageVars, G!Waiting, G!Released, G!Inside
  <2>2. PageTypes' /\ Guarded' /\ PageCounting' /\ ReadsAreCurrent'
    BY <1>1, <2>1 DEF pageVars, PageInv, PageTypes, Guarded, PageCounting, ReadsAreCurrent
  <2> QED
    BY <1>1, <2>1, <2>2 DEF pageVars, PageStep, PageInv, G!Abstract!vars
<1>2. ASSUME NEW t \in BarrierThreads, G!Thread(t) PROVE PageStep
  <2>1. G!Unfix(t) => pagePc[t] \in {"unfix", "unfixLast"}
    BY DEF G!Unfix
  <2> QED
    BY <1>2, <2>1, PageQuiet, PageCome, PageFinalize, PageLeave DEF G!Thread
<1> QED
  BY <1>1, <1>2 DEF G!Next

(* Both barriers implement the abstract one, and the finalizer runs while  *)
(* all the others wait, for every number of threads and rounds, although   *)
(* the round wraps around (utils::Barrier::wait,                           *)
(* DistributedBarrier::wait).                                              *)
THEOREM BarriersAreBarriers == Spec => BarriersHold
<1>1. Init => B!Init /\ G!Init
  BY DEF Init
<1>2. BarrierInv /\ [B!Next]_barrierVars => BarrierInv' /\ [B!Abstract!Next]_(B!Abstract!vars)
  BY BarrierSteps DEF BarrierStep
<1>3. PageInv /\ [G!Next]_pageVars => PageInv' /\ [G!Abstract!Next]_(G!Abstract!vars)
  BY PageSteps DEF PageStep
<1>4. BarrierInv => B!FinalizerAlone
  BY DEF BarrierInv, BarrierCounting, Ending, B!FinalizerAlone
<1> QED
  BY <1>1, <1>2, <1>3, <1>4, BarrierInit, PageInit, PartsAreApart, PTL
     DEF Spec, BarriersHold, B!IsBarrier, G!IsBarrier, B!Abstract!Spec, G!Abstract!Spec

-----------------------------------------------------------------------------
(* The handshake. *)

Endpoint == [sent : Nat, got : Nat, acked : Nat, cq : Nat, need : 0..2]

(* What one side of a connection has counted, against the other side: a    *)
(* message arrives after it was sent, a send completes after it arrived,   *)
(* and every completion is still in the queue or was polled.               *)
Accounts(e, o) ==
  /\ e.got <= o.sent /\ e.acked <= o.got
  /\ e.got + e.acked + e.need = e.cq + 2 * e.sent

Early == {"retry", "connect", "event"}

(* connections that the handler thread has begun to exchange infos with *)
BegunIn(h, ts, c) == c \in ts \/ (h.pc = "exchange" /\ h.conn = c)
Begun(c) == BegunIn(shakeHandler, typed, c)

ShakeType(L) ==
  /\ shakeHandler \in [pc : {"start", "idle", "exchange", "count"}, conn : L \cup {<<"nobody", 0>>}]
  /\ shakeHandler.pc \in {"exchange", "count"} => shakeHandler.conn \in L
  /\ shakeChannel \in Seq([e : {"request", "established"}, conn : L])
  /\ out \in [L -> Early \cup {"info", "initiated", "app", "done"}]
  /\ event \in [L -> {"none", "rejected", "established"}]
  /\ typed \subseteq L /\ established \subseteq typed /\ app \in Seq(L)
  /\ ep \in [{"out", "in"} -> [L -> Endpoint]]

ShakeCount(L) ==
  \A c \in L : Accounts(ep["out"][c], ep["in"][c]) /\ Accounts(ep["in"][c], ep["out"][c])

(* the program counter of the initiator says what it has sent *)
ShakeOut(L) ==
  \A c \in L :
    /\ ep["out"][c].sent = IF out[c] \in Early THEN 0 ELSE IF out[c] \in {"info", "initiated"} THEN 1 ELSE 2
    /\ out[c] \in Early \cup {"initiated", "done"} => ep["out"][c].need = 0
    /\ out[c] = "app" => ep["out"][c].got >= 1

InApp == {app[i] : i \in 1..Len(app)}

(* and so does the progress of handler thread and init() for the other end *)
ShakeIn(L) ==
  /\ \A c \in L :
       /\ ep["in"][c].sent = IF ~Begun(c) THEN 0 ELSE IF c \in InApp THEN 2 ELSE 1
       /\ ~Begun(c) => ep["in"][c].need = 0
       /\ c \in typed /\ c \notin InApp => ep["in"][c].need = 0
       /\ c \in typed => ep["in"][c].got >= 1
       /\ Begun(c) => out[c] \notin Early
  /\ app # <<>> => established = L
  /\ shakeHandler.pc = "count" => shakeHandler.conn \in typed
  /\ shakeHandler.pc = "exchange" => shakeHandler.conn \notin typed

(* Every event of a connection comes once, in its order. *)
ShakeEvents(L) ==
  /\ \A c \in L : event[c] # "none" => out[c] = "event"
  /\ \A i \in 1..Len(shakeChannel) :
       IF shakeChannel[i].e = "request"
       THEN out[shakeChannel[i].conn] = "event" /\ event[shakeChannel[i].conn] = "none"
       ELSE out[shakeChannel[i].conn] \notin Early /\ ~Begun(shakeChannel[i].conn)
  /\ \A i, j \in 1..Len(shakeChannel) : i # j => shakeChannel[i] # shakeChannel[j]

ShakeInv(L) == ShakeType(L) /\ ShakeCount(L) /\ ShakeOut(L) /\ ShakeIn(L) /\ ShakeEvents(L)

(* Nothing has been sent and no event is there at first. *)
LEMMA ShakeInit == ASSUME NEW nodes, NEW k, Shake(nodes, k)!Init PROVE ShakeInv(Shake(nodes, k)!Conns)
<1> DEFINE L == Shake(nodes, k)!Conns
<1>1. /\ shakeHandler = [pc |-> "start", conn |-> <<"nobody", 0>>] /\ shakeChannel = <<>>
      /\ established = {} /\ typed = {} /\ app = <<>>
      /\ out = [c \in L |-> "retry"] /\ event = [c \in L |-> "none"]
      /\ ep = [s \in {"out", "in"} |-> [c \in L |-> [sent |-> 0, got |-> 0, acked |-> 0, cq |-> 0, need |-> 0]]]
  BY DEF Shake!Init, Shake!Nobody, Shake!Sides, Shake!NewEndpoint
<1> HIDE DEF L
<1>2. ShakeType(L)
  BY <1>1 DEF ShakeType, Early, Endpoint
<1>3. ShakeCount(L) /\ ShakeOut(L)
  BY <1>1 DEF ShakeCount, ShakeOut, Accounts, Early
<1>4. ShakeIn(L) /\ ShakeEvents(L)
  BY <1>1 DEF ShakeIn, ShakeEvents, Begun, BegunIn, InApp, Early
<1> QED BY <1>2, <1>3, <1>4 DEF ShakeInv, L

ShakeStill == UNCHANGED <<shakeHandler, shakeChannel, established, out, event, typed, app, ep>>

(* An invariant is kept by the steps that do not touch what it is about. *)
LEMMA ShakeStutter == ASSUME NEW L, ShakeInv(L), ShakeStill PROVE ShakeInv(L)'
BY DEF ShakeStill, ShakeInv, ShakeType, ShakeCount, ShakeOut, ShakeIn, ShakeEvents, Begun, BegunIn, InApp

(* The network: nothing is sent, messages are not lost, and who has not to wait goes on not to. *)
NetworkStep(L) ==
  /\ ep' \in [{"out", "in"} -> [L -> Endpoint]]
  /\ \A s \in {"out", "in"}, c \in L : /\ ep'[s][c].sent = ep[s][c].sent /\ ep'[s][c].got >= ep[s][c].got
                                       /\ ep[s][c].need = 0 => ep'[s][c].need = 0
  /\ ShakeCount(L)'
  /\ UNCHANGED <<shakeHandler, shakeChannel, established, out, event, typed, app>>

(* What the network does keeps the invariant. *)
LEMMA NetworkKeeps == ASSUME NEW L, ShakeInv(L), NetworkStep(L) PROVE ShakeInv(L)'
<1>1. ShakeType(L)'
  BY DEF ShakeInv, NetworkStep, ShakeType
<1>2. ShakeEvents(L)'
  BY DEF ShakeInv, NetworkStep, ShakeEvents, Begun, BegunIn
<1>3. ShakeOut(L)'
  <2> SUFFICES ASSUME NEW c \in L
               PROVE /\ ep'["out"][c].sent = IF out[c] \in Early THEN 0 ELSE IF out[c] \in {"info", "initiated"} THEN 1 ELSE 2
                     /\ out[c] \in Early \cup {"initiated", "done"} => ep'["out"][c].need = 0
                     /\ out[c] = "app" => ep'["out"][c].got >= 1
    BY DEF ShakeOut, NetworkStep
  <2>1. /\ ep["out"][c] \in Endpoint /\ ep'["out"][c] \in Endpoint
        /\ ep'["out"][c].sent = ep["out"][c].sent /\ ep'["out"][c].got >= ep["out"][c].got
        /\ ep["out"][c].need = 0 => ep'["out"][c].need = 0
    <3>1. ep \in [{"out", "in"} -> [L -> Endpoint]] /\ ep' \in [{"out", "in"} -> [L -> Endpoint]]
      BY DEF ShakeInv, ShakeType, NetworkStep
    <3>2. ep["out"][c] \in Endpoint /\ ep'["out"][c] \in Endpoint
      BY <3>1
    <3>3. /\ ep'["out"][c].sent = ep["out"][c].sent /\ ep'["out"][c].got >= ep["out"][c].got
          /\ ep["out"][c].need = 0 => ep'["out"][c].need = 0
      BY "out" \in {"out", "in"}, Zenon DEF NetworkStep
    <3> QED BY ONLY <3>2, <3>3
  <2> QED BY <2>1 DEF ShakeInv, ShakeOut, Endpoint
<1>4. ShakeIn(L)'
  <2>1. \A c \in L : /\ ep["in"][c] \in Endpoint /\ ep'["in"][c] \in Endpoint
                     /\ ep'["in"][c].sent = ep["in"][c].sent /\ ep'["in"][c].got >= ep["in"][c].got
                     /\ ep["in"][c].need = 0 => ep'["in"][c].need = 0
    BY DEF ShakeInv, ShakeType, NetworkStep
  <2>2. ShakeIn(L) /\ UNCHANGED <<shakeHandler, shakeChannel, established, out, event, typed, app>>
    BY DEF ShakeInv, NetworkStep
  <2>3. InApp' = InApp /\ \A c : Begun(c)' <=> Begun(c)
    BY <2>2 DEF InApp, Begun, BegunIn
  <2>4. ASSUME NEW c \in L
        PROVE  /\ ep'["in"][c].sent = IF ~Begun(c) THEN 0 ELSE IF c \in InApp THEN 2 ELSE 1
               /\ ~Begun(c) => ep'["in"][c].need = 0
               /\ c \in typed /\ c \notin InApp => ep'["in"][c].need = 0
               /\ c \in typed => ep'["in"][c].got >= 1
               /\ Begun(c) => out[c] \notin Early
    <3>1. /\ ep["in"][c].got \in Nat /\ ep'["in"][c].got \in Nat
          /\ ep'["in"][c].sent = ep["in"][c].sent /\ ep'["in"][c].got >= ep["in"][c].got
          /\ ep["in"][c].need = 0 => ep'["in"][c].need = 0
      <4>1. \A e \in Endpoint : e.got \in Nat
        BY DEF Endpoint
      <4>2. /\ ep["in"][c] \in Endpoint /\ ep'["in"][c] \in Endpoint
            /\ ep'["in"][c].sent = ep["in"][c].sent /\ ep'["in"][c].got >= ep["in"][c].got
            /\ ep["in"][c].need = 0 => ep'["in"][c].need = 0
        BY ONLY <2>1, <2>4
      <4> QED BY ONLY <4>1, <4>2
    <3>2. /\ ep["in"][c].sent = IF ~Begun(c) THEN 0 ELSE IF c \in InApp THEN 2 ELSE 1
          /\ ~Begun(c) => ep["in"][c].need = 0
          /\ c \in typed /\ c \notin InApp => ep["in"][c].need = 0
          /\ c \in typed => ep["in"][c].got >= 1
          /\ Begun(c) => out[c] \notin Early
      BY <2>2 DEF ShakeIn
    <3> QED BY <3>1, <3>2 DEF Begun, BegunIn
  <2> QED BY <2>2, <2>3, <2>4 DEF ShakeIn
<1> QED BY <1>1, <1>2, <1>3, <1>4 DEF ShakeInv, NetworkStep

(* One endpoint gets new counters, and the others keep theirs. *)
LEMMA EndpointUpdates ==
  ASSUME NEW L, NEW e0 \in [{"out", "in"} -> [L -> Endpoint]], NEW s \in {"out", "in"}, NEW c \in L, NEW v \in Endpoint,
         NEW e1, e1 = [e0 EXCEPT ![s][c] = v]
  PROVE  /\ e1 \in [{"out", "in"} -> [L -> Endpoint]]
         /\ e1[s][c] = v
         /\ \A r \in {"out", "in"}, d \in L : r # s \/ d # c => e1[r][d] = e0[r][d]
OBVIOUS

(* Two ends of a connection with right accounts, and what may become of    *)
(* one of them when nothing is sent.                                       *)
Sound(e, o) == e \in Endpoint /\ o \in Endpoint /\ Accounts(e, o) /\ Accounts(o, e)
Moved(e, o, v) ==
  /\ v \in Endpoint /\ v.sent = e.sent /\ v.got >= e.got /\ (e.need = 0 => v.need = 0)
  /\ Accounts(o, v) /\ Accounts(v, o)

(* One endpoint of a connection changes, and its accounts with the other   *)
(* one stay right on both sides.                                           *)
LEMMA OneEndpointMoves ==
  ASSUME NEW L, ShakeInv(L), NEW s \in {"out", "in"}, NEW r \in {"out", "in"}, r # s, NEW c \in L, NEW v,
         ep' = [ep EXCEPT ![s][c] = v], Moved(ep[s][c], ep[r][c], v),
         UNCHANGED <<shakeHandler, shakeChannel, established, out, event, typed, app>>
  PROVE  ShakeInv(L)'
<1> USE DEF Moved
<1>1. ep \in [{"out", "in"} -> [L -> Endpoint]]
  BY DEF ShakeInv, ShakeType
<1>2. /\ ep' \in [{"out", "in"} -> [L -> Endpoint]]
      /\ ep'[s][c] = v
      /\ \A q \in {"out", "in"}, d \in L : q # s \/ d # c => ep'[q][d] = ep[q][d]
  BY <1>1, EndpointUpdates
<1>3. ShakeCount(L)'
  <2> SUFFICES ASSUME NEW d \in L
               PROVE  Accounts(ep'["out"][d], ep'["in"][d]) /\ Accounts(ep'["in"][d], ep'["out"][d])
    BY DEF ShakeCount, Accounts
  <2>1. Accounts(ep["out"][d], ep["in"][d]) /\ Accounts(ep["in"][d], ep["out"][d])
    BY DEF ShakeInv, ShakeCount
  <2>2. CASE d # c
    <3>1. ep'["out"][d] = ep["out"][d] /\ ep'["in"][d] = ep["in"][d]
      BY <1>2, <2>2
    <3> QED BY <3>1, <2>1
  <2>3. CASE d = c
    <3>1. ep'[s][d] = v /\ ep'[r][d] = ep[r][d]
      BY <1>2, <2>3
    <3>2. Accounts(ep'[s][d], ep'[r][d]) /\ Accounts(ep'[r][d], ep'[s][d])
      BY <3>1, <2>3
    <3> QED BY <3>2
  <2> QED BY <2>2, <2>3
<1>4. ASSUME NEW q \in {"out", "in"}, NEW d \in L
      PROVE  /\ ep'[q][d].sent = ep[q][d].sent /\ ep'[q][d].got >= ep[q][d].got
             /\ ep[q][d].need = 0 => ep'[q][d].need = 0
  <2>1. ep[q][d].got \in Nat
    BY <1>1 DEF Endpoint
  <2> QED BY <1>2, <2>1
<1>5. NetworkStep(L)
  BY <1>2, <1>3, <1>4 DEF NetworkStep
<1> QED BY <1>5, NetworkKeeps

(* A message arrives, a send completes, completions are polled. *)
LEMMA ArrivalIsAccounted ==
  ASSUME NEW e, NEW o, Sound(e, o), e.got < o.sent,
         NEW v, v = [e EXCEPT !.got = @ + 1, !.cq = @ + 1]
  PROVE  Moved(e, o, v)
<1>1. /\ e.sent \in Nat /\ e.got \in Nat /\ e.acked \in Nat /\ e.cq \in Nat /\ e.need \in 0..2
      /\ e = [sent |-> e.sent, got |-> e.got, acked |-> e.acked, cq |-> e.cq, need |-> e.need]
  BY DEF Endpoint, Sound
<1>2. v = [sent |-> e.sent, got |-> e.got + 1, acked |-> e.acked, cq |-> e.cq + 1, need |-> e.need]
  BY <1>1
<1>3. v \in Endpoint
  BY <1>1, <1>2 DEF Endpoint
<1>4. v.sent = e.sent /\ v.got = e.got + 1 /\ v.acked = e.acked /\ v.cq = e.cq + 1 /\ v.need = e.need
  BY <1>2
<1>5. o.sent \in Nat /\ o.got \in Nat /\ o.acked \in Nat /\ o.cq \in Nat /\ o.need \in 0..2
  BY DEF Endpoint, Sound
<1>6. Accounts(o, v) /\ Accounts(v, o)
  BY <1>1, <1>4, <1>5 DEF Accounts, Sound
<1> QED BY <1>1, <1>3, <1>4, <1>6 DEF Moved

(* A completion that comes is accounted for at its side. *)
LEMMA CompletionIsAccounted ==
  ASSUME NEW e, NEW o, Sound(e, o), e.acked < o.got,
         NEW v, v = [e EXCEPT !.acked = @ + 1, !.cq = @ + 1]
  PROVE  Moved(e, o, v)
<1>1. /\ e.sent \in Nat /\ e.got \in Nat /\ e.acked \in Nat /\ e.cq \in Nat /\ e.need \in 0..2
      /\ e = [sent |-> e.sent, got |-> e.got, acked |-> e.acked, cq |-> e.cq, need |-> e.need]
  BY DEF Endpoint, Sound
<1>2. v = [sent |-> e.sent, got |-> e.got, acked |-> e.acked + 1, cq |-> e.cq + 1, need |-> e.need]
  BY <1>1
<1>3. v \in Endpoint
  BY <1>1, <1>2 DEF Endpoint
<1>4. v.sent = e.sent /\ v.got = e.got /\ v.acked = e.acked + 1 /\ v.cq = e.cq + 1 /\ v.need = e.need
  BY <1>2
<1>5. o.sent \in Nat /\ o.got \in Nat /\ o.acked \in Nat /\ o.cq \in Nat /\ o.need \in 0..2
  BY DEF Endpoint, Sound
<1>6. Accounts(o, v) /\ Accounts(v, o)
  BY <1>1, <1>4, <1>5 DEF Accounts, Sound
<1> QED BY <1>1, <1>3, <1>4, <1>6 DEF Moved

(* Completions that are polled are no longer waited for. *)
LEMMA PollIsAccounted ==
  ASSUME NEW e, NEW o, Sound(e, o), NEW n \in 1..e.need, n <= e.cq,
         NEW v, v = [e EXCEPT !.cq = @ - n, !.need = @ - n]
  PROVE  Moved(e, o, v)
<1>1. /\ e.sent \in Nat /\ e.got \in Nat /\ e.acked \in Nat /\ e.cq \in Nat /\ e.need \in 0..2
      /\ e = [sent |-> e.sent, got |-> e.got, acked |-> e.acked, cq |-> e.cq, need |-> e.need]
  BY DEF Endpoint, Sound
<1>2. v = [sent |-> e.sent, got |-> e.got, acked |-> e.acked, cq |-> e.cq - n, need |-> e.need - n]
  BY <1>1
<1>3. n \in Nat \ {0} /\ e.cq - n \in Nat /\ e.need - n \in 0..2 /\ e.need # 0
  BY <1>1
<1>4. v \in Endpoint
  BY <1>1, <1>2, <1>3 DEF Endpoint
<1>5. v.sent = e.sent /\ v.got = e.got /\ v.acked = e.acked /\ v.cq = e.cq - n /\ v.need = e.need - n
  BY <1>2
<1>6. e.got + e.acked + e.need = e.cq + 2 * e.sent
  BY DEF Sound, Accounts
<1>7. \A a, b, c, d, g \in Nat : a + b + c = d + 2 * g => a + b + (c - n) = (d - n) + 2 * g
  BY <1>3
<1>8. e.need \in Nat
  BY <1>1
<1>9. v.got + v.acked + v.need = v.cq + 2 * v.sent
  BY <1>1, <1>5, <1>6, <1>7, <1>8
<1>10. Accounts(v, o)
  BY <1>5, <1>9 DEF Accounts, Sound
<1>11. Accounts(o, v)
  BY <1>5 DEF Accounts, Sound
<1> QED BY <1>1, <1>3, <1>4, <1>5, <1>10, <1>11 DEF Moved

(* Both sides and the other one of each. *)
LEMMA TheSides ==
  ASSUME NEW nodes, NEW k
  PROVE  /\ Shake(nodes, k)!Sides = {"out", "in"}
         /\ Shake(nodes, k)!Other("out") = "in" /\ Shake(nodes, k)!Other("in") = "out"
BY DEF Shake!Sides, Shake!Other

(* A message arrives, a send completes, a completion is polled. *)
LEMMA ShakeNetwork ==
  ASSUME NEW nodes, NEW k, ShakeInv(Shake(nodes, k)!Conns), NEW c \in Shake(nodes, k)!Conns,
         Shake(nodes, k)!Network(c)
  PROVE  ShakeInv(Shake(nodes, k)!Conns)'
<1> DEFINE L == Shake(nodes, k)!Conns
<1>1. PICK s \in {"out", "in"} : Shake(nodes, k)!Deliver(s, c) \/ Shake(nodes, k)!Acknowledge(s, c) \/ Shake(nodes, k)!Poll(s, c)
  BY TheSides DEF Shake!Network
<1>2. PICK r \in {"out", "in"} : r = Shake(nodes, k)!Other(s) /\ r # s
  BY TheSides
<1> HIDE DEF L
<1>3. c \in L /\ ShakeInv(L)
  BY DEF L
<1>4. /\ Sound(ep[s][c], ep[r][c]) /\ Sound(ep[r][c], ep[s][c])
      /\ ep \in [{"out", "in"} -> [L -> Endpoint]]
  <2>1. ep \in [{"out", "in"} -> [L -> Endpoint]]
    BY <1>3 DEF ShakeInv, ShakeType
  <2>2. Accounts(ep["out"][c], ep["in"][c]) /\ Accounts(ep["in"][c], ep["out"][c])
    BY <1>3 DEF ShakeInv, ShakeCount
  <2> QED BY <2>1, <2>2, <1>2, <1>3 DEF Sound
<1>5. CASE Shake(nodes, k)!Deliver(s, c)
  <2>1. /\ ep[r][c].got < ep[s][c].sent /\ ep' = [ep EXCEPT ![r][c].got = @ + 1, ![r][c].cq = @ + 1]
        /\ UNCHANGED <<shakeHandler, shakeChannel, established, out, event, typed, app>>
    BY <1>5, <1>2 DEF Shake!Deliver
  <2>2. PICK v : v = [ep[r][c] EXCEPT !.got = @ + 1, !.cq = @ + 1]
    OBVIOUS
  <2>3. ep' = [ep EXCEPT ![r][c] = v]
    BY <2>1, <2>2, <1>3, <1>4
  <2>4. Moved(ep[r][c], ep[s][c], v)
    <3>1. ep[r][c].got < ep[s][c].sent
      BY <2>1
    <3> QED BY ONLY <3>1, <2>2, <1>4, ArrivalIsAccounted, Zenon
  <2>5. UNCHANGED <<shakeHandler, shakeChannel, established, out, event, typed, app>>
    BY <2>1
  <2>6. ShakeInv(L)'
    BY ONLY <2>3, <2>4, <2>5, <1>2, <1>3, OneEndpointMoves, s \in {"out", "in"}, r \in {"out", "in"}
  <2> QED BY <2>6 DEF L
<1>6. CASE Shake(nodes, k)!Acknowledge(s, c)
  <2>1. /\ ep[s][c].acked < ep[r][c].got /\ ep' = [ep EXCEPT ![s][c].acked = @ + 1, ![s][c].cq = @ + 1]
        /\ UNCHANGED <<shakeHandler, shakeChannel, established, out, event, typed, app>>
    BY <1>6, <1>2 DEF Shake!Acknowledge
  <2>2. PICK v : v = [ep[s][c] EXCEPT !.acked = @ + 1, !.cq = @ + 1]
    OBVIOUS
  <2>3. ep' = [ep EXCEPT ![s][c] = v]
    BY <2>1, <2>2, <1>3, <1>4
  <2>4. Moved(ep[s][c], ep[r][c], v)
    <3>1. ep[s][c].acked < ep[r][c].got
      BY <2>1
    <3> QED BY ONLY <3>1, <2>2, <1>4, CompletionIsAccounted, Zenon
  <2>5. UNCHANGED <<shakeHandler, shakeChannel, established, out, event, typed, app>>
    BY <2>1
  <2>6. ShakeInv(L)'
    BY ONLY <2>3, <2>4, <2>5, <1>2, <1>3, OneEndpointMoves, s \in {"out", "in"}, r \in {"out", "in"}
  <2> QED BY <2>6 DEF L
<1>7. CASE Shake(nodes, k)!Poll(s, c)
  <2>1. PICK n \in 1..ep[s][c].need :
          n <= ep[s][c].cq /\ ep' = [ep EXCEPT ![s][c].cq = @ - n, ![s][c].need = @ - n]
    BY <1>7 DEF Shake!Poll
  <2>2. UNCHANGED <<shakeHandler, shakeChannel, established, out, event, typed, app>>
    BY <1>7 DEF Shake!Poll
  <2>3. PICK v : v = [ep[s][c] EXCEPT !.cq = @ - n, !.need = @ - n]
    OBVIOUS
  <2>4. ep' = [ep EXCEPT ![s][c] = v]
    BY <2>1, <2>3, <1>3, <1>4
  <2>5. Moved(ep[s][c], ep[r][c], v)
    BY <2>1, <2>3, <1>4, PollIsAccounted
  <2>6. ShakeInv(L)'
    BY ONLY <2>2, <2>4, <2>5, <1>2, <1>3, OneEndpointMoves, s \in {"out", "in"}, r \in {"out", "in"}
  <2> QED BY <2>6 DEF L
<1> QED BY <1>1, <1>5, <1>6, <1>7

(* What follows from the invariant for a message that is the first of a    *)
(* channel, and for one that is put at its end.                            *)
LEMMA TakenOff ==
  ASSUME NEW S, NEW q \in Seq(S), q # <<>>
  PROVE  /\ Tail(q) \in Seq(S) /\ Head(q) \in S /\ Head(q) = q[1] /\ Len(q) \in Nat \ {0}
         /\ Len(Tail(q)) = Len(q) - 1 /\ \A i \in 1..Len(Tail(q)) : i + 1 \in 1..Len(q) /\ Tail(q)[i] = q[i + 1]
OBVIOUS

(* What is at which place after an append. *)
LEMMA PutAtTheEnd ==
  ASSUME NEW S, NEW q \in Seq(S), NEW x \in S
  PROVE  /\ Append(q, x) \in Seq(S) /\ Len(q) \in Nat /\ Len(Append(q, x)) = Len(q) + 1
         /\ \A i \in 1..Len(q) : Append(q, x)[i] = q[i]
         /\ Append(q, x)[Len(q) + 1] = x
OBVIOUS

ShakeMessage(L) == [e : {"request", "established"}, conn : L]

(* the channel holds no event of the connection *)
NoEventOf(c) == \A i \in 1..Len(shakeChannel) : shakeChannel[i].conn # c

SentAt(l) == IF l \in Early THEN 0 ELSE IF l \in {"info", "initiated"} THEN 1 ELSE 2

OutPcs == Early \cup {"info", "initiated", "app", "done"}

(* The initiator goes on without sending anything. *)
ClientMove(L, c, l, m) ==
  /\ l \in OutPcs /\ m \in {"none", "rejected", "established"}
  /\ out' = [out EXCEPT ![c] = l] /\ event' = [event EXCEPT ![c] = m]
  /\ SentAt(l) = SentAt(out[c])
  /\ l \in Early \cup {"initiated", "done"} => ep["out"][c].need = 0
  /\ l # "app"
  /\ m # "none" => l = "event"
  /\ out[c] \in Early => NoEventOf(c)
  /\ UNCHANGED <<shakeHandler, shakeChannel, established, typed, app, ep>>

(* Steps of an initiator that send nothing keep the invariant. *)
LEMMA ClientMoves ==
  ASSUME NEW L, NEW c \in L, NEW l, NEW m, ShakeInv(L), ClientMove(L, c, l, m)
  PROVE  ShakeInv(L)'
<1>1. /\ out \in [L -> OutPcs] /\ event \in [L -> {"none", "rejected", "established"}]
      /\ shakeChannel \in Seq(ShakeMessage(L))
  BY DEF ShakeInv, ShakeType, OutPcs, ShakeMessage
<1>2. /\ l \in Early <=> out[c] \in Early
      /\ out'[c] = l /\ event'[c] = m
      /\ \A d \in L : d # c => out'[d] = out[d] /\ event'[d] = event[d]
      /\ out' \in [L -> OutPcs] /\ event' \in [L -> {"none", "rejected", "established"}]
  BY <1>1 DEF ClientMove, SentAt, OutPcs, Early
<1>3. ShakeType(L)'
  BY <1>2 DEF ShakeInv, ShakeType, ClientMove, OutPcs
<1>4. ShakeCount(L)'
  BY DEF ShakeInv, ShakeCount, ClientMove
<1>5. ShakeOut(L)'
  <2> SUFFICES ASSUME NEW d \in L
               PROVE  /\ ep["out"][d].sent = SentAt(out'[d])
                      /\ out'[d] \in Early \cup {"initiated", "done"} => ep["out"][d].need = 0
                      /\ out'[d] = "app" => ep["out"][d].got >= 1
    BY DEF ShakeOut, ClientMove, SentAt
  <2>1. /\ ep["out"][d].sent = SentAt(out[d])
        /\ out[d] \in Early \cup {"initiated", "done"} => ep["out"][d].need = 0
        /\ out[d] = "app" => ep["out"][d].got >= 1
    BY DEF ShakeInv, ShakeOut, SentAt
  <2> QED BY <2>1, <1>2 DEF ClientMove
<1>6. ShakeIn(L)'
  <2>1. \A d \in L : out'[d] \in Early <=> out[d] \in Early
    BY <1>2
  <2> QED BY <2>1 DEF ShakeInv, ShakeIn, ClientMove, Begun, BegunIn, InApp
<1>7. ShakeEvents(L)'
  <2>1. \A d \in L : event'[d] # "none" => out'[d] = "event"
    BY <1>2 DEF ShakeInv, ShakeEvents, ClientMove
  <2>2. ASSUME NEW i \in 1..Len(shakeChannel)
        PROVE  IF shakeChannel[i].e = "request"
               THEN out'[shakeChannel[i].conn] = "event" /\ event'[shakeChannel[i].conn] = "none"
               ELSE out'[shakeChannel[i].conn] \notin Early /\ ~Begun(shakeChannel[i].conn)
    <3> DEFINE d == shakeChannel[i].conn
    <3>1. d \in L /\ shakeChannel[i].e \in {"request", "established"}
      <4>1. shakeChannel[i] \in ShakeMessage(L)
        BY <1>1
      <4> QED BY <4>1 DEF ShakeMessage
    <3>2. IF shakeChannel[i].e = "request" THEN out[d] = "event" /\ event[d] = "none"
          ELSE out[d] \notin Early /\ ~Begun(d)
      BY DEF ShakeInv, ShakeEvents
    <3>3. shakeChannel[i].e = "request" => d # c
      <4>1. out[c] \in Early => d # c
        BY DEF ClientMove, NoEventOf
      <4> QED BY <4>1, <3>2 DEF Early
    <3> HIDE DEF d
    <3>4. (shakeChannel[i].e = "request" => out'[d] = "event" /\ event'[d] = "none")
      BY <3>1, <3>2, <3>3, <1>2
    <3>5. shakeChannel[i].e # "request" => out'[d] \notin Early /\ ~Begun(d)
      BY <3>1, <3>2, <1>2 DEF Begun, BegunIn
    <3> QED BY <3>4, <3>5 DEF d
  <2> QED BY <2>1, <2>2 DEF ShakeInv, ShakeEvents, ClientMove, Begun, BegunIn
<1> QED BY <1>3, <1>4, <1>5, <1>6, <1>7 DEF ShakeInv

(* Connections of which the initiator has heard nothing yet have no event. *)
LEMMA NothingUnderWay ==
  ASSUME NEW L, ShakeInv(L), NEW c \in L, out[c] \in {"retry", "connect"} \/ (out[c] = "event" /\ event[c] # "none")
  PROVE  NoEventOf(c)
BY DEF ShakeInv, ShakeEvents, NoEventOf, Early


(* The steps of initiateConnection and of the exchange that follows it. *)
LEMMA ShakeClientMoves ==
  ASSUME NEW nodes, NEW k, NEW L, L = Shake(nodes, k)!Conns, ShakeInv(L), NEW c \in L,
         \/ Shake(nodes, k)!Lock(c) \/ Shake(nodes, k)!Rejected(c) \/ Shake(nodes, k)!Initiated(c)
         \/ Shake(nodes, k)!OutDone(c) \/ (Shake(nodes, k)!Connect(c) /\ ctor # "done")
  PROVE  ShakeInv(L)'
<1>1. /\ out \in [L -> OutPcs] /\ event \in [L -> {"none", "rejected", "established"}]
      /\ out[c] # "event" => event[c] = "none"
      /\ out[c] \in Early \cup {"initiated", "done"} => ep["out"][c].need = 0
  BY DEF ShakeInv, ShakeType, ShakeOut, ShakeEvents, OutPcs
<1>2. event = [event EXCEPT ![c] = event[c]]
  BY <1>1
<1>3. CASE Shake(nodes, k)!Lock(c)
  <2>1. NoEventOf(c)
    BY <1>3, NothingUnderWay DEF Shake!Lock
  <2>2. ClientMove(L, c, "connect", event[c])
    BY <1>1, <1>2, <1>3, <2>1 DEF ClientMove, Shake!Lock, OutPcs, Early, SentAt
  <2> QED BY <2>2, ClientMoves
<1>4. CASE Shake(nodes, k)!Rejected(c)
  <2>1. NoEventOf(c)
    BY <1>4, NothingUnderWay DEF Shake!Rejected
  <2>2. ClientMove(L, c, "retry", "none")
    BY <1>1, <1>2, <1>4, <2>1 DEF ClientMove, Shake!Rejected, OutPcs, Early, SentAt
  <2> QED BY <2>2, ClientMoves
<1>5. CASE Shake(nodes, k)!Initiated(c)
  <2>1. ClientMove(L, c, "initiated", event[c])
    BY <1>1, <1>2, <1>5 DEF ClientMove, Shake!Initiated, Shake!Exchanged, OutPcs, Early, SentAt
  <2> QED BY <2>1, ClientMoves
<1>6. CASE Shake(nodes, k)!OutDone(c)
  <2>1. ClientMove(L, c, "done", event[c])
    BY <1>1, <1>2, <1>6 DEF ClientMove, Shake!OutDone, Shake!Exchanged, OutPcs, Early, SentAt
  <2> QED BY <2>1, ClientMoves
<1>7. CASE Shake(nodes, k)!Connect(c) /\ ctor # "done"
  <2>1. NoEventOf(c)
    BY <1>7, NothingUnderWay DEF Shake!Connect
  <2>2. ClientMove(L, c, "event", "rejected")
    BY <1>1, <1>2, <1>7, <2>1 DEF ClientMove, Shake!Connect, OutPcs, Early, SentAt
  <2> QED BY <2>2, ClientMoves
<1> QED BY <1>3, <1>4, <1>5, <1>6, <1>7

(* A request is put into the channel once. *)
LEMMA ShakeConnect ==
  ASSUME NEW nodes, NEW k, NEW L, L = Shake(nodes, k)!Conns, ShakeInv(L), NEW c \in L,
         Shake(nodes, k)!Connect(c), ctor = "done"
  PROVE  ShakeInv(L)'
<1> DEFINE x == [e |-> "request", conn |-> c]
<1>1. /\ out[c] = "connect" /\ out' = [out EXCEPT ![c] = "event"] /\ shakeChannel' = Append(shakeChannel, x)
      /\ UNCHANGED <<shakeHandler, established, event, typed, app, ep>>
  BY DEF Shake!Connect
<1>2. NoEventOf(c)
  BY <1>1, NothingUnderWay
<1>3. shakeChannel \in Seq(ShakeMessage(L)) /\ x \in ShakeMessage(L)
      /\ out \in [L -> OutPcs] /\ event[c] = "none"
  BY <1>1 DEF ShakeInv, ShakeType, ShakeEvents, ShakeMessage, OutPcs
<1> HIDE DEF x
<1>4. /\ shakeChannel' \in Seq(ShakeMessage(L)) /\ Len(shakeChannel) \in Nat /\ Len(shakeChannel') = Len(shakeChannel) + 1
      /\ \A i \in 1..Len(shakeChannel) : shakeChannel'[i] = shakeChannel[i]
      /\ shakeChannel'[Len(shakeChannel) + 1] = x
  BY <1>1, <1>3, PutAtTheEnd
<1>5. /\ out'[c] = "event" /\ \A d \in L : d # c => out'[d] = out[d]
      /\ out' \in [L -> OutPcs] /\ \A d \in L : out'[d] \in Early <=> out[d] \in Early
  BY <1>1, <1>3 DEF OutPcs, Early
<1>6. ShakeType(L)' /\ ShakeCount(L)' 
  BY <1>1, <1>4, <1>5 DEF ShakeInv, ShakeType, ShakeCount, ShakeMessage, OutPcs
<1>7. ShakeOut(L)'
  BY <1>1, <1>5 DEF ShakeInv, ShakeOut, Early
<1>8. ShakeIn(L)'
  BY <1>1, <1>5 DEF ShakeInv, ShakeIn, Begun, BegunIn, InApp
<1>9. ShakeEvents(L)'
  <2>1. \A d \in L : event[d] # "none" => out'[d] = "event"
    BY <1>1, <1>5 DEF ShakeInv, ShakeEvents
  <2>2. ASSUME NEW i \in 1..Len(shakeChannel')
        PROVE  IF shakeChannel'[i].e = "request"
               THEN out'[shakeChannel'[i].conn] = "event" /\ event[shakeChannel'[i].conn] = "none"
               ELSE out'[shakeChannel'[i].conn] \notin Early /\ ~Begun(shakeChannel'[i].conn)
    <3>1. CASE i = Len(shakeChannel) + 1
      BY <3>1, <1>3, <1>4, <1>5 DEF x
    <3>2. CASE i \in 1..Len(shakeChannel)
      <4>1. shakeChannel'[i] = shakeChannel[i] /\ shakeChannel[i] \in ShakeMessage(L) /\ shakeChannel[i].conn # c
        BY <3>2, <1>2, <1>3, <1>4 DEF NoEventOf
      <4>2. IF shakeChannel[i].e = "request"
            THEN out[shakeChannel[i].conn] = "event" /\ event[shakeChannel[i].conn] = "none"
            ELSE out[shakeChannel[i].conn] \notin Early /\ ~Begun(shakeChannel[i].conn)
        BY <3>2 DEF ShakeInv, ShakeEvents
      <4>3. shakeChannel[i].conn \in L
        BY <4>1 DEF ShakeMessage
      <4>4. out'[shakeChannel[i].conn] = out[shakeChannel[i].conn]
        BY <4>1, <4>3, <1>5
      <4>5. IF shakeChannel[i].e = "request"
            THEN out'[shakeChannel[i].conn] = "event" /\ event[shakeChannel[i].conn] = "none"
            ELSE out'[shakeChannel[i].conn] \notin Early /\ ~Begun(shakeChannel[i].conn)
        BY <4>2, <4>4 DEF Begun, BegunIn
      <4> QED BY ONLY <4>1, <4>5
    <3>3. i = Len(shakeChannel) + 1 \/ i \in 1..Len(shakeChannel)
      BY <1>4
    <3> QED BY ONLY <3>1, <3>2, <3>3, Zenon
  <2>3. ASSUME NEW i \in 1..Len(shakeChannel'), NEW j \in 1..Len(shakeChannel'), i # j
        PROVE  shakeChannel'[i] # shakeChannel'[j]
    <3>1. \A h \in 1..Len(shakeChannel) : shakeChannel[h] # x
      BY <1>2 DEF NoEventOf, x
    <3>2. \A h, g \in 1..Len(shakeChannel) : h # g => shakeChannel[h] # shakeChannel[g]
      BY DEF ShakeInv, ShakeEvents
    <3> QED BY <2>3, <3>1, <3>2, <1>4
  <2> QED BY <2>1, <2>2, <2>3, <1>1 DEF ShakeEvents, Begun, BegunIn
<1> QED BY <1>6, <1>7, <1>8, <1>9 DEF ShakeInv

(* An exchange begins when the last one is over: the accounts of both ends *)
(* stay right.                                                             *)
Posted(e, o, v) ==
  /\ v \in Endpoint /\ v.sent = e.sent + 1 /\ v.got = e.got
  /\ Accounts(o, v) /\ Accounts(v, o)

(* A send that is posted has two completions to wait for. *)
LEMMA PostIsAccounted ==
  ASSUME NEW e, NEW o, Sound(e, o), e.need = 0, NEW v, v = [e EXCEPT !.sent = @ + 1, !.need = 2]
  PROVE  Posted(e, o, v)
<1>1. /\ e.sent \in Nat /\ e.got \in Nat /\ e.acked \in Nat /\ e.cq \in Nat
      /\ e = [sent |-> e.sent, got |-> e.got, acked |-> e.acked, cq |-> e.cq, need |-> e.need]
  BY DEF Endpoint, Sound
<1>2. v = [sent |-> e.sent + 1, got |-> e.got, acked |-> e.acked, cq |-> e.cq, need |-> 2]
  BY <1>1
<1>3. v \in Endpoint
  BY <1>1, <1>2 DEF Endpoint
<1>4. v.sent = e.sent + 1 /\ v.got = e.got /\ v.acked = e.acked /\ v.cq = e.cq /\ v.need = 2
  BY <1>2
<1>5. o.sent \in Nat /\ o.got \in Nat /\ o.acked \in Nat /\ o.cq \in Nat /\ o.need \in 0..2
  BY DEF Endpoint, Sound
<1>6. Accounts(o, v) /\ Accounts(v, o)
  BY <1>1, <1>4, <1>5 DEF Accounts, Sound
<1> QED BY <1>3, <1>4, <1>6 DEF Posted

(* One end of a connection posts its message. *)
Posting(L, s, c) ==
  /\ ep' \in [{"out", "in"} -> [L -> Endpoint]] /\ ShakeCount(L)'
  /\ ep'[s][c].sent = ep[s][c].sent + 1 /\ ep'[s][c].got = ep[s][c].got
  /\ \A r \in {"out", "in"}, d \in L : r # s \/ d # c => ep'[r][d] = ep[r][d]

(* A send that a side may begin posts a message, and no other endpoint changes. *)
LEMMA EndpointPosts ==
  ASSUME NEW nodes, NEW k, NEW L, ShakeInv(L), NEW s \in {"out", "in"}, NEW c \in L, ep[s][c].need = 0,
         ep' = [ep EXCEPT ![s][c] = Shake(nodes, k)!PostSend(@)]
  PROVE  Posting(L, s, c)
<1>1. ep \in [{"out", "in"} -> [L -> Endpoint]]
  BY DEF ShakeInv, ShakeType
<1>2. PICK r \in {"out", "in"} : r # s
  OBVIOUS
<1>3. PICK v : v = [ep[s][c] EXCEPT !.sent = @ + 1, !.need = 2]
  OBVIOUS
<1>4. ep' = [ep EXCEPT ![s][c] = v]
  BY <1>1, <1>3 DEF Shake!PostSend
<1>5. Sound(ep[s][c], ep[r][c])
  <2>1. Accounts(ep["out"][c], ep["in"][c]) /\ Accounts(ep["in"][c], ep["out"][c])
    BY DEF ShakeInv, ShakeCount
  <2> QED BY <2>1, <1>1, <1>2 DEF Sound
<1>6. Posted(ep[s][c], ep[r][c], v)
  BY <1>3, <1>5, PostIsAccounted, Zenon
<1>7. /\ ep' \in [{"out", "in"} -> [L -> Endpoint]]
      /\ ep'[s][c] = v
      /\ \A q \in {"out", "in"}, d \in L : q # s \/ d # c => ep'[q][d] = ep[q][d]
  <2>1. v \in Endpoint
    BY <1>6 DEF Posted
  <2> QED BY <1>1, <1>4, <2>1, EndpointUpdates
<1>8. ShakeCount(L)'
  <2> SUFFICES ASSUME NEW d \in L
               PROVE  Accounts(ep'["out"][d], ep'["in"][d]) /\ Accounts(ep'["in"][d], ep'["out"][d])
    BY DEF ShakeCount, Accounts
  <2>1. Accounts(ep["out"][d], ep["in"][d]) /\ Accounts(ep["in"][d], ep["out"][d])
    BY DEF ShakeInv, ShakeCount
  <2>2. CASE d # c
    <3>1. ep'["out"][d] = ep["out"][d] /\ ep'["in"][d] = ep["in"][d]
      BY <1>7, <2>2
    <3> QED BY <3>1, <2>1
  <2>3. CASE d = c
    <3>1. ep'[s][d] = v /\ ep'[r][d] = ep[r][d]
      BY <1>2, <1>7, <2>3
    <3>2. Accounts(ep'[s][d], ep'[r][d]) /\ Accounts(ep'[r][d], ep'[s][d])
      BY <3>1, <2>3, <1>6 DEF Posted
    <3> QED BY <3>2, <1>2
  <2> QED BY <2>2, <2>3
<1> QED BY <1>6, <1>7, <1>8 DEF Posting, Posted

(* ESTABLISHED at the initiator: it posts its info, and the event goes to the other end as well. *)
LEMMA ShakeAccepted ==
  ASSUME NEW nodes, NEW k, NEW L, L = Shake(nodes, k)!Conns, ShakeInv(L), NEW c \in L, Shake(nodes, k)!Accepted(c)
  PROVE  ShakeInv(L)'
<1> DEFINE x == [e |-> "established", conn |-> c]
<1>1. /\ out[c] = "event" /\ event[c] = "established"
      /\ out' = [out EXCEPT ![c] = "info"] /\ event' = [event EXCEPT ![c] = "none"]
      /\ shakeChannel' = Append(shakeChannel, x)
      /\ ep' = [ep EXCEPT !["out"][c] = Shake(nodes, k)!PostSend(@)]
      /\ UNCHANGED <<shakeHandler, established, typed, app>>
  BY DEF Shake!Accepted
<1>2. NoEventOf(c)
  BY <1>1, NothingUnderWay
<1>3. shakeChannel \in Seq(ShakeMessage(L)) /\ x \in ShakeMessage(L)
      /\ out \in [L -> OutPcs] /\ event \in [L -> {"none", "rejected", "established"}]
  BY DEF ShakeInv, ShakeType, ShakeEvents, ShakeMessage, OutPcs
<1>4. ep["out"][c].need = 0 /\ ep["out"][c].sent = 0 /\ ~Begun(c)
  BY <1>1 DEF ShakeInv, ShakeOut, ShakeIn, Early
<1>5. Posting(L, "out", c)
  BY <1>1, <1>4, EndpointPosts
<1> HIDE DEF x
<1>6. /\ shakeChannel' \in Seq(ShakeMessage(L)) /\ Len(shakeChannel) \in Nat /\ Len(shakeChannel') = Len(shakeChannel) + 1
      /\ \A i \in 1..Len(shakeChannel) : shakeChannel'[i] = shakeChannel[i]
      /\ shakeChannel'[Len(shakeChannel) + 1] = x
  BY <1>1, <1>3, PutAtTheEnd
<1>7. /\ out'[c] = "info" /\ \A d \in L : d # c => out'[d] = out[d] /\ event'[d] = event[d]
      /\ event'[c] = "none" /\ out' \in [L -> OutPcs] /\ event' \in [L -> {"none", "rejected", "established"}]
  BY <1>1, <1>3 DEF OutPcs
<1>8. ShakeType(L)' /\ ShakeCount(L)'
  BY <1>1, <1>5, <1>6, <1>7 DEF ShakeInv, ShakeType, ShakeMessage, OutPcs, Posting
<1>9. ShakeOut(L)'
  <2> SUFFICES ASSUME NEW d \in L
               PROVE  /\ ep'["out"][d].sent = SentAt(out'[d])
                      /\ out'[d] \in Early \cup {"initiated", "done"} => ep'["out"][d].need = 0
                      /\ out'[d] = "app" => ep'["out"][d].got >= 1
    BY DEF ShakeOut, SentAt
  <2>1. CASE d = c
    BY <2>1, <1>4, <1>5, <1>7 DEF Posting, SentAt, Early
  <2>2. CASE d # c
    <3>1. ep'["out"][d] = ep["out"][d] /\ out'[d] = out[d]
      BY <2>2, <1>5, <1>7 DEF Posting
    <3> QED BY <3>1 DEF ShakeInv, ShakeOut, SentAt
  <2> QED BY <2>1, <2>2
<1>10. ShakeIn(L)'
  <2>1. \A d \in L : ep'["in"][d] = ep["in"][d] /\ (out[d] \notin Early => out'[d] \notin Early)
    BY <1>1, <1>5, <1>7 DEF Posting, Early
  <2> QED BY <2>1, <1>1 DEF ShakeInv, ShakeIn, Begun, BegunIn, InApp
<1>11. ShakeEvents(L)'
  <2>1. \A d \in L : event'[d] # "none" => out'[d] = "event"
    BY <1>1, <1>7 DEF ShakeInv, ShakeEvents
  <2>2. ASSUME NEW i \in 1..Len(shakeChannel')
        PROVE  IF shakeChannel'[i].e = "request"
               THEN out'[shakeChannel'[i].conn] = "event" /\ event'[shakeChannel'[i].conn] = "none"
               ELSE out'[shakeChannel'[i].conn] \notin Early /\ ~Begun(shakeChannel'[i].conn)
    <3>1. CASE i = Len(shakeChannel) + 1
      <4>1. shakeChannel'[i].e # "request" /\ shakeChannel'[i].conn = c
        BY <3>1, <1>6 DEF x
      <4>2. out'[c] \notin Early /\ ~Begun(c)
        BY <1>4, <1>7 DEF Early
      <4> QED BY ONLY <4>1, <4>2, Zenon
    <3>2. CASE i \in 1..Len(shakeChannel)
      <4>1. shakeChannel'[i] = shakeChannel[i] /\ shakeChannel[i] \in ShakeMessage(L) /\ shakeChannel[i].conn # c
        BY <3>2, <1>2, <1>3, <1>6 DEF NoEventOf
      <4>2. IF shakeChannel[i].e = "request"
            THEN out[shakeChannel[i].conn] = "event" /\ event[shakeChannel[i].conn] = "none"
            ELSE out[shakeChannel[i].conn] \notin Early /\ ~Begun(shakeChannel[i].conn)
        BY <3>2 DEF ShakeInv, ShakeEvents
      <4>3. shakeChannel[i].conn \in L
        BY <4>1 DEF ShakeMessage
      <4>4. /\ out'[shakeChannel[i].conn] = out[shakeChannel[i].conn]
            /\ event'[shakeChannel[i].conn] = event[shakeChannel[i].conn]
        BY <4>1, <4>3, <1>7
      <4>5. IF shakeChannel[i].e = "request"
            THEN out'[shakeChannel[i].conn] = "event" /\ event'[shakeChannel[i].conn] = "none"
            ELSE out'[shakeChannel[i].conn] \notin Early /\ ~Begun(shakeChannel[i].conn)
        BY <4>2, <4>4 DEF Begun, BegunIn
      <4> QED BY ONLY <4>1, <4>5
    <3>3. i = Len(shakeChannel) + 1 \/ i \in 1..Len(shakeChannel)
      BY <1>6
    <3> QED BY ONLY <3>1, <3>2, <3>3, Zenon
  <2>3. ASSUME NEW i \in 1..Len(shakeChannel'), NEW j \in 1..Len(shakeChannel'), i # j
        PROVE  shakeChannel'[i] # shakeChannel'[j]
    <3>1. \A h \in 1..Len(shakeChannel) : shakeChannel[h] # x
      BY <1>2 DEF NoEventOf, x
    <3>2. \A h, g \in 1..Len(shakeChannel) : h # g => shakeChannel[h] # shakeChannel[g]
      BY DEF ShakeInv, ShakeEvents
    <3> QED BY <2>3, <3>1, <3>2, <1>6
  <2> QED BY <2>1, <2>2, <2>3, <1>1 DEF ShakeEvents, Begun, BegunIn
<1> QED BY <1>8, <1>9, <1>10, <1>11 DEF ShakeInv

(* exchangeInitialMesssage of the initiator begins. *)
LEMMA ShakeOutExchange ==
  ASSUME NEW nodes, NEW k, NEW L, L = Shake(nodes, k)!Conns, ShakeInv(L), NEW c \in L, Shake(nodes, k)!OutExchange(c)
  PROVE  ShakeInv(L)'
<1>1. /\ out[c] = "initiated" /\ out' = [out EXCEPT ![c] = "app"]
      /\ ep' = [ep EXCEPT !["out"][c] = Shake(nodes, k)!PostSend(@)]
      /\ UNCHANGED <<shakeHandler, shakeChannel, event, established, typed, app>>
  BY DEF Shake!OutExchange
<1>2. out \in [L -> OutPcs]
  BY DEF ShakeInv, ShakeType, OutPcs
<1>3. ep["out"][c].need = 0 /\ ep["out"][c].sent = 1 /\ ep["out"][c] \in Endpoint /\ ep["in"][c] \in Endpoint
  BY <1>1 DEF ShakeInv, ShakeType, ShakeOut, Early
<1>4. ep["out"][c].got >= 1
  <2>1. Accounts(ep["out"][c], ep["in"][c]) /\ Accounts(ep["in"][c], ep["out"][c])
    BY DEF ShakeInv, ShakeCount
  <2> QED BY <2>1, <1>3 DEF Accounts, Endpoint
<1>5. Posting(L, "out", c)
  BY <1>1, <1>3, EndpointPosts
<1>6. out'[c] = "app" /\ (\A d \in L : d # c => out'[d] = out[d]) /\ out' \in [L -> OutPcs]
  BY <1>1, <1>2 DEF OutPcs
<1>7. ShakeType(L)' /\ ShakeCount(L)'
  BY <1>1, <1>5, <1>6 DEF ShakeInv, ShakeType, OutPcs, Posting
<1>8. ShakeOut(L)'
  <2> SUFFICES ASSUME NEW d \in L
               PROVE  /\ ep'["out"][d].sent = SentAt(out'[d])
                      /\ out'[d] \in Early \cup {"initiated", "done"} => ep'["out"][d].need = 0
                      /\ out'[d] = "app" => ep'["out"][d].got >= 1
    BY DEF ShakeOut, SentAt
  <2>1. CASE d = c
    BY <2>1, <1>3, <1>4, <1>5, <1>6 DEF Posting, SentAt, Early
  <2>2. CASE d # c
    <3>1. ep'["out"][d] = ep["out"][d] /\ out'[d] = out[d]
      BY <2>2, <1>5, <1>6 DEF Posting
    <3> QED BY <3>1 DEF ShakeInv, ShakeOut, SentAt
  <2> QED BY <2>1, <2>2
<1>9. ShakeIn(L)'
  <2>1. \A d \in L : ep'["in"][d] = ep["in"][d] /\ (out[d] \notin Early => out'[d] \notin Early)
    BY <1>1, <1>5, <1>6 DEF Posting, Early
  <2> QED BY <2>1, <1>1 DEF ShakeInv, ShakeIn, Begun, BegunIn, InApp
<1>10. ShakeEvents(L)'
  <2>1. \A d \in L : (out[d] \notin Early => out'[d] \notin Early) /\ (out[d] = "event" => out'[d] = "event")
    BY <1>1, <1>6 DEF Early
  <2>2. \A i \in 1..Len(shakeChannel) : shakeChannel[i].conn \in L
    <3>1. shakeChannel \in Seq(ShakeMessage(L))
      BY DEF ShakeInv, ShakeType, ShakeMessage
    <3>2. \A i \in 1..Len(shakeChannel) : shakeChannel[i] \in ShakeMessage(L)
      BY <3>1
    <3> QED BY <3>2 DEF ShakeMessage
  <2> QED BY <1>1, <2>1, <2>2 DEF ShakeInv, ShakeEvents, Begun, BegunIn
<1> QED BY <1>7, <1>8, <1>9, <1>10 DEF ShakeInv

(* The first event of the channel and what stays in it. *)
LEMMA ChannelShrinks ==
  ASSUME NEW L, ShakeInv(L), shakeChannel # <<>>, shakeChannel' = Tail(shakeChannel)
  PROVE  /\ shakeChannel' \in Seq(ShakeMessage(L)) /\ Head(shakeChannel) \in ShakeMessage(L)
         /\ Head(shakeChannel).conn \in L /\ Len(shakeChannel) \in Nat \ {0} /\ Head(shakeChannel) = shakeChannel[1]
         /\ \A i \in 1..Len(shakeChannel') : /\ i + 1 \in 1..Len(shakeChannel)
                                             /\ shakeChannel'[i] = shakeChannel[i + 1]
                                             /\ shakeChannel'[i] # Head(shakeChannel)
                                             /\ shakeChannel'[i] \in ShakeMessage(L)
                                             /\ shakeChannel'[i].conn \in L
         /\ \A i, j \in 1..Len(shakeChannel') : i # j => shakeChannel'[i] # shakeChannel'[j]
<1>1. shakeChannel \in Seq(ShakeMessage(L))
  BY DEF ShakeInv, ShakeType, ShakeMessage
<1>2. /\ shakeChannel' \in Seq(ShakeMessage(L)) /\ Head(shakeChannel) \in ShakeMessage(L) /\ Head(shakeChannel) = shakeChannel[1]
      /\ Len(shakeChannel) \in Nat \ {0} /\ Len(shakeChannel') = Len(shakeChannel) - 1
      /\ \A i \in 1..Len(shakeChannel') : i + 1 \in 1..Len(shakeChannel) /\ shakeChannel'[i] = shakeChannel[i + 1]
  BY <1>1, TakenOff
<1>3. \A i, j \in 1..Len(shakeChannel) : i # j => shakeChannel[i] # shakeChannel[j]
  BY DEF ShakeInv, ShakeEvents
<1>4. \A i \in 1..Len(shakeChannel') : shakeChannel'[i] \in ShakeMessage(L)
  BY <1>2
<1>5. \A i \in 1..Len(shakeChannel') : shakeChannel'[i] # Head(shakeChannel)
  BY <1>2, <1>3
<1>6. \A i, j \in 1..Len(shakeChannel') : i # j => shakeChannel'[i] # shakeChannel'[j]
  BY <1>2, <1>3
<1>7. \A x \in ShakeMessage(L) : x.conn \in L
  BY DEF ShakeMessage
<1> QED BY <1>2, <1>4, <1>5, <1>6, <1>7

(* The handler thread begins to take events. *)
LEMMA ShakeHandlerStart ==
  ASSUME NEW nodes, NEW k, NEW L, ShakeInv(L), Shake(nodes, k)!HandlerStart
  PROVE  ShakeInv(L)'
<1>1. /\ shakeHandler.pc = "start" /\ shakeHandler' = [shakeHandler EXCEPT !.pc = "idle"]
      /\ UNCHANGED <<shakeChannel, established, out, event, typed, app, ep>>
  BY DEF Shake!HandlerStart
<1>2. shakeHandler'.pc = "idle" /\ shakeHandler' \in [pc : {"start", "idle", "exchange", "count"}, conn : L \cup {<<"nobody", 0>>}]
  BY <1>1 DEF ShakeInv, ShakeType
<1>3. \A c \in L : Begun(c)' <=> Begun(c)
  BY <1>1, <1>2 DEF Begun, BegunIn
<1>4. ShakeType(L)' /\ ShakeCount(L)' /\ ShakeOut(L)'
  BY <1>1, <1>2 DEF ShakeInv, ShakeType, ShakeCount, ShakeOut
<1>5. ShakeIn(L)'
  BY <1>1, <1>2 DEF ShakeInv, ShakeIn, InApp, Begun, BegunIn
<1>6. ShakeEvents(L)'
  BY <1>1, <1>2 DEF ShakeInv, ShakeEvents, Begun, BegunIn
<1> QED BY <1>4, <1>5, <1>6 DEF ShakeInv

(* CONNECT_REQUEST *)
LEMMA ShakeConnectRequest ==
  ASSUME NEW nodes, NEW k, NEW L, ShakeInv(L), Shake(nodes, k)!ConnectRequest
  PROVE  ShakeInv(L)'
<1> DEFINE c == Head(shakeChannel).conn
<1>1. /\ shakeChannel # <<>> /\ Head(shakeChannel).e = "request" /\ shakeChannel' = Tail(shakeChannel)
      /\ event' = [event EXCEPT ![c] = "established"]
      /\ UNCHANGED <<shakeHandler, established, out, typed, app, ep>>
  BY DEF Shake!ConnectRequest, Shake!Take
<1>2. c \in L /\ Head(shakeChannel) = shakeChannel[1] /\ 1 \in 1..Len(shakeChannel)
  BY <1>1, ChannelShrinks
<1>3. out[c] = "event" /\ event[c] = "none"
  BY <1>1, <1>2 DEF ShakeInv, ShakeEvents
<1>4. /\ shakeChannel' \in Seq(ShakeMessage(L))
      /\ \A i \in 1..Len(shakeChannel') : /\ i + 1 \in 1..Len(shakeChannel)
                                             /\ shakeChannel'[i] = shakeChannel[i + 1]
                                             /\ shakeChannel'[i] # Head(shakeChannel)
                                             /\ shakeChannel'[i] \in ShakeMessage(L)
                                             /\ shakeChannel'[i].conn \in L
      /\ \A i, j \in 1..Len(shakeChannel') : i # j => shakeChannel'[i] # shakeChannel'[j]
      /\ Head(shakeChannel) \in ShakeMessage(L)
  BY <1>1, ChannelShrinks
<1>5. \A x, y \in ShakeMessage(L) : x # y /\ x.e = y.e => x.conn # y.conn
  BY DEF ShakeMessage
<1>6. event \in [L -> {"none", "rejected", "established"}]
  BY DEF ShakeInv, ShakeType
<1>7. /\ event' \in [L -> {"none", "rejected", "established"}] /\ event'[c] = "established"
      /\ \A d \in L : d # c => event'[d] = event[d]
  BY <1>1, <1>2, <1>6
<1>8. ShakeType(L)' /\ ShakeCount(L)' /\ ShakeOut(L)'
  BY <1>1, <1>4, <1>7 DEF ShakeInv, ShakeType, ShakeCount, ShakeOut, ShakeMessage
<1>9. ShakeIn(L)'
  BY <1>1 DEF ShakeInv, ShakeIn, InApp, Begun, BegunIn
<1>10. ShakeEvents(L)'
  <2>1. \A d \in L : event'[d] # "none" => out[d] = "event"
    BY <1>3, <1>7 DEF ShakeInv, ShakeEvents
  <2>2. ASSUME NEW i \in 1..Len(shakeChannel')
        PROVE  IF shakeChannel'[i].e = "request"
               THEN out[shakeChannel'[i].conn] = "event" /\ event'[shakeChannel'[i].conn] = "none"
               ELSE out[shakeChannel'[i].conn] \notin Early /\ ~Begun(shakeChannel'[i].conn)
    <3> DEFINE x == shakeChannel'[i]
    <3>1. x \in ShakeMessage(L) /\ x # Head(shakeChannel) /\ x.conn \in L
      BY <1>4
    <3>2. IF x.e = "request" THEN out[x.conn] = "event" /\ event[x.conn] = "none"
          ELSE out[x.conn] \notin Early /\ ~Begun(x.conn)
      BY <1>4 DEF ShakeInv, ShakeEvents
    <3>3. x.e = "request" => x.conn # c
      BY <1>1, <1>4, <1>5, <3>1
    <3> HIDE DEF x, c
    <3>4. x.e = "request" => event'[x.conn] = event[x.conn]
      BY <3>1, <3>3, <1>7
    <3>5. IF x.e = "request" THEN out[x.conn] = "event" /\ event'[x.conn] = "none"
          ELSE out[x.conn] \notin Early /\ ~Begun(x.conn)
      BY <3>2, <3>4 DEF Begun, BegunIn
    <3> QED BY <3>5 DEF x
  <2> QED BY <2>1, <2>2, <1>1, <1>4 DEF ShakeEvents, Begun, BegunIn
<1> QED BY <1>8, <1>9, <1>10 DEF ShakeInv

(* ESTABLISHED: the handler thread posts its info to a connection that it  *)
(* has not met before.                                                     *)
LEMMA ShakeEstablished ==
  ASSUME NEW nodes, NEW k, NEW L, ShakeInv(L), Shake(nodes, k)!Established
  PROVE  ShakeInv(L)'
<1>a. PICK c : c = Head(shakeChannel).conn
  OBVIOUS
<1>1. /\ shakeHandler.pc = "idle"
      /\ shakeChannel # <<>> /\ Head(shakeChannel).e = "established" /\ shakeChannel' = Tail(shakeChannel)
      /\ shakeHandler' = [pc |-> "exchange", conn |-> c]
      /\ ep' = [ep EXCEPT !["in"][c] = Shake(nodes, k)!PostSend(@)]
      /\ UNCHANGED <<established, out, event, typed, app>>
  BY <1>a DEF Shake!Established, Shake!Take
<1>2. c \in L /\ Head(shakeChannel) = shakeChannel[1] /\ 1 \in 1..Len(shakeChannel)
  BY <1>a, <1>1, ChannelShrinks
<1>3. out[c] \notin Early /\ ~Begun(c)
  BY <1>a, <1>1, <1>2 DEF ShakeInv, ShakeEvents
<1>4. /\ shakeChannel' \in Seq(ShakeMessage(L))
      /\ \A i \in 1..Len(shakeChannel') : /\ i + 1 \in 1..Len(shakeChannel)
                                             /\ shakeChannel'[i] = shakeChannel[i + 1]
                                             /\ shakeChannel'[i] # Head(shakeChannel)
                                             /\ shakeChannel'[i] \in ShakeMessage(L)
                                             /\ shakeChannel'[i].conn \in L
      /\ \A i, j \in 1..Len(shakeChannel') : i # j => shakeChannel'[i] # shakeChannel'[j]
      /\ Head(shakeChannel) \in ShakeMessage(L)
  BY <1>1, ChannelShrinks
<1>5. \A x, y \in ShakeMessage(L) : x # y /\ x.e = y.e => x.conn # y.conn
  BY DEF ShakeMessage
<1>6. ep["in"][c].need = 0 /\ ep["in"][c].sent = 0 /\ c \notin typed
  BY <1>2, <1>3 DEF ShakeInv, ShakeIn, Begun, BegunIn
<1>7. Posting(L, "in", c)
  BY <1>1, <1>2, <1>6, EndpointPosts
<1>8. shakeHandler'.pc = "exchange" /\ shakeHandler'.conn = c
  BY <1>1
<1>9. /\ Begun(c)' /\ \A d : d # c => (Begun(d)' <=> Begun(d))
  BY <1>1, <1>8 DEF Begun, BegunIn
<1>10. ShakeType(L)' /\ ShakeCount(L)'
  BY <1>1, <1>2, <1>4, <1>7 DEF ShakeInv, ShakeType, ShakeMessage, Posting
<1>11. ShakeOut(L)'
  <2>1. \A d \in L : ep'["out"][d] = ep["out"][d]
    BY <1>7 DEF Posting
  <2> QED BY <2>1, <1>1 DEF ShakeInv, ShakeOut
<1>12. ShakeIn(L)'
  <2>1. InApp' = InApp /\ c \notin InApp
    <3>1. c \notin InApp
      BY <1>2, <1>6 DEF ShakeInv, ShakeIn, ShakeType, InApp
    <3> QED BY <1>1, <3>1 DEF InApp
  <2>2. ASSUME NEW d \in L
        PROVE  /\ ep'["in"][d].sent = IF ~Begun(d)' THEN 0 ELSE IF d \in InApp THEN 2 ELSE 1
               /\ ~Begun(d)' => ep'["in"][d].need = 0
               /\ d \in typed /\ d \notin InApp => ep'["in"][d].need = 0
               /\ d \in typed => ep'["in"][d].got >= 1
               /\ Begun(d)' => out[d] \notin Early
    <3>1. CASE d = c
      <4>1. ep'["in"][c].sent = 1
        BY <1>6, <1>7 DEF Posting
      <4> QED BY <3>1, <4>1, <2>1, <1>3, <1>6, <1>9
    <3>2. CASE d # c
      <4>1. ep'["in"][d] = ep["in"][d]
        BY <1>7, <3>2 DEF Posting
      <4>2. Begun(d)' <=> Begun(d)
        BY <1>9, <3>2
      <4>3. /\ ep["in"][d].sent = IF ~Begun(d) THEN 0 ELSE IF d \in InApp THEN 2 ELSE 1
            /\ ~Begun(d) => ep["in"][d].need = 0
            /\ d \in typed /\ d \notin InApp => ep["in"][d].need = 0
            /\ d \in typed => ep["in"][d].got >= 1
            /\ Begun(d) => out[d] \notin Early
        BY DEF ShakeInv, ShakeIn
      <4> QED BY <4>1, <4>2, <4>3 DEF Begun, BegunIn
    <3> QED BY <3>1, <3>2
  <2>3. /\ app # <<>> => established = L
        /\ shakeHandler'.pc = "count" => shakeHandler'.conn \in typed
        /\ shakeHandler'.pc = "exchange" => shakeHandler'.conn \notin typed
    BY <1>6, <1>8 DEF ShakeInv, ShakeIn
  <2> QED BY <1>1, <2>1, <2>2, <2>3 DEF ShakeIn
<1>13. ShakeEvents(L)'
  <2>1. \A d \in L : event[d] # "none" => out[d] = "event"
    BY DEF ShakeInv, ShakeEvents
  <2>2. ASSUME NEW i \in 1..Len(shakeChannel')
        PROVE  IF shakeChannel'[i].e = "request"
               THEN out[shakeChannel'[i].conn] = "event" /\ event[shakeChannel'[i].conn] = "none"
               ELSE out[shakeChannel'[i].conn] \notin Early /\ ~BegunIn(shakeHandler', typed', shakeChannel'[i].conn)
    <3> DEFINE x == shakeChannel'[i]
    <3>1. x \in ShakeMessage(L) /\ x # Head(shakeChannel) /\ x.conn \in L /\ x.e \in {"request", "established"}
      BY <1>4 DEF ShakeMessage
    <3>2. IF x.e = "request" THEN out[x.conn] = "event" /\ event[x.conn] = "none"
          ELSE out[x.conn] \notin Early /\ ~Begun(x.conn)
      BY <1>4 DEF ShakeInv, ShakeEvents
    <3>3. x.e # "request" => x.conn # c
      BY <1>a, <1>1, <1>4, <1>5, <3>1
    <3> HIDE DEF x
    <3>4. x.e # "request" => (BegunIn(shakeHandler', typed', x.conn) <=> Begun(x.conn))
      BY <3>3, <1>1, <1>8 DEF Begun, BegunIn
    <3>5. IF x.e = "request" THEN out[x.conn] = "event" /\ event[x.conn] = "none"
          ELSE out[x.conn] \notin Early /\ ~BegunIn(shakeHandler', typed', x.conn)
      BY <3>2, <3>4 DEF Begun, BegunIn
    <3> QED BY <3>5 DEF x
  <2> QED BY <2>1, <2>2, <1>1, <1>4 DEF ShakeEvents, Begun, BegunIn
<1> QED BY <1>10, <1>11, <1>12, <1>13 DEF ShakeInv

(* The handler thread has waited for two completions: the info is there. *)
LEMMA ShakeSetType ==
  ASSUME NEW nodes, NEW k, NEW L, ShakeInv(L), Shake(nodes, k)!SetType
  PROVE  ShakeInv(L)'
<1> DEFINE c == shakeHandler.conn
<1>1. /\ shakeHandler.pc = "exchange" /\ ep["in"][c].need = 0 /\ typed' = typed \cup {c}
      /\ shakeHandler' = [shakeHandler EXCEPT !.pc = "count"]
      /\ UNCHANGED <<shakeChannel, established, out, event, app, ep>>
  BY DEF Shake!SetType, Shake!Exchanged
<1>2. c \in L /\ shakeHandler'.pc = "count" /\ shakeHandler'.conn = c /\ c \notin typed
      /\ shakeHandler' \in [pc : {"start", "idle", "exchange", "count"}, conn : L \cup {<<"nobody", 0>>}]
  BY <1>1 DEF ShakeInv, ShakeType, ShakeIn
<1> HIDE DEF c
<1>3. \A d : Begun(d)' <=> Begun(d)
  BY <1>1, <1>2 DEF Begun, BegunIn, c
<1>4. Begun(c)
  BY <1>1 DEF Begun, BegunIn, c
<1>5. ShakeType(L)' /\ ShakeCount(L)' /\ ShakeOut(L)'
  BY <1>1, <1>2 DEF ShakeInv, ShakeType, ShakeCount, ShakeOut
<1>6. ShakeIn(L)'
  <2>1. InApp' = InApp /\ c \notin InApp
    <3>1. c \notin InApp
      BY <1>2 DEF ShakeInv, ShakeIn, ShakeType, InApp
    <3> QED BY <1>1, <3>1 DEF InApp
  <2>2. ep["in"][c].got >= 1
    <3>1. ep["in"][c].sent = 1 /\ ep["in"][c] \in Endpoint /\ ep["out"][c] \in Endpoint
      BY <1>2, <1>4, <2>1 DEF ShakeInv, ShakeIn, ShakeType, Begun, BegunIn
    <3>2. Accounts(ep["out"][c], ep["in"][c]) /\ Accounts(ep["in"][c], ep["out"][c])
      BY <1>2 DEF ShakeInv, ShakeCount
    <3> QED BY <3>1, <3>2, <1>1 DEF Accounts, Endpoint
  <2>3. ASSUME NEW d \in L
        PROVE  /\ ep["in"][d].sent = IF ~Begun(d)' THEN 0 ELSE IF d \in InApp THEN 2 ELSE 1
               /\ ~Begun(d)' => ep["in"][d].need = 0
               /\ d \in typed' /\ d \notin InApp => ep["in"][d].need = 0
               /\ d \in typed' => ep["in"][d].got >= 1
               /\ Begun(d)' => out[d] \notin Early
    <3>1. /\ ep["in"][d].sent = IF ~Begun(d) THEN 0 ELSE IF d \in InApp THEN 2 ELSE 1
          /\ ~Begun(d) => ep["in"][d].need = 0
          /\ d \in typed /\ d \notin InApp => ep["in"][d].need = 0
          /\ d \in typed => ep["in"][d].got >= 1
          /\ Begun(d) => out[d] \notin Early
      BY DEF ShakeInv, ShakeIn
    <3>2. Begun(d)' <=> Begun(d)
      BY <1>3
    <3>3. d \in typed' => d = c \/ d \in typed
      BY <1>1
    <3>4. /\ ep["in"][d].sent = IF ~Begun(d)' THEN 0 ELSE IF d \in InApp THEN 2 ELSE 1
          /\ ~Begun(d)' => ep["in"][d].need = 0
          /\ Begun(d)' => out[d] \notin Early
      BY <3>1, <3>2 DEF Begun, BegunIn
    <3> QED BY <3>1, <3>3, <3>4, <2>2, <1>1
  <2>4. /\ app # <<>> => established = L
        /\ shakeHandler'.pc = "count" => shakeHandler'.conn \in typed'
        /\ shakeHandler'.pc = "exchange" => shakeHandler'.conn \notin typed'
    BY <1>1, <1>2 DEF ShakeInv, ShakeIn
  <2> QED BY <1>1, <2>1, <2>3, <2>4 DEF ShakeIn
<1>7. ShakeEvents(L)'
  BY <1>1, <1>2 DEF ShakeInv, ShakeEvents, Begun, BegunIn, c
<1> QED BY <1>5, <1>6, <1>7 DEF ShakeInv

(* The connection is counted. *)
LEMMA ShakeCountConnection ==
  ASSUME NEW nodes, NEW k, NEW L, ShakeInv(L), Shake(nodes, k)!CountConnection
  PROVE  ShakeInv(L)'
<1>1. /\ shakeHandler.pc = "count" /\ established' = established \cup {shakeHandler.conn}
      /\ shakeHandler' = [pc |-> "idle", conn |-> <<"nobody", 0>>]
      /\ UNCHANGED <<shakeChannel, out, event, typed, app, ep>>
  BY DEF Shake!CountConnection, Shake!Nobody
<1>2. shakeHandler.conn \in typed /\ typed \subseteq L /\ established \subseteq typed /\ shakeHandler'.pc = "idle"
  BY <1>1 DEF ShakeInv, ShakeIn, ShakeType
<1>3. ShakeType(L)' /\ ShakeCount(L)' /\ ShakeOut(L)'
  BY <1>1, <1>2 DEF ShakeInv, ShakeType, ShakeCount, ShakeOut
<1>4. app # <<>> => established' = L
  BY <1>1, <1>2 DEF ShakeInv, ShakeIn
<1>5. ShakeIn(L)'
  BY <1>1, <1>2, <1>4 DEF ShakeInv, ShakeIn, InApp, Begun, BegunIn
<1>6. ShakeEvents(L)'
  BY <1>1, <1>2 DEF ShakeInv, ShakeEvents, Begun, BegunIn
<1> QED BY <1>3, <1>5, <1>6 DEF ShakeInv

(* exchangeInitialMesssage of init() begins. *)
LEMMA ShakeInExchange ==
  ASSUME NEW nodes, NEW k, NEW L, L = Shake(nodes, k)!Conns, ShakeInv(L), NEW c \in L, Shake(nodes, k)!InExchange(c)
  PROVE  ShakeInv(L)'
<1>1. /\ established = L /\ c \notin InApp /\ app' = Append(app, c)
      /\ ep' = [ep EXCEPT !["in"][c] = Shake(nodes, k)!PostSend(@)]
      /\ UNCHANGED <<shakeHandler, shakeChannel, established, out, event, typed>>
  BY DEF Shake!InExchange, InApp, Shake!InApp
<1>2. typed = L /\ app \in Seq(L)
  BY <1>1 DEF ShakeInv, ShakeType
<1>3. ep["in"][c].need = 0 /\ ep["in"][c].sent = 1 /\ ep["in"][c].got >= 1
  BY <1>1, <1>2 DEF ShakeInv, ShakeIn, Begun, BegunIn
<1>4. Posting(L, "in", c)
  BY <1>1, <1>3, EndpointPosts
<1>5. app' \in Seq(L) /\ InApp' = InApp \cup {c}
  <2>1. /\ app' \in Seq(L) /\ Len(app) \in Nat /\ Len(app') = Len(app) + 1
        /\ \A i \in 1..Len(app) : app'[i] = app[i]
        /\ app'[Len(app) + 1] = c
    BY <1>1, <1>2, PutAtTheEnd
  <2> QED BY <2>1 DEF InApp
<1>6. ShakeType(L)' /\ ShakeCount(L)'
  BY <1>1, <1>4, <1>5 DEF ShakeInv, ShakeType, Posting
<1>7. ShakeOut(L)'
  <2>1. \A d \in L : ep'["out"][d] = ep["out"][d]
    BY <1>4 DEF Posting
  <2> QED BY <2>1, <1>1 DEF ShakeInv, ShakeOut
<1>8. ShakeIn(L)'
  <2>1. \A d : Begun(d)' <=> Begun(d)
    BY <1>1 DEF Begun, BegunIn
  <2>2. ASSUME NEW d \in L
        PROVE  /\ ep'["in"][d].sent = IF ~Begun(d)' THEN 0 ELSE IF d \in InApp' THEN 2 ELSE 1
               /\ ~Begun(d)' => ep'["in"][d].need = 0
               /\ d \in typed' /\ d \notin InApp' => ep'["in"][d].need = 0
               /\ d \in typed' => ep'["in"][d].got >= 1
               /\ Begun(d)' => out'[d] \notin Early
    <3>1. Begun(d)' /\ Begun(d) /\ d \in typed
      BY <1>1, <1>2 DEF Begun, BegunIn
    <3>2. out'[d] \notin Early
      BY <1>1, <3>1 DEF ShakeInv, ShakeIn
    <3>3. CASE d = c
      BY <3>1, <3>2, <3>3, <1>3, <1>4, <1>5 DEF Posting
    <3>4. CASE d # c
      <4>1. ep'["in"][d] = ep["in"][d] /\ (d \in InApp' <=> d \in InApp)
        BY <1>4, <1>5, <3>4 DEF Posting
      <4>2. /\ ep["in"][d].sent = IF d \in InApp THEN 2 ELSE 1
            /\ d \notin InApp => ep["in"][d].need = 0
            /\ ep["in"][d].got >= 1
        BY <3>1 DEF ShakeInv, ShakeIn
      <4> QED BY <3>1, <3>2, <4>1, <4>2
    <3> QED BY <3>3, <3>4
  <2>3. /\ app' # <<>> => established' = L
        /\ shakeHandler'.pc = "count" => shakeHandler'.conn \in typed'
        /\ shakeHandler'.pc = "exchange" => shakeHandler'.conn \notin typed'
    BY <1>1 DEF ShakeInv, ShakeIn
  <2> QED BY <2>2, <2>3 DEF ShakeIn
<1>9. ShakeEvents(L)'
  BY <1>1 DEF ShakeInv, ShakeEvents, Begun, BegunIn
<1> QED BY <1>6, <1>7, <1>8, <1>9 DEF ShakeInv

(* Every step of the handshake keeps the invariant. *)
LEMMA ShakeStep ==
  ASSUME NEW nodes, NEW k, ShakeInv(Shake(nodes, k)!Conns), [Shake(nodes, k)!Next]_shakeVars
  PROVE  ShakeInv(Shake(nodes, k)!Conns)'
<1>1. PICK L : L = Shake(nodes, k)!Conns
  OBVIOUS
<1>2. CASE UNCHANGED shakeVars
  <2>1. ShakeStill
    BY <1>2 DEF shakeVars, ShakeStill
  <2> QED BY <2>1, <1>1, ShakeStutter
<1>3. CASE Shake(nodes, k)!Members \/ Shake(nodes, k)!Listen
  <2>1. ShakeStill
    BY <1>3 DEF Shake!Members, Shake!Listen, ShakeStill
  <2> QED BY <2>1, <1>1, ShakeStutter
<1>4. CASE Shake(nodes, k)!Server /\ ~(Shake(nodes, k)!Members \/ Shake(nodes, k)!Listen)
  BY <1>1, <1>4, ShakeHandlerStart, ShakeConnectRequest, ShakeEstablished, ShakeSetType, ShakeCountConnection,
     ShakeInExchange DEF Shake!Server
<1>5. CASE \E c \in Shake(nodes, k)!Conns : Shake(nodes, k)!Client(c)
  <2>1. PICK c \in L : Shake(nodes, k)!Client(c)
    BY <1>1, <1>5
  <2> QED BY <1>1, <2>1, ShakeClientMoves, ShakeConnect, ShakeAccepted, ShakeOutExchange DEF Shake!Client
<1>6. CASE \E c \in Shake(nodes, k)!Conns : Shake(nodes, k)!Network(c)
  BY <1>6, ShakeNetwork
<1> QED BY <1>2, <1>3, <1>4, <1>5, <1>6 DEF Shake!Next, Shake!Server

(* What the invariant is for. *)
LEMMA ShakeDelivers ==
  ASSUME NEW nodes, NEW k, ShakeInv(Shake(nodes, k)!Conns)
  PROVE  Shake(nodes, k)!ExchangeDelivers /\ Shake(nodes, k)!CountedIsTyped
<1>1. PICK L : L = Shake(nodes, k)!Conns
  OBVIOUS
<1>2. established \subseteq typed
  BY <1>1 DEF ShakeInv, ShakeType
<1>3. ASSUME NEW c \in L
      PROVE  /\ out[c] \in {"initiated", "app", "done"} => ep["out"][c].got >= 1
             /\ out[c] = "done" => ep["out"][c].got = 2
             /\ c \in typed => ep["in"][c].got >= 1
             /\ (c \in InApp /\ ep["in"][c].need = 0) => ep["in"][c].got = 2
  <2>1. ep["out"][c] \in Endpoint /\ ep["in"][c] \in Endpoint
    BY <1>1 DEF ShakeInv, ShakeType
  <2>2. Accounts(ep["out"][c], ep["in"][c]) /\ Accounts(ep["in"][c], ep["out"][c])
    BY <1>1 DEF ShakeInv, ShakeCount
  <2>3. /\ ep["out"][c].sent = IF out[c] \in Early THEN 0 ELSE IF out[c] \in {"info", "initiated"} THEN 1 ELSE 2
        /\ out[c] \in Early \cup {"initiated", "done"} => ep["out"][c].need = 0
        /\ out[c] = "app" => ep["out"][c].got >= 1
    BY <1>1 DEF ShakeInv, ShakeOut
  <2>4. /\ ep["in"][c].sent \in {0, 1, 2} /\ (c \in InApp => ep["in"][c].sent = 2)
        /\ c \in typed => ep["in"][c].got >= 1
    <3>1. c \in InApp => Begun(c)
      BY <1>1 DEF ShakeInv, ShakeIn, ShakeType, InApp, Begun, BegunIn
    <3> QED BY <1>1, <3>1 DEF ShakeInv, ShakeIn, Begun, BegunIn
  <2>5. ep["out"][c].sent \in {0, 1, 2}
    BY <2>3
  <2>6. \A e, o \in Endpoint : Accounts(e, o) /\ Accounts(o, e) /\ e.need = 0 => e.got >= e.sent /\ e.got <= o.sent
    <3> SUFFICES ASSUME NEW e \in Endpoint, NEW o \in Endpoint, Accounts(e, o), Accounts(o, e), e.need = 0
                 PROVE  e.got >= e.sent /\ e.got <= o.sent
      OBVIOUS
    <3> QED BY DEF Endpoint, Accounts
  <2>7. ep["out"][c].need = 0 => ep["out"][c].got >= ep["out"][c].sent /\ ep["out"][c].got <= ep["in"][c].sent
    BY <2>1, <2>2, <2>6
  <2>8. ep["in"][c].need = 0 => ep["in"][c].got >= ep["in"][c].sent /\ ep["in"][c].got <= ep["out"][c].sent
    BY <2>1, <2>2, <2>6
  <2>9. ep["out"][c].got \in Nat /\ ep["in"][c].got \in Nat
    BY <2>1 DEF Endpoint
  <2>10. out[c] \in {"initiated", "done"} => ep["out"][c].need = 0 /\ ep["out"][c].sent >= 1
    BY <2>3 DEF Early
  <2>11. out[c] = "done" => ep["out"][c].sent = 2
    BY <2>3 DEF Early
  <2>12. out[c] \in {"initiated", "app", "done"} => ep["out"][c].got >= 1
    BY <2>3, <2>5, <2>7, <2>9, <2>10
  <2>13. out[c] = "done" => ep["out"][c].got = 2
    BY <2>4, <2>7, <2>9, <2>10, <2>11
  <2>14. (c \in InApp /\ ep["in"][c].need = 0) => ep["in"][c].got = 2
    BY <2>4, <2>5, <2>8, <2>9
  <2> QED BY <2>4, <2>12, <2>13, <2>14
<1> QED BY <1>1, <1>2, <1>3 DEF Shake!ExchangeDelivers, Shake!CountedIsTyped, Shake!Exchanged, Shake!InApp, InApp

-----------------------------------------------------------------------------
(* The end of the connections. *)

TeardownEvent == [e : {"disconnected", "timewait"}, conn : Incoming]
Gone(c) == [e |-> "disconnected", conn |-> c]

(* connections whose disconnect the handler thread has not seen yet *)
Unseen(ch) == {c \in Incoming : \E i \in 1..Len(ch) : ch[i] = Gone(c)}

DisconnectsOnce(ch) ==
  \A i, j \in 1..Len(ch) : i # j /\ ch[i].e = "disconnected" => ch[i] # ch[j]

(* While no destructor has disconnected everything, the counter counts the *)
(* connections that are up and those whose event is in the channel, which  *)
(* holds it once.                                                          *)
TeardownInv ==
  /\ dtor # "alive" => teardownUp = {}
  /\ dtor = "alive" =>
       /\ teardownChannel \in Seq(TeardownEvent)
       /\ \A c \in Unseen(teardownChannel) : c \notin teardownUp
       /\ DisconnectsOnce(teardownChannel)
       /\ numberConnections = Cardinality((Incoming \cap teardownUp) \cup Unseen(teardownChannel))
       /\ teardownHandler = "done" => Incoming \cap teardownUp = {}

(* All connections are up and counted at first. *)
LEMMA TeardownInit == D!Init => TeardownInv
<1> SUFFICES ASSUME D!Init PROVE TeardownInv
  OBVIOUS
<1>1. /\ dtor = "alive" /\ teardownUp = Incoming \cup Outgoing /\ teardownChannel = <<>>
      /\ numberConnections = Cardinality(Incoming) /\ teardownHandler = "running"
  BY DEF D!Init, D!Cardinality, Cardinality, D!IsFiniteSet, IsFiniteSet
<1>2. Unseen(<<>>) = {}
  BY DEF Unseen
<1>3. (Incoming \cap teardownUp) \cup {} = Incoming
  BY <1>1
<1>4. Unseen(teardownChannel) = {}
  BY <1>1, <1>2
<1>5. numberConnections = Cardinality((Incoming \cap teardownUp) \cup Unseen(teardownChannel))
  BY <1>1, <1>3, <1>4
<1>6. teardownChannel \in Seq(TeardownEvent) /\ Len(teardownChannel) = 0
  BY <1>1
<1> QED BY <1>1, <1>4, <1>5, <1>6 DEF TeardownInv, DisconnectsOnce

(* what the disconnect of one connection puts into the channel *)
LEMMA OneDisconnect ==
  ASSUME NEW c, c \in teardownUp, D!Disconnected({c})
  PROVE  /\ teardownUp' = teardownUp \ {c}
         /\ c \in Incoming => teardownChannel' = teardownChannel \o <<Gone(c)>>
         /\ c \notin Incoming => teardownChannel' = teardownChannel \o <<>>
<1> DEFINE S == {[e |-> "disconnected", conn |-> d] : d \in {c} \cap teardownUp \cap Incoming}
<1>1. PICK order \in D!SetToSeqs(S) : teardownChannel' = teardownChannel \o order
  BY DEF D!Disconnected
<1>2. order \in [1..D!Cardinality(S) -> S]
  BY <1>1 DEF D!SetToSeqs
<1>3. D!Cardinality(S) = Cardinality(S)
  BY DEF D!Cardinality, Cardinality, D!IsFiniteSet, IsFiniteSet
<1>4. CASE c \in Incoming
  <2>1. S = {Gone(c)}
    BY <1>4 DEF Gone
  <2> HIDE DEF S
  <2>2. Cardinality(S) = 1
    BY <2>1, FS_Singleton
  <2>3. order \in [1..1 -> {Gone(c)}]
    BY <1>2, <1>3, <2>1, <2>2
  <2>4. order = <<Gone(c)>>
    BY <2>3
  <2> QED BY <1>1, <1>4, <2>4 DEF D!Disconnected
<1>5. CASE c \notin Incoming
  <2>1. S = {}
    BY <1>5
  <2> HIDE DEF S
  <2>2. Cardinality(S) = 0
    BY <2>1, FS_EmptySet
  <2>3. order \in [1..0 -> {}]
    BY <1>2, <1>3, <2>1, <2>2
  <2>4. order = <<>>
    BY <2>3
  <2> QED BY <1>1, <1>5, <2>4 DEF D!Disconnected
<1> QED BY <1>4, <1>5, <1>1 DEF D!Disconnected

(* One event more does not change what is counted: a connection that goes  *)
(* down is counted by its event.                                           *)
LEMMA EventComes ==
  ASSUME NEW q \in Seq(TeardownEvent), NEW x \in TeardownEvent,
         NEW r, r = Append(q, x)
  PROVE  /\ r \in Seq(TeardownEvent)
         /\ x.e = "disconnected" => Unseen(r) = Unseen(q) \cup {x.conn}
         /\ x.e # "disconnected" => Unseen(r) = Unseen(q)
         /\ x.e = "disconnected" => x.conn \in Incoming /\ x = Gone(x.conn)
<1>1. /\ r \in Seq(TeardownEvent) /\ Len(q) \in Nat /\ Len(r) = Len(q) + 1
      /\ \A i \in 1..Len(q) : r[i] = q[i]
      /\ r[Len(q) + 1] = x
  BY PutAtTheEnd
<1>2. x.conn \in Incoming /\ (x.e = "disconnected" => x = Gone(x.conn))
  BY DEF TeardownEvent, Gone
<1>3. \A c : Gone(c).e = "disconnected" /\ Gone(c).conn = c
  BY DEF Gone
<1>4. \A c : (\E i \in 1..Len(r) : r[i] = Gone(c)) <=> (\E i \in 1..Len(q) : q[i] = Gone(c)) \/ x = Gone(c)
  BY <1>1
<1>5. Unseen(r) = {c \in Incoming : (\E i \in 1..Len(q) : q[i] = Gone(c)) \/ x = Gone(c)}
  BY <1>4 DEF Unseen
<1>6. ASSUME x.e = "disconnected" PROVE Unseen(r) = Unseen(q) \cup {x.conn}
  <2>1. \A c : x = Gone(c) <=> c = x.conn
    BY <1>2, <1>3, <1>6
  <2> QED BY <2>1, <1>2, <1>5 DEF Unseen
<1>7. ASSUME x.e # "disconnected" PROVE Unseen(r) = Unseen(q)
  <2>1. \A c : x # Gone(c)
    BY <1>3, <1>7
  <2> QED BY <2>1, <1>5 DEF Unseen
<1> QED BY <1>1, <1>2, <1>6, <1>7

(* The first event of the channel is taken. *)
LEMMA EventGoes ==
  ASSUME NEW q \in Seq(TeardownEvent), q # <<>>,
         DisconnectsOnce(q),
         NEW r, r = Tail(q)
  PROVE  /\ r \in Seq(TeardownEvent) /\ Head(q) \in TeardownEvent
         /\ Head(q).e = "disconnected" => Head(q).conn \in Unseen(q) /\ Unseen(r) = Unseen(q) \ {Head(q).conn}
         /\ Head(q).e # "disconnected" => Unseen(r) = Unseen(q)
         /\ DisconnectsOnce(r)
<1>1. /\ r \in Seq(TeardownEvent) /\ Head(q) \in TeardownEvent /\ Head(q) = q[1] /\ Len(q) \in Nat \ {0}
      /\ Len(r) = Len(q) - 1 /\ \A i \in 1..Len(r) : i + 1 \in 1..Len(q) /\ r[i] = q[i + 1]
  BY TakenOff
<1>2. \A i \in 2..Len(q) : i - 1 \in 1..Len(r) /\ q[i] = r[i - 1]
  BY <1>1
<1>3. PICK x : x = Head(q)
  OBVIOUS
<1>4. x.conn \in Incoming /\ (x.e = "disconnected" => x = Gone(x.conn)) /\ 1 \in 1..Len(q) /\ x = q[1]
  BY <1>1, <1>3 DEF TeardownEvent, Gone
<1>5. \A c : Gone(c).e = "disconnected" /\ Gone(c).conn = c
  BY DEF Gone
<1>6. \A c : (\E i \in 1..Len(q) : q[i] = Gone(c)) <=> (\E i \in 1..Len(r) : r[i] = Gone(c)) \/ x = Gone(c)
  <2> TAKE c
  <2>1. (\E i \in 1..Len(q) : q[i] = Gone(c)) => (\E i \in 1..Len(r) : r[i] = Gone(c)) \/ x = Gone(c)
    <3> SUFFICES ASSUME NEW i \in 1..Len(q), q[i] = Gone(c), i # 1 PROVE \E h \in 1..Len(r) : r[h] = Gone(c)
      BY <1>4
    <3> QED BY <1>1, <1>2
  <2>2. (\E i \in 1..Len(r) : r[i] = Gone(c)) => \E i \in 1..Len(q) : q[i] = Gone(c)
    BY <1>1
  <2> QED BY <2>1, <2>2, <1>4
<1>7. ASSUME x.e = "disconnected" PROVE x.conn \in Unseen(q) /\ Unseen(r) = Unseen(q) \ {x.conn}
  <2>1. \A i \in 1..Len(r) : r[i] # x
    BY <1>1, <1>4, <1>7 DEF DisconnectsOnce
  <2>2. \A c : x = Gone(c) <=> c = x.conn
    BY <1>4, <1>5, <1>7
  <2>3. x.conn \in Unseen(q) /\ x.conn \notin Unseen(r)
    BY <1>4, <1>7, <2>1, <2>2 DEF Unseen
  <2>4. \A c \in Incoming : c # x.conn => (c \in Unseen(q) <=> c \in Unseen(r))
    BY <1>6, <2>2 DEF Unseen
  <2>5. Unseen(q) \subseteq Incoming /\ Unseen(r) \subseteq Incoming
    BY DEF Unseen
  <2> QED BY <2>3, <2>4, <2>5
<1>8. ASSUME x.e # "disconnected" PROVE Unseen(r) = Unseen(q)
  <2>1. \A c : x # Gone(c)
    BY <1>5, <1>8
  <2>2. \A c \in Incoming : c \in Unseen(q) <=> c \in Unseen(r)
    BY <1>6, <2>1 DEF Unseen
  <2>3. Unseen(q) \subseteq Incoming /\ Unseen(r) \subseteq Incoming
    BY DEF Unseen
  <2> QED BY <2>2, <2>3
<1>9. DisconnectsOnce(r)
  BY <1>1 DEF DisconnectsOnce
<1> QED BY <1>1, <1>3, <1>7, <1>8, <1>9

(* Every step keeps the invariant of the teardown. *)
LEMMA TeardownStep == TeardownInv /\ [D!Next]_teardownVars => TeardownInv'
<1> SUFFICES ASSUME TeardownInv, [D!Next]_teardownVars PROVE TeardownInv'
  OBVIOUS
<1>1. CASE UNCHANGED <<dtor, teardownUp, teardownChannel, numberConnections, teardownHandler>>
  BY <1>1 DEF TeardownInv
<1>2. CASE dtor' # "alive"
  <2>1. dtor # "alive" => teardownUp' = {}
    <3>1. ASSUME NEW c, D!PeerDisconnects(c) PROVE teardownUp' \subseteq teardownUp
      BY <3>1 DEF D!PeerDisconnects, D!Disconnected
    <3>2. D!Next \/ UNCHANGED teardownVars => teardownUp' \subseteq teardownUp
      BY <3>1 DEF D!Next, D!Destructor, D!Handler, D!DisconnectAll, D!Drain, D!Drained, D!DestroyIds, D!DestroyChannel,
         D!Join, D!HandleEvent, D!HandlerFails, D!TimewaitExit, D!Disconnected, teardownVars, D!vars
    <3> QED BY <3>2 DEF TeardownInv, D!vars, teardownVars
  <2>2. dtor = "alive" => teardownUp' = {}
    BY <1>2 DEF D!Next, D!Destructor, D!Handler, D!DisconnectAll, D!Drain, D!Drained, D!DestroyIds, D!DestroyChannel,
       D!Join, D!HandleEvent, D!HandlerFails, D!TimewaitExit, D!PeerDisconnects, D!Disconnected, teardownVars, D!vars
  <2> QED BY <1>2, <2>1, <2>2 DEF TeardownInv
<1>3. CASE dtor' = "alive" /\ ~UNCHANGED <<dtor, teardownUp, teardownChannel, numberConnections, teardownHandler>>
  <2>1. /\ dtor = "alive" /\ dtor' = "alive"
        /\ \/ \E c \in Incoming \cup Outgoing : D!PeerDisconnects(c)
           \/ \E c \in Incoming : D!TimewaitExit(c)
           \/ D!HandleEvent \/ D!HandlerFails
    BY <1>3 DEF D!Next, D!Destructor, D!Handler, D!DisconnectAll, D!Drain, D!Drained, D!DestroyIds, D!DestroyChannel,
         D!Join, D!HandleEvent, D!HandlerFails, D!TimewaitExit, D!PeerDisconnects, teardownVars, D!vars
  <2>2. /\ teardownChannel \in Seq(TeardownEvent)
        /\ \A c \in Unseen(teardownChannel) : c \notin teardownUp
        /\ DisconnectsOnce(teardownChannel)
        /\ numberConnections = Cardinality((Incoming \cap teardownUp) \cup Unseen(teardownChannel))
        /\ teardownHandler = "done" => Incoming \cap teardownUp = {}
    BY <2>1 DEF TeardownInv
  <2>3. CASE \E c \in Incoming \cup Outgoing : D!PeerDisconnects(c)
    <3>1. PICK c : D!PeerDisconnects(c)
      BY <2>3
    <3>2. /\ c \in teardownUp /\ teardownUp' = teardownUp \ {c}
          /\ c \in Incoming => teardownChannel' = teardownChannel \o <<Gone(c)>>
          /\ c \notin Incoming => teardownChannel' = teardownChannel \o <<>>
          /\ UNCHANGED <<dtor, numberConnections, teardownHandler>>
      BY <3>1, OneDisconnect DEF D!PeerDisconnects
    <3>3. CASE c \notin Incoming
      <4>1. teardownChannel' = teardownChannel /\ Incoming \cap teardownUp' = Incoming \cap teardownUp
        BY <3>2, <3>3, <2>2
      <4> QED BY <4>1, <3>2, <2>1, <2>2 DEF TeardownInv
    <3>4. CASE c \in Incoming
      <4>1. teardownChannel' = Append(teardownChannel, Gone(c)) /\ Gone(c) \in TeardownEvent
            /\ Gone(c).e = "disconnected" /\ Gone(c).conn = c
        BY <3>2, <3>4, <2>2 DEF Gone, TeardownEvent
      <4>2. teardownChannel' \in Seq(TeardownEvent) /\ Unseen(teardownChannel') = Unseen(teardownChannel) \cup {c}
        <5>1. PICK q, r, x : q = teardownChannel /\ r = teardownChannel' /\ x = Gone(c)
          OBVIOUS
        <5>2. q \in Seq(TeardownEvent) /\ x \in TeardownEvent /\ r = Append(q, x) /\ x.e = "disconnected" /\ x.conn = c
          BY <5>1, <4>1, <2>2
        <5>3. r \in Seq(TeardownEvent) /\ Unseen(r) = Unseen(q) \cup {x.conn}
          BY <5>2, EventComes
        <5> QED BY <5>1, <5>2, <5>3
      <4>3. (Incoming \cap teardownUp') \cup Unseen(teardownChannel') = (Incoming \cap teardownUp) \cup Unseen(teardownChannel)
        BY <3>2, <3>4, <4>2
      <4>4. \A d \in Unseen(teardownChannel') : d \notin teardownUp'
        BY <4>2, <3>2, <2>2
      <4>5. /\ Len(teardownChannel) \in Nat /\ Len(teardownChannel') = Len(teardownChannel) + 1
            /\ \A i \in 1..Len(teardownChannel) : teardownChannel'[i] = teardownChannel[i]
            /\ teardownChannel'[Len(teardownChannel) + 1] = Gone(c)
        BY <4>1, <2>2, PutAtTheEnd
      <4>6. \A i \in 1..Len(teardownChannel) : teardownChannel[i] # Gone(c)
        BY <2>2, <3>2, <3>4 DEF Unseen
      <4>7. DisconnectsOnce(teardownChannel')
        BY <4>5, <4>6, <2>2 DEF DisconnectsOnce
      <4>8. teardownHandler' = "done" => Incoming \cap teardownUp' = {}
        BY <3>2, <2>2
      <4>9. numberConnections' = Cardinality((Incoming \cap teardownUp') \cup Unseen(teardownChannel'))
        BY <4>3, <3>2, <2>2
      <4> QED BY <4>2, <4>4, <4>7, <4>8, <4>9, <2>1 DEF TeardownInv
    <3> QED BY <3>3, <3>4
  <2>4. CASE \E c \in Incoming : D!TimewaitExit(c)
    <3>1. PICK c \in Incoming : D!TimewaitExit(c)
      BY <2>4
    <3> DEFINE x == [e |-> "timewait", conn |-> c]
    <3>2. /\ teardownChannel' = Append(teardownChannel, x)
          /\ UNCHANGED <<dtor, teardownUp, numberConnections, teardownHandler>>
          /\ \A i \in 1..Len(teardownChannel) : teardownChannel[i].conn # c
      BY <3>1 DEF D!TimewaitExit
    <3>3. x \in TeardownEvent /\ x.e # "disconnected" /\ x.conn = c
      BY DEF TeardownEvent
    <3> HIDE DEF x
    <3>4. teardownChannel' \in Seq(TeardownEvent) /\ Unseen(teardownChannel') = Unseen(teardownChannel)
      BY <3>2, <3>3, <2>2, EventComes
    <3>5. /\ Len(teardownChannel) \in Nat /\ Len(teardownChannel') = Len(teardownChannel) + 1
          /\ \A i \in 1..Len(teardownChannel) : teardownChannel'[i] = teardownChannel[i]
          /\ teardownChannel'[Len(teardownChannel) + 1] = x
      BY <3>2, <3>3, <2>2, PutAtTheEnd
    <3>6. DisconnectsOnce(teardownChannel')
      BY <3>2, <3>3, <3>5, <2>2 DEF DisconnectsOnce
    <3> QED BY <3>2, <3>4, <3>6, <2>1, <2>2 DEF TeardownInv
  <2>5. CASE D!HandleEvent
    <3> DEFINE x == Head(teardownChannel)
               A == (Incoming \cap teardownUp) \cup Unseen(teardownChannel)
    <3>1. /\ teardownChannel # <<>> /\ teardownChannel' = Tail(teardownChannel)
          /\ numberConnections' = IF x.e = "disconnected" THEN numberConnections - 1 ELSE numberConnections
          /\ teardownHandler' = IF numberConnections' = 0 THEN "done" ELSE "running"
          /\ UNCHANGED <<dtor, teardownUp>>
      BY <2>5 DEF D!HandleEvent, D!Countdown
    <3>2. /\ teardownChannel' \in Seq(TeardownEvent) /\ x \in TeardownEvent
          /\ x.e = "disconnected" => x.conn \in Unseen(teardownChannel) /\ Unseen(teardownChannel') = Unseen(teardownChannel) \ {x.conn}
          /\ x.e # "disconnected" => Unseen(teardownChannel') = Unseen(teardownChannel)
          /\ DisconnectsOnce(teardownChannel')
      <4>1. PICK q, r : q = teardownChannel /\ r = teardownChannel'
        OBVIOUS
      <4>2. /\ q \in Seq(TeardownEvent) /\ q # <<>> /\ r = Tail(q) /\ x = Head(q)
            /\ DisconnectsOnce(q)
        BY <4>1, <3>1, <2>2
      <4>3. /\ r \in Seq(TeardownEvent) /\ Head(q) \in TeardownEvent
            /\ Head(q).e = "disconnected" => Head(q).conn \in Unseen(q) /\ Unseen(r) = Unseen(q) \ {Head(q).conn}
            /\ Head(q).e # "disconnected" => Unseen(r) = Unseen(q)
            /\ DisconnectsOnce(r)
        BY <4>2, EventGoes
      <4> QED BY <4>1, <4>2, <4>3
    <3> HIDE DEF x
    <3>3. IsFiniteSet(A)
      BY BoundsAssumption, FS_Subset DEF Unseen
    <3>4. x.e = "disconnected" => (Incoming \cap teardownUp') \cup Unseen(teardownChannel') = A \ {x.conn} /\ x.conn \in A
      BY <3>1, <3>2, <2>2
    <3>5. x.e # "disconnected" => (Incoming \cap teardownUp') \cup Unseen(teardownChannel') = A
      BY <3>1, <3>2
    <3>6. numberConnections' = Cardinality((Incoming \cap teardownUp') \cup Unseen(teardownChannel'))
      <4>1. numberConnections = Cardinality(A)
        BY <2>2
      <4> HIDE DEF A
      <4>2. x.conn \in A => Cardinality(A \ {x.conn}) = Cardinality(A) - 1
        BY <3>3, FS_RemoveElement
      <4> QED BY <3>1, <3>4, <3>5, <4>1, <4>2
    <3>7. IsFiniteSet((Incoming \cap teardownUp') \cup Unseen(teardownChannel'))
      BY BoundsAssumption, FS_Subset DEF Unseen
    <3>8. teardownHandler' = "done" => Incoming \cap teardownUp' = {}
      BY <3>1, <3>6, <3>7, FS_EmptySet
    <3>9. \A d \in Unseen(teardownChannel') : d \notin teardownUp'
      BY <3>1, <3>2, <2>2
    <3> QED BY <3>2, <3>6, <3>8, <3>9, <2>1 DEF TeardownInv
  <2>6. CASE D!HandlerFails
    BY <2>1, <2>2, <2>6 DEF D!HandlerFails, TeardownInv
  <2> QED BY <2>1, <2>3, <2>4, <2>5, <2>6
<1> QED BY <1>1, <1>2, <1>3

(* The handler thread has counted down to zero only when nothing is up. *)
LEMMA TeardownDelivers == TeardownInv => D!HandlerStaysForConnections
BY DEF TeardownInv, D!HandlerStaysForConnections

-----------------------------------------------------------------------------
(* The connections of one part come up, those of another one go down. *)
ConnectionsInv ==
  /\ part = "threads connect" => ShakeInv(Shake(OnePeer, ThreadsPerPeer)!Conns)
  /\ part # "threads connect" => ShakeInv(Shake(Peers, 1)!Conns)
  /\ TeardownInv

(* The part stays the same, and only that part shakes hands. *)
LEMMA OnlyThatPartConnects ==
  [Next]_vars => /\ part' = part
                 /\ part = "threads connect" => [Shake(OnePeer, ThreadsPerPeer)!Next]_shakeVars
                 /\ part # "threads connect" => [Shake(Peers, 1)!Next]_shakeVars
BY DEF Next, vars, NodesConnect, ThreadsConnect, StartUp, Pool, Profile, Teardown, Barrier,
   BarrierPage, Catalog, Rest

(* Every step keeps the invariant of the connections. *)
LEMMA ConnectionsStep == ConnectionsInv /\ [Next]_vars => ConnectionsInv'
<1> SUFFICES ASSUME ConnectionsInv, [Next]_vars PROVE ConnectionsInv'
  OBVIOUS
<1>1. TeardownInv'
  BY TeardownStep, PartsAreApart DEF ConnectionsInv
<1>2. CASE part = "threads connect"
  <2>1. ShakeInv(Shake(OnePeer, ThreadsPerPeer)!Conns)'
    BY <1>2, ShakeStep, OnlyThatPartConnects DEF ConnectionsInv
  <2> QED
    BY <1>1, <1>2, <2>1, OnlyThatPartConnects DEF ConnectionsInv
<1>3. CASE part # "threads connect"
  <2>1. ShakeInv(Shake(Peers, 1)!Conns)'
    BY <1>3, ShakeStep, OnlyThatPartConnects DEF ConnectionsInv
  <2> QED
    BY <1>1, <1>3, <2>1, OnlyThatPartConnects DEF ConnectionsInv
<1> QED
  BY <1>2, <1>3

(* For every number of nodes and of connections of each: when an exchange  *)
(* ends, the peer's message has arrived, although completions of its next  *)
(* message may have been counted for an own send; a counted connection has *)
(* its type; and the handler thread serves its channel until every         *)
(* incoming connection is disconnected (CM::handle, initiateConnection,    *)
(* exchangeInitialMesssage, ~CM).                                          *)
THEOREM ExchangesDeliver == Spec => []ExchangeDelivers
<1>1. Init => ConnectionsInv
  <2> SUFFICES ASSUME Init PROVE ConnectionsInv
    OBVIOUS
  <2>1. part = "threads connect" => ShakeInv(Shake(OnePeer, ThreadsPerPeer)!Conns)
    BY ShakeInit DEF Init
  <2>2. part # "threads connect" => ShakeInv(Shake(Peers, 1)!Conns)
    BY ShakeInit DEF Init
  <2> QED
    BY <2>1, <2>2, TeardownInit DEF Init, ConnectionsInv
<1>2. ConnectionsInv => ExchangeDelivers
  <2> SUFFICES ASSUME ConnectionsInv PROVE ExchangeDelivers
    OBVIOUS
  <2>1. part = "threads connect" => /\ Shake(OnePeer, ThreadsPerPeer)!ExchangeDelivers
                                    /\ Shake(OnePeer, ThreadsPerPeer)!CountedIsTyped
    BY ShakeDelivers DEF ConnectionsInv
  <2>2. part = "nodes connect" => Shake(Peers, 1)!ExchangeDelivers /\ Shake(Peers, 1)!CountedIsTyped
    BY ShakeDelivers DEF ConnectionsInv
  <2> QED
    BY <2>1, <2>2, TeardownDelivers DEF ConnectionsInv, ExchangeDelivers
<1> QED
  BY <1>1, <1>2, ConnectionsStep, PTL DEF Spec

-----------------------------------------------------------------------------
(***************************************************************************)
(* The counters.  While the profiling thread goes through the objects it   *)
(* holds the lock of the registry, and those it has still to visit are     *)
(* registered; it runs only while its caller is in the workload or joins   *)
(* it.  What a thread has counted is accounted for, also with the value    *)
(* that it has loaded in place of its counter.                             *)
(***************************************************************************)
ProfilingTypes ==
  /\ registered \subseteq Counting /\ todo \subseteq Counting
  /\ profilePc \in [Counting -> {"new", "live", "loaded", "gone"}]
  /\ counter \in [Counting -> Nat] /\ local \in [Counting -> Nat] /\ done \in [Counting -> Nat]
  /\ agg \in [Counting -> Nat] /\ reported \in [Counting -> Nat]

RegistryKept ==
  /\ \A t \in registered : profilePc[t] \in {"live", "loaded"}
  /\ profiler = "aggregate" => profileMutex = "profiler" /\ todo \subseteq registered

CountsKept ==
  \A t \in Counting :
    /\ done[t] <= reported[t] + agg[t] + counter[t]
    /\ profilePc[t] = "loaded" => done[t] <= reported[t] + agg[t] + local[t]

CallerKept ==
  /\ profiler # "none" => profileMain \in {"workload", "join"}
  /\ profileMain \in {"workload", "join"} => info
  /\ profileMain = "workload" => running

ProfilingInv == ProfilingTypes /\ RegistryKept /\ CountsKept /\ CallerKept

(* Nothing is registered or counted at first. *)
LEMMA ProfilingInit == C!Init => ProfilingInv
BY DEF C!Init, ProfilingInv, ProfilingTypes, RegistryKept, CountsKept, CallerKept

(* A thread registers, counts or ends. *)
LEMMA CountKeeps ==
  ASSUME ProfilingInv, NEW t \in Counting, C!Count(t)
  PROVE  ProfilingInv'
<1>1. UNCHANGED <<profileMutex, profiler, todo, agg, reported, running, info, profileMain, workloads>>
  BY DEF C!Count, C!Register, C!IncrLoad, C!IncrStore, C!Deregister, C!profilerVars, C!mainVars
<1>2. CallerKept'
  BY <1>1 DEF ProfilingInv, CallerKept
<1>3. CASE C!Register(t) \/ C!Deregister(t)
  <2>1. /\ UNCHANGED <<counter, local, done>> /\ profileMutex = "none"
        /\ \/ registered' = registered \cup {t} /\ profilePc' = [profilePc EXCEPT ![t] = "live"]
           \/ registered' = registered \ {t} /\ profilePc' = [profilePc EXCEPT ![t] = "gone"]
    BY <1>3 DEF C!Register, C!Deregister, C!Go, C!None
  <2>2. ProfilingTypes' /\ CountsKept'
    BY <1>1, <2>1 DEF ProfilingInv, ProfilingTypes, CountsKept
  <2>3. RegistryKept'
    BY <1>1, <2>1 DEF ProfilingInv, ProfilingTypes, RegistryKept
  <2> QED
    BY <1>2, <2>2, <2>3 DEF ProfilingInv
<1>4. CASE C!IncrLoad(t)
  <2>1. /\ UNCHANGED <<registered, counter, done>> /\ profilePc[t] = "live"
        /\ profilePc' = [profilePc EXCEPT ![t] = "loaded"] /\ local' = [local EXCEPT ![t] = counter[t]]
    BY <1>4 DEF C!IncrLoad, C!Go
  <2>2. ProfilingTypes'
    BY <1>1, <2>1 DEF ProfilingInv, ProfilingTypes
  <2>3. CountsKept' /\ RegistryKept'
    BY <1>1, <2>1 DEF ProfilingInv, ProfilingTypes, CountsKept, RegistryKept
  <2> QED
    BY <1>2, <2>2, <2>3 DEF ProfilingInv
<1>5. CASE C!IncrStore(t)
  <2>1. /\ UNCHANGED <<registered, local>> /\ profilePc[t] = "loaded"
        /\ profilePc' = [profilePc EXCEPT ![t] = "live"] /\ counter' = [counter EXCEPT ![t] = local[t] + 1]
        /\ done' = [done EXCEPT ![t] = @ + 1]
    BY <1>5 DEF C!IncrStore, C!Go
  <2>2. ProfilingTypes'
    BY <1>1, <2>1 DEF ProfilingInv, ProfilingTypes
  <2>3. CountsKept' /\ RegistryKept'
    BY <1>1, <2>1 DEF ProfilingInv, ProfilingTypes, CountsKept, RegistryKept
  <2> QED
    BY <1>2, <2>2, <2>3 DEF ProfilingInv
<1> QED
  BY <1>3, <1>4, <1>5 DEF C!Count

(* The profiling thread goes through the objects and reports. *)
LEMMA ProfilerKeeps ==
  ASSUME ProfilingInv, C!ProfilerStep
  PROVE  ProfilingInv'
<1>1. UNCHANGED <<registered, profilePc, local, done, running, info, profileMain, workloads>>
  BY DEF C!ProfilerStep, C!BeginSecond, C!Aggregate, C!Aggregated, C!Report, C!threadVars, C!mainVars
<1>2. CallerKept'
  <2>1. profiler # "none"
    BY DEF C!ProfilerStep, C!BeginSecond, C!Aggregate, C!Aggregated, C!Report
  <2> QED
    BY <1>1, <2>1 DEF ProfilingInv, CallerKept
<1>3. CASE C!BeginSecond \/ C!Aggregated
  <2>1. /\ UNCHANGED <<counter, agg, reported>> /\ (todo' = registered \/ todo' = todo)
        /\ profiler' = "aggregate" => profileMutex' = "profiler" /\ todo' = registered
    BY <1>3 DEF C!BeginSecond, C!Aggregated, C!threadVars
  <2> QED
    BY <1>1, <1>2, <2>1 DEF ProfilingInv, ProfilingTypes, RegistryKept, CountsKept
<1>4. CASE C!Aggregate
  <2>1. PICK t \in todo : /\ agg' = [agg EXCEPT ![t] = @ + counter[t]] /\ counter' = [counter EXCEPT ![t] = 0]
                          /\ todo' = todo \ {t} /\ UNCHANGED <<profileMutex, profiler, reported>>
    BY <1>4 DEF C!Aggregate
  <2>2. t \in Counting /\ ProfilingTypes'
    BY <1>1, <2>1 DEF ProfilingInv, ProfilingTypes
  <2>3. RegistryKept'
    BY <1>1, <2>1 DEF ProfilingInv, RegistryKept
  <2>4. CountsKept'
    BY <1>1, <2>1, <2>2 DEF ProfilingInv, ProfilingTypes, CountsKept
  <2> QED
    BY <1>2, <2>2, <2>3, <2>4 DEF ProfilingInv
<1>5. CASE C!Report
  <2>1. /\ reported' = [t \in Counting |-> reported[t] + agg[t]] /\ agg' = [t \in Counting |-> 0]
        /\ profiler' = "test" /\ UNCHANGED <<profileMutex, todo, counter>>
    BY <1>5 DEF C!Report, C!threadVars
  <2>2. ProfilingTypes'
    BY <1>1, <2>1 DEF ProfilingInv, ProfilingTypes
  <2>3. RegistryKept' /\ CountsKept'
    BY <1>1, <2>1 DEF ProfilingInv, ProfilingTypes, RegistryKept, CountsKept
  <2> QED
    BY <1>2, <2>2, <2>3 DEF ProfilingInv
<1> QED
  BY <1>3, <1>4, <1>5 DEF C!ProfilerStep

(* The caller starts and stops the profiler. *)
LEMMA CallerKeeps ==
  ASSUME ProfilingInv, C!StartProfiler \/ C!MainStep
  PROVE  ProfilingInv'
<1>1. UNCHANGED <<registered, profileMutex, profilePc, counter, local, done, todo, agg, reported>>
  BY DEF C!StartProfiler, C!MainStep, C!StopProfiler, C!JoinProfiler, C!LeaveScope, C!threadVars, C!profilerVars
<1>2. profiler' # "aggregate" \/ UNCHANGED profiler
  BY DEF C!StartProfiler, C!MainStep, C!StopProfiler, C!JoinProfiler, C!LeaveScope, C!profilerVars
<1>3. ProfilingTypes' /\ RegistryKept' /\ CountsKept'
  BY <1>1, <1>2 DEF ProfilingInv, ProfilingTypes, RegistryKept, CountsKept
<1>4. CallerKept'
  BY DEF ProfilingInv, CallerKept, C!StartProfiler, C!MainStep, C!StopProfiler, C!JoinProfiler, C!LeaveScope,
         C!profilerVars
<1> QED
  BY <1>3, <1>4 DEF ProfilingInv

(* Every step keeps the invariant. *)
LEMMA ProfilingStep == ProfilingInv /\ [C!Next]_profileVars => ProfilingInv'
<1> SUFFICES ASSUME ProfilingInv, [C!Next]_profileVars PROVE ProfilingInv'
  OBVIOUS
<1>1. CASE UNCHANGED profileVars
  BY <1>1 DEF profileVars, ProfilingInv, ProfilingTypes, RegistryKept, CountsKept, CallerKept
<1>2. CASE C!Finished
  BY <1>2 DEF C!Finished, C!vars, C!threadVars, C!profilerVars, C!mainVars, ProfilingInv, ProfilingTypes, RegistryKept,
              CountsKept, CallerKept
<1> QED
  BY <1>1, <1>2, CountKeeps, ProfilerKeeps, CallerKeeps DEF C!Next

(* What the invariant is for *)
LEMMA ProfilingDelivers == ProfilingInv => C!TouchesOnlyLive /\ C!NothingIsLost /\ C!InfoIsAlive
BY DEF ProfilingInv, RegistryKept, CountsKept, CallerKept, C!TouchesOnlyLive, C!NothingIsLost, C!InfoIsAlive

(* For every number of threads and increments: the profiling thread only   *)
(* aggregates counters of threads that are registered and alive, no        *)
(* increment is lost by its exchange with a thread that counts at the same *)
(* time, and the WorkloadInfo is in scope while it runs                    *)
(* (ProfilingThread, CPUCounters, WorkerCounters).                         *)
THEOREM CountersStaySafe == Spec => []CountersAreSafe
<1>1. Init => ProfilingInv
  BY ProfilingInit DEF Init
<1>2. ProfilingInv => CountersAreSafe
  BY ProfilingDelivers DEF CountersAreSafe
<1> QED
  BY <1>1, <1>2, ProfilingStep, PartsAreApart, PTL DEF Spec

-----------------------------------------------------------------------------
(***************************************************************************)
(* Start-up and shut-down.  A node counts the workers of other nodes that  *)
(* have not finished or whose FinishRequest is still in its mailbox, and   *)
(* threads connect only to the nodes that expect them.                     *)
(***************************************************************************)
Leaving == {"guard", "ppstop", "mhstop", "gone"}
Phases == {"cm", "mh", "pool", "ppinit", "pp", "catalog", "up", "job"} \cup Leaving

(* who connects to node m *)
Comers(m) == U!Remote(m) \cup {U!Mh(n) : n \in U!Nodes \ {m}} \cup {U!Pp(n) : n \in 0..(m - 1)}

(* what threads do, and to whom a thread connects *)
Doing(t) == {r \in [op : {"connect", "exchange", "call"}, node : U!Nodes, thread : U!Threads] :
               r.op = "connect" => t \in Comers(r.node)}

(* workers whose FinishRequest node n has not handled *)
Unfinished(n) == {w \in U!Remote(n) : startUpMain[w[2]] \notin Leaving \/ w \in mailbox[n]}

StartUpTypes ==
  /\ startUpMain \in [U!Nodes -> Phases] /\ mh \in [U!Nodes -> {"off", "init", "loop", "stopped"}]
  /\ clients \in [U!Nodes -> Int] /\ mailbox \in [U!Nodes -> SUBSET U!Threads]
  /\ incoming \in [U!Nodes -> SUBSET U!Threads] /\ DOMAIN prog = U!Threads

ProgramsKept ==
  /\ \A t \in U!Threads : prog[t] \in Seq(Doing(t))
  /\ \A m \in U!Nodes : incoming[m] \subseteq Comers(m)
  /\ \A n \in U!Nodes : startUpMain[n] \in Leaving => \A w \in U!Workers(n) : prog[w] = <<>>

ClientsKept ==
  \A n \in U!Nodes :
    /\ \A w \in mailbox[n] : startUpMain[w[2]] \in Leaving
    /\ startUpMain[n] \in {"cm", "mh"} => mh[n] = "off" /\ Unfinished(n) = U!Remote(n)
    /\ startUpMain[n] \notin {"cm", "mh"} => clients[n] = Cardinality(Unfinished(n))
    /\ mh[n] = "stopped" => startUpMain[n] = "gone" /\ clients[n] = 0

StartUpInv == StartUpTypes /\ ProgramsKept /\ ClientsKept

(* Threads are told apart by what they are, their node and their number. *)
LEMMA ThreadsAreApart ==
  /\ \A n \in U!Nodes : \A w \in U!Workers(n) : w \in U!Threads /\ w[1] = "worker" /\ w[2] = n
  /\ \A n \in U!Nodes : U!Mh(n) \in U!Threads /\ U!Pp(n) \in U!Threads /\ U!Main(n) \in U!Threads
  /\ \A n : U!Mh(n)[1] = "mh" /\ U!Pp(n)[1] = "pp" /\ U!Main(n)[1] = "main" /\ U!Mh(n)[2] = n /\ U!Pp(n)[2] = n
  /\ \A n : \A w \in U!Remote(n) : w \in U!Threads /\ w[1] = "worker" /\ w[2] \in U!Nodes \ {n}
                                   /\ w \in U!Workers(w[2])
BY DEF U!Threads, U!Workers, U!Mh, U!Pp, U!Main, U!Remote

(* The workers of the nodes in M *)
LEMMA WorkersOf ==
  ASSUME NEW M, IsFiniteSet(M)
  PROVE  LET ws == UNION {U!Workers(m) : m \in M}
         IN  IsFiniteSet(ws) /\ Cardinality(ws) = WorkersPerNode * Cardinality(M)
<1> DEFINE W == WorkersPerNode
           ws == UNION {U!Workers(m) : m \in M}
           pairs == M \X (1..W)
           f == [p \in pairs |-> <<"worker", p[1], p[2]>>]
<1>1. /\ \A p \in pairs : f[p] \in ws
      /\ \A w \in ws : \E p \in pairs : f[p] = w
  <2>1. \A m \in M, i \in 1..W : <<m, i>> \in pairs /\ f[<<m, i>>] = <<"worker", m, i>>
    OBVIOUS
  <2>2. \A m \in M : U!Workers(m) = {<<"worker", m, i>> : i \in 1..W}
    BY DEF U!Workers
  <2>3. \A p \in pairs : \E m \in M, i \in 1..W : p = <<m, i>>
    OBVIOUS
  <2>4. ASSUME NEW p \in pairs PROVE f[p] \in ws
    <3>1. PICK m \in M, i \in 1..W : p = <<m, i>>
      BY <2>3
    <3>2. f[p] \in U!Workers(m)
      BY <2>1, <2>2, <3>1
    <3> QED
      BY <3>2
  <2>5. ASSUME NEW w \in ws PROVE \E p \in pairs : f[p] = w
    <3>1. PICK m \in M : w \in U!Workers(m)
      OBVIOUS
    <3>2. PICK i \in 1..W : w = <<"worker", m, i>>
      BY <2>2, <3>1
    <3>3. <<m, i>> \in pairs /\ f[<<m, i>>] = w
      BY <2>1, <3>2
    <3> HIDE DEF f, pairs
    <3> QED
      BY <3>3
  <2> QED
    BY <2>4, <2>5
<1>2. f \in Bijection(pairs, ws)
  <2>2. \A p, q \in pairs : f[p] = f[q] => p = q
    OBVIOUS
  <2>1. f \in [pairs -> ws]
    BY <1>1
  <2> HIDE DEF f, pairs, ws
  <2>3. \A w \in ws : \E p \in pairs : f[p] = w
    BY <1>1
  <2> QED
    BY <2>1, <2>2, <2>3 DEF Bijection, Injection, Surjection, IsInjective
<1>3. IsFiniteSet(1..W) /\ Cardinality(1..W) = W
  BY FS_Interval, BoundsAssumption
<1>4. IsFiniteSet(pairs) /\ Cardinality(pairs) = Cardinality(M) * W
  BY <1>3, FS_Product
<1>5. IsFiniteSet(ws) /\ Cardinality(ws) = Cardinality(pairs)
  BY <1>2, <1>4, FS_Bijection DEF ExistsBijection
<1>6. Cardinality(M) \in Nat
  BY FS_CardinalityType
<1> QED
  BY <1>4, <1>5, <1>6, BoundsAssumption

(* So many workers of other nodes are there. *)
LEMMA RemoteWorkers ==
  ASSUME NEW n \in U!Nodes
  PROVE  IsFiniteSet(U!Remote(n)) /\ Cardinality(U!Remote(n)) = WorkersPerNode * (NodeCount - 1)
<1>1. IsFiniteSet(U!Nodes) /\ Cardinality(U!Nodes) = NodeCount
  BY FS_Interval, BoundsAssumption DEF U!Nodes
<1>2. IsFiniteSet(U!Nodes \ {n}) /\ Cardinality(U!Nodes \ {n}) = NodeCount - 1
  BY <1>1, FS_RemoveElement
<1>3. PICK M : M = U!Nodes \ {n}
  OBVIOUS
<1> QED
  BY <1>2, <1>3, WorkersOf DEF U!Remote

(* A union has no more elements than its parts. *)
LEMMA UnionIsSmaller ==
  ASSUME NEW X, IsFiniteSet(X), NEW Y, IsFiniteSet(Y)
  PROVE  IsFiniteSet(X \cup Y) /\ Cardinality(X \cup Y) <= Cardinality(X) + Cardinality(Y)
<1>1. IsFiniteSet(X \cup Y) /\ Cardinality(X \cup Y) = Cardinality(X) + Cardinality(Y) - Cardinality(X \cap Y)
  BY FS_Union
<1>2. IsFiniteSet(X \cap Y)
  BY FS_Intersection
<1>3. Cardinality(X) \in Nat /\ Cardinality(Y) \in Nat /\ Cardinality(X \cap Y) \in Nat
  BY <1>2, FS_CardinalityType
<1> QED
  BY <1>1, <1>3

(* So many connections come in at most. *)
LEMMA ComersAreCounted ==
  ASSUME NEW n \in U!Nodes
  PROVE  IsFiniteSet(Comers(n)) /\ Cardinality(Comers(n)) <= U!ExpectedConnections(n)
<1> DEFINE mhs == {U!Mh(m) : m \in U!Nodes \ {n}}
           pps == {U!Pp(m) : m \in 0..(n - 1)}
<1>1. n \in Nat /\ n - 1 \in Int /\ IsFiniteSet(U!Nodes) /\ Cardinality(U!Nodes) = NodeCount
  BY FS_Interval, BoundsAssumption DEF U!Nodes
<1>2. IsFiniteSet(U!Nodes \ {n}) /\ Cardinality(U!Nodes \ {n}) = NodeCount - 1
  BY <1>1, FS_RemoveElement
<1>3. IsFiniteSet(0..(n - 1)) /\ Cardinality(0..(n - 1)) = n
  BY <1>1, FS_Interval
<1>4. IsFiniteSet(mhs) /\ Cardinality(mhs) <= NodeCount - 1
  <2>1. PICK M : M = U!Nodes \ {n}
    OBVIOUS
  <2>2. PICK f : f = [m \in M |-> U!Mh(m)]
    OBVIOUS
  <2>3. f \in Surjection(M, mhs)
    BY <2>1, <2>2 DEF Surjection
  <2> QED
    BY <1>2, <2>1, <2>3, FS_Surjection
<1>5. IsFiniteSet(pps) /\ Cardinality(pps) <= n
  <2>1. PICK M : M = 0..(n - 1)
    OBVIOUS
  <2>2. PICK f : f = [m \in M |-> U!Pp(m)]
    OBVIOUS
  <2>3. f \in Surjection(M, pps)
    BY <2>1, <2>2 DEF Surjection
  <2> QED
    BY <1>3, <2>1, <2>3, FS_Surjection
<1> HIDE DEF mhs, pps
<1>6. IsFiniteSet(U!Remote(n)) /\ Cardinality(U!Remote(n)) = WorkersPerNode * (NodeCount - 1)
  BY RemoteWorkers
<1>7. PICK x, y : x = U!Remote(n) /\ y = U!Remote(n) \cup mhs
  OBVIOUS
<1>8. IsFiniteSet(y) /\ Cardinality(y) <= Cardinality(x) + Cardinality(mhs)
  BY <1>4, <1>6, <1>7, UnionIsSmaller
<1>9. IsFiniteSet(y \cup pps) /\ Cardinality(y \cup pps) <= Cardinality(y) + Cardinality(pps)
  BY <1>5, <1>8, UnionIsSmaller
<1>10. Comers(n) = y \cup pps
  BY <1>7 DEF Comers, mhs, pps
<1>11. PICK k : k = WorkersPerNode * (NodeCount - 1) /\ k \in Int
  BY BoundsAssumption
<1> QED
  <2>1. Cardinality(y) \in Nat /\ Cardinality(pps) \in Nat /\ Cardinality(mhs) \in Nat /\ Cardinality(Comers(n)) \in Nat
    BY <1>4, <1>5, <1>8, <1>9, <1>10, FS_CardinalityType
  <2>2. Cardinality(Comers(n)) <= k + n + (NodeCount - 1)
    BY <1>1, <1>4, <1>5, <1>6, <1>7, <1>8, <1>9, <1>10, <1>11, <2>1, BoundsAssumption
  <2> QED
    BY <1>9, <1>10, <1>11, <2>2 DEF U!ExpectedConnections

(* The loops over the other nodes *)
LEMMA OtherNodes ==
  ASSUME NEW n \in U!Nodes
  PROVE  U!Others(n) \in [1..(NodeCount - 1) -> U!Nodes \ {n}]
BY BoundsAssumption DEF U!Others, U!Nodes

(* The loops over pairs of other nodes *)
LEMMA DelegationNodes ==
  ASSUME NEW n \in U!Nodes
  PROVE  \E k \in Nat : U!Delegations(n) \in [1..k -> U!Nodes]
<1>1. PICK a, b, k : a = NodeCount - 1 /\ b = NodeCount - 2 /\ k = a * b
  OBVIOUS
<1>2. U!Delegations(n) = [i \in 1..k |-> U!Others(n)[(i - 1) \div b + 1]]
  BY <1>1 DEF U!Delegations
<1>3. CASE NodeCount \in {1, 2}
  <2>1. k = 0
    BY <1>1, <1>3
  <2> QED
    BY <1>2, <2>1
<1>4. CASE NodeCount \notin {1, 2}
  <2>1. a \in Nat \ {0} /\ b \in Nat \ {0} /\ k \in Nat
    BY <1>1, <1>4, BoundsAssumption
  <2>2. ASSUME NEW i \in 1..k PROVE (i - 1) \div b + 1 \in 1..a
    <3>1. PICK x \in Nat : x = i - 1 /\ x < k
      BY <2>1
    <3>2. PICK d : d = x \div b
      OBVIOUS
    <3>3. d \in Nat /\ b * d <= x
      BY <2>1, <3>2
    <3>4. d < a
      <4>1. SUFFICES ASSUME d >= a PROVE FALSE
        BY <2>1, <3>3
      <4>2. PICK e \in Nat : d = a + e
        BY <2>1, <3>3, <4>1
      <4>3. b * d = a * b + b * e /\ b * e >= 0
        BY <2>1, <4>2
      <4> QED
        BY <1>1, <2>1, <3>1, <3>3, <4>3
    <3> QED
      BY <2>1, <3>1, <3>2, <3>3, <3>4
  <2>3. \A j \in 1..a : U!Others(n)[j] \in U!Nodes
    BY <1>1, OtherNodes
  <2>4. U!Delegations(n) \in [1..k -> U!Nodes]
    BY <1>2, <2>2, <2>3
  <2> QED
    BY <2>1, <2>4
<1> QED
  BY <1>3, <1>4

(* What a thread is given to do *)
LEMMA GivenToDo ==
  ASSUME NEW t \in U!Threads, NEW op \in {"connect", "exchange", "call"}, NEW k \in Nat, NEW ms \in [1..k -> U!Nodes],
         op = "connect" => \A i \in 1..k : t \in Comers(ms[i])
  PROVE  U!Do(op, ms, t) \in Seq(Doing(t))
<1>1. U!Do(op, ms, t) = [i \in 1..k |-> [op |-> op, node |-> ms[i], thread |-> t]]
  BY DEF U!Do
<1>2. \A i \in 1..k : [op |-> op, node |-> ms[i], thread |-> t] \in Doing(t)
  BY DEF Doing
<1> QED
  BY <1>1, <1>2

(* A worker connects to all other nodes, *)
LEMMA WorkersDo ==
  ASSUME NEW n \in U!Nodes, NEW t \in U!Workers(n)
  PROVE  U!WorkerProgram(t) \in Seq(Doing(t)) /\ U!Do("call", U!Others(n), t) \in Seq(Doing(t))
<1>1. t \in U!Threads /\ t[2] = n /\ \A m \in U!Nodes \ {n} : t \in Comers(m)
  BY ThreadsAreApart DEF Comers, U!Remote
<1>2. PICK a : a = NodeCount - 1 /\ a \in Nat
  BY BoundsAssumption
<1>3. U!Others(n) \in [1..a -> U!Nodes] /\ \A i \in 1..a : U!Others(n)[i] \in U!Nodes \ {n}
  BY <1>2, OtherNodes
<1>4. PICK k \in Nat : U!Delegations(n) \in [1..k -> U!Nodes]
  BY DelegationNodes
<1>5. U!Do("connect", U!Others(n), t) \in Seq(Doing(t))
  BY <1>1, <1>2, <1>3, GivenToDo
<1>6. U!Do("exchange", U!Others(n), t) \in Seq(Doing(t)) /\ U!Do("call", U!Others(n), t) \in Seq(Doing(t))
  BY <1>1, <1>2, <1>3, GivenToDo
<1>7. U!Do("call", U!Delegations(n), t) \in Seq(Doing(t))
  BY <1>1, <1>4, GivenToDo
<1> QED
  BY <1>1, <1>5, <1>6, <1>7 DEF U!WorkerProgram

(* a page provider to the higher ones, *)
LEMMA ProvidersDo ==
  ASSUME NEW n \in U!Nodes
  PROVE  U!PpProgram(n) \in Seq(Doing(U!Pp(n)))
<1>1. PICK k, t, h : k = NodeCount - 1 - n /\ t = U!Pp(n) /\ h = U!Higher(n)
  OBVIOUS
<1>2. k \in Nat /\ t \in U!Threads
  BY <1>1, BoundsAssumption, ThreadsAreApart DEF U!Nodes
<1>3. h \in [1..k -> U!Nodes] /\ \A i \in 1..k : h[i] = n + i
  BY <1>1, BoundsAssumption DEF U!Nodes, U!Higher
<1>4. \A i \in 1..k : t \in Comers(h[i])
  BY <1>1, <1>2, <1>3 DEF Comers, U!Nodes
<1>5. U!Do("connect", h, t) \in Seq(Doing(t)) /\ U!Do("exchange", h, t) \in Seq(Doing(t))
  BY <1>2, <1>3, <1>4, GivenToDo
<1> QED
  BY <1>1, <1>5 DEF U!PpProgram

(* and a message handler to all, behind its exchanges in any order. *)
LEMMA ExchangesDo ==
  ASSUME NEW n \in U!Nodes, NEW t, NEW k \in Nat, NEW order \in [1..k -> U!Threads]
  PROVE  [i \in DOMAIN order |-> [op |-> "exchange", node |-> n, thread |-> order[i]]] \in Seq(Doing(t))
<1>1. \A i \in 1..k : [op |-> "exchange", node |-> n, thread |-> order[i]] \in Doing(t)
  BY DEF Doing
<1> QED
  BY <1>1

(* What a message handler does when its exchanges are behind it *)
LEMMA HandlersDo ==
  ASSUME NEW n \in U!Nodes
  PROVE  U!Do("connect", U!Others(n), U!Mh(n)) \in Seq(Doing(U!Mh(n)))
<1>1. PICK a, t : a = NodeCount - 1 /\ a \in Nat /\ t = U!Mh(n)
  BY BoundsAssumption
<1>2. U!Others(n) \in [1..a -> U!Nodes] /\ \A i \in 1..a : U!Others(n)[i] \in U!Nodes \ {n}
  BY <1>1, OtherNodes
<1>3. t \in U!Threads /\ \A m \in U!Nodes \ {n} : t \in Comers(m)
  BY <1>1, ThreadsAreApart DEF Comers
<1>4. U!Do("connect", U!Others(n), t) \in Seq(Doing(t))
  BY <1>1, <1>2, <1>3, GivenToDo
<1> QED
  BY <1>1, <1>4

(* Nobody has begun. *)
LEMMA StartUpInit == U!Init => StartUpInv
<1> SUFFICES ASSUME U!Init PROVE StartUpInv
  OBVIOUS
<1>1. StartUpTypes
  BY DEF U!Init, StartUpTypes, Phases
<1>2. \A t \in U!Threads : prog[t] = <<>> /\ <<>> \in Seq(Doing(t))
  BY DEF U!Init
<1>3. ProgramsKept
  BY <1>2, ThreadsAreApart DEF ProgramsKept, U!Init, Leaving
<1>4. ASSUME NEW n \in U!Nodes PROVE Unfinished(n) = U!Remote(n)
  BY ThreadsAreApart DEF Unfinished, U!Init, Leaving
<1>5. ClientsKept
  BY <1>4 DEF ClientsKept, U!Init
<1> QED
  BY <1>1, <1>3, <1>5 DEF StartUpInv

(* The programs after a step *)
LEMMA ProgramsAfter ==
  ProgramsKept' <=> /\ \A t \in U!Threads : prog'[t] \in Seq(Doing(t))
                    /\ \A m \in U!Nodes : incoming'[m] \subseteq Comers(m)
                    /\ \A n \in U!Nodes : startUpMain'[n] \in Leaving => \A w \in U!Workers(n) : prog'[w] = <<>>
BY DEF ProgramsKept, Doing, Comers, U!Threads, U!Nodes, U!Workers, U!Remote, U!Mh, U!Pp, U!Main, Leaving

(* and the workers a node counts *)
UnfinishedThen(n) == {w \in U!Remote(n) : startUpMain'[w[2]] \notin Leaving \/ w \in mailbox'[n]}

LEMMA ClientsAfter ==
  ClientsKept' <=> \A n \in U!Nodes :
    /\ \A w \in mailbox'[n] : startUpMain'[w[2]] \in Leaving
    /\ startUpMain'[n] \in {"cm", "mh"} => mh'[n] = "off" /\ UnfinishedThen(n) = U!Remote(n)
    /\ startUpMain'[n] \notin {"cm", "mh"} => clients'[n] = Cardinality(UnfinishedThen(n))
    /\ mh'[n] = "stopped" => startUpMain'[n] = "gone" /\ clients'[n] = 0
BY DEF ClientsKept, Unfinished, UnfinishedThen, U!Nodes, U!Remote, U!Workers, Leaving

(* Nobody starts to leave, and no handler starts or stops: the counts stay right. *)
LEMMA ClientsStay ==
  ASSUME StartUpInv, UNCHANGED <<clients, mailbox>>,
         \A k \in U!Nodes : /\ startUpMain'[k] \in Leaving <=> startUpMain[k] \in Leaving
                            /\ startUpMain'[k] \in {"cm", "mh"} <=> startUpMain[k] \in {"cm", "mh"}
                            /\ startUpMain[k] = "gone" => startUpMain'[k] = "gone"
                            /\ mh'[k] = mh[k] \/ (mh'[k] # "stopped" /\ mh[k] # "off")
  PROVE  ClientsKept'
<1>1. ASSUME NEW n \in U!Nodes PROVE UnfinishedThen(n) = Unfinished(n)
  BY ThreadsAreApart DEF Unfinished, UnfinishedThen
<1>2. ASSUME NEW n \in U!Nodes, NEW w \in mailbox[n] PROVE startUpMain'[w[2]] \in Leaving
  <2>1. w \in U!Threads /\ startUpMain[w[2]] \in Leaving
    BY <1>2 DEF StartUpInv, StartUpTypes, ClientsKept
  <2>2. w[2] \in U!Nodes
    BY <2>1 DEF U!Threads, U!Workers, U!Mh, U!Pp, U!Main
  <2> QED
    BY <2>1, <2>2
<1> QED
  BY <1>1, <1>2, ClientsAfter DEF StartUpInv, ClientsKept

(* A thread goes on with its program. *)
LEMMA RunKeeps ==
  ASSUME StartUpInv, NEW t \in U!Threads, U!Run(t)
  PROVE  StartUpInv'
<1>1. UNCHANGED <<startUpMain, mh, clients, mailbox>> /\ prog[t] # <<>>
  BY DEF U!Run, U!Connect, U!Call, U!Exchange, U!IsAt
<1>2. \/ prog' = [prog EXCEPT ![t] = Tail(@)]
      \/ \E u \in U!Threads : u # t /\ prog[u] # <<>> /\ prog' = [prog EXCEPT ![t] = Tail(@), ![u] = Tail(@)]
  BY DEF U!Run, U!Connect, U!Call, U!Exchange, U!IsAt
<1>3. \A v \in U!Threads : prog[v] # <<>> => Tail(prog[v]) \in Seq(Doing(v)) /\ Head(prog[v]) \in Doing(v)
  BY DEF StartUpInv, ProgramsKept
<1>4. DOMAIN prog = U!Threads
  BY DEF StartUpInv, StartUpTypes
<1>5. \A v \in U!Threads : prog'[v] = prog[v] \/ (prog[v] # <<>> /\ prog'[v] \in Seq(Doing(v)))
  <2>1. CASE prog' = [prog EXCEPT ![t] = Tail(@)]
    BY <1>1, <1>3, <1>4, <2>1
  <2>2. ASSUME NEW u \in U!Threads, u # t, prog[u] # <<>>, prog' = [prog EXCEPT ![t] = Tail(@), ![u] = Tail(@)]
        PROVE  \A v \in U!Threads : prog'[v] = prog[v] \/ (prog[v] # <<>> /\ prog'[v] \in Seq(Doing(v)))
    BY <1>1, <1>3, <1>4, <2>2
  <2> QED
    BY <1>2, <2>1, <2>2
<1>6. \A m \in U!Nodes : incoming'[m] \subseteq Comers(m)
  <2>1. CASE UNCHANGED incoming
    BY <2>1 DEF StartUpInv, ProgramsKept
  <2>2. CASE U!Connect(t)
    <3>1. PICK h, m : h = Head(prog[t]) /\ m = h.node /\ h.op = "connect" /\ incoming' = [incoming EXCEPT ![m] = @ \cup {t}]
      BY <2>2 DEF U!Connect, U!IsAt
    <3>2. t \in Comers(m)
      BY <1>1, <1>3, <3>1 DEF Doing
    <3> QED
      BY <3>1, <3>2 DEF StartUpInv, StartUpTypes, ProgramsKept
  <2> QED
    BY <2>1, <2>2 DEF U!Run, U!Call, U!Exchange
<1>7. ProgramsKept'
  BY <1>1, <1>5, <1>6, ThreadsAreApart, ProgramsAfter DEF StartUpInv, ProgramsKept
<1>8. StartUpTypes'
  <2>1. incoming' \in [U!Nodes -> SUBSET U!Threads]
    BY DEF StartUpInv, StartUpTypes, U!Run, U!Connect, U!Call, U!Exchange
  <2>2. DOMAIN prog' = U!Threads
    BY <1>2, <1>4
  <2> QED
    BY <1>1, <2>1, <2>2 DEF StartUpInv, StartUpTypes, U!Threads, U!Nodes, U!Workers, U!Mh, U!Pp, U!Main, Phases, Leaving
<1>9. ClientsKept'
  BY <1>1, ClientsStay
<1> QED
  BY <1>7, <1>8, <1>9 DEF StartUpInv

(* A thread gets a program. *)
Given(t, p) == prog' = [prog EXCEPT ![t] = p]

LEMMA ThreadIsGiven ==
  ASSUME StartUpInv, NEW t \in U!Threads, t[1] # "worker", NEW p \in Seq(Doing(t)), Given(t, p)
  PROVE  /\ \A v \in U!Threads : prog'[v] \in Seq(Doing(v)) /\ (v[1] = "worker" => prog'[v] = prog[v])
         /\ DOMAIN prog' = U!Threads
BY DEF StartUpInv, StartUpTypes, ProgramsKept, Given

(* A node goes to phase x and no worker gets something to do. *)
LEMMA NodeGoes ==
  ASSUME StartUpInv, NEW n \in U!Nodes, NEW x \in Phases, startUpMain' = [startUpMain EXCEPT ![n] = x],
         x \in Leaving <=> startUpMain[n] \in Leaving, x \in {"cm", "mh"} <=> startUpMain[n] \in {"cm", "mh"},
         startUpMain[n] # "gone",
         UNCHANGED <<mh, incoming, clients, mailbox>>, DOMAIN prog' = U!Threads,
         \A v \in U!Threads : prog'[v] \in Seq(Doing(v)) /\ (v[1] = "worker" => prog'[v] = prog[v])
  PROVE  StartUpInv'
<1>1. /\ startUpMain' \in [U!Nodes -> Phases]
      /\ \A k \in U!Nodes : startUpMain'[k] = IF k = n THEN x ELSE startUpMain[k]
  BY DEF StartUpInv, StartUpTypes
<1>2. StartUpTypes'
  BY <1>1 DEF StartUpInv, StartUpTypes, U!Threads, U!Nodes, U!Workers, U!Mh, U!Pp, U!Main, Phases, Leaving
<1>3. \A k \in U!Nodes : startUpMain'[k] \in Leaving <=> startUpMain[k] \in Leaving
  BY <1>1
<1>4. ProgramsKept'
  <2>1. \A m \in U!Nodes : incoming'[m] \subseteq Comers(m)
    BY DEF StartUpInv, ProgramsKept
  <2>2. ASSUME NEW k \in U!Nodes, startUpMain'[k] \in Leaving, NEW w \in U!Workers(k) PROVE prog'[w] = <<>>
    <3>1. w \in U!Threads /\ w[1] = "worker"
      BY ThreadsAreApart
    <3>2. prog[w] = <<>>
      BY <1>3, <2>2 DEF StartUpInv, ProgramsKept
    <3> QED
      BY <3>1, <3>2
  <2> QED
    BY <2>1, <2>2, ProgramsAfter
<1>5. ClientsKept'
  BY <1>1, <1>3, ClientsStay
<1> QED
  BY <1>2, <1>4, <1>5 DEF StartUpInv

(* The phases of the main thread that only wait or start a thread *)
LEMMA PhasesKeep ==
  ASSUME StartUpInv, NEW n \in U!Nodes,
         U!CmUp(n) \/ U!PpUp(n) \/ U!CatalogInit(n) \/ U!RemoteGuard(n) \/ U!PpStop(n)
  PROVE  StartUpInv'
<1>1. PICK x : /\ startUpMain' = [startUpMain EXCEPT ![n] = x] /\ UNCHANGED <<prog, mh, incoming, clients, mailbox>>
               /\ <<startUpMain[n], x>> \in {<<"cm", "mh">>, <<"pp", "catalog">>, <<"catalog", "up">>,
                                            <<"guard", "ppstop">>, <<"ppstop", "mhstop">>}
  BY DEF U!CmUp, U!PpUp, U!CatalogInit, U!RemoteGuard, U!PpStop
<1>2. /\ x \in Phases /\ (x \in Leaving <=> startUpMain[n] \in Leaving)
      /\ x \in {"cm", "mh"} <=> startUpMain[n] \in {"cm", "mh"}
      /\ startUpMain[n] # "gone"
  BY <1>1 DEF Phases, Leaving
<1>3. DOMAIN prog' = U!Threads /\ \A v \in U!Threads : prog'[v] \in Seq(Doing(v)) /\ prog'[v] = prog[v]
  BY <1>1 DEF StartUpInv, StartUpTypes, ProgramsKept
<1> QED
  BY <1>1, <1>2, <1>3, NodeGoes

(* The page provider starts when the workers are connected, and waits. *)
LEMMA ProviderStarts ==
  ASSUME StartUpInv, NEW n \in U!Nodes, U!PoolUp(n) \/ U!PpInit(n)
  PROVE  StartUpInv'
<1>1. CASE U!PoolUp(n)
  <2>1. PICK t, p, x : t = U!Pp(n) /\ p = U!PpProgram(n) /\ x = "ppinit"
    OBVIOUS
  <2>2. /\ startUpMain[n] = "pool" /\ startUpMain' = [startUpMain EXCEPT ![n] = x] /\ Given(t, p)
        /\ UNCHANGED <<mh, incoming, clients, mailbox>>
    BY <1>1, <2>1 DEF U!PoolUp, Given
  <2>3. t \in U!Threads /\ t[1] # "worker" /\ p \in Seq(Doing(t))
    BY <2>1, ThreadsAreApart, ProvidersDo
  <2>4. x \in Phases \ Leaving /\ x \notin {"cm", "mh"} /\ startUpMain[n] \notin Leaving
    BY <2>1, <2>2 DEF Phases, Leaving
  <2> QED
    BY <2>2, <2>3, <2>4, ThreadIsGiven, NodeGoes
<1>2. CASE U!PpInit(n)
  <2>1. PICK S : S = {u \in incoming[n] : u[1] = "pp"}
    OBVIOUS
  <2>2. PICK pps \in U!SetToSeqs(S) :
          prog' = [prog EXCEPT ![U!Main(n)] = [k \in DOMAIN pps |-> [op |-> "exchange", node |-> n, thread |-> pps[k]]]]
    BY <1>2, <2>1 DEF U!PpInit
  <2>3. IsFiniteSet(S) /\ S \subseteq U!Threads
    <3>1. incoming[n] \subseteq U!Threads /\ incoming[n] \subseteq Comers(n)
      BY DEF StartUpInv, StartUpTypes, ProgramsKept
    <3>2. IsFiniteSet(Comers(n))
      BY ComersAreCounted
    <3>3. S \subseteq Comers(n)
      BY <2>1, <3>1
    <3> QED
      BY <2>1, <3>1, <3>2, <3>3, FS_Subset
  <2>4. PICK k \in Nat : k = Cardinality(S)
    BY <2>3, FS_CardinalityType
  <2>5. k = U!Cardinality(S)
    BY <2>4 DEF Cardinality, U!Cardinality
  <2>6. pps \in [1..k -> U!Threads]
    BY <2>2, <2>3, <2>5 DEF U!SetToSeqs
  <2>7. PICK t, p, x : /\ t = U!Main(n) /\ x = "pp"
                       /\ p = [i \in DOMAIN pps |-> [op |-> "exchange", node |-> n, thread |-> pps[i]]]
    OBVIOUS
  <2>8. /\ startUpMain[n] = "ppinit" /\ startUpMain' = [startUpMain EXCEPT ![n] = x] /\ Given(t, p)
        /\ UNCHANGED <<mh, incoming, clients, mailbox>>
    BY <1>2, <2>2, <2>7 DEF U!PpInit, Given
  <2>9. t \in U!Threads /\ t[1] # "worker" /\ p \in Seq(Doing(t))
    <3>1. t \in U!Threads /\ t[1] # "worker"
      BY <2>7, ThreadsAreApart
    <3>2. p \in Seq(Doing(t))
      BY ONLY n \in U!Nodes, <2>6, <2>7, k \in Nat, ExchangesDo
    <3> QED
      BY <3>1, <3>2
  <2>10. x \in Phases \ Leaving /\ x \notin {"cm", "mh"} /\ startUpMain[n] \notin Leaving
    BY <2>7, <2>8 DEF Phases, Leaving
  <2> QED
    BY <2>8, <2>9, <2>10, ThreadIsGiven, NodeGoes
<1> QED
  BY <1>1, <1>2

(* The message handler knows its clients and exchanges with them. *)
LEMMA HandlerInitKeeps ==
  ASSUME StartUpInv, NEW n \in U!Nodes, U!MhInit(n)
  PROVE  StartUpInv'
<1>1. PICK S, t, c, k : /\ S = U!IncomingWorkers(n) /\ t = U!Mh(n) /\ c = U!Do("connect", U!Others(n), t)
                        /\ k = WorkersPerNode * (NodeCount - 1)
  OBVIOUS
<1>2. PICK order \in U!SetToSeqs(S) :
        prog' = [prog EXCEPT ![t] = [i \in DOMAIN order |-> [op |-> "exchange", node |-> n, thread |-> order[i]]] \o c]
  BY <1>1 DEF U!MhInit
<1>3. /\ mh[n] = "init" /\ mh' = [mh EXCEPT ![n] = "loop"] /\ U!Cardinality(S) = k
      /\ UNCHANGED <<startUpMain, incoming, clients, mailbox>>
  BY <1>1 DEF U!MhInit
<1>4. k \in Nat
  BY <1>1, BoundsAssumption
<1>5. order \in [1..k -> U!Threads]
  <2>1. S \subseteq U!Threads
    BY <1>1, ThreadsAreApart DEF U!IncomingWorkers
  <2> QED
    BY <1>2, <1>3, <2>1 DEF U!SetToSeqs
<1>6. PICK p : p = [i \in DOMAIN order |-> [op |-> "exchange", node |-> n, thread |-> order[i]]]
  OBVIOUS
<1>7. p \in Seq(Doing(t))
  BY ONLY n \in U!Nodes, <1>4, <1>5, <1>6, ExchangesDo
<1>8. c \in Seq(Doing(t)) /\ t \in U!Threads /\ t[1] # "worker"
  BY <1>1, HandlersDo, ThreadsAreApart
<1>9. p \o c \in Seq(Doing(t)) /\ Given(t, p \o c)
  BY <1>2, <1>6, <1>7, <1>8 DEF Given
<1>10. /\ \A v \in U!Threads : prog'[v] \in Seq(Doing(v)) /\ (v[1] = "worker" => prog'[v] = prog[v])
       /\ DOMAIN prog' = U!Threads
  BY <1>8, <1>9, ThreadIsGiven
<1>11. mh' \in [U!Nodes -> {"off", "init", "loop", "stopped"}]
  BY <1>3 DEF StartUpInv, StartUpTypes
<1>12. StartUpTypes'
  BY <1>3, <1>10, <1>11 DEF StartUpInv, StartUpTypes, U!Threads, U!Nodes, U!Workers, U!Mh, U!Pp, U!Main, Phases, Leaving
<1>13. ProgramsKept'
  <2>1. \A m \in U!Nodes : incoming'[m] \subseteq Comers(m)
    BY <1>3 DEF StartUpInv, ProgramsKept
  <2>2. ASSUME NEW m \in U!Nodes, startUpMain'[m] \in Leaving, NEW w \in U!Workers(m) PROVE prog'[w] = <<>>
    <3>1. w \in U!Threads /\ w[1] = "worker"
      BY ThreadsAreApart
    <3>2. prog[w] = <<>>
      BY <1>3, <2>2 DEF StartUpInv, ProgramsKept
    <3> QED
      BY <1>10, <3>1, <3>2
  <2> QED
    BY <1>10, <2>1, <2>2, ProgramsAfter
<1>14. ClientsKept'
  <2>1. \A m \in U!Nodes : mh'[m] = mh[m] \/ (mh'[m] # "stopped" /\ mh[m] # "off")
    BY <1>3 DEF StartUpInv, StartUpTypes
  <2> QED
    BY <1>3, <2>1, ClientsStay
<1> QED
  BY <1>12, <1>13, <1>14 DEF StartUpInv

(* Workers of n get what they do: at its start, or for a job. *)
WorkersGiven(n) ==
  \E plan : /\ prog' = [t \in U!Threads |-> IF t \in U!Workers(n) THEN plan[t] ELSE prog[t]]
        /\ \A t \in U!Workers(n) : plan[t] \in Seq(Doing(t))

(* All workers of a node get the same kind of work. *)
LEMMA WorkersAreGiven ==
  ASSUME StartUpInv, NEW n \in U!Nodes, WorkersGiven(n), startUpMain[n] \notin Leaving,
         NEW x \in Phases \ Leaving, startUpMain' = [startUpMain EXCEPT ![n] = x], UNCHANGED incoming
  PROVE  ProgramsKept' /\ DOMAIN prog' = U!Threads
<1>1. PICK plan : /\ prog' = [t \in U!Threads |-> IF t \in U!Workers(n) THEN plan[t] ELSE prog[t]]
               /\ \A t \in U!Workers(n) : plan[t] \in Seq(Doing(t))
  BY DEF WorkersGiven
<1>2. \A t \in U!Threads : prog'[t] \in Seq(Doing(t))
  BY <1>1 DEF StartUpInv, ProgramsKept
<1>3. \A m \in U!Nodes : incoming'[m] \subseteq Comers(m)
  BY DEF StartUpInv, ProgramsKept
<1>4. ASSUME NEW k \in U!Nodes, startUpMain'[k] \in Leaving, NEW w \in U!Workers(k) PROVE prog'[w] = <<>>
  <2>1. k # n /\ startUpMain[k] \in Leaving
    BY <1>4 DEF StartUpInv, StartUpTypes
  <2>2. w \in U!Threads /\ w \notin U!Workers(n)
    BY <2>1, ThreadsAreApart
  <2> QED
    BY <1>1, <2>1, <2>2 DEF StartUpInv, ProgramsKept
<1> QED
  BY <1>1, <1>2, <1>3, <1>4, ProgramsAfter

(* A job of the workers neither adds nor takes a client. *)
LEMMA JobKeeps ==
  ASSUME StartUpInv, NEW n \in U!Nodes, U!Job(n)
  PROVE  StartUpInv'
<1>1. PICK x : x = "job"
  OBVIOUS
<1>2. /\ startUpMain[n] = "up" /\ startUpMain' = [startUpMain EXCEPT ![n] = x] /\ UNCHANGED <<mh, incoming, clients, mailbox>>
      /\ prog' = [t \in U!Threads |-> IF t \in U!Workers(n) THEN U!Do("call", U!Others(n), t) ELSE prog[t]]
  BY <1>1 DEF U!Job
<1>3. PICK plan : plan = [t \in U!Workers(n) |-> U!Do("call", U!Others(n), t)]
  OBVIOUS
<1>4. WorkersGiven(n)
  <2>1. prog' = [t \in U!Threads |-> IF t \in U!Workers(n) THEN plan[t] ELSE prog[t]]
    BY <1>2, <1>3
  <2>2. \A t \in U!Workers(n) : plan[t] \in Seq(Doing(t))
    BY <1>3, WorkersDo
  <2> QED
    BY <2>1, <2>2 DEF WorkersGiven
<1>5. x \in Phases \ Leaving /\ startUpMain[n] \notin Leaving
  BY <1>1, <1>2 DEF Phases, Leaving
<1>6. ProgramsKept' /\ DOMAIN prog' = U!Threads
  BY <1>2, <1>4, <1>5, WorkersAreGiven
<1>7. /\ startUpMain' \in [U!Nodes -> Phases]
      /\ \A k \in U!Nodes : startUpMain'[k] = IF k = n THEN x ELSE startUpMain[k]
  BY <1>2, <1>5 DEF StartUpInv, StartUpTypes
<1>8. StartUpTypes'
  BY <1>2, <1>6, <1>7 DEF StartUpInv, StartUpTypes, U!Threads, U!Nodes, U!Workers, U!Mh, U!Pp, U!Main, Phases, Leaving
<1>9. ClientsKept'
  BY <1>1, <1>2, <1>5, <1>7, ClientsStay
<1> QED
  BY <1>6, <1>8, <1>9 DEF StartUpInv

(* The message handler starts, and then the workers connect. *)
LEMMA HandlerStartKeeps ==
  ASSUME StartUpInv, NEW n \in U!Nodes, U!MhStart(n)
  PROVE  StartUpInv'
<1>1. PICK x : x = "pool"
  OBVIOUS
<1>2. /\ startUpMain[n] = "mh" /\ startUpMain' = [startUpMain EXCEPT ![n] = x] /\ UNCHANGED <<incoming, mailbox>>
      /\ prog' = [t \in U!Threads |-> IF t \in U!Workers(n) THEN U!WorkerProgram(t) ELSE prog[t]]
      /\ mh' = [mh EXCEPT ![n] = "init"]
      /\ clients' = [clients EXCEPT ![n] = WorkersPerNode * (NodeCount - 1)]
  BY <1>1 DEF U!MhStart, U!ExpectedClients
<1>3. PICK plan : plan = [t \in U!Workers(n) |-> U!WorkerProgram(t)]
  OBVIOUS
<1>4. WorkersGiven(n)
  <2>1. prog' = [t \in U!Threads |-> IF t \in U!Workers(n) THEN plan[t] ELSE prog[t]]
    BY <1>2, <1>3
  <2>2. \A t \in U!Workers(n) : plan[t] \in Seq(Doing(t))
    BY <1>3, WorkersDo
  <2> QED
    BY <2>1, <2>2 DEF WorkersGiven
<1>5. x \in Phases \ Leaving /\ startUpMain[n] \notin Leaving
  BY <1>1, <1>2 DEF Phases, Leaving
<1>6. ProgramsKept' /\ DOMAIN prog' = U!Threads
  BY <1>2, <1>4, <1>5, WorkersAreGiven
<1>7. /\ startUpMain' \in [U!Nodes -> Phases]
      /\ \A k \in U!Nodes : startUpMain'[k] = IF k = n THEN x ELSE startUpMain[k]
  BY <1>2, <1>5 DEF StartUpInv, StartUpTypes
<1>8. PICK c : c = WorkersPerNode * (NodeCount - 1) /\ c \in Int
  BY BoundsAssumption
<1>9. StartUpTypes'
  <2>1. mh' \in [U!Nodes -> {"off", "init", "loop", "stopped"}] /\ clients' \in [U!Nodes -> Int]
    BY <1>2, <1>8 DEF StartUpInv, StartUpTypes
  <2> QED
    BY <1>2, <1>6, <1>7, <2>1
       DEF StartUpInv, StartUpTypes, U!Threads, U!Nodes, U!Workers, U!Mh, U!Pp, U!Main, Phases, Leaving
<1>10. \A k \in U!Nodes : startUpMain'[k] \in Leaving <=> startUpMain[k] \in Leaving
  BY <1>5, <1>7
<1>11. ASSUME NEW k \in U!Nodes PROVE UnfinishedThen(k) = Unfinished(k)
  BY <1>2, <1>10, ThreadsAreApart DEF Unfinished, UnfinishedThen
<1>12. ASSUME NEW k \in U!Nodes, NEW w \in mailbox[k] PROVE startUpMain'[w[2]] \in Leaving
  <2>1. w \in U!Threads /\ startUpMain[w[2]] \in Leaving
    BY <1>12 DEF StartUpInv, StartUpTypes, ClientsKept
  <2>2. w[2] \in U!Nodes
    BY <2>1 DEF U!Threads, U!Workers, U!Mh, U!Pp, U!Main
  <2> QED
    BY <1>10, <2>1, <2>2
<1>13. clients'[n] = Cardinality(UnfinishedThen(n))
  <2>1. UnfinishedThen(n) = U!Remote(n)
    BY <1>2, <1>11 DEF StartUpInv, ClientsKept
  <2>2. clients'[n] = c
    BY <1>2, <1>8 DEF StartUpInv, StartUpTypes
  <2> QED
    BY <1>8, <2>1, <2>2, RemoteWorkers
<1>14. ClientsKept'
  <2>1. ASSUME NEW k \in U!Nodes, k # n
        PROVE  /\ startUpMain'[k] = startUpMain[k] /\ mh'[k] = mh[k] /\ clients'[k] = clients[k]
    BY <1>2, <1>7, <2>1 DEF StartUpInv, StartUpTypes
  <2>2. startUpMain'[n] = "pool" /\ mh'[n] = "init"
    BY <1>1, <1>2, <1>7 DEF StartUpInv, StartUpTypes
  <2> QED
    BY <1>2, <1>11, <1>12, <1>13, <2>1, <2>2, ClientsAfter DEF StartUpInv, ClientsKept
<1> QED
  BY <1>6, <1>9, <1>14 DEF StartUpInv

(* The workers of n finish: from now on their FinishRequests count. *)
LEMMA PoolResetKeeps ==
  ASSUME StartUpInv, NEW n \in U!Nodes, U!PoolReset(n)
  PROVE  StartUpInv'
<1>1. PICK x : x = "guard"
  OBVIOUS
<1>2. /\ startUpMain[n] = "job" /\ startUpMain' = [startUpMain EXCEPT ![n] = x] /\ UNCHANGED <<prog, mh, incoming, clients>>
      /\ mailbox' = [m \in U!Nodes |-> IF m = n THEN mailbox[m] ELSE mailbox[m] \cup U!Workers(n)]
      /\ \A w \in U!Workers(n) : prog[w] = <<>>
  BY <1>1 DEF U!PoolReset
<1>3. x \in Leaving /\ x \in Phases /\ startUpMain[n] \notin Leaving
  BY <1>1, <1>2 DEF Phases, Leaving
<1>4. /\ startUpMain' \in [U!Nodes -> Phases]
      /\ \A k \in U!Nodes : startUpMain'[k] = IF k = n THEN x ELSE startUpMain[k]
  BY <1>2, <1>3 DEF StartUpInv, StartUpTypes
<1>5. StartUpTypes'
  <2>1. mailbox' \in [U!Nodes -> SUBSET U!Threads]
    BY <1>2, ThreadsAreApart DEF StartUpInv, StartUpTypes
  <2> QED
    BY <1>2, <1>4, <2>1
       DEF StartUpInv, StartUpTypes, U!Threads, U!Nodes, U!Workers, U!Mh, U!Pp, U!Main, Phases, Leaving
<1>6. ProgramsKept'
  BY <1>2, <1>4, ProgramsAfter DEF StartUpInv, ProgramsKept
<1>7. ASSUME NEW k \in U!Nodes PROVE UnfinishedThen(k) = Unfinished(k)
  <2> SUFFICES ASSUME NEW w \in U!Remote(k)
               PROVE  (startUpMain'[w[2]] \notin Leaving \/ w \in mailbox'[k])
                        <=> (startUpMain[w[2]] \notin Leaving \/ w \in mailbox[k])
    BY DEF Unfinished, UnfinishedThen
  <2>1. w[2] \in U!Nodes \ {k} /\ w \in U!Workers(w[2])
    BY ThreadsAreApart
  <2>2. CASE w[2] = n
    <3>1. w \in mailbox'[k]
      BY <1>2, <2>1, <2>2
    <3> QED
      BY <1>3, <2>2, <3>1
  <2>3. CASE w[2] # n
    <3>1. w \notin U!Workers(n) /\ startUpMain'[w[2]] = startUpMain[w[2]]
      BY <1>4, <2>1, <2>3, ThreadsAreApart
    <3> QED
      BY <1>2, <3>1
  <2> QED
    BY <2>2, <2>3
<1>8. ASSUME NEW k \in U!Nodes, NEW w \in mailbox'[k] PROVE startUpMain'[w[2]] \in Leaving
  <2>1. CASE w \in mailbox[k]
    <3>1. w \in U!Threads /\ startUpMain[w[2]] \in Leaving
      BY <2>1 DEF StartUpInv, StartUpTypes, ClientsKept
    <3>2. w[2] \in U!Nodes
      BY <3>1 DEF U!Threads, U!Workers, U!Mh, U!Pp, U!Main
    <3> QED
      BY <1>3, <1>4, <3>1, <3>2
  <2>2. CASE w \in U!Workers(n)
    BY <1>3, <1>4, <2>2, ThreadsAreApart
  <2> QED
    BY <1>2, <1>8, <2>1, <2>2
<1>9. ClientsKept'
  <2>1. \A k \in U!Nodes : /\ startUpMain'[k] \in {"cm", "mh"} <=> startUpMain[k] \in {"cm", "mh"}
                           /\ startUpMain[k] = "gone" => startUpMain'[k] = "gone"
    BY <1>1, <1>2, <1>4
  <2> QED
    BY <1>2, <1>7, <1>8, <2>1, ClientsAfter DEF StartUpInv, ClientsKept
<1> QED
  BY <1>5, <1>6, <1>9 DEF StartUpInv

(* A FinishRequest is handled: a client less, and a worker less to count. *)
LEMMA HandleFinishKeeps ==
  ASSUME StartUpInv, NEW n \in U!Nodes, NEW w \in U!Remote(n), U!HandleFinish(n, w)
  PROVE  StartUpInv'
<1>1. /\ mh[n] = "loop" /\ w \in mailbox[n] /\ UNCHANGED <<startUpMain, prog, mh, incoming>>
      /\ mailbox' = [mailbox EXCEPT ![n] = @ \ {w}] /\ clients' = [clients EXCEPT ![n] = @ - 1]
  BY DEF U!HandleFinish
<1>2. StartUpTypes'
  <2>1. mailbox' \in [U!Nodes -> SUBSET U!Threads] /\ clients' \in [U!Nodes -> Int]
    BY <1>1 DEF StartUpInv, StartUpTypes
  <2> QED
    BY <1>1, <2>1 DEF StartUpInv, StartUpTypes, U!Threads, U!Nodes, U!Workers, U!Mh, U!Pp, U!Main, Phases, Leaving
<1>3. ProgramsKept'
  BY <1>1, ProgramsAfter DEF StartUpInv, ProgramsKept
<1>4. \A k \in U!Nodes : k # n => mailbox'[k] = mailbox[k] /\ clients'[k] = clients[k]
  BY <1>1 DEF StartUpInv, StartUpTypes
<1>5. mailbox'[n] = mailbox[n] \ {w} /\ clients'[n] = clients[n] - 1
  BY <1>1 DEF StartUpInv, StartUpTypes
<1>6. ASSUME NEW k \in U!Nodes, k # n PROVE UnfinishedThen(k) = Unfinished(k)
  BY <1>1, <1>4, <1>6 DEF Unfinished, UnfinishedThen
<1>7. startUpMain[w[2]] \in Leaving /\ startUpMain[n] \notin {"cm", "mh"}
  BY <1>1 DEF StartUpInv, ClientsKept
<1>8. UnfinishedThen(n) = Unfinished(n) \ {w} /\ w \in Unfinished(n)
  BY <1>1, <1>5, <1>7 DEF Unfinished, UnfinishedThen
<1>9. Cardinality(UnfinishedThen(n)) = Cardinality(Unfinished(n)) - 1
  <2>1. IsFiniteSet(Unfinished(n))
    <3>1. Unfinished(n) \subseteq U!Remote(n)
      BY DEF Unfinished
    <3> QED
      BY <3>1, RemoteWorkers, FS_Subset
  <2> QED
    BY <1>8, <2>1, FS_RemoveElement
<1>10. ClientsKept'
  <2>1. ASSUME NEW k \in U!Nodes, k # n
        PROVE  /\ \A u \in mailbox'[k] : startUpMain'[u[2]] \in Leaving
               /\ startUpMain'[k] \in {"cm", "mh"} => mh'[k] = "off" /\ UnfinishedThen(k) = U!Remote(k)
               /\ startUpMain'[k] \notin {"cm", "mh"} => clients'[k] = Cardinality(UnfinishedThen(k))
               /\ mh'[k] = "stopped" => startUpMain'[k] = "gone" /\ clients'[k] = 0
    BY <1>1, <1>4, <1>6, <2>1 DEF StartUpInv, ClientsKept
  <2>2. /\ \A u \in mailbox'[n] : startUpMain'[u[2]] \in Leaving
        /\ startUpMain'[n] \notin {"cm", "mh"} /\ clients'[n] = Cardinality(UnfinishedThen(n)) /\ mh'[n] # "stopped"
    BY <1>1, <1>5, <1>7, <1>9 DEF StartUpInv, ClientsKept
  <2> QED
    BY <2>1, <2>2, ClientsAfter
<1> QED
  BY <1>2, <1>3, <1>10 DEF StartUpInv

(* The message handler stops when it has no client. *)
LEMMA HandlerStopKeeps ==
  ASSUME StartUpInv, NEW n \in U!Nodes, U!MhStop(n)
  PROVE  StartUpInv'
<1>1. PICK x : x = "gone"
  OBVIOUS
<1>2. /\ startUpMain[n] = "mhstop" /\ clients[n] = 0 /\ startUpMain' = [startUpMain EXCEPT ![n] = x]
      /\ mh' = [mh EXCEPT ![n] = "stopped"] /\ UNCHANGED <<prog, incoming, clients, mailbox>>
  BY <1>1 DEF U!MhStop
<1>3. x \in Leaving /\ x \in Phases /\ startUpMain[n] \in Leaving
  BY <1>1, <1>2 DEF Phases, Leaving
<1>4. /\ startUpMain' \in [U!Nodes -> Phases]
      /\ \A k \in U!Nodes : startUpMain'[k] = IF k = n THEN x ELSE startUpMain[k]
  BY <1>2, <1>3 DEF StartUpInv, StartUpTypes
<1>5. /\ mh' \in [U!Nodes -> {"off", "init", "loop", "stopped"}]
      /\ \A k \in U!Nodes : mh'[k] = IF k = n THEN "stopped" ELSE mh[k]
  BY <1>2 DEF StartUpInv, StartUpTypes
<1>6. StartUpTypes'
  BY <1>2, <1>4, <1>5 DEF StartUpInv, StartUpTypes, U!Threads, U!Nodes, U!Workers, U!Mh, U!Pp, U!Main, Phases, Leaving
<1>7. \A k \in U!Nodes : startUpMain'[k] \in Leaving <=> startUpMain[k] \in Leaving
  BY <1>3, <1>4
<1>8. ProgramsKept'
  BY <1>2, <1>7, ProgramsAfter DEF StartUpInv, ProgramsKept
<1>9. ASSUME NEW k \in U!Nodes PROVE UnfinishedThen(k) = Unfinished(k)
  BY <1>2, <1>7, ThreadsAreApart DEF Unfinished, UnfinishedThen
<1>10. ASSUME NEW k \in U!Nodes, NEW w \in mailbox[k] PROVE startUpMain'[w[2]] \in Leaving
  <2>1. w \in U!Threads /\ startUpMain[w[2]] \in Leaving
    BY <1>10 DEF StartUpInv, StartUpTypes, ClientsKept
  <2>2. w[2] \in U!Nodes
    BY <2>1 DEF U!Threads, U!Workers, U!Mh, U!Pp, U!Main
  <2> QED
    BY <1>7, <2>1, <2>2
<1>11. ClientsKept'
  BY <1>1, <1>2, <1>4, <1>5, <1>9, <1>10, ClientsAfter DEF StartUpInv, ClientsKept
<1> QED
  BY <1>6, <1>8, <1>11 DEF StartUpInv

(* Every step keeps the invariant. *)
LEMMA StartUpStep == StartUpInv /\ [U!Next]_startUpVars => StartUpInv'
<1> SUFFICES ASSUME StartUpInv, [U!Next]_startUpVars PROVE StartUpInv'
  OBVIOUS
<1>1. CASE UNCHANGED startUpVars
  <2>1. UNCHANGED <<startUpMain, prog, mh, incoming, clients, mailbox>>
    BY <1>1 DEF startUpVars
  <2>2. StartUpTypes'
    BY <2>1 DEF StartUpInv, StartUpTypes, U!Threads, U!Nodes, U!Workers, U!Mh, U!Pp, U!Main, Phases, Leaving
  <2>3. ProgramsKept' /\ ClientsKept'
    BY <2>1, ProgramsAfter, ClientsStay DEF StartUpInv, ProgramsKept
  <2> QED
    BY <2>2, <2>3 DEF StartUpInv
<1>2. ASSUME NEW n \in U!Nodes, U!Node(n) PROVE StartUpInv'
  BY <1>2, PhasesKeep, ProviderStarts, HandlerInitKeeps, JobKeeps, HandlerStartKeeps, PoolResetKeeps, HandleFinishKeeps,
     HandlerStopKeeps DEF U!Node
<1> QED
  BY <1>1, <1>2, RunKeeps DEF U!Next

(* What the invariant is for *)
LEMMA StartUpDelivers == StartUpInv => U!ServedWhileWorking /\ U!CountNotMissed
<1> SUFFICES ASSUME StartUpInv PROVE U!ServedWhileWorking /\ U!CountNotMissed
  OBVIOUS
<1>1. ASSUME NEW n \in U!Nodes, mh[n] = "stopped", NEW t \in U!Remote(n)
      PROVE  prog[t] = <<>> /\ startUpMain[t[2]] \in {"guard", "ppstop", "mhstop", "gone"}
  <2>1. Cardinality(Unfinished(n)) = 0
    BY <1>1 DEF StartUpInv, ClientsKept
  <2>2. Unfinished(n) = {}
    <3>1. IsFiniteSet(Unfinished(n))
      <4>1. Unfinished(n) \subseteq U!Remote(n)
        BY DEF Unfinished
      <4> QED
        BY <4>1, RemoteWorkers, FS_Subset
    <3> QED
      BY <2>1, <3>1, FS_EmptySet
  <2>3. startUpMain[t[2]] \in Leaving /\ t[2] \in U!Nodes /\ t \in U!Workers(t[2])
    BY <2>2, ThreadsAreApart DEF Unfinished
  <2>4. prog[t] = <<>>
    BY <2>3 DEF StartUpInv, ProgramsKept
  <2> QED
    BY <2>3, <2>4 DEF Leaving
<1>2. ASSUME NEW n \in U!Nodes PROVE U!Cardinality(incoming[n]) <= U!ExpectedConnections(n)
  <2>1. PICK c : c = incoming[n] /\ c \subseteq Comers(n)
    BY DEF StartUpInv, ProgramsKept
  <2>2. IsFiniteSet(Comers(n)) /\ Cardinality(Comers(n)) <= U!ExpectedConnections(n)
    BY ComersAreCounted
  <2>3. Cardinality(c) <= Cardinality(Comers(n)) /\ Cardinality(c) \in Nat /\ Cardinality(Comers(n)) \in Nat
    BY <2>1, <2>2, FS_Subset, FS_CardinalityType
  <2>4. U!ExpectedConnections(n) \in Int
    BY BoundsAssumption DEF U!ExpectedConnections, U!Nodes
  <2>5. U!Cardinality(c) = Cardinality(c)
    BY DEF Cardinality, U!Cardinality
  <2> QED
    BY <2>1, <2>2, <2>3, <2>4, <2>5
<1> QED
  BY <1>1, <1>2 DEF U!ServedWhileWorking, U!CountNotMissed

(* For every number of nodes and of workers of each: no message handler    *)
(* stops before the workers of all other nodes have finished with it, and  *)
(* the number of connections that a page provider waits for is never       *)
(* overshot (constructor and destructor of ScaleStore, MessageHandler,     *)
(* PageProvider).                                                          *)
THEOREM HandlersServeWorkers == Spec => []ServedWhileWorking
<1>1. Init => StartUpInv
  BY StartUpInit DEF Init
<1>2. StartUpInv => ServedWhileWorking
  BY StartUpDelivers DEF ServedWhileWorking
<1> QED
  BY <1>1, <1>2, StartUpStep, PartsAreApart, PTL DEF Spec
=============================================================================
