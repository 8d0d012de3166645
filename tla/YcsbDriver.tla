----------------------------- MODULE YcsbDriver -----------------------------
(***************************************************************************)
(* The driver of the YCSB benchmark (frontend/ycsb/ycsb.cpp): on every     *)
(* compute node a main thread hands jobs to its workers and joins them.    *)
(* The keys are split over nodes and workers and inserted; then, workload  *)
(* by workload, the workers look up or overwrite random keys until main    *)
(* takes back keep_running, once for throughput and once more when         *)
(* latencies are recorded.  The workers of all nodes meet at a distributed *)
(* barrier, which stands here as the round each has reached; an operation  *)
(* of the tree is one step (module BTree).                                 *)
(***************************************************************************)
EXTENDS Integers

CONSTANTS Computes,    \* FLAGS_nodes / 2, the nodes that run the benchmark
          Worker,      \* FLAGS_worker
          TupleCount,  \* FLAGS_YCSB_tuple_count
          Workloads    \* zipf factors x read ratios x (warm up and) transactions

Nodes == 0..Computes - 1
Threads == Nodes \X (0..Worker - 1)
OnNode(n) == {t \in Threads : t[1] = n}

VARIABLES flags,    \* YCSB_partitioned and YCSB_record_latency
          tree,     \* the keys of the tree
          missed,   \* whether the ensure of a lookup has failed
          main,     \* node -> what its main thread waits for
          wl,       \* node -> number of the running workload
          keep,     \* node -> keep_running of the innermost scope
          running,  \* node -> running_threads_counter
          pc,       \* worker -> where it is in its job
          key,      \* worker -> next key to insert
          round     \* worker -> how often it has come to the barrier

vars == <<flags, tree, missed, main, wl, keep, running, pc, key, round>>

Init == /\ flags \in [partitioned : BOOLEAN, latency : BOOLEAN]
        /\ tree = {} /\ missed = FALSE
        /\ main = [n \in Nodes |-> "start"]
        /\ wl = [n \in Nodes |-> 1]
        /\ keep = [n \in Nodes |-> FALSE]
        /\ running = [n \in Nodes |-> 0]
        /\ pc = [t \in Threads |-> "idle"]
        /\ key = [t \in Threads |-> 0]
        /\ round = [t \in Threads |-> 0]

(***************************************************************************)
(* The keys                                                                *)
(***************************************************************************)
\* an equal share for each, and the remainder for the last
Partition(id, participants, n) ==
    LET begin == id * (n \div participants)
    IN  [begin |-> begin,
         end   |-> IF id = participants - 1 THEN n ELSE begin + n \div participants]

NodePartition(n) == Partition(n, Computes, TupleCount)

ThreadPartition(t) ==
    LET np == NodePartition(t[1])
        tp == Partition(t[2], Worker, np.end - np.begin)
    IN  [begin |-> np.begin + tp.begin, end |-> np.begin + tp.end]

\* what min + hash % (max - min) gives; an offset inside the hash does not show
Rand(min, max) == {min + (h % (max - min)) : h \in 0..TupleCount}

Drawn(n) == IF flags.partitioned THEN Rand(NodePartition(n).begin, NodePartition(n).end - 1)
            ELSE Rand(0, TupleCount)

(***************************************************************************)
(* Jobs                                                                    *)
(***************************************************************************)
Go(t, from, to) == pc[t] = from /\ pc' = [pc EXCEPT ![t] = to]

\* barrier.wait: arrive, and leave when all workers of all nodes have arrived
Arrive(t, from, to) == Go(t, from, to) /\ round' = [round EXCEPT ![t] = @ + 1]
Released(t) == \A u \in Threads : round[u] >= round[t]

\* the job that builds this worker's share of the tree
BuildJob(t) ==
    /\ \/ /\ Arrive(t, "build", "buildMeet")
          /\ key' = [key EXCEPT ![t] = ThreadPartition(t).begin]
       \/ Released(t) /\ Go(t, "buildMeet", "insert") /\ UNCHANGED <<key, round>>
       \/ key[t] >= ThreadPartition(t).end /\ Arrive(t, "insert", "built") /\ UNCHANGED key
       \/ Released(t) /\ Go(t, "built", "idle") /\ UNCHANGED <<key, round>>
    /\ UNCHANGED <<flags, tree, missed, main, wl, keep, running>>

Insert(t) ==
    /\ pc[t] = "insert" /\ key[t] < ThreadPartition(t).end
    /\ tree' = tree \cup {key[t]}
    /\ key' = [key EXCEPT ![t] = @ + 1]
    /\ UNCHANGED <<flags, missed, main, wl, keep, running, pc, round>>

\* the job of barrier_wait
SyncJob(t) ==
    /\ \/ Arrive(t, "sync", "syncMeet")
       \/ Released(t) /\ Go(t, "syncMeet", "idle") /\ UNCHANGED round
    /\ UNCHANGED <<flags, tree, missed, main, wl, keep, running, key>>

Register(t) ==
    /\ Go(t, "txn", "registered")
    /\ running' = [running EXCEPT ![t[1]] = @ + 1]
    /\ UNCHANGED <<flags, tree, missed, main, wl, keep, key, round>>

Meet(t) ==
    /\ \/ Arrive(t, "registered", "txnMeet")
       \/ Released(t) /\ Go(t, "txnMeet", "loop") /\ UNCHANGED round
    /\ UNCHANGED <<flags, tree, missed, main, wl, keep, running, key>>

\* while (keep_running): the key is looked up, or inserted again
Operation(t) ==
    /\ pc[t] = "loop" /\ keep[t[1]]
    /\ \E k \in Drawn(t[1]) :
          \/ missed' = (missed \/ k \notin tree \/ k >= TupleCount) /\ UNCHANGED tree
          \/ tree' = tree \cup {k} /\ missed' = (missed \/ k >= TupleCount)
    /\ UNCHANGED <<flags, main, wl, keep, running, pc, key, round>>

\* Mutant: a worker that stops does not say so
LeaveSilently(t) ==
    /\ ~keep[t[1]] /\ Go(t, "loop", "idle")
    /\ UNCHANGED <<flags, tree, missed, main, wl, keep, running, key, round>>

Leave(t) ==
    /\ ~keep[t[1]] /\ Go(t, "loop", "idle")
    /\ running' = [running EXCEPT ![t[1]] = @ - 1]
    /\ UNCHANGED <<flags, tree, missed, main, wl, keep, key, round>>

(***************************************************************************)
(* main                                                                    *)
(***************************************************************************)
JoinAll(n) == \A t \in OnNode(n) : pc[t] = "idle"

\* a job for each worker of the node, when it has none
ScheduleJobs(n, job) ==
    JoinAll(n) /\ pc' = [t \in Threads |-> IF t[1] = n THEN job ELSE pc[t]]

MainGoes(n, from, to) == main[n] = from /\ main' = [main EXCEPT ![n] = to]

Build(n) ==
    /\ MainGoes(n, "start", "building") /\ ScheduleJobs(n, "build")
    /\ UNCHANGED <<flags, tree, missed, wl, keep, running, key, round>>

\* once for the zipf generator, and before every workload
BarrierWait(n) ==
    /\ MainGoes(n, "building", "zipf") \/ MainGoes(n, "zipf", "syncing")
    /\ ScheduleJobs(n, "sync")
    /\ UNCHANGED <<flags, tree, missed, wl, keep, running, key, round>>

StartTxn(n) ==
    /\ MainGoes(n, "syncing", "txn")
    /\ ScheduleJobs(n, "txn")
    /\ keep' = [keep EXCEPT ![n] = TRUE]
    /\ UNCHANGED <<flags, tree, missed, wl, running, key, round>>

\* the time is over
Stop(n) ==
    /\ MainGoes(n, "txn", "stopped") \/ MainGoes(n, "latency", "stoppedLatency")
    /\ keep' = [keep EXCEPT ![n] = FALSE]
    /\ UNCHANGED <<flags, tree, missed, wl, running, pc, key, round>>

\* the counter, and then joinAll: a job that has not begun is not counted yet
Join(n) ==
    /\ running[n] = 0 /\ JoinAll(n)
    /\ MainGoes(n, "stopped", "joined") \/ MainGoes(n, "stoppedLatency", "done")
    /\ UNCHANGED <<flags, tree, missed, wl, keep, running, pc, key, round>>

\* the jobs that record latencies, with a keep_running of their own
StartLatency(n) ==
    /\ flags.latency /\ MainGoes(n, "joined", "latency")
    /\ ScheduleJobs(n, "txn")
    /\ keep' = [keep EXCEPT ![n] = TRUE]
    /\ UNCHANGED <<flags, tree, missed, wl, running, key, round>>

\* to the next workload, which begins with barrier_wait, or to the end
NextWorkload(n) ==
    /\ main[n] = "done" \/ (main[n] = "joined" /\ ~flags.latency)
    /\ IF wl[n] < Workloads
       THEN /\ main' = [main EXCEPT ![n] = "syncing"]
            /\ wl' = [wl EXCEPT ![n] = @ + 1]
            /\ ScheduleJobs(n, "sync")
       ELSE main' = [main EXCEPT ![n] = "end"] /\ UNCHANGED <<wl, pc>>
    /\ UNCHANGED <<flags, tree, missed, keep, running, key, round>>

\* while (running_threads_counter) _mm_pause()
Pause(n) == main[n] \in {"stopped", "stoppedLatency"} /\ running[n] # 0 /\ UNCHANGED vars

Finished == (\A n \in Nodes : main[n] = "end") /\ UNCHANGED vars

WorkerStep(t) == BuildJob(t) \/ Insert(t) \/ SyncJob(t) \/ Register(t) \/ Meet(t) \/ Leave(t)
MainStep(n) == \/ Build(n) \/ BarrierWait(n) \/ StartTxn(n) \/ Stop(n) \/ Join(n)
               \/ StartLatency(n) \/ NextWorkload(n)

Next == \/ \E t \in Threads : WorkerStep(t) \/ Operation(t)
        \/ \E n \in Nodes : MainStep(n) \/ Pause(n)
        \/ Finished

Spec == Init /\ [][Next]_vars

(***************************************************************************)
(* Properties                                                              *)
(***************************************************************************)
\* No ensure of an operation fails: a key that a worker draws was inserted by
\* whichever worker of whichever node it belongs to.
LookupsFindTheirKey == ~missed

Latency(n) == main[n] \in {"latency", "stoppedLatency"}

\* The workers of all nodes run the same workload, and the same part of it.
OneWorkloadAtATime ==
    \A t, u \in Threads : pc[t] = "loop" /\ pc[u] = "loop"
        => wl[t[1]] = wl[u[1]] /\ Latency(t[1]) = Latency(u[1])

\* keep_running and running_threads_counter live on the stack of main: it goes
\* on to leave their scope only when no job that refers to them is left.
ScopeOutlivesJobs ==
    \A t \in Threads : pc[t] \in {"txn", "registered", "txnMeet", "loop"}
        => main[t[1]] \in {"txn", "stopped", "latency", "stoppedLatency"}

\* every node has come to the end of its last workload
DriverEnded == \A n \in Nodes : main[n] = "end"
=============================================================================
