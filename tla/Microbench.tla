----------------------------- MODULE Microbench -----------------------------
(***************************************************************************)
(* The micro benchmark of frontend/Microbench: worker 0 of node 0          *)
(* allocates the pages and publishes their pids in memcached, the others   *)
(* wait for the pids; then every worker draws its accesses, runs them once *)
(* to warm up and once to measure, and the main threads add up the         *)
(* results.  The workers of all compute nodes meet at a distributed        *)
(* barrier, which stands here as the round each has reached; memcached is  *)
(* a map whose get waits for the key.                                      *)
(***************************************************************************)
EXTENDS Integers, FiniteSets, FiniteSetsExt, Sequences, Functions, TLC

CONSTANTS Computes,     \* FLAGS_nodes / 2, the nodes that run the benchmark
          Worker,       \* FLAGS_worker
          Steps,        \* STEPS, the pages
          Granularity,  \* MEMSET_GRANULARITY
          Iteration,    \* ITERATION
          Workloads     \* how many read ratios are run in turn

Nodes == 0..Computes - 1
Threads == Nodes \X (0..Worker - 1)
OnNode(n) == {t \in Threads : t[1] = n}

VARIABLES kv,      \* memcached: key -> value
          data,    \* node -> data_matrix
          buffer,  \* memset_buffer of the worker that allocates
          ready,   \* node -> data_array_is_ready
          main,    \* node -> where its main thread is
          wl,      \* node -> number of the running workload
          pc, i,   \* worker -> where it is, and its loop index
          round,   \* worker -> how often it has come to the barrier
          count,   \* worker -> cache_hit_valid + cache_miss of its slot
          cease,   \* node -> cease_counting
          total    \* node -> the sum over all nodes, as read back

vars == <<kv, data, buffer, ready, main, wl, pc, i, round, count, cease, total>>

Init == /\ kv = <<>>
        /\ data = [n \in Nodes |-> <<>>]
        /\ buffer = [k \in 0..Granularity - 1 |-> 0]
        /\ ready = [n \in Nodes |-> FALSE]
        /\ main = [n \in Nodes |-> "init"]
        /\ wl = [n \in Nodes |-> 1]
        /\ pc = [t \in Threads |-> "begin"]
        /\ i = [t \in Threads |-> 0]
        /\ round = [t \in Threads |-> 0]
        /\ count = [t \in Threads |-> 0]
        /\ cease = [n \in Nodes |-> FALSE]
        /\ total = [n \in Nodes |-> 0]

Go(t, from, to) == pc[t] = from /\ pc' = [pc EXCEPT ![t] = to]

\* barrier.wait: arrive, and leave when all workers of all nodes have arrived
Arrive(t, from, to) == Go(t, from, to) /\ round' = [round EXCEPT ![t] = @ + 1]
Released(t) == \A u \in Threads : round[u] >= round[t]

\* the "id" that Init is given is seedp, not the number of the worker on its node
InitId(t) == Worker * t[1] + t[2]

(***************************************************************************)
(* Init: the pages and their pids                                          *)
(***************************************************************************)
EnterInit(t) ==
    /\ \/ Arrive(t, "begin", "meet") /\ UNCHANGED i
       \/ Released(t) /\ Go(t, "meet", "init") /\ UNCHANGED <<round, i>>
    /\ UNCHANGED <<kv, data, buffer, ready, main, wl, count, cease, total>>

\* the key under which the chunk with page k was published, as the reader computes it
ChunkKey(k) ==
    IF k >= (Steps \div Granularity) * Granularity THEN Steps - 1
    ELSE (k \div Granularity) * Granularity + Granularity - 1

\* a full chunk, or the last page
Publishes(k) == k % Granularity = Granularity - 1 \/ k = Steps - 1

\* one page: allocate it, and publish the chunk when it is full or the last
Allocate(t) ==
    LET n == t[1]
        k == i[t]
        page == k + 1
        buf == [buffer EXCEPT ![k % Granularity] = page]
    IN  /\ pc[t] = "init" /\ n = 0 /\ InitId(t) = 0 /\ k < Steps
        /\ data' = [data EXCEPT ![n] = Append(@, page)]
        /\ buffer' = buf
        /\ kv' = IF Publishes(k) THEN (<<"chunk", k>> :> buf) @@ kv ELSE kv
        /\ i' = [i EXCEPT ![t] = @ + 1]
        /\ UNCHANGED <<ready, main, wl, pc, round, count, cease, total>>

Allocated(t) ==
    /\ t[1] = 0 /\ InitId(t) = 0 /\ i[t] = Steps
    /\ Go(t, "init", "generate")
    /\ ready' = [ready EXCEPT ![t[1]] = TRUE]
    /\ UNCHANGED <<kv, data, buffer, main, wl, i, round, count, cease, total>>

\* a worker other than number 0 spins until its node has the array; on another
\* node than 0 the branch that reads the pids back needs id = 0
WaitForData(t) ==
    /\ InitId(t) # 0 /\ ready[t[1]]
    /\ Go(t, "init", "generate")
    /\ UNCHANGED <<kv, data, buffer, ready, main, wl, i, round, count, cease, total>>

\* the accesses are drawn from the array, then the workers meet again
Generate(t) ==
    /\ \/ Arrive(t, "generate", "generated")
       \/ Released(t) /\ Go(t, "generated", "joined") /\ UNCHANGED round
    /\ UNCHANGED <<kv, data, buffer, ready, main, wl, i, count, cease, total>>

(***************************************************************************)
(* Benchmark: warm up, reset the counters, measure                         *)
(***************************************************************************)
\* main: joinAll, then the jobs of the next workload
Schedule(n) ==
    /\ main[n] \in {"init", "next"}
    /\ \A t \in OnNode(n) : pc[t] = "joined"
    /\ wl[n] <= Workloads
    /\ main' = [main EXCEPT ![n] = "wait"]
    /\ pc' = [t \in Threads |-> IF t[1] = n THEN "scheduled" ELSE pc[t]]
    /\ UNCHANGED <<kv, data, buffer, ready, wl, i, round, count, cease, total>>

BeginWarmup(t) ==
    /\ \/ Arrive(t, "scheduled", "meetWarm") /\ UNCHANGED i
       \/ /\ Released(t) /\ Go(t, "meetWarm", "warm")
          /\ i' = [i EXCEPT ![t] = 0]
          /\ UNCHANGED round
    /\ UNCHANGED <<kv, data, buffer, ready, main, wl, count, cease, total>>

\* one access of Run; the guard counts it as a hit or as a miss
Access(t) ==
    /\ pc[t] \in {"warm", "measure"}
    /\ i[t] < Iteration
    /\ i' = [i EXCEPT ![t] = @ + 1]
    /\ count' = IF cease[t[1]] THEN count ELSE [count EXCEPT ![t] = @ + 1]
    /\ UNCHANGED <<kv, data, buffer, ready, main, wl, pc, round, cease, total>>

EndWarmup(t) ==
    /\ \/ i[t] = Iteration /\ Arrive(t, "warm", "warmed") /\ UNCHANGED i
       \/ /\ Released(t) /\ Go(t, "warmed", "reset")
          /\ i' = [i EXCEPT ![t] = 0]
          /\ UNCHANGED round
    /\ UNCHANGED <<kv, data, buffer, ready, main, wl, count, cease, total>>

\* every worker resets the slots of all workers of its node, and begins at once.
\* The slots are plain integers: a store of 0 may get between the load and the
\* store of a running owner's increment, and is lost
Reset(t) ==
    /\ pc[t] = "reset"
    /\ IF i[t] = Worker
       THEN Go(t, "reset", "measure") /\ i' = [i EXCEPT ![t] = 0] /\ UNCHANGED count
       ELSE /\ i' = [i EXCEPT ![t] = @ + 1]
            /\ \/ count' = [count EXCEPT ![<<t[1], i[t]>>] = 0]
               \/ pc[<<t[1], i[t]>>] = "measure" /\ UNCHANGED count
            /\ UNCHANGED pc
    /\ UNCHANGED <<kv, data, buffer, ready, main, wl, round, cease, total>>

EndMeasure(t) ==
    /\ \/ /\ i[t] = Iteration /\ Arrive(t, "measure", "measured")
          /\ cease' = [cease EXCEPT ![t[1]] = TRUE]
       \/ Released(t) /\ Go(t, "measured", "joined") /\ UNCHANGED <<round, cease>>
    /\ UNCHANGED <<kv, data, buffer, ready, main, wl, i, count, total>>

(***************************************************************************)
(* main: the results of all nodes                                          *)
(***************************************************************************)
\* the throughput of a workload is stood for by the workload's number
Publish(n) ==
    /\ main[n] = "wait" /\ \A t \in OnNode(n) : pc[t] = "joined"
    /\ kv' = (<<"result", n>> :> wl[n]) @@ kv
    /\ main' = [main EXCEPT ![n] = "collect"]
    /\ UNCHANGED <<data, buffer, ready, wl, pc, i, round, count, cease, total>>

\* memGet waits for a key, so the sum is formed when every node has published
Collect(n) ==
    /\ main[n] = "collect"
    /\ \A m \in Nodes : <<"result", m>> \in DOMAIN kv
    /\ total' = [total EXCEPT ![n] = MapThenSumSet(LAMBDA m : kv[<<"result", m>>], Nodes)]
    /\ main' = [main EXCEPT ![n] = "check"]
    /\ UNCHANGED <<kv, data, buffer, ready, wl, pc, i, round, count, cease>>

NextWorkload(n) ==
    /\ main[n] = "check"
    /\ main' = [main EXCEPT ![n] = IF wl[n] = Workloads THEN "end" ELSE "next"]
    /\ wl' = [wl EXCEPT ![n] = IF wl[n] = Workloads THEN @ ELSE @ + 1]
    /\ UNCHANGED <<kv, data, buffer, ready, pc, i, round, count, cease, total>>

WorkerStep(t) == \/ EnterInit(t) \/ Allocate(t) \/ Allocated(t) \/ WaitForData(t)
                 \/ Generate(t) \/ BeginWarmup(t) \/ Access(t) \/ EndWarmup(t)
                 \/ Reset(t) \/ EndMeasure(t)

MainStep(n) == Schedule(n) \/ Publish(n) \/ Collect(n) \/ NextWorkload(n)

\* while (!data_array_is_ready) {}
Spin(t) == pc[t] = "init" /\ InitId(t) # 0 /\ ~ready[t[1]] /\ UNCHANGED vars

Finished == (\A n \in Nodes : main[n] = "end") /\ UNCHANGED vars

Next == \/ \E t \in Threads : WorkerStep(t) \/ Spin(t)
        \/ \E n \in Nodes : MainStep(n)
        \/ Finished

Spec == Init /\ [][Next]_vars

(***************************************************************************)
(* Properties                                                              *)
(***************************************************************************)
\* A worker draws its accesses only from an array that is complete.
DrawsFromAllPages ==
    \A t \in Threads : pc[t] \in {"generate", "generated"} => Len(data[t[1]]) = Steps

\* Once the allocating worker is done, the key that a reader computes for any page
\* was published and the buffer under it holds that page, also when the number of
\* pages is no multiple of the granularity and the last buffer has a stale tail.
ChunksAreReadable ==
    ready[0] => \A k \in 0..Steps - 1 :
                   /\ <<"chunk", ChunkKey(k)>> \in DOMAIN kv
                   /\ kv[<<"chunk", ChunkKey(k)>>][k % Granularity] = data[0][k + 1]

\* Nobody measures while another worker, of whatever node, still warms up.
WarmupIsOver ==
    \A t, u \in Threads : pc[t] = "measure" => pc[u] \notin {"meetWarm", "warm"}

\* The sum a node prints for a workload is formed from results of that workload.
ResultsAreOfThisWorkload ==
    \A n \in Nodes : main[n] = "check" => total[n] = Computes * wl[n]

\* every worker has got its array, and every node has come to its last result
BenchmarkEnded == \A n \in Nodes : main[n] = "end"
=============================================================================
