------------------------------ MODULE Profiling ------------------------------
(***************************************************************************)
(* The counters of threads and the profiling thread that collects them.    *)
(* A thread counts in an object of its own, which its constructor enters   *)
(* into CounterRegistry and its destructor removes.  Once a second the     *)
(* profiling thread goes through all registered objects, takes what they   *)
(* have counted and prints it together with the WorkloadInfo of its        *)
(* caller, who starts and stops the profiler around each workload.         *)
(***************************************************************************)
EXTENDS Integers

CONSTANTS Threads,       \* threads that count
          MaxCount,      \* bound: increments of a thread
          MaxWorkloads   \* bound: how often the profiler is started

None == "none"

VARIABLES registered,  \* CounterRegistry::workerCounters, the threads whose objects are in it
          mutex,       \* workerMutex: its holder
          pc,          \* thread -> where it is
          counter,     \* thread -> counters[tx_p] of its object
          local,       \* thread -> the value it has loaded
          done,        \* thread -> increments so far
          running,     \* ProfilingThread::running
          profiler,    \* where the profiling thread is
          todo,        \* the objects it has not visited yet
          agg,         \* workerCounterAgg, by the thread that has counted
          reported,    \* the sum of all reports, likewise
          info,        \* whether the WorkloadInfo of the running workload is in scope
          main,        \* where the caller is
          workloads    \* how often the profiler was started

threadVars == <<pc, counter, local, done>>
profilerVars == <<profiler, todo, agg, reported>>
mainVars == <<running, info, main, workloads>>
vars == <<registered, mutex, threadVars, profilerVars, mainVars>>

Init == /\ registered = {} /\ mutex = None
        /\ pc = [t \in Threads |-> "new"]
        /\ counter = [t \in Threads |-> 0]
        /\ local = [t \in Threads |-> 0]
        /\ done = [t \in Threads |-> 0]
        /\ running = TRUE                     \* the initialiser of the member
        /\ profiler = "none" /\ todo = {}
        /\ agg = [t \in Threads |-> 0] /\ reported = [t \in Threads |-> 0]
        /\ info = FALSE /\ main = "out" /\ workloads = 0

Go(t, from, to) == pc[t] = from /\ pc' = [pc EXCEPT ![t] = to]

(***************************************************************************)
(* Threads that count                                                      *)
(***************************************************************************)
Register(t) ==
    /\ mutex = None /\ Go(t, "new", "live")
    /\ registered' = registered \cup {t}
    /\ UNCHANGED <<mutex, counter, local, done, profilerVars, mainVars>>

\* incr: a load, and a store of the value plus one
IncrLoad(t) ==
    /\ done[t] < MaxCount /\ Go(t, "live", "loaded")
    /\ local' = [local EXCEPT ![t] = counter[t]]
    /\ UNCHANGED <<registered, mutex, counter, done, profilerVars, mainVars>>

IncrStore(t) ==
    /\ Go(t, "loaded", "live")
    /\ counter' = [counter EXCEPT ![t] = local[t] + 1]
    /\ done' = [done EXCEPT ![t] = @ + 1]
    /\ UNCHANGED <<registered, mutex, local, profilerVars, mainVars>>

\* Mutant: the object is removed without the lock of the registry
DeregisterUnlocked(t) ==
    /\ Go(t, "live", "gone")
    /\ registered' = registered \ {t}
    /\ UNCHANGED <<mutex, counter, local, done, profilerVars, mainVars>>

\* the destructor; the object is gone afterwards
Deregister(t) ==
    /\ mutex = None /\ Go(t, "live", "gone")
    /\ registered' = registered \ {t}
    /\ UNCHANGED <<mutex, counter, local, done, profilerVars, mainVars>>

(***************************************************************************)
(* The profiling thread                                                    *)
(***************************************************************************)
BeginSecond ==
    /\ profiler = "test"
    /\ IF running THEN /\ mutex = None /\ mutex' = "profiler" /\ todo' = registered
                       /\ profiler' = "aggregate"
       ELSE profiler' = "exited" /\ UNCHANGED <<mutex, todo>>
    /\ UNCHANGED <<registered, threadVars, agg, reported, mainVars>>

\* exchange(0) on one object after the other
Aggregate ==
    /\ profiler = "aggregate"
    /\ \E t \in todo :
         /\ agg' = [agg EXCEPT ![t] = @ + counter[t]]
         /\ counter' = [counter EXCEPT ![t] = 0]
         /\ todo' = todo \ {t}
    /\ UNCHANGED <<registered, mutex, pc, local, done, profiler, reported, mainVars>>

Aggregated ==
    /\ profiler = "aggregate" /\ todo = {}
    /\ mutex' = None /\ profiler' = "report"
    /\ UNCHANGED <<registered, threadVars, todo, agg, reported, mainVars>>

\* a row of the table and of the csv file; then the sums are cleared
Report ==
    /\ profiler = "report"
    /\ reported' = [t \in Threads |-> reported[t] + agg[t]] /\ agg' = [t \in Threads |-> 0]
    /\ profiler' = "test"
    /\ UNCHANGED <<registered, mutex, threadVars, todo, mainVars>>

(***************************************************************************)
(* The caller                                                              *)
(***************************************************************************)
StartProfiler ==
    /\ main = "out" /\ workloads < MaxWorkloads
    /\ main' = "workload" /\ workloads' = workloads + 1
    /\ running' = TRUE /\ info' = TRUE
    /\ profiler' = "test"
    /\ UNCHANGED <<registered, mutex, threadVars, todo, agg, reported>>

StopProfiler ==
    /\ main = "workload" /\ main' = IF running THEN "join" ELSE "stopped"
    /\ running' = FALSE
    /\ UNCHANGED <<registered, mutex, threadVars, profilerVars, info, workloads>>

JoinProfiler ==
    /\ main = "join" /\ profiler = "exited"
    /\ main' = "stopped" /\ profiler' = "none"
    /\ UNCHANGED <<registered, mutex, threadVars, todo, agg, reported, running, info, workloads>>

\* the WorkloadInfo goes out of scope
LeaveScope ==
    /\ main = "stopped" /\ main' = "out" /\ info' = FALSE
    /\ UNCHANGED <<registered, mutex, threadVars, profilerVars, running, workloads>>

Finished == main = "out" /\ workloads = MaxWorkloads /\ UNCHANGED vars

ProfilerStep == BeginSecond \/ Aggregate \/ Aggregated \/ Report
MainStep == StopProfiler \/ JoinProfiler \/ LeaveScope
Count(t) == Register(t) \/ IncrLoad(t) \/ IncrStore(t) \/ Deregister(t)

Next == (\E t \in Threads : Count(t)) \/ ProfilerStep \/ StartProfiler \/ MainStep \/ Finished

Spec == Init /\ [][Next]_vars

(***************************************************************************)
(* Properties                                                              *)
(***************************************************************************)
\* The profiling thread touches only objects that exist, although threads end
\* while it goes through them.
TouchesOnlyLive ==
    profiler = "aggregate" => \A t \in todo : pc[t] \in {"live", "loaded"}

\* An increment of a thread that has not ended is still in its counter, or being
\* summed up, or was reported: taking a counter loses nothing that was counted
\* (an increment under way may bring back what was taken, so it is no equality).
NothingIsLost ==
    \A t \in Threads : pc[t] # "gone" => done[t] <= reported[t] + agg[t] + counter[t]

\* A report is made only while the workload that it names is in scope.
InfoIsAlive == profiler \in {"aggregate", "report"} => info
=============================================================================
