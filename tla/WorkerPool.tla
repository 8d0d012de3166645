----------------------------- MODULE WorkerPool -----------------------------
(***************************************************************************)
(* threads::WorkerPool: one caller (the main thread) gives jobs to worker  *)
(* threads.  Caller and worker share a mutex and a condition variable per  *)
(* worker; the worker holds the mutex while it runs a job.  A thread tests *)
(* its predicate with the mutex held and then sleeps, which gives the      *)
(* mutex back; sleeping threads may also wake up spuriously.               *)
(***************************************************************************)
EXTENDS Integers, Sequences, FiniteSets, SequencesExt

CONSTANTS
  Workers,    \* worker threads, 1..n
  MaxJobs     \* bound: jobs that the caller schedules

VARIABLES
  pc,              \* [Workers -> program counter of the worker thread]
  caller,          \* [pc, op, t] of the main thread
  mutex,           \* [Workers -> who holds the mutex]
  asleep,          \* [Workers -> threads in cv.wait]
  jobSet, jobDone, \* [Workers -> BOOLEAN]
  job,             \* [Workers -> the job, a number]
  keepRunning,
  runningThreads,
  jobs,            \* number of jobs scheduled so far
  scheduled,       \* [Workers -> jobs given to the worker, in order]
  executed,        \* [Workers -> jobs the worker has run, in order]
  awaited          \* jobs for which a call that waits has returned

vars == <<pc, caller, mutex, asleep, jobSet, jobDone, job, keepRunning, runningThreads, jobs, scheduled, executed, awaited>>
flags == <<jobSet, jobDone, job>>
history == <<jobs, scheduled, executed, awaited>>

Init ==
  /\ pc = [t \in Workers |-> "start"] /\ caller = [pc |-> "construct", op |-> "none", t |-> 1]
  /\ mutex = [t \in Workers |-> "free"] /\ asleep = [t \in Workers |-> {}]
  /\ jobSet = [t \in Workers |-> FALSE] /\ jobDone = [t \in Workers |-> FALSE] /\ job = [t \in Workers |-> 0]
  /\ keepRunning = TRUE /\ runningThreads = 0
  /\ jobs = 0 /\ scheduled = [t \in Workers |-> <<>>] /\ executed = [t \in Workers |-> <<>>] /\ awaited = {}

\* notify_one
Notify(t) == IF asleep[t] = {} THEN UNCHANGED asleep ELSE \E x \in asleep[t] : asleep' = [asleep EXCEPT ![t] = @ \ {x}]

Spurious(t) ==
  /\ asleep[t] # {} /\ Notify(t)
  /\ UNCHANGED <<pc, caller, mutex, flags, keepRunning, runningThreads, history>>

-----------------------------------------------------------------------------
(* The worker thread *)

WorkerStart(t) ==
  /\ pc[t] = "start"
  /\ pc' = [pc EXCEPT ![t] = "loop"] /\ runningThreads' = runningThreads + 1
  /\ UNCHANGED <<caller, mutex, asleep, flags, keepRunning, history>>

WorkerLoop(t) ==
  /\ pc[t] = "loop"
  /\ IF keepRunning THEN /\ mutex[t] = "free"
                         /\ mutex' = [mutex EXCEPT ![t] = "worker"] /\ pc' = [pc EXCEPT ![t] = "test"]
                         /\ UNCHANGED runningThreads
                    ELSE pc' = [pc EXCEPT ![t] = "off"] /\ runningThreads' = runningThreads - 1 /\ UNCHANGED mutex
  /\ UNCHANGED <<caller, asleep, flags, keepRunning, history>>

\* the predicate of cv.wait, and what follows it
WorkerTest(t) ==
  /\ pc[t] = "test"
  /\ pc' = [pc EXCEPT ![t] = IF ~keepRunning THEN "break" ELSE IF jobSet[t] THEN "run" ELSE "sleep"]
  /\ UNCHANGED <<caller, mutex, asleep, flags, keepRunning, runningThreads, history>>

WorkerSleep(t) ==
  /\ pc[t] = "sleep"
  /\ asleep' = [asleep EXCEPT ![t] = @ \cup {"worker"}] /\ mutex' = [mutex EXCEPT ![t] = "free"]
  /\ pc' = [pc EXCEPT ![t] = "asleep"]
  /\ UNCHANGED <<caller, flags, keepRunning, runningThreads, history>>

WorkerWake(t) ==
  /\ pc[t] = "asleep" /\ "worker" \notin asleep[t] /\ mutex[t] = "free"
  /\ mutex' = [mutex EXCEPT ![t] = "worker"] /\ pc' = [pc EXCEPT ![t] = "test"]
  /\ UNCHANGED <<caller, asleep, flags, keepRunning, runningThreads, history>>

WorkerRun(t) ==
  /\ pc[t] = "run"
  /\ executed' = [executed EXCEPT ![t] = Append(@, job[t])]
  /\ pc' = [pc EXCEPT ![t] = "ran"]
  /\ UNCHANGED <<caller, mutex, asleep, flags, keepRunning, runningThreads, jobs, scheduled, awaited>>

\* wtReady, which is only FALSE while the mutex is held, jobDone, jobSet, notify, unlock
WorkerRan(t) ==
  /\ pc[t] = "ran"
  /\ jobDone' = [jobDone EXCEPT ![t] = TRUE] /\ jobSet' = [jobSet EXCEPT ![t] = FALSE]
  /\ Notify(t)
  /\ mutex' = [mutex EXCEPT ![t] = "free"] /\ pc' = [pc EXCEPT ![t] = "loop"]
  /\ UNCHANGED <<caller, job, keepRunning, runningThreads, history>>

WorkerBreak(t) ==
  /\ pc[t] = "break"
  /\ mutex' = [mutex EXCEPT ![t] = "free"] /\ pc' = [pc EXCEPT ![t] = "off"]
  /\ runningThreads' = runningThreads - 1
  /\ UNCHANGED <<caller, asleep, flags, keepRunning, history>>

Worker(t) == WorkerStart(t) \/ WorkerLoop(t) \/ WorkerTest(t) \/ WorkerSleep(t) \/ WorkerWake(t) \/ WorkerRun(t)
             \/ WorkerRan(t) \/ WorkerBreak(t)

-----------------------------------------------------------------------------
(* The main thread *)

Constructed ==
  /\ caller.pc = "construct" /\ runningThreads = Cardinality(Workers)
  /\ caller' = [caller EXCEPT !.pc = "idle"]
  /\ UNCHANGED <<pc, mutex, asleep, flags, keepRunning, runningThreads, history>>

\* a call of scheduleJobSync, scheduleJobAsync or joinAll; joinAll starts with the first worker
Begin(op, t) ==
  /\ caller.pc = "idle"
  /\ op # "join" => jobs < MaxJobs
  /\ op = "join" => t = 1
  /\ caller' = [pc |-> "lock", op |-> op, t |-> t]
  /\ UNCHANGED <<pc, mutex, asleep, flags, keepRunning, runningThreads, history>>

LockMutex ==
  LET t == caller.t IN
  /\ caller.pc \in {"lock", "relock"} /\ mutex[t] = "free"
  /\ mutex' = [mutex EXCEPT ![t] = "caller"]
  /\ caller' = [caller EXCEPT !.pc = IF @ = "lock" THEN "test" ELSE "testDone"]
  /\ UNCHANGED <<pc, asleep, flags, keepRunning, runningThreads, history>>

\* cv.wait: the predicate ~jobSet, at the end of a synchronous call jobDone
TestPredicate ==
  LET t == caller.t IN
  \/ /\ caller.pc = "test"
     /\ caller' = [caller EXCEPT !.pc = IF jobSet[t] THEN "sleep" ELSE IF caller.op = "join" THEN "joined" ELSE "set"]
     /\ UNCHANGED <<pc, mutex, asleep, flags, keepRunning, runningThreads, history>>
  \/ /\ caller.pc = "testDone"
     /\ caller' = [caller EXCEPT !.pc = IF jobDone[t] THEN "return" ELSE "sleepDone"]
     /\ UNCHANGED <<pc, mutex, asleep, flags, keepRunning, runningThreads, history>>

CallerSleep ==
  LET t == caller.t IN
  /\ caller.pc \in {"sleep", "sleepDone"}
  /\ asleep' = [asleep EXCEPT ![t] = @ \cup {"caller"}] /\ mutex' = [mutex EXCEPT ![t] = "free"]
  /\ caller' = [caller EXCEPT !.pc = IF @ = "sleep" THEN "asleep" ELSE "asleepDone"]
  /\ UNCHANGED <<pc, flags, keepRunning, runningThreads, history>>

CallerWake ==
  LET t == caller.t IN
  /\ caller.pc \in {"asleep", "asleepDone"} /\ "caller" \notin asleep[t] /\ mutex[t] = "free"
  /\ mutex' = [mutex EXCEPT ![t] = "caller"]
  /\ caller' = [caller EXCEPT !.pc = IF @ = "asleep" THEN "test" ELSE "testDone"]
  /\ UNCHANGED <<pc, asleep, flags, keepRunning, runningThreads, history>>

\* Mutant: jobDone keeps the value of the previous job
SetJobKeepingDone ==
  LET t == caller.t IN
  /\ caller.pc = "set"
  /\ jobSet' = [jobSet EXCEPT ![t] = TRUE] /\ job' = [job EXCEPT ![t] = jobs + 1]
  /\ jobs' = jobs + 1 /\ scheduled' = [scheduled EXCEPT ![t] = Append(@, jobs + 1)]
  /\ mutex' = [mutex EXCEPT ![t] = "free"] /\ caller' = [caller EXCEPT !.pc = "notify"]
  /\ UNCHANGED <<pc, jobDone, asleep, keepRunning, runningThreads, executed, awaited>>

SetJob ==
  LET t == caller.t IN
  /\ caller.pc = "set"
  /\ jobSet' = [jobSet EXCEPT ![t] = TRUE] /\ jobDone' = [jobDone EXCEPT ![t] = FALSE] /\ job' = [job EXCEPT ![t] = jobs + 1]
  /\ jobs' = jobs + 1 /\ scheduled' = [scheduled EXCEPT ![t] = Append(@, jobs + 1)]
  /\ mutex' = [mutex EXCEPT ![t] = "free"] /\ caller' = [caller EXCEPT !.pc = "notify"]
  /\ UNCHANGED <<pc, asleep, keepRunning, runningThreads, executed, awaited>>

NotifyWorker ==
  /\ caller.pc = "notify" /\ Notify(caller.t)
  /\ caller' = [caller EXCEPT !.pc = IF caller.op = "sync" THEN "relock" ELSE "idle"]
  /\ UNCHANGED <<pc, mutex, flags, keepRunning, runningThreads, history>>

\* the synchronous call returns
SyncReturns ==
  LET t == caller.t IN
  /\ caller.pc = "return"
  /\ awaited' = awaited \cup {Last(scheduled[t])}
  /\ mutex' = [mutex EXCEPT ![t] = "free"] /\ caller' = [caller EXCEPT !.pc = "idle"]
  /\ UNCHANGED <<pc, asleep, flags, keepRunning, runningThreads, jobs, scheduled, executed>>

\* joinAll goes on to the next worker
Joined ==
  LET t == caller.t IN
  /\ caller.pc = "joined"
  /\ mutex' = [mutex EXCEPT ![t] = "free"]
  /\ IF t + 1 \in Workers THEN caller' = [caller EXCEPT !.pc = "lock", !.t = t + 1] /\ UNCHANGED awaited
     ELSE caller' = [caller EXCEPT !.pc = "idle"] /\ awaited' = UNION {ToSet(scheduled[u]) : u \in Workers}
  /\ UNCHANGED <<pc, asleep, flags, keepRunning, runningThreads, jobs, scheduled, executed>>

\* ~WorkerPool: stops, notifies one worker after the other, waits, and deletes them
Stop ==
  /\ caller.pc = "idle"
  /\ keepRunning' = FALSE /\ caller' = [pc |-> "wake", op |-> "stop", t |-> 1]
  /\ UNCHANGED <<pc, mutex, asleep, flags, runningThreads, history>>

NotifyStopped ==
  LET t == caller.t IN
  /\ caller.pc = "wake" /\ Notify(t)
  /\ caller' = IF t + 1 \in Workers THEN [caller EXCEPT !.t = t + 1] ELSE [caller EXCEPT !.pc = "await"]
  /\ UNCHANGED <<pc, mutex, flags, keepRunning, runningThreads, history>>

Stopped ==
  /\ caller.pc = "await" /\ runningThreads = 0
  /\ caller' = [caller EXCEPT !.pc = "deleted"]
  /\ UNCHANGED <<pc, mutex, asleep, flags, keepRunning, runningThreads, history>>

Step == Constructed \/ LockMutex \/ TestPredicate \/ CallerSleep \/ CallerWake \/ SetJob \/ NotifyWorker \/ SyncReturns
        \/ Joined \/ NotifyStopped \/ Stopped

Next == (\E t \in Workers : Worker(t) \/ Spurious(t)) \/ Step \/ Stop
        \/ \E op \in {"sync", "async", "join"}, t \in Workers : Begin(op, t)

Spec == Init /\ [][Next]_vars

-----------------------------------------------------------------------------
(* Properties *)

\* A worker runs the jobs it was given, each once and in their order.
OnceInOrder == \A t \in Workers : IsPrefix(executed[t], scheduled[t])

\* When scheduleJobSync or joinAll has returned, the jobs they wait for have been run.
AwaitedIsExecuted == awaited \subseteq UNION {ToSet(executed[t]) : t \in Workers}

\* the main thread is inside scheduleJobSync, scheduleJobAsync or joinAll
InCall == caller.op \in {"sync", "async", "join"} /\ caller.pc # "idle"
=============================================================================
