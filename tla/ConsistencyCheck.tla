-------------------------- MODULE ConsistencyCheck --------------------------
(***************************************************************************)
(* The consistency check of frontend/consistency/BTreeCheck.cpp, the       *)
(* program that tests the store: six jobs in a row build the tree, add one *)
(* to every value for a number of rounds, add the number of the thread,    *)
(* and verify what is found after each.  The main thread of a node joins   *)
(* its workers between the jobs; each job begins at the distributed        *)
(* barrier, which stands here as the round each worker has reached, and    *)
(* ends at a barrier of the node.  An operation of the tree is one step.   *)
(***************************************************************************)
EXTENDS Integers, FiniteSets, TLC

CONSTANTS NodeCount,     \* FLAGS_nodes
          Worker,        \* FLAGS_worker
          NumberTuples,  \* numberTuples
          Rounds         \* FLAGS_rounds, at least 1

Nodes == 0..NodeCount - 1
Threads == Nodes \X (0..Worker - 1)
OnNode(n) == {t \in Threads : t[1] = n}
Clients == NodeCount * Worker

VARIABLES value,   \* the tree: key -> value
          job,     \* node -> number of the job main has scheduled
          pc,      \* worker -> where it is in its job
          start,   \* worker -> the key it is at
          rnd,     \* worker -> the round of updates it is in
          round,   \* worker -> how often it has come to the distributed barrier
          result,  \* node -> global_result
          ensured  \* whether every ensure has held so far

vars == <<value, job, pc, start, rnd, round, result, ensured>>

Init == /\ value = <<>>
        /\ job = [n \in Nodes |-> 0]
        /\ pc = [t \in Threads |-> "idle"]
        /\ start = [t \in Threads |-> 0]
        /\ rnd = [t \in Threads |-> 0]
        /\ round = [t \in Threads |-> 0]
        /\ result = [n \in Nodes |-> 0]
        /\ ensured = TRUE

ThreadId(t) == t[1] * Worker + t[2]

\* a worker's first key and its step: its own keys, its share of all, or all
First(t) == CASE job[t[1]] \in {1, 3} -> ThreadId(t)
              [] job[t[1]] \in {2, 4} -> t[2]
              [] OTHER -> 0

Inc(t) == CASE job[t[1]] \in {1, 3} -> Clients
            [] job[t[1]] \in {2, 4} -> Worker
            [] OTHER -> 1

\* what the job that verifies expects of a value
Expected(t) == CASE job[t[1]] \in {1, 2} -> 1
                 [] job[t[1]] = 4 -> 1 + Rounds
                 [] OTHER -> (Clients * (Clients - 1)) \div 2 + 1 + Rounds

Holds(t, k) == k \in DOMAIN value /\ value[k] = Expected(t)

(***************************************************************************)
(* execute_on_tree                                                         *)
(***************************************************************************)
Go(t, from, to) == pc[t] = from /\ pc' = [pc EXCEPT ![t] = to]

\* the barrier is created for all clients
Released(t) == Cardinality({u \in Threads : round[u] >= round[t]}) = Clients

\* main hands out the next job; global_result is checked when job 2 is joined
Schedule(n) ==
    /\ job[n] < 6 /\ \A t \in OnNode(n) : pc[t] = "idle"
    /\ job' = [job EXCEPT ![n] = @ + 1]
    /\ pc' = [t \in Threads |-> IF t[1] = n THEN "job" ELSE pc[t]]
    /\ ensured' = (ensured /\ (job[n] = 2 => result[n] = NumberTuples))
    /\ UNCHANGED <<value, start, rnd, round, result>>

Begin(t) ==
    /\ start' = [start EXCEPT ![t] = First(t)] /\ rnd' = [rnd EXCEPT ![t] = 0]
    /\ UNCHANGED <<value, job, result, ensured>>

Meet(t) ==
    \/ /\ Go(t, "job", "meet") /\ round' = [round EXCEPT ![t] = @ + 1]
       /\ UNCHANGED <<value, job, start, rnd, result, ensured>>
    \/ Released(t) /\ Go(t, "meet", "work") /\ Begin(t) /\ UNCHANGED round

\* local_barrier.wait
MeetLocally(t) ==
    /\ Go(t, "local", "idle")
    /\ \A u \in OnNode(t[1]) : pc[u] \in {"local", "idle"}
    /\ UNCHANGED <<value, job, start, rnd, round, result, ensured>>

\* the callback has gone through its keys, and through all rounds if it has several
Done(t) ==
    /\ pc[t] = "work" /\ start[t] >= NumberTuples
    /\ IF job[t[1]] = 3 /\ rnd[t] + 1 < Rounds
       THEN /\ rnd' = [rnd EXCEPT ![t] = @ + 1]
            /\ start' = [start EXCEPT ![t] = First(t)]
            /\ UNCHANGED pc
       ELSE pc' = [pc EXCEPT ![t] = "local"] /\ UNCHANGED <<rnd, start>>
    /\ UNCHANGED <<value, job, round, result, ensured>>

(***************************************************************************)
(* The callbacks                                                           *)
(***************************************************************************)
Working(t, jobs) == pc[t] = "work" /\ job[t[1]] \in jobs /\ start[t] < NumberTuples
Advance(t) == start' = [start EXCEPT ![t] = @ + Inc(t)]

\* job 1: insert a key, then look it up
BuildInsert(t) ==
    /\ Working(t, {1})
    /\ value' = (start[t] :> 1) @@ value
    /\ pc' = [pc EXCEPT ![t] = "inserted"]
    /\ UNCHANGED <<job, start, rnd, round, result, ensured>>

BuildLookup(t) ==
    /\ Go(t, "inserted", "work") /\ Advance(t)
    /\ ensured' = (ensured /\ Holds(t, start[t]))
    /\ UNCHANGED <<value, job, rnd, round, result>>

\* jobs 2, 4 and 6
Verify(t) ==
    /\ Working(t, {2, 4, 6}) /\ Advance(t)
    /\ ensured' = (ensured /\ Holds(t, start[t]))
    /\ result' = IF job[t[1]] = 2 /\ start[t] \in DOMAIN value
                 THEN [result EXCEPT ![t[1]] = @ + value[start[t]]] ELSE result
    /\ UNCHANGED <<value, job, pc, rnd, round>>

\* jobs 3 and 5: add one, or the number of the thread
Update(t) ==
    /\ Working(t, {3, 5}) /\ Advance(t)
    /\ IF start[t] \in DOMAIN value
       THEN /\ value' = [value EXCEPT ![start[t]] = @ + IF job[t[1]] = 3 THEN 1 ELSE ThreadId(t)]
            /\ UNCHANGED ensured
       ELSE ensured' = FALSE /\ UNCHANGED value
    /\ UNCHANGED <<job, pc, rnd, round, result>>

Finished == (\A n \in Nodes : job[n] = 6 /\ \A t \in OnNode(n) : pc[t] = "idle") /\ UNCHANGED vars

\* a worker spins at the distributed barrier
Spin(t) == pc[t] = "meet" /\ ~Released(t) /\ UNCHANGED vars

WorkerStep(t) == \/ Meet(t) \/ MeetLocally(t) \/ Done(t)
                 \/ BuildInsert(t) \/ BuildLookup(t) \/ Verify(t) \/ Update(t)

Next == \/ \E t \in Threads : WorkerStep(t) \/ Spin(t)
        \/ \E n \in Nodes : Schedule(n)
        \/ Finished

Spec == Init /\ [][Next]_vars

(***************************************************************************)
(* Properties                                                              *)
(***************************************************************************)
\* With a tree whose operations are atomic, no ensure of the check fails, although
\* a node may be a whole job ahead of another when it is joined: a failed check means a fault of the store, not of the check.
ChecksHold == ensured

\* the check has come to its end
CheckEnded == \A n \in Nodes : job[n] = 6 /\ \A t \in OnNode(n) : pc[t] = "idle"
=============================================================================
