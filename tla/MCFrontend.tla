---------------------------- MODULE MCFrontend ----------------------------
(***************************************************************************)
(* The programs of frontend/ on small instances: TPC-C, the micro          *)
(* benchmark, the YCSB driver and the consistency check.  A behaviour is   *)
(* one of a part: the others keep their initial state.                     *)
(***************************************************************************)
EXTENDS Integers, Sequences, FiniteSets

CONSTANTS
  Parts,
  OrderStocks,                                   \* Tpcc: loaded stocks of the part "orders"
  MicroWorkers, Steps, Granularity, Iterations,  \* Microbench
  YcsbWorkers, TupleCount,                       \* YcsbDriver
  Workloads,                                     \* of both
  CheckWorkers, NumberTuples, Rounds             \* ConsistencyCheck

VARIABLES
  part,       \* the one that runs
  \* Tpcc
  w_ytd, d_ytd, d_next_o_id, stock, customer, order, orderWdc, neworder, orderline, history, h_id, tpccPc, x,
  done, failed,
  \* Microbench
  kv, data, buffer, ready, microMain, microWl, microPc, i, microRound, count, cease, total,
  \* YcsbDriver
  flags, tree, missed, ycsbMain, ycsbWl, keep, running, ycsbPc, key, ycsbRound,
  \* ConsistencyCheck
  value, job, checkPc, start, rnd, checkRound, result, ensured

tpccVars == <<w_ytd, d_ytd, d_next_o_id, stock, customer, order, orderWdc, neworder, orderline, history, h_id,
              tpccPc, x, done, failed>>
microVars == <<kv, data, buffer, ready, microMain, microWl, microPc, i, microRound, count, cease, total>>
ycsbVars == <<flags, tree, missed, ycsbMain, ycsbWl, keep, running, ycsbPc, key, ycsbRound>>
checkVars == <<value, job, checkPc, start, rnd, checkRound, result, ensured>>
vars == <<part, tpccVars, microVars, ycsbVars, checkVars>>

\* TPC-C with three mixes of transactions: orders that workers of one node place in the same district, payments
\* at two nodes, and a warehouse of its own for the worker of each node
O == INSTANCE Tpcc WITH Nodes <- 1, Worker <- 2, WarehouseCount <- 1, Districts <- 1, Customers <- 2, Items <- 1,
       Delivered <- 1, Window <- 2, Names <- 2, StockQty <- OrderStocks, Qty <- {1, 10}, MaxLines <- 1,
       Affinity <- FALSE, Kinds <- {"newOrder", "orderStatus"}, MaxTx <- 2, pc <- tpccPc
P == INSTANCE Tpcc WITH Nodes <- 2, Worker <- 1, WarehouseCount <- 2, Districts <- 2, Customers <- 2, Items <- 1,
       Delivered <- 1, Window <- 2, Names <- 1, StockQty <- {10}, Qty <- {1}, MaxLines <- 1,
       Affinity <- FALSE, Kinds <- {"payment"}, MaxTx <- 1, pc <- tpccPc
A == INSTANCE Tpcc WITH Nodes <- 2, Worker <- 1, WarehouseCount <- 2, Districts <- 1, Customers <- 2, Items <- 1,
       Delivered <- 2, Window <- 2, Names <- 1, StockQty <- {10}, Qty <- {1}, MaxLines <- 1,
       Affinity <- TRUE, Kinds <- {"newOrder", "delivery", "stockLevel"}, MaxTx <- 2, pc <- tpccPc
M == INSTANCE Microbench WITH Computes <- 1, Worker <- MicroWorkers, Iteration <- Iterations,
       main <- microMain, wl <- microWl, pc <- microPc, round <- microRound
Y == INSTANCE YcsbDriver WITH Computes <- 2, Worker <- YcsbWorkers,
       main <- ycsbMain, wl <- ycsbWl, pc <- ycsbPc, round <- ycsbRound
C == INSTANCE ConsistencyCheck WITH NodeCount <- 2, Worker <- CheckWorkers, pc <- checkPc, round <- checkRound

\* only the part p runs
Rest(p) == /\ IF p \in {"orders", "payments", "affinity"} THEN TRUE ELSE UNCHANGED tpccVars
           /\ IF p = "microbench" THEN TRUE ELSE UNCHANGED microVars
           /\ IF p = "ycsb" THEN TRUE ELSE UNCHANGED ycsbVars
           /\ IF p = "check" THEN TRUE ELSE UNCHANGED checkVars
           /\ UNCHANGED part

Init == /\ part \in Parts
        /\ CASE part = "orders" -> O!Init [] part = "payments" -> P!Init [] OTHER -> A!Init
        /\ M!Init /\ Y!Init /\ C!Init
        /\ part # "ycsb" => flags.partitioned /\ flags.latency

Orders == part = "orders" /\ O!Next /\ Rest("orders")
Payments == part = "payments" /\ P!Next /\ Rest("payments")
WithAffinity == part = "affinity" /\ A!Next /\ Rest("affinity")
Micro == part = "microbench" /\ M!Next /\ Rest("microbench")
Ycsb == part = "ycsb" /\ Y!Next /\ Rest("ycsb")
Check == part = "check" /\ C!Next /\ Rest("check")

Next == Orders \/ Payments \/ WithAffinity \/ Micro \/ Ycsb \/ Check

\* each worker and each main thread is a thread of its own, and every sleep ends
MicroWorker(t) == part = "microbench" /\ M!WorkerStep(t) /\ Rest("microbench")
MicroMain(n) == part = "microbench" /\ M!MainStep(n) /\ Rest("microbench")
YcsbWorker(t) == part = "ycsb" /\ Y!WorkerStep(t) /\ Rest("ycsb")
YcsbMain(n) == part = "ycsb" /\ Y!MainStep(n) /\ Rest("ycsb")
CheckWorker(t) == part = "check" /\ C!WorkerStep(t) /\ Rest("check")
CheckMain(n) == part = "check" /\ C!Schedule(n) /\ Rest("check")

Fairness ==
  /\ \A t \in M!Threads : WF_vars(MicroWorker(t))
  /\ \A n \in M!Nodes : WF_vars(MicroMain(n))
  /\ \A t \in Y!Threads : WF_vars(YcsbWorker(t))
  /\ \A n \in Y!Nodes : WF_vars(YcsbMain(n))
  /\ \A t \in C!Threads : WF_vars(CheckWorker(t))
  /\ \A n \in C!Nodes : WF_vars(CheckMain(n))

Spec == Init /\ [][Next]_vars /\ Fairness

-----------------------------------------------------------------------------
(* Properties *)

(***************************************************************************)
(* Without concurrency control above the B-tree the sums still agree: a    *)
(* warehouse has earned what its districts have but for payments between   *)
(* the two updates, every finished payment has a row of its own in the     *)
(* history, a customer's balance and payments stay opposite, and the stock *)
(* accounts for the order lines and stays within 10..100.                  *)
(***************************************************************************)
BooksBalance ==
  /\ part = "payments" => P!YtdIsBalanced /\ P!PaymentsAreRecorded /\ P!BalanceMatchesPayments
  /\ part = "affinity" => A!StockAccountsForLines
  /\ part = "orders" => O!StockStaysInRange

(***************************************************************************)
(* The order ids of a district are dense and no two orders share one, for  *)
(* any interleaving of newOrder; with a warehouse per worker an order is   *)
(* delivered once, and stockLevel sees exactly the last orders.            *)
(***************************************************************************)
OrdersAreKept ==
  /\ part = "orders" => O!OrderIdsAreDense
  /\ part = "affinity" => A!EachOrderDeliveredOnce /\ A!StockLevelSeesWindow

(***************************************************************************)
(* No ensure and no assert of the programs fails on a store whose tree     *)
(* operations are atomic: TPC-C's lookups, the keys that YCSB workers draw *)
(* and the values that the consistency check adds up.  Workers of all      *)
(* nodes are in the same workload, and work on pages that are all there.   *)
(***************************************************************************)
ChecksHold ==
  /\ part = "orders" => O!EnsuresHold
  /\ part = "affinity" => A!EnsuresHold
  /\ part = "ycsb" => Y!LookupsFindTheirKey /\ Y!OneWorkloadAtATime /\ Y!ScopeOutlivesJobs
  /\ part = "microbench" => /\ M!DrawsFromAllPages /\ M!ChunksAreReadable
                            /\ M!WarmupIsOver /\ M!ResultsAreOfThisWorkload
  /\ part = "check" => C!ChecksHold

(***************************************************************************)
(* The programs come to their end, although workers meet at distributed    *)
(* barriers, main threads join workers that may not have begun, and a flag *)
(* that a worker reads is taken back while it is on its way.               *)
(***************************************************************************)
DriversEnd ==
  /\ <>[](part = "microbench" => M!BenchmarkEnded)
  /\ <>[](part = "ycsb" => Y!DriverEnded)
  /\ <>[](part = "check" => C!CheckEnded)
=============================================================================
