CONSTANTS
  Parts = {"orders", "payments", "affinity", "microbench", "ycsb", "check"}
  OrderStocks = {10, 20, 100}
  MicroWorkers = 3
  Steps = 5
  Granularity = 2
  Iterations = 2
  YcsbWorkers = 2
  TupleCount = 5
  Workloads = 2
  CheckWorkers = 2
  NumberTuples = 3
  Rounds = 2
SPECIFICATION Spec
INVARIANTS  OrdersAreKept 
 
