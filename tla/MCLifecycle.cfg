CONSTANTS
  Parts = {"nodes connect", "threads connect", "start-up", "pool", "profiling", "teardown", "barrier", "barrier page", "catalog"}
  Peers = {a, b}
  ThreadsPerPeer = 2
  NodeCount = 3
  WorkersPerNode = 1
  PoolSize = 2
  MaxJobs = 2
  Counting = {t1, t2}
  MaxCount = 2
  MaxWorkloads = 2
  Incoming = {i1, i2, i3}
  Outgoing = {o1, o2}
  BarrierThreads = {t1, t2, t3}
  RoundMod = 2
  MaxRounds = 3
  MaxPageRounds = 2
  CatalogNodes = {0, 1, 2}
  CatalogOwner = 0
  MaxEntries = 3
SPECIFICATION Spec
INVARIANTS ExchangeDelivers ServedWhileWorking JobsRunOnce CountersAreSafe IdsAreUnique
PROPERTIES BarriersHold 
CHECK_DEADLOCK FALSE
