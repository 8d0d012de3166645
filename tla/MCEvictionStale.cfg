CONSTANTS
  Parts = {"batches"}
  Threads = 2
  Clients = 3
  MaxRequests = 1
  MaxRetries = 1
  BatchPage = {a, b, c}
  BatchSize = 2
  MinOutgoing = 1
  FailLimit = 1
  MaxFetches = 4
  None = None
  MaxOutstanding = 2
  Garbage = {"write"}
  MaxWrites = 12
  MaxQueue = 8
  Buckets = 2
  Overflow = 1
  RemoteFrames = {1}
  pp_batch_size = 2
  required_samples = 2
  CoolestOf = 2
  evict_to_ssd = TRUE
  MaxOutgoing = 1
  MinUsed = 1
  MaxEpoch = 1
  MaxChanges = 3
  Conn = {c1, c2}
  ReusePage = {p1, p2, p3}
  pollingInterval = 2
  EvictCopies = FALSE
SPECIFICATION Spec
CHECK_DEADLOCK FALSE
INVARIANT NoLostPage
