CONSTANTS
  Parts = {"queue", "freeLists", "memory", "linkedList", "ssd", "bufferPool"}
  Producer = {p1, p2}
  Consumer = {c1, c2}
  QueueBits = 1
  MaxTickets = 4
  Nobody = Nobody
  ListThread = {t1, t2}
  Element = {e1, e2, e3}
  Partitions = 2
  BatchSize = 2
  Batches = 2
  MaxExits = 1
  MemoryThreads = {t1, t2}
  bufferSize = 12
  Sizes = {1, 3, 4}
  Alignments = {1, 4}
  Writers = {w1, w2}
  Readers = {r1}
  MaxEntries = 2
  MaxBatch = 3
  MaxBatches = 3
  IoFrames = {f1, f2}
  BatchMaxSize = 4
  PageValues = 2
  Pages = 3
  SsdPages = 3
  PoolFrames = 3
  PoolThreads = 2
  MaxVersion = 2
SPECIFICATION Spec
INVARIANTS FirstInFirstOut  NoLostWrite
 
CHECK_DEADLOCK FALSE
SYMMETRY Symmetry
