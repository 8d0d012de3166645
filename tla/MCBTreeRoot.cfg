CONSTANTS
  Parts = {"btree"}
  Thread = {t1, t2}
  Key = {0, 1, 2, 3, 4, 5, 6, 7}
  Value = {0, 1}
  Absent = Absent
  None = None
  Infinity = Infinity
  MaxPid = 14
  LeafEntries = 2
  InnerEntries = 5
  BTreeWorkloads <- OnlyRootLeaf
  MaxLeaf = 2
  MaxInner = 5
  MaxNode = 11
  Range = 2
  OlcWorkloads <- OlcLoads
  MergeLeaf = 4
  LargeLeaf = 5
  WordBits = 3
  Words = 2
  MaxBusy = 2
SPECIFICATION Spec
INVARIANT LeafEnsureHolds
