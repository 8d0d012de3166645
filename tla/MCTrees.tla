------------------------------- MODULE MCTrees -------------------------------
(***************************************************************************)
(* Structures that stand for simple ones, on small instances: the two      *)
(* trees and their leaf, which are maps, and the bitmaps, which are sets.  *)
(* A behaviour is one of a part: the others keep their initial state.      *)
(***************************************************************************)
EXTENDS Integers, Sequences, FiniteSets, TLC

CONSTANTS
  Parts,                     \* subset of {"btree", "merges", "olc", "leaf", "bitmap"}
  Thread, Key, Value, Absent, None, Infinity,
  MaxPid, LeafEntries, InnerEntries, BTreeWorkloads,
  MaxLeaf, MaxInner, MaxNode, Range, OlcWorkloads,
  MergeLeaf,                 \* LeafEntries where leaves that still have entries are merged
  LargeLeaf,                 \* LeafEntries of the single leaf
  WordBits, Words, MaxBusy   \* Bitmap

VARIABLES
  part,
  workload, page, entry, latch, thread, loaded, calls,                \* BTree
  olcWorkload, node, root, used, lock, olcThread, olcCalls,           \* OlcTree
  leaf, ref,                                                          \* a leaf, and the map it should be
  words, bits, scan, stable, seen                                     \* Bitmap

btreeVars == <<workload, page, entry, latch, thread, loaded, calls>>
olcVars == <<olcWorkload, node, root, used, lock, olcThread, olcCalls>>
leafVars == <<leaf, ref>>
bitmapVars == <<words, bits, scan, stable, seen>>
vars == <<part, btreeVars, olcVars, leafVars, bitmapVars>>

B == INSTANCE BTree WITH Workloads <- BTreeWorkloads
O == INSTANCE OlcTree WITH Workloads <- OlcWorkloads, workload <- olcWorkload,
                           thread <- olcThread, calls <- olcCalls
N == INSTANCE BTreeNode WITH LeafEntries <- LargeLeaf
M == INSTANCE Bitmap WITH W <- WordBits, Size <- Words

-----------------------------------------------------------------------------
(* Trees to begin with, and the calls made on them *)

Ask(op, keys, v) == {[op |-> op, key |-> k, val |-> v] : k \in keys}
Load(keys, asked, max, evict) == [preload |-> keys, calls |-> asked, max |-> max, evict |-> evict]

\* a leaf that is the root, and full
RootLeaf == Load(<<1, 2>>, Ask("insert", {0, 3}, 1) \cup Ask("update", {1}, 1) \cup Ask("lookup", {2}, 0), 1, FALSE)
OnlyRootLeaf == {RootLeaf}

\* two leaves, the second one full
TwoLeaves == Load(<<1, 2, 3>>, Ask("insert", {0, 2}, 1) \cup Ask("update", {2}, 1)
                                 \cup Ask("lookup", {2}, 0) \cup Ask("lookup_opt", {2}, 0), 2, FALSE)

\* five leaves under a full inner node, the last one full; with evictions, and without
FullInner == Load(<<1, 2, 3, 4, 5, 6>>, Ask("insert", {7}, 1) \cup Ask("lookup_opt", {5}, 0) \cup Ask("asc", {2}, 0), 2, FALSE)
Evicted == Load(<<1, 2, 3, 4, 5, 6>>, Ask("insert", {7}, 1) \cup Ask("remove", {6}, 0) \cup Ask("lookup_opt", {5}, 0), 1, TRUE)

\* four leaves of one key each: removals leave them empty, then they are merged
ThinLeaves == Load(<<1, 2, 3, 4>>, Ask("remove", {1}, 0) \cup Ask("insert", {2}, 1) \cup Ask("lookup", {2}, 0)
                                     \cup Ask("desc", {3}, 0), 2, FALSE)

\* three leaves of two keys: with MergeLeaf entries a leaf of one key is merged with the next
Merging == Load(<<1, 2, 3, 4, 5, 6, 5>>, Ask("remove", {1}, 0) \cup Ask("asc", {1}, 0) \cup Ask("desc", {4}, 0), 2, FALSE)

AllLoads == {RootLeaf, TwoLeaves, FullInner, Evicted, ThinLeaves}

\* the same trees for OlcTree, given as records (a leaf refers to values, an inner node to children)
OlcLeaf(keys, vals) == [leaf |-> TRUE, keys |-> keys, refs |-> vals]
OlcInner(keys, children) == [leaf |-> FALSE, keys |-> keys, refs |-> children]
OlcRoot == [nodes |-> <<OlcLeaf(<<1, 3>>, <<0, 0>>)>>, max |-> 2,
            calls |-> Ask("insert", {0, 2}, 1) \cup Ask("lookup", {3}, 0) \cup Ask("scan", {1}, 0)]
OlcWide == [nodes |-> <<OlcInner(<<1, 2, 3, 4>>, <<2, 3, 4, 5, 6>>), OlcLeaf(<<1>>, <<0>>), OlcLeaf(<<2>>, <<0>>),
                        OlcLeaf(<<3>>, <<0>>), OlcLeaf(<<4>>, <<0>>), OlcLeaf(<<5, 6>>, <<0, 0>>)>>, max |-> 1,
            calls |-> Ask("insert", {0, 7}, 1) \cup Ask("lookup", {1, 3, 6}, 0)]
OlcLoads == {OlcRoot, OlcWide}

L == INSTANCE BTree WITH LeafEntries <- MergeLeaf, Workloads <- {Merging}

-----------------------------------------------------------------------------
(* One leaf under the operations of BTreeNode; a split goes on with one of the halves *)

LeafKey == 1..(LargeLeaf + 1)

LeafInit == leaf = N!EmptyLeaf /\ ref = {}

Insert(k, v) == /\ ~N!LeafFull(leaf)
                /\ leaf' = N!LeafInsert(leaf, k, v)
                /\ ref' = {e \in ref : e[1] # k} \cup {<<k, v>>}

Remove(k) == /\ leaf' = N!LeafRemove(leaf, k)
             /\ ref' = {e \in ref : e[1] # k}

Split == /\ N!LeafFull(leaf)
         /\ LET s == N!LeafSplit(leaf) IN
            \/ leaf' = s.left /\ ref' = {e \in ref : e[1] <= s.sep}
            \/ leaf' = s.right /\ ref' = {e \in ref : e[1] > s.sep}

LeafNext == Split \/ \E k \in LeafKey : Remove(k) \/ \E v \in Value : Insert(k, v)

-----------------------------------------------------------------------------

\* a part that does not run has one initial state
Init == /\ part \in Parts /\ O!Init /\ LeafInit /\ M!Init
        /\ IF part = "merges" THEN L!Init ELSE B!Init
        /\ part \in {"btree", "merges"} \/ workload = CHOOSE w \in BTreeWorkloads : TRUE
        /\ part = "olc" \/ olcWorkload = CHOOSE w \in OlcWorkloads : TRUE

BTreeStep == part = "btree" /\ B!Next /\ UNCHANGED <<part, olcVars, leafVars, bitmapVars>>
MergeStep == part = "merges" /\ L!Next /\ UNCHANGED <<part, olcVars, leafVars, bitmapVars>>
OlcStep == part = "olc" /\ O!Next /\ UNCHANGED <<part, btreeVars, leafVars, bitmapVars>>
LeafStep == part = "leaf" /\ LeafNext /\ UNCHANGED <<part, btreeVars, olcVars, bitmapVars>>
BitmapStep == part = "bitmap" /\ M!Next /\ UNCHANGED <<part, btreeVars, olcVars, leafVars>>

\* the threads are alike
ThreadsAlike == Permutations(Thread)

Next == BTreeStep \/ MergeStep \/ OlcStep \/ LeafStep \/ BitmapStep

Spec == Init /\ [][Next]_vars

-----------------------------------------------------------------------------
(* Properties *)

AllCalls == UNION {w.calls : w \in BTreeWorkloads \cup OlcWorkloads \cup {Merging}}
InBTree == part \in {"btree", "merges"}

KV == INSTANCE KVStore WITH
        Calls <- AllCalls,
        dict <- CASE InBTree -> B!Dict [] part = "olc" -> O!Dict [] OTHER -> [k \in Key |-> Absent],
        call <- [t \in Thread |-> CASE InBTree -> B!Abstract(t) [] part = "olc" -> O!Abstract(t)
                                     [] OTHER -> [op |-> "none"]]

(***************************************************************************)
(* Both trees are maps (KVStore): insert, remove, lookupAndUpdate, lookup  *)
(* and lookup_opt take effect once, at one instant between call and        *)
(* return, although nodes are split and merged, the root is replaced and   *)
(* frames are evicted under the threads that descend.                      *)
(***************************************************************************)
TreesAreMaps == KV!Spec

(***************************************************************************)
(* Every node of the B-tree holds increasing keys between its fences, and  *)
(* the fences of the children of an inner node are its separators: splits  *)
(* and merges of several threads leave no gap, no overlap and no pointer   *)
(* to a reclaimed page.                                                    *)
(***************************************************************************)
FencesPartition == InBTree => B!FencesPartition

(***************************************************************************)
(* A scan passes keys to its callback in order, begins where it was asked  *)
(* to, and misses no key that was in the tree during the whole scan,       *)
(* although leaves are split and merged between two of its traversals; it  *)
(* repeats at most the fence it went on from.  A scan of the OLC tree      *)
(* returns a gapless piece of the tree as it is when the scan returns.     *)
(***************************************************************************)
ScansAreRight == [](InBTree => B!ScanIsOrdered /\ B!ScanIsComplete) /\ O!ScanHasNoGaps

Keys == {leaf.keys[i] : i \in 1..Len(leaf.keys)}
Smaller(k) == Cardinality({j \in Keys : j < k})

SearchesAgree ==
  \A k \in Key :
    /\ N!LowerBound(leaf.keys, k) = Smaller(k)
    /\ N!LowerBoundBF(leaf.keys, k) = Smaller(k)
    /\ N!UpperBound(leaf.keys, k) = Cardinality({j \in Keys : j <= k})

LeafIsMap ==
  /\ {<<leaf.keys[i], leaf.vals[i]>> : i \in 1..Len(leaf.keys)} = ref
  /\ Len(leaf.keys) = Cardinality(ref) /\ Len(leaf.vals) = Len(leaf.keys)
  /\ \A k \in Key : N!Contains(leaf, k) <=> \E v \in Value : <<k, v>> \in ref

ScansAgree ==
  \A k \in Key :
    LET up == N!AscScan(leaf, k).keys
        down == N!DescScan(leaf, k).keys
    IN /\ {up[i] : i \in 1..Len(up)} = {j \in Keys : j >= k}
       /\ {down[i] : i \in 1..Len(down)} = {j \in Keys : j <= k}
       /\ \A i \in 2..Len(up) : up[i - 1] < up[i]
       /\ \A i \in 2..Len(down) : down[i - 1] > down[i]

(***************************************************************************)
(* A leaf is a map: after any insertions, upserts, removals and splits it  *)
(* holds the entries of the reference map in the order of the keys; the    *)
(* binary searches stop at the first key that is not less (larger), for    *)
(* every length up to LargeLeaf and every key between, before or after     *)
(* those of the leaf; and scans pass each key from k on once, in order.    *)
(***************************************************************************)
LeafIsAMap == part = "leaf" => SearchesAgree /\ LeafIsMap /\ ScansAgree

(***************************************************************************)
(* A bitmap answers like the set it stands for (test, count, none, decode, *)
(* highest bit, free slot), and applyForAll meets, once and in order, the  *)
(* bits that stay set although other threads set and reset bits.           *)
(***************************************************************************)
BitmapIsASet == part = "bitmap" => M!AnswersLikeASet /\ M!FreeSlotIsFirst /\ M!ScanSeesStableBits

\* ensure(node->type == PageType::BTreeLeaf) in insert and lookupAndUpdate (BTree.hpp:445 and 604)
LeafEnsureHolds == B!LeafEnsureHolds
=============================================================================
