-------------------------------- MODULE BTree --------------------------------
(***************************************************************************)
(* BTree.hpp: operations of several threads on one tree.  Inner nodes are  *)
(* read without latches (OptimisticBFGuard) and the version of the frame   *)
(* is compared afterwards; leaves and nodes to be split are latched.       *)
(*                                                                         *)
(* A guard is "valid" while the version it remembers is the frame's,       *)
(* "changed" after the frame was latched exclusively, and "gone" when the  *)
(* frame was evicted and its memory may hold another page.  Reads that are *)
(* followed by a comparison of the version take one step with it: an equal *)
(* version means that nothing has changed (HybridLatch,                    *)
(* CurrentVersionMeansCurrentPage).  Reads that follow the comparison take *)
(* a step of their own.  Latching a page is one step: the possession       *)
(* protocol behind fix is the subject of Coherence.                        *)
(***************************************************************************)
EXTENDS BTreeNode, FiniteSets

CONSTANTS
  Thread, Key, Value,
  Absent,      \* result of a lookup that finds nothing
  None,        \* nobody
  MaxPid,      \* bound: pages that can be allocated
  Workloads    \* [preload, calls, max, evict]: keys inserted one after the other before the threads
               \* start, operations [op, key, val] the threads may call, bound on the calls of a
               \* thread, and whether frames are evicted

VARIABLES
  workload, \* the one of this behaviour
  page,     \* the nodes
  entry,    \* BTreeEntry: root and height
  latch,    \* of each page: exclusive holder and shared holders
  thread,   \* where each thread is, and its guards
  loaded,   \* how much of Preload is inserted
  calls     \* calls made by each thread

vars == <<workload, page, entry, latch, thread, loaded, calls>>

Preload == workload.preload

Entry == 0
Pid == 1..MaxPid
Free == [type |-> "free"]
Reclaimed == [type |-> "reclaimed"]

\* insert, lookupAndUpdate, lookup and lookup_opt count levels; remove and scan look at the type
ByHeight == {"insert", "update", "lookup", "lookup_opt"}
Scan == {"asc", "desc"}

NoGuard == [pid |-> None, state |-> "valid"]
Guard(p) == [pid |-> p, state |-> "valid"]

Resting == [pc |-> "idle", op |-> "none", key |-> None, val |-> None, cur |-> None, height |-> 0,
            level |-> 0, parent |-> NoGuard, node |-> NoGuard, res |-> None,
            first |-> TRUE, sep |-> None, out |-> <<>>, must |-> {}]

\* BTree(): the entry page and an empty leaf
Init ==
  /\ workload \in Workloads
  /\ page = [p \in Pid |-> IF p = 1 THEN EmptyLeaf ELSE Free]
  /\ entry = [root |-> 1, height |-> 0]
  /\ latch = [p \in Pid \cup {Entry} |-> [x |-> None, s |-> {}]]
  /\ thread = [t \in Thread |-> Resting]
  /\ loaded = 0
  /\ calls = [t \in Thread |-> 0]

-----------------------------------------------------------------------------
(* Latches and guards *)

Unlatched(p) == latch[p].x = None /\ latch[p].s = {}
NotExclusive(p) == latch[p].x = None

Valid(g) == g.state = "valid"

\* every guard on a page in ps gets state s; a guard that is gone stays gone
Marked(th, ps, s) ==
  [u \in Thread |->
    LET mark(g) == IF g.pid \in ps /\ g.state # "gone" THEN [g EXCEPT !.state = s] ELSE g
    IN [th[u] EXCEPT !.parent = mark(@), !.node = mark(@)]]

\* latchExclusive raises the version
LatchX(t, p, new) ==
  /\ latch' = [latch EXCEPT ![p].x = t]
  /\ thread' = [Marked(thread, {p}, "changed") EXCEPT ![t] = new]

\* destructors of the guards at goto, return or throw
ReleaseAll(t) ==
  latch' = [p \in Pid \cup {Entry} |->
             [x |-> IF latch[p].x = t THEN None ELSE latch[p].x, s |-> latch[p].s \ {t}]]

Goto(t, pc) == thread' = [thread EXCEPT ![t].pc = pc]

\* goto restart
Restarted(t) == [thread[t] EXCEPT !.pc = "start", !.cur = None, !.height = 0, !.level = 0,
                                  !.parent = NoGuard, !.node = NoGuard]
Restart(t) == thread' = [thread EXCEPT ![t] = Restarted(t)]
RestartUnlatched(t) == Restart(t) /\ ReleaseAll(t) /\ UNCHANGED <<page, entry, loaded, calls>>
RestartOnly(t) == Restart(t) /\ UNCHANGED <<page, entry, latch, loaded, calls>>

\* the operation returns
Returned(t, res) == [Resting EXCEPT !.op = thread[t].op, !.key = thread[t].key, !.res = res,
                                    !.out = thread[t].out, !.must = thread[t].must]

\* an ensure() fails, or a page is asked for that does not exist any more
Fail(t, pc) == /\ thread' = [thread EXCEPT ![t] = [Restarted(t) EXCEPT !.pc = pc]]
               /\ ReleaseAll(t)
               /\ UNCHANGED <<page, entry, loaded, calls>>

LoadedValue == CHOOSE v \in Value : TRUE
Loading == loaded < Len(Preload)

-----------------------------------------------------------------------------
(* Calls *)

\* the value of a key: what the one leaf that has the key holds
Contents(k) ==
  LET leaves == {p \in Pid : page[p].type = "leaf" /\ \E i \in 1..Len(page[p].keys) : page[p].keys[i] = k}
  IN IF leaves = {} THEN Absent ELSE ValueOf(page[CHOOSE p \in leaves : TRUE], k)

Begin(t, c) ==
  /\ thread[t].pc = "idle"
  /\ calls[t] < workload.max
  /\ thread' = [thread EXCEPT ![t] =
       [Resting EXCEPT !.pc = "start", !.op = c.op, !.key = c.key, !.val = c.val, !.sep = c.key,
                       !.must = IF c.op \in Scan THEN {k \in Key : Contents(k) # Absent} ELSE {}]]
  /\ calls' = [calls EXCEPT ![t] = @ + 1]
  /\ UNCHANGED <<page, entry, latch, loaded>>

\* one thread builds the tree
Load(t) ==
  /\ Loading
  /\ \A u \in Thread : thread[u].pc = "idle"
  /\ thread' = [thread EXCEPT ![t] = [Resting EXCEPT !.pc = "start", !.op = "insert",
                                        !.key = Preload[loaded + 1], !.val = LoadedValue]]
  /\ UNCHANGED <<page, entry, latch, loaded, calls>>

Call(t) == ~Loading /\ \E c \in workload.calls : Begin(t, c)

-----------------------------------------------------------------------------
(* The entry page *)

\* OptimisticBFGuard g_parent(entryPage); if (g_parent.retry()) goto restart
Enter(t) ==
  /\ thread[t].pc = "start"
  /\ NotExclusive(Entry)
  /\ thread' = [thread EXCEPT ![t].pc = "root", ![t].parent = Guard(Entry)]
  /\ UNCHANGED <<page, entry, latch, loaded, calls>>

\* entry->root, read after the version was compared
ReadRoot(t) ==
  /\ thread[t].pc = "root"
  /\ thread' = [thread EXCEPT ![t].cur = entry.root,
                  ![t].pc = IF thread[t].op \in ByHeight THEN "height" ELSE "fix"]
  /\ UNCHANGED <<page, entry, latch, loaded, calls>>

\* entry->height
ReadHeight(t) ==
  /\ thread[t].pc = "height"
  /\ thread' = [thread EXCEPT ![t].height = entry.height, ![t].pc = "descend"]
  /\ UNCHANGED <<page, entry, latch, loaded, calls>>

\* the memory of the entry page holds another page by now: fix is called with whatever is there
EntryIsGone(t) == /\ thread[t].pc \in {"root", "height"}
                  /\ thread[t].parent.state = "gone"
                  /\ Fail(t, "lost")

-----------------------------------------------------------------------------
(* Descent of insert, lookupAndUpdate, lookup and lookup_opt *)

\* fix(currentPID) of a page that was reclaimed meanwhile does not find the page
FixReclaimed(t) ==
  /\ thread[t].pc \in {"descend", "fix"}
  /\ page[thread[t].cur].type = "reclaimed"
  /\ Fail(t, "lost")

\* OptimisticBFGuard g_node(currentPID); if (g_parent.retry()) goto restart
FixInner(t) ==
  LET r == thread[t] IN
  /\ r.pc = "descend" /\ r.level < r.height
  /\ page[r.cur].type # "reclaimed" /\ NotExclusive(r.cur)
  /\ IF Valid(r.parent)
     THEN thread' = [thread EXCEPT ![t].node = Guard(r.cur), ![t].pc = "inner"]
     ELSE Restart(t)
  /\ UNCHANGED <<page, entry, latch, loaded, calls>>

\* ensure(node->type == PageType::BTreeInner) reads the page after the version was compared
InnerIsGone(t) == /\ thread[t].pc = "inner"
                  /\ thread[t].node.state = "gone"
                  /\ Fail(t, "thrown") \/ RestartOnly(t)

\* insert splits a full node on its way down
InnerIsFull(t) ==
  LET r == thread[t] IN
  /\ r.pc = "inner" /\ r.node.state # "gone"
  /\ r.op = "insert" /\ InnerFull(page[r.node.pid])
  /\ Goto(t, "upParent")
  /\ UNCHANGED <<page, entry, latch, loaded, calls>>

\* currentPID = inner.children[..]; if (g_node.retry()) goto restart; g_parent = std::move(g_node)
ToChild(t) ==
  LET r == thread[t]
      inner == page[r.node.pid]
  IN
  /\ r.pc = "inner" /\ r.node.state # "gone"
  /\ ~(r.op = "insert" /\ InnerFull(inner))
  /\ IF Valid(r.parent) /\ Valid(r.node)
     THEN thread' = [thread EXCEPT
            ![t].cur = inner.children[LowerBoundBF(inner.keys, r.key) + 1],
            ![t].parent = r.node, ![t].node = NoGuard,
            ![t].level = @ + 1, ![t].pc = "descend"]
     ELSE Restart(t)
  /\ UNCHANGED <<page, entry, latch, loaded, calls>>

-----------------------------------------------------------------------------
(* Descent of remove and scan_ *)

\* DESC_SCAN::next_node and remove use lowerBound, ASC_SCAN::next_node upperBound when it goes on
NextNode(t, inner) ==
  LET r == thread[t]
      k == IF r.op \in Scan THEN r.sep ELSE r.key
      pos == IF r.op = "asc" /\ ~r.first THEN UpperBound(inner.keys, k)
             ELSE LowerBound(inner.keys, k)
  IN inner.children[pos + 1]

\* g_node = OptimisticBFGuard(nextPid); only the root's is followed by g_parent.retry()
FixNode(t) ==
  LET r == thread[t] IN
  /\ r.pc = "fix"
  /\ page[r.cur].type # "reclaimed" /\ NotExclusive(r.cur)
  /\ IF r.parent.pid = Entry /\ ~Valid(r.parent) THEN Restart(t)
     ELSE thread' = [thread EXCEPT ![t].node = Guard(r.cur), ![t].pc = "walk"]
  /\ UNCHANGED <<page, entry, latch, loaded, calls>>

\* the memory of an evicted page is read as a leaf or as a node; the comparisons that follow fail
WalkGone(t) == thread[t].pc = "walk" /\ thread[t].node.state = "gone" /\ RestartOnly(t)

WalkInner(t) ==
  LET r == thread[t]
      inner == page[r.node.pid]
  IN
  /\ r.pc = "walk" /\ r.node.state # "gone" /\ inner.type = "inner"
  /\ IF Valid(r.parent) /\ Valid(r.node)
     THEN thread' = [thread EXCEPT ![t].cur = NextNode(t, inner), ![t].parent = r.node,
                                   ![t].node = NoGuard, ![t].pc = "fix"]
     ELSE Restart(t)
  /\ UNCHANGED <<page, entry, latch, loaded, calls>>

\* a leaf that was merged into its neighbour, reset and not yet reused
WalkReclaimed(t) ==
  /\ thread[t].pc = "walk" /\ thread[t].node.state # "gone"
  /\ page[thread[t].node.pid].type = "reclaimed"
  /\ RestartOnly(t)

\* remove: an underfull leaf is merged if it has a parent
WalkLeafRemove(t) ==
  LET r == thread[t] IN
  /\ r.pc = "walk" /\ r.node.state # "gone" /\ r.op = "remove"
  /\ page[r.node.pid].type = "leaf"
  /\ Goto(t, IF IsUnderflow(page[r.node.pid]) /\ r.parent.pid # Entry THEN "upParent" ELSE "upNode")
  /\ UNCHANGED <<page, entry, latch, loaded, calls>>

\* scan_: SharedBFGuard sg_node(std::move(g_node)) tries the latch and compares the version
WalkLeafScan(t) ==
  LET r == thread[t]
      p == r.node.pid
  IN
  /\ r.pc = "walk" /\ r.node.state # "gone" /\ r.op \in Scan
  /\ page[p].type = "leaf"
  /\ IF NotExclusive(p) /\ Valid(r.node)
     THEN /\ latch' = [latch EXCEPT ![p].s = @ \cup {t}]
          /\ Goto(t, "scanLeaf")
     ELSE Restart(t) /\ UNCHANGED latch
  /\ UNCHANGED <<page, entry, loaded, calls>>

-----------------------------------------------------------------------------
(* ExclusiveBFGuard(OptimisticBFGuard&&): compare, fix exclusively, compare again *)

\* if (!oGuard.retry())
CheckUpgrade(t, from, to, g) ==
  /\ thread[t].pc = from
  /\ IF Valid(g) THEN Goto(t, to) /\ UNCHANGED latch ELSE Restart(t) /\ ReleaseAll(t)
  /\ UNCHANGED <<page, entry, loaded, calls>>

\* g = fix(pid, Exclusive()); g.vAcquired != oGuard.g.vAcquired + 0b10
LatchUpgrade(t, at, to, g) ==
  /\ thread[t].pc = at
  /\ Unlatched(g.pid)
  /\ IF Valid(g) THEN LatchX(t, g.pid, [thread[t] EXCEPT !.pc = to])
     ELSE /\ ReleaseAll(t)
          /\ thread' = [Marked(thread, {g.pid}, "changed") EXCEPT ![t] = Restarted(t)]
  /\ UNCHANGED <<page, entry, loaded, calls>>

UpgradeParent(t) ==
  \/ CheckUpgrade(t, "upParent", "xParent", thread[t].parent)
  \/ LatchUpgrade(t, "xParent",
       IF thread[t].op = "insert" /\ thread[t].node = NoGuard THEN "splitLeaf" ELSE "upNode",
       thread[t].parent)

UpgradeNode(t) ==
  \/ CheckUpgrade(t, "upNode", "xNode", thread[t].node)
  \/ LatchUpgrade(t, "xNode",
       CASE thread[t].op = "insert" -> "splitInner"
         [] thread[t].op = "remove" /\ latch[thread[t].parent.pid].x = t -> "merge"
         [] OTHER -> "removeLeaf",
       thread[t].node)

-----------------------------------------------------------------------------
(* Splits *)

FreePid == CHOOSE p \in Pid : page[p] = Free /\ \A q \in Pid : page[q] = Free => p <= q
Spare == \E p, q \in Pid : p # q /\ page[p] = Free /\ page[q] = Free

\* makeRoot: the new root stays latched until entry.height is stored
MakeRoot(t, halves, left) ==
  LET new == FreePid
      root == CHOOSE p \in Pid : page[p] = Free /\ p # new
  IN
  /\ page' = [page EXCEPT ![left] = halves.left, ![new] = halves.right,
                          ![root] = Inner(<<halves.sep>>, <<left, new>>, Infinity, Infinity)]
  /\ entry' = [entry EXCEPT !.root = root]
  /\ latch' = [latch EXCEPT ![root].x = t]
  /\ Goto(t, "setHeight")

\* xg_parent.as<Inner>(0).insert(sep, new); goto restart
InsertIntoParent(t, halves, left, parent) ==
  /\ page' = [page EXCEPT ![left] = halves.left, ![FreePid] = halves.right,
                          ![parent] = InnerInsert(@, halves.sep, FreePid)]
  /\ Restart(t) /\ ReleaseAll(t)
  /\ UNCHANGED entry

Publish(t, halves, left) ==
  /\ Spare
  /\ IF thread[t].parent.pid = Entry THEN MakeRoot(t, halves, left)
     ELSE InsertIntoParent(t, halves, left, thread[t].parent.pid)
  /\ UNCHANGED <<loaded, calls>>

SplitInner(t) ==
  /\ thread[t].pc = "splitInner"
  /\ Publish(t, InnerSplit(page[thread[t].node.pid]), thread[t].node.pid)

SplitLeaf(t) ==
  /\ thread[t].pc = "splitLeaf"
  /\ Publish(t, LeafSplit(page[thread[t].cur]), thread[t].cur)

SetHeight(t) ==
  /\ thread[t].pc = "setHeight"
  /\ entry' = [entry EXCEPT !.height = @ + 1]
  /\ Restart(t) /\ ReleaseAll(t)
  /\ UNCHANGED <<page, loaded, calls>>

-----------------------------------------------------------------------------
(* Leaves *)

\* ExclusiveBFGuard xg_node(currentPID)
LatchLeaf(t) ==
  LET r == thread[t] IN
  /\ r.pc = "descend" /\ r.level = r.height /\ r.op \in {"insert", "update"}
  /\ page[r.cur].type # "reclaimed" /\ Unlatched(r.cur)
  /\ LatchX(t, r.cur, [r EXCEPT !.pc = "leaf"])
  /\ UNCHANGED <<page, entry, loaded, calls>>

\* ensure(node->type == PageType::BTreeLeaf) comes before the parent's version is compared
LeafIsInner(t) ==
  /\ thread[t].pc = "leaf"
  /\ page[thread[t].cur].type # "leaf"
  /\ Fail(t, "thrown")

\* if (g_parent.retry()) goto restart, with the leaf latched
LeafMoved(t) ==
  /\ thread[t].pc = "leaf"
  /\ page[thread[t].cur].type = "leaf"
  /\ ~Valid(thread[t].parent)
  /\ RestartUnlatched(t)

AtLeaf(t, op) ==
  /\ thread[t].pc = "leaf" /\ thread[t].op = op
  /\ page[thread[t].cur].type = "leaf"
  /\ Valid(thread[t].parent)

LeafIsFull(t) ==
  /\ AtLeaf(t, "insert") /\ LeafFull(page[thread[t].cur])
  /\ Goto(t, "upParent")
  /\ UNCHANGED <<page, entry, latch, loaded, calls>>

\* leaf.insert(k, v)
InsertLeaf(t) ==
  LET r == thread[t] IN
  /\ AtLeaf(t, "insert") /\ ~LeafFull(page[r.cur])
  /\ page' = [page EXCEPT ![r.cur] = LeafInsert(@, r.key, r.val)]
  /\ thread' = [thread EXCEPT ![t] = IF Loading THEN Resting ELSE Returned(t, "ok")]
  /\ loaded' = IF Loading THEN loaded + 1 ELSE loaded
  /\ ReleaseAll(t)
  /\ UNCHANGED <<entry, calls>>

\* callback(leaf.payloads[pos]), which stores val; ensure(false) if the key is not there
UpdateLeaf(t) ==
  LET r == thread[t]
      leaf == page[r.cur]
  IN
  /\ AtLeaf(t, "update")
  /\ page' = IF Contains(leaf, r.key) THEN [page EXCEPT ![r.cur] = LeafInsert(@, r.key, r.val)] ELSE page
  /\ thread' = [thread EXCEPT ![t] = Returned(t, Contains(leaf, r.key))]
  /\ ReleaseAll(t)
  /\ UNCHANGED <<entry, loaded, calls>>

\* SharedBFGuard sg_node(currentPID)
LatchLeafShared(t) ==
  LET r == thread[t] IN
  /\ r.pc = "descend" /\ r.level = r.height /\ r.op = "lookup"
  /\ page[r.cur].type # "reclaimed" /\ NotExclusive(r.cur)
  /\ latch' = [latch EXCEPT ![r.cur].s = @ \cup {t}]
  /\ Goto(t, "leafShared")
  /\ UNCHANGED <<page, entry, loaded, calls>>

Found(leaf, k) == IF Contains(leaf, k) THEN ValueOf(leaf, k) ELSE Absent

LookupLeaf(t) ==
  LET r == thread[t] IN
  /\ r.pc = "leafShared"
  /\ IF Valid(r.parent)
     THEN thread' = [thread EXCEPT ![t] = Returned(t, Found(page[r.cur], r.key))]
     ELSE Restart(t)
  /\ ReleaseAll(t)
  /\ UNCHANGED <<page, entry, loaded, calls>>

\* lookup_opt: OptimisticBFGuard og_node(currentPID)
FixLeaf(t) ==
  LET r == thread[t] IN
  /\ r.pc = "descend" /\ r.level = r.height /\ r.op = "lookup_opt"
  /\ page[r.cur].type # "reclaimed" /\ NotExclusive(r.cur)
  /\ thread' = [thread EXCEPT ![t].node = Guard(r.cur), ![t].pc = "leafOpt"]
  /\ UNCHANGED <<page, entry, latch, loaded, calls>>

\* goto restart if the parent, goto restartLeaf if the leaf has changed; otherwise next
LeafCheck(t, next) ==
  /\ thread' = [thread EXCEPT ![t] = IF ~Valid(@.parent) THEN Restarted(t)
                                     ELSE IF ~Valid(@.node) THEN [@ EXCEPT !.pc = "descend", !.node = NoGuard]
                                     ELSE next]
  /\ UNCHANGED <<page, entry, latch, loaded, calls>>

\* the value is read ...
ReadLeafOpt(t) ==
  /\ thread[t].pc = "leafOpt"
  /\ LeafCheck(t, [thread[t] EXCEPT !.pc = "leafOptCheck",
                                    !.res = IF page[thread[t].cur].type = "leaf"
                                            THEN Found(page[thread[t].cur], thread[t].key) ELSE Absent])

\* Mutant: the value is returned without comparing the versions again
ReturnLeafOptUnchecked(t) ==
  /\ thread[t].pc = "leafOptCheck"
  /\ thread' = [thread EXCEPT ![t] = Returned(t, thread[t].res)]
  /\ UNCHANGED <<page, entry, latch, loaded, calls>>

\* ... and returned if parent and leaf are the same afterwards
ReturnLeafOpt(t) ==
  /\ thread[t].pc = "leafOptCheck"
  /\ LeafCheck(t, Returned(t, thread[t].res))

-----------------------------------------------------------------------------
(* Removal *)

\* scans that are under way need not return a key that is removed
Forget(th, k) == [u \in Thread |-> [th[u] EXCEPT !.must = @ \ {k}]]

RemoveLeaf(t) ==
  LET r == thread[t] IN
  /\ r.pc = "removeLeaf"
  /\ IF Valid(r.parent)
     THEN /\ page' = [page EXCEPT ![r.node.pid] = LeafRemove(@, r.key)]
          /\ thread' = [Forget(thread, r.key) EXCEPT ![t] = Returned(t, Contains(page[r.node.pid], r.key))]
     ELSE Restart(t) /\ UNCHANGED page
  /\ ReleaseAll(t)
  /\ UNCHANGED <<entry, loaded, calls>>

\* (inner.count >= 2) && ((pos + 1) < inner.count)
HasRight(t) ==
  LET inner == page[thread[t].parent.pid]
      pos == LowerBound(inner.keys, thread[t].key)
  IN Len(inner.keys) >= 2 /\ pos + 1 < Len(inner.keys)

RightOf(t) ==
  LET inner == page[thread[t].parent.pid]
  IN inner.children[LowerBound(inner.keys, thread[t].key) + 2]

\* Mutant: the leaf keeps its upper fence
MergedKeepsFence(t) ==
  LET r == thread[t]
      right == RightOf(t)
      leaf == page[r.node.pid]
      inner == page[r.parent.pid]
  IN [page EXCEPT ![r.node.pid] = LeafRemove([LeafMerge(leaf, page[right]) EXCEPT !.upper = leaf.upper], r.key),
                  ![r.parent.pid] = InnerRemove(inner, LowerBound(inner.keys, r.key)),
                  ![right] = Reclaimed]

\* the right leaf moves into the leaf and is reclaimed, then the key is removed
Merged(t) ==
  LET r == thread[t]
      right == RightOf(t)
      leaf == page[r.node.pid]
      inner == page[r.parent.pid]
  IN [page EXCEPT ![r.node.pid] = LeafRemove(LeafMerge(leaf, page[right]), r.key),
                  ![r.parent.pid] = InnerRemove(inner, LowerBound(inner.keys, r.key)),
                  ![right] = Reclaimed]

\* parent and leaf are latched; the right leaf is latched as well, whatever it takes
Merge(t) ==
  LET r == thread[t]
      leaf == page[r.node.pid]
      fits == HasRight(t) /\ Len(leaf.keys) + Len(page[RightOf(t)].keys) < LeafEntries
  IN
  /\ r.pc = "merge"
  /\ HasRight(t) => Unlatched(RightOf(t))
  /\ page' = IF fits THEN Merged(t) ELSE [page EXCEPT ![r.node.pid] = LeafRemove(@, r.key)]
  /\ thread' = [Marked(Forget(thread, r.key), IF HasRight(t) THEN {RightOf(t)} ELSE {}, "changed")
                 EXCEPT ![t] = Returned(t, Contains(IF fits THEN LeafMerge(leaf, page[RightOf(t)]) ELSE leaf, r.key))]
  /\ ReleaseAll(t)
  /\ UNCHANGED <<entry, loaded, calls>>

-----------------------------------------------------------------------------
(* Scans *)

LeafScan(op, leaf, k) == IF op = "asc" THEN AscScan(leaf, k) ELSE DescScan(leaf, k)

\* the callback gets the keys of the leaf; the scan ends at a fence that is infinite
ScanLeaf(t) ==
  LET r == thread[t]
      result == LeafScan(r.op, page[r.node.pid], r.sep)
      new == [r EXCEPT !.out = @ \o result.keys]
  IN
  /\ r.pc = "scanLeaf"
  /\ thread' = [thread EXCEPT ![t] =
       IF ~Valid(r.parent) THEN Restarted(t)
       ELSE IF result.next = Infinity THEN [Returned(t, "ok") EXCEPT !.out = new.out]
       ELSE [new EXCEPT !.pc = "start", !.sep = result.next, !.first = FALSE,
                        !.cur = None, !.parent = NoGuard, !.node = NoGuard]]
  /\ ReleaseAll(t)
  /\ UNCHANGED <<page, entry, loaded, calls>>

-----------------------------------------------------------------------------
(* The page provider or a message handler takes a frame away from this node *)
Evict(p) ==
  /\ workload.evict /\ Unlatched(p)
  /\ p \in Pid => page[p].type \in {"leaf", "inner"}
  /\ \E t \in Thread : \E g \in {thread[t].parent, thread[t].node} : g.pid = p /\ g.state # "gone"
  /\ thread' = Marked(thread, {p}, "gone")
  /\ UNCHANGED <<page, entry, latch, loaded, calls>>

\* the functions of BTree
Insert(t) ==
  /\ thread[t].op = "insert"
  /\ \/ Enter(t) \/ ReadRoot(t) \/ EntryIsGone(t) \/ ReadHeight(t) \/ FixInner(t) \/ FixReclaimed(t)
     \/ InnerIsGone(t) \/ InnerIsFull(t) \/ ToChild(t)
     \/ UpgradeParent(t) \/ UpgradeNode(t) \/ SplitInner(t) \/ SetHeight(t)
     \/ LatchLeaf(t) \/ LeafIsInner(t) \/ LeafMoved(t) \/ LeafIsFull(t) \/ SplitLeaf(t) \/ InsertLeaf(t)

LookupAndUpdate(t) ==
  /\ thread[t].op = "update"
  /\ \/ Enter(t) \/ ReadRoot(t) \/ EntryIsGone(t) \/ ReadHeight(t) \/ FixInner(t) \/ FixReclaimed(t)
     \/ InnerIsGone(t) \/ ToChild(t)
     \/ LatchLeaf(t) \/ LeafIsInner(t) \/ LeafMoved(t) \/ UpdateLeaf(t)

Lookup(t) ==
  /\ thread[t].op = "lookup"
  /\ \/ Enter(t) \/ ReadRoot(t) \/ EntryIsGone(t) \/ ReadHeight(t) \/ FixInner(t) \/ FixReclaimed(t)
     \/ InnerIsGone(t) \/ ToChild(t)
     \/ LatchLeafShared(t) \/ LookupLeaf(t)

LookupOpt(t) ==
  /\ thread[t].op = "lookup_opt"
  /\ \/ Enter(t) \/ ReadRoot(t) \/ EntryIsGone(t) \/ ReadHeight(t) \/ FixInner(t) \/ FixReclaimed(t)
     \/ InnerIsGone(t) \/ ToChild(t)
     \/ FixLeaf(t) \/ ReadLeafOpt(t) \/ ReturnLeafOpt(t)

Remove(t) ==
  /\ thread[t].op = "remove"
  /\ \/ Enter(t) \/ ReadRoot(t) \/ EntryIsGone(t) \/ FixNode(t) \/ FixReclaimed(t)
     \/ WalkGone(t) \/ WalkInner(t) \/ WalkReclaimed(t) \/ WalkLeafRemove(t)
     \/ UpgradeParent(t) \/ UpgradeNode(t) \/ Merge(t) \/ RemoveLeaf(t)

ScanTree(t) ==
  /\ thread[t].op \in Scan
  /\ \/ Enter(t) \/ ReadRoot(t) \/ EntryIsGone(t) \/ FixNode(t) \/ FixReclaimed(t)
     \/ WalkGone(t) \/ WalkInner(t) \/ WalkReclaimed(t) \/ WalkLeafScan(t) \/ ScanLeaf(t)

\* all calls are made and have returned
Stop == /\ \A t \in Thread : thread[t].pc \in {"idle", "thrown", "lost"}
        /\ UNCHANGED vars

Step(t) == Insert(t) \/ LookupAndUpdate(t) \/ Lookup(t) \/ LookupOpt(t) \/ Remove(t) \/ ScanTree(t)

Next == /\ \/ \E t \in Thread : Load(t) \/ Call(t) \/ Step(t)
           \/ \E p \in Pid \cup {Entry} : Evict(p)
           \/ Stop
        /\ UNCHANGED workload

Spec == Init /\ [][Next]_vars

-----------------------------------------------------------------------------
(* Properties *)

InUse(p) == page[p].type \in {"leaf", "inner"}
Below(a, b) == a = Infinity \/ b = Infinity \/ a < b

(***************************************************************************)
(* Every node holds increasing keys between its fences, and the fences of  *)
(* the children of an inner node are its separators: splits and merges of  *)
(* several threads leave no gap, no overlap and no pointer to a reclaimed  *)
(* page.                                                                   *)
(***************************************************************************)
FencesPartition ==
  /\ page[entry.root].lower = Infinity /\ page[entry.root].upper = Infinity
  /\ \A p \in Pid : InUse(p) =>
       LET n == page[p] IN
       /\ \A i \in 1..Len(n.keys) :
            /\ Below(n.lower, n.keys[i]) /\ (n.upper # Infinity => n.keys[i] <= n.upper)
            /\ i > 1 => n.keys[i - 1] < n.keys[i]
       /\ n.type = "inner" =>
            /\ Len(n.children) = Len(n.keys) + 1 /\ n.keys # <<>>
            /\ \A i \in 1..Len(n.children) :
                 LET c == page[n.children[i]] IN
                 /\ c.type \in {"leaf", "inner"}
                 /\ c.lower = IF i = 1 THEN n.lower ELSE n.keys[i - 1]
                 /\ c.upper = IF i = Len(n.children) THEN n.upper ELSE n.keys[i]

(***************************************************************************)
(* A scan passes the keys to its callback in order although leaves are     *)
(* split and merged between two of its traversals, a descending one none   *)
(* of them twice.  An ascending one goes on with the keys from the fence   *)
(* on: it passes the fence again, at once and only once, if the leaf that  *)
(* ended there was merged with the next.                                   *)
(***************************************************************************)
ScanIsOrdered ==
  \A t \in Thread : LET out == thread[t].out IN
    \A i, j \in 1..Len(out) : i < j =>
      IF thread[t].op = "asc" THEN out[i] < out[j] \/ (j = i + 1 /\ out[i] = out[j])
      ELSE out[i] > out[j]

(***************************************************************************)
(* A scan that has ended has passed every key to its callback that was in  *)
(* the tree during the whole scan, and it began where it was asked to.     *)
(***************************************************************************)
ScanIsComplete ==
  \A t \in Thread : LET r == thread[t] IN
    r.pc = "idle" /\ r.op \in Scan =>
      LET asked == {k \in Key : IF r.op = "asc" THEN k >= r.key ELSE k <= r.key}
          out == {r.out[i] : i \in 1..Len(r.out)}
      IN (r.must \cap asked) \subseteq out /\ out \subseteq asked

\* ensure(node->type == PageType::BTreeLeaf) in insert and lookupAndUpdate
LeafEnsureHolds == \A t \in Thread : thread[t].pc = "leaf" => page[thread[t].cur].type = "leaf"

-----------------------------------------------------------------------------
(* The map the tree stands for, and the call of a thread as its caller sees it (KVStore) *)

Dict ==
  LET leaves == {page[p] : p \in {q \in Pid : page[q].type = "leaf"}}
      entries == UNION {{<<l.keys[i], l.vals[i]>> : i \in 1..Len(l.keys)} : l \in leaves}
      stored == {e[1] : e \in entries}
  IN [k \in Key |-> IF Loading THEN IF \E i \in 1..Len(Preload) : Preload[i] = k THEN LoadedValue ELSE Absent
                     ELSE IF k \in stored THEN (CHOOSE e \in entries : e[1] = k)[2] ELSE Absent]

Abstract(t) ==
  LET r == thread[t] IN
  IF Loading \/ r.op \in Scan \cup {"none"} THEN [op |-> "none"]
  ELSE IF r.pc = "idle" THEN [op |-> r.op, key |-> r.key, res |-> r.res]
  ELSE [op |-> r.op, key |-> r.key, val |-> r.val]
=============================================================================
