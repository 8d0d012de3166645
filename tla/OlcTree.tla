------------------------------- MODULE OlcTree -------------------------------
(***************************************************************************)
(* btreeolc::BTree, the tree in the memory of one node that the YCSB       *)
(* driver compares with: all nodes are read optimistically, locks are      *)
(* versions, inner nodes are split on the way down when they are full.     *)
(*                                                                         *)
(* A thread's version of a node is kept as "ok": it is equal to the        *)
(* version of the node. A read that is followed by the comparison of the   *)
(* version takes one step with it; every lock, unlock and comparison is a  *)
(* step of its own.                                                        *)
(***************************************************************************)
EXTENDS Integers, Sequences, FiniteSets

CONSTANTS
  Thread, Key, Value, Absent, None,
  MaxLeaf, MaxInner,   \* maxEntries
  MaxNode,             \* bound: nodes
  Workloads,           \* [nodes, calls, max]: the tree to begin with, its root first, the operations
                       \* the threads may call and the bound on the calls of a thread
  Range                \* range of a scan

Node == 1..MaxNode

VARIABLES
  workload, \* the one of this behaviour
  node,     \* [Node -> [leaf, keys, refs]]: refs are payloads or children
  root, used,
  lock,     \* [Node -> thread or None]
  thread,   \* [Thread -> [pc, op, key, val, res, out, cur, curOk, parent, parentOk]]
  calls

vars == <<workload, node, root, used, lock, thread, calls>>

Leaf(keys, vals) == [leaf |-> TRUE, keys |-> keys, refs |-> vals]
Inner(keys, children) == [leaf |-> FALSE, keys |-> keys, refs |-> children]

Resting == [pc |-> "idle", op |-> "none", key |-> None, val |-> None, res |-> None, out |-> <<>>,
            cur |-> None, curOk |-> FALSE, parent |-> None, parentOk |-> FALSE]

Init ==
  /\ workload \in Workloads
  /\ node = [n \in Node |-> IF n \in DOMAIN workload.nodes THEN workload.nodes[n] ELSE Leaf(<<>>, <<>>)]
  /\ root = 1 /\ used = Len(workload.nodes)
  /\ lock = [n \in Node |-> None]
  /\ thread = [t \in Thread |-> Resting] /\ calls = [t \in Thread |-> 0]

-----------------------------------------------------------------------------
(* Nodes *)

LowerBound(n, k) == Cardinality({i \in DOMAIN n.keys : n.keys[i] < k}) + 1
Child(n, k) == n.refs[LowerBound(n, k)]
Has(n, k) == \E i \in DOMAIN n.keys : n.keys[i] = k
IsFull(n) == Len(n.keys) = IF n.leaf THEN MaxLeaf ELSE MaxInner - 1

Put(s, i, x) == SubSeq(s, 1, i - 1) \o <<x>> \o SubSeq(s, i, Len(s))

\* BTreeLeaf::insert: an upsert
InsertLeaf(n, k, v) ==
  LET pos == LowerBound(n, k) IN
  IF Has(n, k) THEN [n EXCEPT !.refs[pos] = v] ELSE Leaf(Put(n.keys, pos, k), Put(n.refs, pos, v))

\* BTreeInner::insert: the new child is to the right of its separator
InsertInner(n, sep, child) ==
  LET pos == LowerBound(n, sep) IN Inner(Put(n.keys, pos, sep), Put(n.refs, pos + 1, child))

\* split: left half, separator, right half
Split(n) ==
  LET c == Len(n.keys)
      left == IF n.leaf THEN c \div 2 ELSE c - (c - c \div 2) - 1
  IN IF n.leaf THEN [left |-> Leaf(SubSeq(n.keys, 1, left), SubSeq(n.refs, 1, left)), sep |-> n.keys[left],
                     right |-> Leaf(SubSeq(n.keys, left + 1, c), SubSeq(n.refs, left + 1, c))]
     ELSE [left |-> Inner(SubSeq(n.keys, 1, left), SubSeq(n.refs, 1, left + 1)), sep |-> n.keys[left + 1],
           right |-> Inner(SubSeq(n.keys, left + 2, c), SubSeq(n.refs, left + 2, c + 1))]

-----------------------------------------------------------------------------
(* Versions *)

Go(th, t, pc) == [th EXCEPT ![t].pc = pc]
Restart(t) == thread' = [thread EXCEPT ![t].pc = "root", ![t].cur = None, ![t].parent = None, ![t].curOk = FALSE, ![t].parentOk = FALSE,
                                       ![t].res = None, ![t].out = <<>>]
Still(t, pc) == thread[t].pc = pc

\* The version of n changes: everybody else's version of it is old.
Changed(th, t, n) ==
  [u \in Thread |-> IF u = t THEN th[u]
                    ELSE [th[u] EXCEPT !.curOk = @ /\ th[u].cur # n, !.parentOk = @ /\ th[u].parent # n]]

\* upgradeToWriteLockOrRestart, on to pc
Lock(t, n, ok, pc) ==
  /\ ok /\ lock[n] = None
  /\ lock' = [lock EXCEPT ![n] = t] /\ thread' = Go(Changed(thread, t, n), t, pc)

Unlocked(ns) == [n \in Node |-> IF n \in ns THEN None ELSE lock[n]]

-----------------------------------------------------------------------------
(* Operations *)

Call(t, c) ==
  /\ thread[t].pc = "idle" /\ calls[t] < workload.max
  /\ thread' = [thread EXCEPT ![t] = [Resting EXCEPT !.pc = "root", !.op = c.op, !.key = c.key, !.val = c.val]]
  /\ calls' = [calls EXCEPT ![t] = @ + 1]
  /\ UNCHANGED <<node, root, used, lock>>

ReadRoot(t) ==
  /\ Still(t, "root") /\ thread' = [thread EXCEPT ![t].cur = root, ![t].pc = "version"]
  /\ UNCHANGED <<node, root, used, lock, calls>>

\* readLockOrRestart
ReadVersion(t) ==
  LET n == thread[t].cur IN
  /\ Still(t, "version")
  /\ IF lock[n] # None THEN Restart(t)
     ELSE thread' = [thread EXCEPT ![t].curOk = TRUE, ![t].pc = IF thread[t].parent = None THEN "isroot" ELSE "node"]
  /\ UNCHANGED <<node, root, used, lock, calls>>

IsRoot(t) ==
  /\ Still(t, "isroot")
  /\ IF thread[t].cur # root THEN Restart(t) ELSE thread' = Go(thread, t, "node")
  /\ UNCHANGED <<node, root, used, lock, calls>>

ToBeSplit(t) == thread[t].op = "insert" /\ IsFull(node[thread[t].cur])

\* An inner node that is not split: compare the version of the parent, then go to the child.
CheckParent(t) ==
  LET th == thread[t] IN
  /\ Still(t, "node") /\ ~node[th.cur].leaf /\ ~ToBeSplit(t)
  /\ IF th.parent # None /\ ~th.parentOk THEN Restart(t) ELSE thread' = Go(thread, t, "child")
  /\ UNCHANGED <<node, root, used, lock, calls>>

Descend(t) ==
  LET th == thread[t] IN
  /\ Still(t, "child")
  /\ IF ~th.curOk THEN Restart(t)
     ELSE thread' = [thread EXCEPT ![t].parent = th.cur, ![t].parentOk = TRUE, ![t].cur = Child(node[th.cur], th.key),
                                   ![t].curOk = FALSE, ![t].pc = "version"]
  /\ UNCHANGED <<node, root, used, lock, calls>>

\* A full node: parent first, then the node
LockParent(t) ==
  LET th == thread[t] IN
  /\ Still(t, "node") /\ ToBeSplit(t)
  /\ IF th.parent = None THEN thread' = Go(thread, t, "locknode") /\ UNCHANGED lock
     ELSE \/ Lock(t, th.parent, th.parentOk, "locknode")
          \/ (~th.parentOk \/ lock[th.parent] # None) /\ Restart(t) /\ UNCHANGED lock
  /\ UNCHANGED <<node, root, used, calls>>

LockNode(t) ==
  LET th == thread[t] IN
  /\ Still(t, "locknode")
  /\ \/ Lock(t, th.cur, th.curOk, "split")
     \/ (~th.curOk \/ lock[th.cur] # None) /\ Restart(t) /\ lock' = Unlocked({th.parent})
  /\ UNCHANGED <<node, root, used, calls>>

MakeRoot(sep, left, right) == Inner(<<sep>>, <<left, right>>)

\* "there's a new parent", or split; the node is unlocked, then its parent
SplitNode(t) ==
  LET th == thread[t]
      s == Split(node[th.cur])
      new == used + 1
  IN
  /\ Still(t, "split") /\ lock' = Unlocked({th.cur})
  /\ IF th.parent # None
     THEN /\ used' = new /\ UNCHANGED root /\ thread' = Go(thread, t, "unlockparent")
          /\ node' = [node EXCEPT ![th.cur] = s.left, ![new] = s.right, ![th.parent] = InsertInner(@, s.sep, new)]
     ELSE /\ Restart(t)
          /\ IF th.cur # root THEN UNCHANGED <<node, root, used>>
             ELSE /\ used' = new + 1 /\ root' = new + 1
                  /\ node' = [node EXCEPT ![th.cur] = s.left, ![new] = s.right, ![new + 1] = MakeRoot(s.sep, th.cur, new)]
  /\ UNCHANGED calls

UnlockParent(t) ==
  /\ Still(t, "unlockparent") /\ lock' = Unlocked({thread[t].parent}) /\ Restart(t)
  /\ UNCHANGED <<node, root, used, calls>>

\* insert into a leaf: lock it, then compare the version of the parent
LockLeaf(t) ==
  LET th == thread[t] IN
  /\ Still(t, "node") /\ th.op = "insert" /\ node[th.cur].leaf /\ ~ToBeSplit(t)
  /\ \/ Lock(t, th.cur, th.curOk, "checkparent")
     \/ (~th.curOk \/ lock[th.cur] # None) /\ Restart(t) /\ UNCHANGED lock
  /\ UNCHANGED <<node, root, used, calls>>

CheckParentLocked(t) ==
  LET th == thread[t] IN
  /\ Still(t, "checkparent")
  /\ IF th.parent # None /\ ~th.parentOk THEN Restart(t) /\ lock' = Unlocked({th.cur})
     ELSE thread' = Go(thread, t, "insert") /\ UNCHANGED lock
  /\ UNCHANGED <<node, root, used, calls>>

Insert(t) ==
  LET th == thread[t] IN
  /\ Still(t, "insert")
  /\ node' = [node EXCEPT ![th.cur] = InsertLeaf(@, th.key, th.val)] /\ lock' = Unlocked({th.cur})
  /\ thread' = [thread EXCEPT ![t].pc = "done", ![t].res = "ok"]
  /\ UNCHANGED <<root, used, calls>>

Found(n, k) == IF Has(n, k) THEN n.refs[LowerBound(n, k)] ELSE Absent
From(n, k) == LET pos == LowerBound(n, k) IN SubSeq(n.keys, pos, IF Len(n.keys) < pos + Range - 1 THEN Len(n.keys) ELSE pos + Range - 1)

\* lookup and scan read the leaf, then compare the versions of parent and leaf
ReadLeaf(t) ==
  LET th == thread[t] IN
  /\ Still(t, "node") /\ th.op # "insert" /\ node[th.cur].leaf
  /\ thread' = [thread EXCEPT ![t].res = Found(node[th.cur], th.key), ![t].out = IF th.op = "scan" THEN From(node[th.cur], th.key) ELSE <<>>,
                              ![t].pc = "verify"]
  /\ UNCHANGED <<node, root, used, lock, calls>>

VerifyParent(t) ==
  LET th == thread[t] IN
  /\ Still(t, "verify")
  /\ IF th.parent # None /\ ~th.parentOk THEN Restart(t) ELSE thread' = Go(thread, t, "verifyleaf")
  /\ UNCHANGED <<node, root, used, lock, calls>>

\* Mutant: only the parent is compared
VerifyLeafNot(t) ==
  /\ Still(t, "verifyleaf") /\ thread' = Go(thread, t, "done")
  /\ UNCHANGED <<node, root, used, lock, calls>>

VerifyLeaf(t) ==
  /\ Still(t, "verifyleaf")
  /\ IF ~thread[t].curOk THEN Restart(t) ELSE thread' = Go(thread, t, "done")
  /\ UNCHANGED <<node, root, used, lock, calls>>

Leave(t) ==
  /\ Still(t, "done") /\ thread' = [thread EXCEPT ![t] = Resting]
  /\ UNCHANGED <<node, root, used, lock, calls>>

Step(t) ==
  \/ ReadRoot(t) \/ ReadVersion(t) \/ IsRoot(t) \/ CheckParent(t) \/ Descend(t)
  \/ LockParent(t) \/ LockNode(t) \/ SplitNode(t) \/ UnlockParent(t) \/ LockLeaf(t) \/ CheckParentLocked(t) \/ Insert(t)
  \/ ReadLeaf(t) \/ VerifyParent(t) \/ VerifyLeaf(t) \/ Leave(t)

Next == /\ \E t \in Thread : Step(t) \/ \E c \in workload.calls : Call(t, c)
        /\ UNCHANGED workload

Spec == Init /\ [][Next]_vars

-----------------------------------------------------------------------------
(* Properties *)

\* The leaf a search ends in: trees here have at most four levels
Below(n, k) == IF node[n].leaf THEN n ELSE Child(node[n], k)
LeafOf(k) == Below(Below(Below(root, k), k), k)
Dict == [k \in Key |-> Found(node[LeafOf(k)], k)]

Abstract(t) ==
  LET th == thread[t] IN
  IF th.pc = "idle" \/ th.op = "scan" THEN [op |-> "none"]
  ELSE IF th.pc = "done" THEN [op |-> th.op, key |-> th.key, res |-> th.res]
  ELSE [op |-> th.op, key |-> th.key, val |-> th.val]

\* What a scan returns is a gapless piece of the tree as it is when the scan returns: the keys from its key on, in order.
ScanHasNoGaps ==
  [][\A t \in Thread : thread[t].op = "scan" /\ thread[t].pc = "verifyleaf" /\ thread'[t].pc = "done" /\ thread[t].out # <<>> =>
       LET out == thread[t].out
           present == {k \in Key : Dict[k] # Absent /\ thread[t].key <= k /\ k <= out[Len(out)]}
       IN {out[i] : i \in DOMAIN out} = present]_vars
=============================================================================
