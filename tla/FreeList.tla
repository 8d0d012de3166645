------------------------------ MODULE FreeList ------------------------------
(***************************************************************************)
(* PartitionedQueue over BatchQueue (frameFreeList, pageFreeList and       *)
(* pidFreeList): partitions hold lists of full and of empty batches behind *)
(* a spin lock; each thread keeps one batch in its BatchHandle, from which *)
(* it pops and to which it pushes without any lock.                        *)
(*                                                                         *)
(* What happens under the spin lock is one step.  try_pop_full may fail    *)
(* although there is a full batch, when elements was read before or the    *)
(* lock is taken: another thread is in the middle of an operation.         *)
(***************************************************************************)
EXTENDS Integers, Sequences, FiniteSets

CONSTANTS
  Thread, Element,
  Partitions,     \* number of partitions
  BatchSize,
  Batches,        \* batches of a partition: (expectedElements / Partitions / BatchSize) * 1.1
  MaxExits,       \* bound: threads that end
  None

Partition == 1..Partitions
Batch == Partition \X (1..Batches)
Queue(b) == b[1]     \* b_handle.queue: batches go back to the queue they come from

VARIABLES
  content,    \* [Batch -> stack of elements]
  full,       \* [Partition -> list of batches, head first]
  empty,
  elements,   \* [Partition -> elements in full batches]
  handle,     \* [Thread -> batch or None]
  out,        \* elements in use: popped by one thread, pushed by any
  op,         \* [Thread -> what it is doing: pc, element, next partition to scan]
  exits       \* threads that have ended

vars == <<content, full, empty, elements, handle, out, op, exits>>

Rest == [pc |-> "rest", e |-> None, scan |-> 0]

\* all batches are empty; the constructor of Buffermanager pushes the elements
Init ==
  /\ content = [b \in Batch |-> <<>>]
  /\ full = [p \in Partition |-> <<>>]
  /\ empty = [p \in Partition |-> [i \in 1..Batches |-> <<p, i>>]]
  /\ elements = [p \in Partition |-> 0]
  /\ handle = [t \in Thread |-> None]
  /\ out = Element
  /\ op = [t \in Thread |-> Rest]
  /\ exits = 0

Goto(t, pc) == op' = [op EXCEPT ![t].pc = pc]
Done(t) == op' = [op EXCEPT ![t] = Rest]

-----------------------------------------------------------------------------
(* BatchQueue *)

PushFull(b) ==
  /\ full' = [full EXCEPT ![Queue(b)] = <<b>> \o @]
  /\ elements' = [elements EXCEPT ![Queue(b)] = @ + Len(content[b])]
  /\ UNCHANGED empty

PushEmpty(b) ==
  /\ empty' = [empty EXCEPT ![Queue(b)] = <<b>> \o @]
  /\ UNCHANGED <<full, elements>>

\* Mutant: the list is not advanced
PopEmptyKeepsHead(t, p) ==
  /\ empty[p] # <<>>
  /\ handle' = [handle EXCEPT ![t] = Head(empty[p])]
  /\ UNCHANGED <<full, empty, elements>>

PopEmpty(t, p) ==
  /\ empty[p] # <<>>
  /\ handle' = [handle EXCEPT ![t] = Head(empty[p])]
  /\ empty' = [empty EXCEPT ![p] = Tail(@)]
  /\ UNCHANGED <<full, elements>>

PopFull(t, p) ==
  /\ elements[p] # 0 /\ full[p] # <<>>
  /\ handle' = [handle EXCEPT ![t] = Head(full[p])]
  /\ full' = [full EXCEPT ![p] = Tail(@)]
  /\ elements' = [elements EXCEPT ![p] = @ - Len(content[Head(full[p])])]
  /\ UNCHANGED empty

\* try_pop_full returns false
PopFullFails(t, p) == full[p] = <<>> \/ \E u \in Thread \ {t} : op[u] # Rest

-----------------------------------------------------------------------------
(* PartitionedQueue::try_push, called again until it succeeds *)

Push(t, e) ==
  /\ op[t] = Rest /\ e \in out
  /\ out' = out \ {e}
  /\ op' = [op EXCEPT ![t] = [Rest EXCEPT !.pc = "push", !.e = e]]
  /\ UNCHANGED <<content, full, empty, elements, handle, exits>>

\* no batch: one of a random partition is tried
PushFirst(t) ==
  /\ op[t].pc = "push" /\ handle[t] = None
  /\ \E p \in Partition : PopEmpty(t, p)
  /\ UNCHANGED <<content, out, op, exits>>

\* container.try_push
Put(t) ==
  LET b == handle[t] IN
  /\ op[t].pc = "push" /\ b # None
  /\ Len(content[b]) < BatchSize
  /\ content' = [content EXCEPT ![b] = Append(@, op[t].e)]
  /\ Done(t)
  /\ UNCHANGED <<full, empty, elements, handle, out, exits>>

\* the batch is full
GiveFull(t) ==
  LET b == handle[t] IN
  /\ op[t].pc = "push" /\ b # None
  /\ Len(content[b]) = BatchSize
  /\ PushFull(b)
  /\ handle' = [handle EXCEPT ![t] = None]
  /\ Goto(t, "pushMore")
  /\ UNCHANGED <<content, out, exits>>

\* a random partition, then all of them in order, then false
PushMore(t) ==
  /\ op[t].pc = "pushMore"
  /\ \E p \in Partition :
       \/ PopEmpty(t, p) /\ Goto(t, "push")
       \/ /\ empty[p] = <<>>
          /\ op' = [op EXCEPT ![t].pc = "pushScan", ![t].scan = 1]
          /\ UNCHANGED <<full, empty, elements, handle>>
  /\ UNCHANGED <<content, out, exits>>

NextPartition(t, scan, end) ==
  /\ op' = [op EXCEPT ![t] = IF op[t].scan < Partitions THEN [@ EXCEPT !.pc = scan, !.scan = op[t].scan + 1]
                             ELSE IF end = "rest" THEN Rest ELSE [@ EXCEPT !.pc = end, !.scan = 0]]
  /\ UNCHANGED <<full, empty, elements, handle>>

PushScan(t) ==
  LET p == op[t].scan IN
  /\ op[t].pc = "pushScan"
  /\ \/ PopEmpty(t, p) /\ op' = [op EXCEPT ![t].pc = "push", ![t].scan = 0]
     \/ empty[p] = <<>> /\ NextPartition(t, "pushScan", "push")
  /\ UNCHANGED <<content, out, exits>>

-----------------------------------------------------------------------------
(* PartitionedQueue::try_pop *)

Pop(t) ==
  /\ op[t] = Rest
  /\ Goto(t, "pop")
  /\ UNCHANGED <<content, full, empty, elements, handle, out, exits>>

PopFirst(t) ==
  /\ op[t].pc = "pop" /\ handle[t] = None
  /\ \E p \in Partition :
       \/ PopFull(t, p) /\ UNCHANGED op
       \/ PopFullFails(t, p) /\ Done(t) /\ UNCHANGED <<full, empty, elements, handle>>
  /\ UNCHANGED <<content, out, exits>>

\* container.try_pop
Take(t) ==
  LET b == handle[t] IN
  /\ op[t].pc = "pop" /\ b # None /\ content[b] # <<>>
  /\ out' = out \cup {content[b][Len(content[b])]}
  /\ content' = [content EXCEPT ![b] = SubSeq(@, 1, Len(@) - 1)]
  /\ Done(t)
  /\ UNCHANGED <<full, empty, elements, handle, exits>>

GiveEmpty(t) ==
  LET b == handle[t] IN
  /\ op[t].pc = "pop" /\ b # None /\ content[b] = <<>>
  /\ PushEmpty(b)
  /\ handle' = [handle EXCEPT ![t] = None]
  /\ Goto(t, "popMore")
  /\ UNCHANGED <<content, out, exits>>

PopMore(t) ==
  /\ op[t].pc = "popMore"
  /\ \E p \in Partition :
       \/ PopFull(t, p) /\ Goto(t, "pop")
       \/ /\ PopFullFails(t, p)
          /\ op' = [op EXCEPT ![t].pc = "popScan", ![t].scan = 1]
          /\ UNCHANGED <<full, empty, elements, handle>>
  /\ UNCHANGED <<content, out, exits>>

PopScan(t) ==
  LET p == op[t].scan IN
  /\ op[t].pc = "popScan"
  /\ \/ PopFull(t, p) /\ op' = [op EXCEPT ![t].pc = "pop", ![t].scan = 0]
     \/ PopFullFails(t, p) /\ NextPartition(t, "popScan", "rest")
  /\ UNCHANGED <<content, out, exits>>

\* ~BatchHandle
Exit(t) ==
  LET b == handle[t] IN
  /\ op[t] = Rest /\ b # None /\ exits < MaxExits
  /\ IF content[b] = <<>> THEN PushEmpty(b) ELSE PushFull(b)
  /\ handle' = [handle EXCEPT ![t] = None]
  /\ exits' = exits + 1
  /\ UNCHANGED <<content, out, op>>

Next == \E t \in Thread :
          \/ \E e \in Element : Push(t, e)
          \/ PushFirst(t) \/ Put(t) \/ GiveFull(t) \/ PushMore(t) \/ PushScan(t)
          \/ Pop(t) \/ PopFirst(t) \/ Take(t) \/ GiveEmpty(t) \/ PopMore(t) \/ PopScan(t)
          \/ Exit(t)

Spec == Init /\ [][Next]_vars

-----------------------------------------------------------------------------
(* Properties *)

Places(e) ==
  (IF e \in out THEN 1 ELSE 0)
    + Cardinality({t \in Thread : op[t].e = e})
    + Cardinality({x \in Batch \X (1..BatchSize) : x[2] <= Len(content[x[1]]) /\ content[x[1]][x[2]] = e})

\* A frame, page or pid is in exactly one place: none is lost and none is handed out twice, whichever
\* thread pops what another one has pushed.
ElementsConserved == \A e \in Element : Places(e) = 1

InLists(list, b) == Cardinality({x \in Partition \X (1..Batches) :
                                   x[2] <= Len(list[x[1]]) /\ list[x[1]][x[2]] = b})

\* A batch is in one list of its own queue or in one handle (assert_no_duplicates, assert_no_leaks), and
\* the lists hold what their names say.
BatchesConserved ==
  \A b \in Batch :
    /\ InLists(full, b) + InLists(empty, b) + Cardinality({t \in Thread : handle[t] = b}) = 1
    /\ \A p \in Partition \ {Queue(b)} : \A i \in 1..Len(full[p]) : full[p][i] # b
    /\ InLists(full, b) = 1 => content[b] # <<>>
    /\ InLists(empty, b) = 1 => content[b] = <<>>

\* elements, by which try_pop_full and the page provider judge a partition, is the number of elements in
\* its full batches.
CounterIsExact ==
  \A p \in Partition :
    elements[p] = Cardinality({x \in (1..Len(full[p])) \X (1..BatchSize) : x[2] <= Len(content[full[p][x[1]]])})

(***************************************************************************)
(* A push finds room: a thread with no batch left can always get an empty  *)
(* one, although other threads keep batches that are empty or half full.   *)
(* The lists are sized for the elements and one batch per other thread,    *)
(* which no thread has left half full in the lists.                        *)
(***************************************************************************)
RoomForPush ==
  exits = 0 => \A t \in Thread : op[t].pc \in {"push", "pushMore"} /\ handle[t] = None =>
    \E p \in Partition : empty[p] # <<>>
=============================================================================
